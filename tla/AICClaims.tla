------------------------------ MODULE AICClaims ------------------------------
(***************************************************************************)
(* The two nested tokens of AIC-JWT and the rules that judge them.         *)
(*                                                                         *)
(* A delegation authorization (DA) is signed by a principal and says which *)
(* agent may do what, until when.  An outer token is signed by the         *)
(* authorization server and embeds the DA it was issued from.  This module *)
(* holds the claim sets and the validation rules, which read no state: the *)
(* authorization server (TokenEndpoint) and the resource server            *)
(* (ResourceServer) apply the same rules with different options.           *)
(*                                                                         *)
(* Abstractions.  A key, its SPKI hash and its thumbprint are one value of *)
(* Keys: the hashes are collision free.  "intact" stands for everything    *)
(* about a DA that depends on its bytes and on the principal's registered  *)
(* key only: header, required members, iss and sub roles, exp =            *)
(* ts + requested_lifetime, signature, key hash, nonce length.  An outer   *)
(* token is always signed by the issuer it names.  Times are whole seconds.*)
(***************************************************************************)
EXTENDS Integers

CONSTANTS
  Agents,         \* agent identifiers
  Principals,     \* principal identities (realm:id with their key)
  Keys,           \* public keys of agents and presenters
  Capabilities,   \* capability objects
  Constraints,    \* constraint objects
  Within,         \* <<grant, agent>>: the agent capability is within the grant
  Matches,        \* <<allowed, request>>: the capability allows the request
  Routable,       \* capabilities whose scheme has a plugin that accepts them
  Audiences,      \* identifiers of authorization and resource servers
  AS,             \* the authorization server
  Blank,          \* the empty string in place of an audience
  Nonces,         \* DA nonces (also the jti of the token issued from the DA)
  Requests,       \* calls to the issuer; also names the random jti of each
  StatusURIs,     \* status list references
  Delegations,    \* the DAs in circulation
  MaxLifetime,    \* MAX_LIFETIME, seconds
  NoDA, NoKey, NoOne, NoCap, NoPA, NoStatus

Modes == {"authorized", "representative"}

DAClaims ==
  [nonce: Nonces, principal: Principals, agent: Agents, mode: Modes,
   ver: {2, 3}, binding: Keys \cup {NoKey},
   caps: SUBSET Capabilities, constraints: SUBSET Constraints,
   aud: SUBSET Audiences, ts: Nat, lifetime: Nat, intact: BOOLEAN]

TokenIds == Nonces \cup Requests

OuterClaims ==
  [iss: Audiences, sub: Agents \cup Principals, act: Agents \cup {NoOne},
   aud: SUBSET Audiences, iat: Nat, exp: Nat, jti: TokenIds, cnf: Keys,
   mode: Modes, principal: Principals,
   caps: SUBSET Capabilities, constraints: SUBSET Constraints,
   da: Delegations \cup {NoDA}, status: StatusURIs \cup {NoStatus},
   chain: Nat, max: Nat]

ASSUME DelegationsAssumption == Delegations \subseteq DAClaims
ASSUME ServerAssumption      == AS \in Audiences \ {Blank}
ASSUME LifetimeAssumption    == MaxLifetime \in Nat
ASSUME NoneAssumption ==
  /\ NoDA \notin Delegations
  /\ NoKey \notin Keys
  /\ NoOne \notin Agents
  /\ NoStatus \notin StatusURIs
ASSUME IdentifierAssumption  == Nonces \cap Requests = {}

\* validateDA refuses a DA without capabilities: it is not intact.  Absence of
\* a PA is not itself a PA.
ASSUME IntactAssumption ==
  /\ \A da \in Delegations : da.intact => da.caps # {}
  /\ \A p \in Principals :
       NoPA # [principal |-> p, representative |-> TRUE,
               grants |-> Capabilities, constraints |-> {}]

-----------------------------------------------------------------------------
(* Capabilities: membership up to the scheme's relations.                  *)

CapabilitySubset(agent, grants) ==
  \E g \in grants : <<g, agent>> \in Within

MatchCapabilities(allowed, request) ==
  \E c \in allowed : <<c, request>> \in Matches

-----------------------------------------------------------------------------
(* The inner token.                                                        *)

DAExp(da) == da.ts + da.lifetime

\* The grant subject: the agent, or the resource owner it represents.
OAuthSubject(da) ==
  IF da.mode = "representative" THEN da.principal ELSE da.agent

\* validateDA up to its last step, the nonce store (a state change of the
\* caller: see TokenEndpoint).
ValidDA(da, at) ==
  /\ da.intact
  /\ at <= DAExp(da)
  /\ at - da.ts <= da.lifetime

-----------------------------------------------------------------------------
(* The outer token: validate(), step by step.  The options o are a record  *)
(*   at         the verifier's clock                                       *)
(*   aud        accepted audiences, {} when the caller expects none        *)
(*   presenter  the key that proved possession, or NoKey                   *)
(*   cap        the requested capability, or NoCap                         *)
(*   pa         the PrincipalAuthorization, or NoPA                        *)
(*   met        the constraints that the request satisfies                 *)
(*   revoked    the status references the status checker rejects           *)
(*   checker    whether a status checker is configured                     *)
(*   shallow    whether max_depth > 1 is rejected                          *)

CheckOuterRequired(t) ==
  /\ t.aud # {} /\ Blank \notin t.aud
  /\ t.exp > t.iat
  /\ t.caps # {}

DAStep(t, o) ==
  \/ /\ t.da # NoDA
     /\ ValidDA(t.da, o.at)
     /\ t.exp - t.iat <= t.da.lifetime
     /\ t.exp <= DAExp(t.da)
     /\ t.iss \in t.da.aud
     /\ t.da.ver = 3 /\ o.presenter # NoKey => o.presenter = t.da.binding
  \/ /\ t.da = NoDA
     /\ t.mode = "authorized"
     /\ t.exp - t.iat <= MaxLifetime

\* Mutant: the constraints are not compared.
CheckConsistencyLax(t, da) ==
  /\ t.sub = OAuthSubject(da)
  /\ t.act = IF da.mode = "representative" THEN da.agent ELSE NoOne
  /\ t.principal = da.principal
  /\ t.mode = da.mode
  /\ t.caps = da.caps

CheckConsistency(t, da) ==
  /\ t.sub = OAuthSubject(da)
  /\ t.act = IF da.mode = "representative" THEN da.agent ELSE NoOne
  /\ t.principal = da.principal
  /\ t.mode = da.mode
  /\ t.caps = da.caps
  /\ t.constraints = da.constraints

CheckPA(t, pa) ==
  /\ pa # NoPA
  /\ pa.principal = t.principal
  /\ pa.representative
  /\ \A c \in t.caps : CapabilitySubset(c, pa.grants)

EvaluateConstraints(t, o) == t.constraints \subseteq o.met

CheckDepth(t, o) ==
  /\ t.chain <= t.max
  /\ o.shallow => t.max <= 1

CapabilityStep(t, o) ==
  o.cap # NoCap => /\ MatchCapabilities(t.caps, o.cap)
                   /\ o.cap \in Routable

StatusStep(t, o) ==
  t.status # NoStatus => o.checker /\ t.status \notin o.revoked

PresenterStep(t, o) ==
  /\ o.aud # {} => o.aud \cap t.aud # {}
  /\ o.presenter # NoKey => o.presenter = t.cnf

\* Both callers know the keys of one issuer and expect that issuer.
Validate(t, o) ==
  /\ t.iss = AS
  /\ CheckOuterRequired(t)
  /\ o.at <= t.exp
  /\ DAStep(t, o)
  /\ t.da # NoDA => CheckConsistency(t, t.da)
  /\ t.mode = "representative" => CheckPA(t, o.pa)
  /\ EvaluateConstraints(t, o)
  /\ CheckDepth(t, o)
  /\ CapabilityStep(t, o)
  /\ StatusStep(t, o)
  /\ PresenterStep(t, o)
=============================================================================
