---------------------------- MODULE TokenEndpoint ----------------------------
(***************************************************************************)
(* The authorization server of oauth.go: Issuer, its token endpoint and    *)
(* the calls that issue tokens outside it.                                 *)
(*                                                                         *)
(* Every call runs in a goroutine of its own, named by a member r of       *)
(* Requests that is used once.  The server's shared state is the nonce     *)
(* store (its own mutex) and the code and status maps (stateMu); a call    *)
(* that issues from a DA touches both, under two locks taken one after the *)
(* other, so it is three steps:                                            *)
(*                                                                         *)
(*   idle --entry--> validate --ValidateDelegation--> sign --IssueToken--> *)
(*                                                                         *)
(* and other calls run between them.  The code flow comes to "validate"    *)
(* through a critical section under stateMu, whose tests and whose write   *)
(* are steps of their own:                                                 *)
(*                                                                         *)
(*   idle --ExchangeCode--> lock --FindCode--> locked --SpendCode-->       *)
(*                                                                         *)
(* What lies between two accesses to shared state reads only the call's    *)
(* own values and belongs to the step before it.  A call gets its clock    *)
(* reading as a parameter, taken before it enters: "at" lags behind "now"  *)
(* by up to MaxLag.  The other arguments of a code exchange are chosen by  *)
(* the step that first reads them.                                         *)
(***************************************************************************)
EXTENDS AICClaims

CONSTANTS
  Flows,             \* the entry points in use in this instance
  Codes,             \* authorization codes randomID can return
  Clients,           \* OAuth client ids
  Verifiers,         \* PKCE code verifiers (the stored hash names its input)
  SubjectTokens,     \* principal access tokens in circulation
  Lifetimes,         \* lifetimes a caller of the short and light flows asks for
  TargetAudiences,   \* the aud lists callers ask for
  Revocable,         \* identifiers Revoke is called with
  LightGrants,       \* consents recorded for the lightweight profile
  MetWithoutContext, \* constraints met when no request context is given
  CodeTTL,           \* lifetime of an authorization code
  ExchangeLifetime,  \* lifetime of an exchanged token (3600 s)
  ActorSkew,         \* tolerated iat in the future (one minute)
  MaxTime,           \* bound on the clock
  MaxLag,            \* bound on how stale a call's clock reading is
  NoToken, NoCode, NoClient, NoLife, NoVerifier, NoCall

VARIABLES
  now,     \* wall clock
  nonces,  \* Issuer.Nonces: DA nonces that have been used
  status,  \* Issuer.Status: revoked identifiers
  codes,   \* Issuer.Codes
  stateMu, \* Issuer.stateMu: the calls that hold it between two steps
  pc,      \* where each call stands
  req,     \* the local variables of each call
  tok      \* what each call returned

vars == <<now, nonces, status, codes, stateMu, pc, req, tok>>

AllFlows == {"bearer", "short", "code", "light", "exchange"}

ASSUME FlowsAssumption == Flows \subseteq AllFlows
ASSUME BoundsAssumption ==
  /\ MaxTime \in Nat /\ MaxLag \in Nat /\ CodeTTL \in Nat
  /\ ExchangeLifetime \in Nat /\ ActorSkew \in Nat
  /\ Lifetimes \subseteq Int
ASSUME InputsAssumption ==
  /\ TargetAudiences \subseteq SUBSET Audiences
  /\ LightGrants \subseteq
       [agent: Agents, principal: Principals,
        caps: SUBSET Capabilities, constraints: SUBSET Constraints]
  /\ SubjectTokens \subseteq
       [iss: Audiences, aud: SUBSET Audiences, iat: Nat, exp: Nat,
        grants: SUBSET Capabilities]
ASSUME RevocableAssumption == Revocable \subseteq TokenIds \cup StatusURIs

PCs ==
  {"idle", "lock", "locked", "validate", "sign", "granted", "refused"}

\* A call's local variables.  via is the code it found, life the lifetime the
\* short flow asked for, flow the entry point.
Locals ==
  [flow: AllFlows, da: Delegations \cup {NoDA}, key: Keys,
   aud: SUBSET Audiences, at: Nat, via: Codes \cup {NoCode},
   life: Lifetimes \cup {NoLife}]

AuthCode ==
  [client: Clients, actor: Agents, da: Delegations, verifier: Verifiers,
   expires: Nat, used: BOOLEAN]

ASSUME AbsenceAssumption ==
  /\ NoToken \notin OuterClaims
  /\ NoCode \notin Codes \cup AuthCode
  /\ NoCall \notin Locals
  /\ NoLife \notin Lifetimes

Issued == {tok[r] : r \in Requests} \ {NoToken}

\* The clock readings a call that enters now may carry.
Readings == {t \in 0..now : now - t <= MaxLag}

-----------------------------------------------------------------------------
(* Steps shared by the flows.                                              *)

\* Call r enters by the given flow with clock reading at.
Enter(r, locals, next) ==
  /\ pc[r] = "idle"
  /\ locals.flow \in Flows
  /\ pc' = [pc EXCEPT ![r] = next]
  /\ req' = [req EXCEPT ![r] = locals]

Refuse(r) ==
  /\ pc' = [pc EXCEPT ![r] = "refused"]
  /\ UNCHANGED <<req, tok>>

Return(r, token) ==
  tok' = [tok EXCEPT ![r] = token]

\* The validation of a token presented to the issuer itself: no audience, no
\* presenter, no request, no PA and no status checker.
ValidAtIssuer(t, at) ==
  Validate(t, [at |-> at, aud |-> {}, presenter |-> NoKey, cap |-> NoCap,
               pa |-> NoPA, met |-> MetWithoutContext, revoked |-> {},
               checker |-> FALSE, shallow |-> FALSE])

-----------------------------------------------------------------------------
(* RFC 7523 jwt-bearer: HandleTokenRequest.                                *)

\* Client authentication by an authorized-mode AIC-JWT whose subject is the
\* client_id, when the request names one.
VerifyClientAssertion(t, client, at) ==
  /\ t.mode = "authorized"
  /\ client # NoClient => t.sub = client
  /\ ValidAtIssuer(t, at)

JwtBearer(r, da, key, aud, at, assertion, client) ==
  LET accepted == \/ assertion = NoToken
                  \/ VerifyClientAssertion(assertion, client, at)
  IN  /\ Enter(r, [flow |-> "bearer", da |-> da, key |-> key, aud |-> aud,
                   at |-> at, via |-> NoCode, life |-> NoLife],
               IF accepted THEN "validate" ELSE "refused")
      /\ UNCHANGED <<now, nonces, status, codes, stateMu, tok>>

\* IssueFromDAShort enters IssueFromDA before it looks at the lifetime.
ShortIssuance(r, da, key, aud, at, life) ==
  /\ Enter(r, [flow |-> "short", da |-> da, key |-> key, aud |-> aud,
               at |-> at, via |-> NoCode, life |-> life], "validate")
  /\ UNCHANGED <<now, nonces, status, codes, stateMu, tok>>

-----------------------------------------------------------------------------
(* Authorization code with PKCE, on behalf of a principal (OBO).           *)

\* Mutant: a code that is not fresh replaces the one stored.
NewAuthCodeOverwrites(c, client, actor, da, verifier, at) ==
  /\ "code" \in Flows
  /\ stateMu = {}
  /\ codes' = [codes EXCEPT ![c] =
       [client |-> client, actor |-> actor, da |-> da, verifier |-> verifier,
        expires |-> at + CodeTTL, used |-> FALSE]]
  /\ UNCHANGED <<now, nonces, status, stateMu, pc, req, tok>>

\* The principal consented: the code is bound to a client, the requested
\* actor, the DA and the hash of the verifier.
NewAuthCode(c, client, actor, da, verifier, at) ==
  /\ "code" \in Flows
  /\ stateMu = {}
  /\ codes[c] = NoCode
  /\ codes' = [codes EXCEPT ![c] =
       [client |-> client, actor |-> actor, da |-> da, verifier |-> verifier,
        expires |-> at + CodeTTL, used |-> FALSE]]
  /\ UNCHANGED <<now, nonces, status, stateMu, pc, req, tok>>

\* The actor token must be the requested actor's own, from and for this AS.
VerifyAgentActor(t, actor, at) ==
  /\ t.iss = AS
  /\ t.sub = actor
  /\ AS \in t.aud
  /\ t.exp # 0 => t.exp >= at
  /\ t.iat <= at + ActorSkew

\* Mutant: Used is not looked at.
RedeemableAgain(c, client, verifier, at) ==
  /\ codes[c] # NoCode
  /\ at <= codes[c].expires
  /\ codes[c].client = client
  /\ codes[c].verifier = verifier

Redeemable(c, client, verifier, at) ==
  /\ codes[c] # NoCode
  /\ ~codes[c].used
  /\ at <= codes[c].expires
  /\ codes[c].client = client
  /\ verifier # NoVerifier
  /\ codes[c].verifier = verifier

ExchangeCode(r, key, aud, at) ==
  /\ Enter(r, [flow |-> "code", da |-> NoDA, key |-> key, aud |-> aud,
               at |-> at, via |-> NoCode, life |-> NoLife], "lock")
  /\ UNCHANGED <<now, nonces, status, codes, stateMu, tok>>

\* Mutant: an early return of ExchangeCode does not unlock.
FindCodeKeepsLock(r, c, client, verifier) ==
  /\ pc[r] = "lock"
  /\ stateMu = {}
  /\ stateMu' = {r}
  /\ \/ /\ Redeemable(c, client, verifier, req[r].at)
        /\ pc' = [pc EXCEPT ![r] = "locked"]
        /\ req' = [req EXCEPT ![r].via = c]
        /\ UNCHANGED tok
     \/ /\ ~Redeemable(c, client, verifier, req[r].at)
        /\ Refuse(r)
  /\ UNCHANGED <<now, nonces, status, codes>>

\* Mutant: the code is looked up before the lock is taken.
FindCodeUnlocked(r, c, client, verifier) ==
  /\ pc[r] = "lock"
  /\ Redeemable(c, client, verifier, req[r].at)
  /\ pc' = [pc EXCEPT ![r] = "locked"]
  /\ req' = [req EXCEPT ![r].via = c]
  /\ stateMu' = stateMu \cup {r}
  /\ UNCHANGED <<now, nonces, status, codes, tok>>

\* ExchangeCode takes the lock and tests the code; every early return unlocks.
FindCode(r, c, client, verifier) ==
  /\ pc[r] = "lock"
  /\ stateMu = {}
  /\ \/ /\ Redeemable(c, client, verifier, req[r].at)
        /\ stateMu' = {r}
        /\ pc' = [pc EXCEPT ![r] = "locked"]
        /\ req' = [req EXCEPT ![r].via = c]
        /\ UNCHANGED tok
     \/ /\ ~Redeemable(c, client, verifier, req[r].at)
        /\ Refuse(r)
        /\ UNCHANGED stateMu
  /\ UNCHANGED <<now, nonces, status, codes>>

\* It marks the code used, takes a copy of its DA and unlocks; the actor token
\* is checked after that, so a bad one costs the code.
SpendCode(r, actorToken) ==
  LET code    == codes[req[r].via]
      actorOK == \/ actorToken = NoToken
                 \/ VerifyAgentActor(actorToken, code.actor, req[r].at)
  IN  /\ pc[r] = "locked"
      /\ codes' = [codes EXCEPT ![req[r].via].used = TRUE]
      /\ stateMu' = stateMu \ {r}
      /\ req' = [req EXCEPT ![r].da = code.da]
      /\ pc' = [pc EXCEPT ![r] = IF actorOK THEN "validate" ELSE "refused"]
      /\ UNCHANGED <<now, nonces, status, tok>>

-----------------------------------------------------------------------------
(* IssueFromDA, shared by the bearer, short and code flows.                *)

\* Mutant: no nonce store is passed to ValidateDA.
ValidateDelegationUnchecked(r) ==
  /\ pc[r] = "validate"
  /\ ValidDA(req[r].da, req[r].at)
  /\ nonces' = nonces \cup {req[r].da.nonce}
  /\ pc' = [pc EXCEPT ![r] = "sign"]
  /\ UNCHANGED <<now, status, codes, stateMu, req, tok>>

\* ValidateDA.  The nonce store is consulted last: a call that gets past it
\* has used the nonce up, whatever happens to the call afterwards.
ValidateDelegation(r) ==
  LET q  == req[r]
      ok == ValidDA(q.da, q.at) /\ q.da.nonce \notin nonces
  IN  /\ pc[r] = "validate"
      /\ \/ /\ ok
            /\ nonces' = nonces \cup {q.da.nonce}
            /\ pc' = [pc EXCEPT ![r] = "sign"]
            /\ UNCHANGED <<req, tok>>
         \/ /\ ~ok
            /\ Refuse(r)
            /\ UNCHANGED nonces
      /\ UNCHANGED <<now, status, codes, stateMu>>

\* The DA names this AS, and a version 3 DA names the key to be certified.
Signable(q) ==
  /\ AS \in q.da.aud
  /\ q.da.ver = 3 => q.da.binding = q.key

\* The short flow's own test, made after IssueFromDA returned.
LifetimeFits(q) ==
  q.flow = "short" => /\ q.life >= 1
                      /\ q.at + q.life <= DAExp(q.da)

\* Mutant: the requested lifetime counts from the issuance, not from ts.
TokenFromDALate(q) ==
  [iss |-> AS, sub |-> OAuthSubject(q.da),
   act |-> IF q.da.mode = "representative" THEN q.da.agent ELSE NoOne,
   aud |-> q.aud, iat |-> q.at, exp |-> q.at + q.da.lifetime,
   jti |-> q.da.nonce, cnf |-> q.key, mode |-> q.da.mode,
   principal |-> q.da.principal, caps |-> q.da.caps,
   constraints |-> q.da.constraints, da |-> q.da,
   status |-> NoStatus, chain |-> 0, max |-> 0]

\* Mutant: cnf is copied from the DA, and a version 2 DA names no key.
TokenFromDAUnbound(q) ==
  [TokenFromDALate(q) EXCEPT !.exp = DAExp(q.da), !.cnf = q.da.binding]

TokenFromDA(q) ==
  [iss |-> AS, sub |-> OAuthSubject(q.da),
   act |-> IF q.da.mode = "representative" THEN q.da.agent ELSE NoOne,
   aud |-> q.aud, iat |-> q.at,
   exp |-> IF q.flow = "short" THEN q.at + q.life ELSE DAExp(q.da),
   jti |-> q.da.nonce, cnf |-> q.key, mode |-> q.da.mode,
   principal |-> q.da.principal, caps |-> q.da.caps,
   constraints |-> q.da.constraints, da |-> q.da,
   status |-> NoStatus, chain |-> 0, max |-> 0]

IssueToken(r) ==
  LET q  == req[r]
      ok == Signable(q) /\ LifetimeFits(q)
  IN  /\ pc[r] = "sign"
      /\ \/ /\ ok
            /\ Return(r, TokenFromDA(q))
            /\ pc' = [pc EXCEPT ![r] = "granted"]
            /\ UNCHANGED req
         \/ /\ ~ok
            /\ Refuse(r)
      /\ UNCHANGED <<now, nonces, status, codes, stateMu>>

-----------------------------------------------------------------------------
(* Flows that consume nothing.                                             *)

\* The lightweight profile: no DA, authorized mode only.
IssueLightweight(r, grant, key, aud, at, life) ==
  LET ok == life \in 1..MaxLifetime
  IN  /\ Enter(r, [flow |-> "light", da |-> NoDA, key |-> key, aud |-> aud,
                   at |-> at, via |-> NoCode, life |-> life],
               IF ok THEN "granted" ELSE "refused")
      /\ IF ok
         THEN Return(r,
                [iss |-> AS, sub |-> grant.agent, act |-> NoOne, aud |-> aud,
                 iat |-> at, exp |-> at + life, jti |-> r, cnf |-> key,
                 mode |-> "authorized", principal |-> grant.principal,
                 caps |-> grant.caps, constraints |-> grant.constraints,
                 da |-> NoDA, status |-> NoStatus, chain |-> 0, max |-> 0])
         ELSE UNCHANGED tok
      /\ UNCHANGED <<now, nonces, status, codes, stateMu>>

VerifyPrincipalToken(s, at) ==
  /\ s.iss = AS
  /\ AS \in s.aud
  /\ s.exp # 0 => s.exp >= at
  /\ s.iat <= at + ActorSkew

\* Mutant: the subject's grants instead of the intersection.
CommonCapabilitiesWide(actor, subject) == subject.grants

CommonCapabilities(actor, subject) ==
  {c \in actor.caps : CapabilitySubset(c, subject.grants)}

\* RFC 8693: the actor's capabilities that the subject's grants allow, under
\* the actor's identity and DA, with no constraints and a lifetime of its own.
TokenExchange(r, subject, actor, key, aud, at) ==
  LET common == CommonCapabilities(actor, subject)
      ok == /\ VerifyPrincipalToken(subject, at)
            /\ actor.mode # "representative"
            /\ ValidAtIssuer(actor, at)
            /\ common # {}
  IN  /\ Enter(r, [flow |-> "exchange", da |-> actor.da, key |-> key,
                   aud |-> aud, at |-> at, via |-> NoCode, life |-> NoLife],
               IF ok THEN "granted" ELSE "refused")
      /\ IF ok
         THEN Return(r,
                [iss |-> AS, sub |-> actor.sub, act |-> NoOne, aud |-> aud,
                 iat |-> at, exp |-> at + ExchangeLifetime, jti |-> r,
                 cnf |-> key, mode |-> actor.mode,
                 principal |-> actor.principal, caps |-> common,
                 constraints |-> {}, da |-> actor.da,
                 status |-> NoStatus, chain |-> 0, max |-> 0])
         ELSE UNCHANGED tok
      /\ UNCHANGED <<now, nonces, status, codes, stateMu>>

-----------------------------------------------------------------------------
Revoke(id) ==
  /\ stateMu = {}
  /\ status' = status \cup {id}
  /\ UNCHANGED <<now, nonces, codes, stateMu, pc, req, tok>>

Tick ==
  /\ now < MaxTime
  /\ now' = now + 1
  /\ UNCHANGED <<nonces, status, codes, stateMu, pc, req, tok>>

-----------------------------------------------------------------------------
Init ==
  /\ now = 0
  /\ nonces = {}
  /\ status = {}
  /\ codes = [c \in Codes |-> NoCode]
  /\ stateMu = {}
  /\ pc = [r \in Requests |-> "idle"]
  /\ req = [r \in Requests |-> NoCall]
  /\ tok = [r \in Requests |-> NoToken]

\* A call to one of the entry points.
Entry(r) ==
  \E key \in Keys, aud \in TargetAudiences, at \in Readings :
    \/ \E da \in Delegations, assertion \in Issued \cup {NoToken},
          client \in Agents \cup {NoClient} :
         JwtBearer(r, da, key, aud, at, assertion, client)
    \/ \E da \in Delegations, life \in Lifetimes :
         ShortIssuance(r, da, key, aud, at, life)
    \/ ExchangeCode(r, key, aud, at)
    \/ \E grant \in LightGrants, life \in Lifetimes :
         IssueLightweight(r, grant, key, aud, at, life)
    \/ \E subject \in SubjectTokens, actor \in Issued :
         TokenExchange(r, subject, actor, key, aud, at)

\* The critical section of a code exchange.
Find(r) ==
  \E c \in Codes, client \in Clients, verifier \in Verifiers \cup {NoVerifier} :
    FindCode(r, c, client, verifier)

Spend(r) == \E actorToken \in Issued \cup {NoToken} : SpendCode(r, actorToken)

\* The principal consents to the code flow.
Consent ==
  \E c \in Codes, client \in Clients, actor \in Agents, da \in Delegations,
     verifier \in Verifiers, at \in Readings :
    NewAuthCode(c, client, actor, da, verifier, at)

Next ==
  \/ \E r \in Requests : \/ Entry(r) \/ Find(r) \/ Spend(r)
                         \/ ValidateDelegation(r) \/ IssueToken(r)
  \/ Consent
  \/ \E id \in Revocable : Revoke(id)
  \/ Tick

Spec == Init /\ [][Next]_vars

\* A goroutine that has entered is scheduled.  One that waits for stateMu gets
\* it when it is free for good: every other call takes it once, so weak
\* fairness is enough (Go's mutex does not starve a waiter either).
Fairness ==
  \A r \in Requests : /\ WF_vars(Find(r)) /\ WF_vars(Spend(r))
                      /\ WF_vars(ValidateDelegation(r))
                      /\ WF_vars(IssueToken(r))

FairSpec == Spec /\ Fairness

-----------------------------------------------------------------------------
(* Properties.                                                             *)

TypeOK ==
  /\ now \in Nat
  /\ nonces \subseteq Nonces
  /\ status \subseteq TokenIds \cup StatusURIs
  /\ codes \in [Codes -> AuthCode \cup {NoCode}]
  /\ stateMu \subseteq Requests
  /\ pc \in [Requests -> PCs]
  /\ req \in [Requests -> Locals \cup {NoCall}]
  /\ tok \in [Requests -> OuterClaims \cup {NoToken}]

\* The flows that consume a DA.
DAFlows == {"bearer", "short", "code"}

\* Call r has used up the nonce of its DA and has not been refused.
Holds(r) ==
  pc[r] \in {"sign", "granted"} /\ req[r].flow \in DAFlows

\* One DA, one token.  However the bearer, short and code flows race, no two
\* calls hold the same nonce: the nonce check of ValidateDA is atomic, and it
\* is the only way to the signature (oauth.go IssueFromDA, memNonceStore).
SingleUse ==
  \A r1, r2 \in Requests :
    Holds(r1) /\ Holds(r2) /\ req[r1].da.nonce = req[r2].da.nonce => r1 = r2

\* Call r is past the critical section of ExchangeCode with a code it spent.
Redeemed(r) ==
  pc[r] \notin {"idle", "lock", "locked"} /\ req[r].via # NoCode

\* One code, one redemption: two calls that both left the critical section of
\* ExchangeCode with a copy of the same code are the same call.  It takes the
\* Used test and the lock that keeps test and write together.
CodeSpentOnce ==
  \A r1, r2 \in Requests :
    Redeemed(r1) /\ Redeemed(r2) /\ req[r1].via = req[r2].via => r1 = r2

\* Issuer and verifier agree: a token issued from a DA signed in the past and
\* not yet at its end is accepted by validate() at every moment of its
\* lifetime, by a resource server in its audience that holds a PA for what it
\* allows, for the key it names.
AcceptedThroughout(t) ==
  \A at \in t.iat..t.exp :
    Validate(t, [at |-> at, aud |-> t.aud, presenter |-> t.cnf, cap |-> NoCap,
                 pa |-> [principal |-> t.principal, representative |-> TRUE,
                         grants |-> Capabilities, constraints |-> {}],
                 met |-> t.constraints, revoked |-> {}, checker |-> FALSE,
                 shallow |-> TRUE])

\* There are such a resource server and such a PA: the audience asked for is
\* not empty and names no empty string (the issuer does not look, validate()
\* does), and every capability is within some capability that can be granted.
Presentable(t) ==
  /\ t.aud # {} /\ Blank \notin t.aud
  /\ \A c \in t.caps : CapabilitySubset(c, Capabilities)

IssuedIsAcceptable ==
  \A r \in Requests :
    /\ pc[r] = "granted" /\ req[r].flow \in DAFlows
    /\ req[r].da.ts <= req[r].at /\ req[r].at < DAExp(req[r].da)
    /\ Presentable(tok[r])
    => AcceptedThroughout(tok[r])

\* Token t of a call by the given flow goes back to its DA, or to a recorded
\* consent if it has none.
Traced(t, flow) ==
  LET carries(agreed) ==
        t.constraints = IF flow = "exchange" THEN {} ELSE agreed
  IN  \/ /\ t.da # NoDA
         /\ t.sub = OAuthSubject(t.da)
         /\ t.principal = t.da.principal
         /\ t.mode = t.da.mode
         /\ t.caps \subseteq t.da.caps
         /\ carries(t.da.constraints)
      \/ /\ t.da = NoDA
         /\ t.mode = "authorized"
         /\ \E g \in LightGrants : /\ t.sub = g.agent
                                   /\ t.principal = g.principal
                                   /\ t.caps \subseteq g.caps
                                   /\ carries(g.constraints)

\* Whose authority a token carries, through any chain of exchanges: agent,
\* principal and mode are those of one DA or one consent, and no capability is
\* added to it.  The constraints are the same too, except that an exchange
\* (TokenExchange, oauth.go:550) drops them all: the property says that this
\* is the only way in which a token is wider than what it goes back to.
AuthorityTraced ==
  \A r \in Requests : pc[r] = "granted" => Traced(tok[r], req[r].flow)

\* A redeemed code delivers what the principal consented to: the token embeds
\* the DA stored under that code, also when the code store was written to
\* between the unlock of ExchangeCode and the signature; and the code is spent.
CodeDelivers ==
  \A r \in Requests :
    pc[r] = "granted" /\ req[r].via # NoCode =>
      /\ codes[req[r].via] # NoCode
      /\ codes[req[r].via].used
      /\ tok[r].da = codes[req[r].via].da

\* The inductive invariant.  A call has locals once it has entered, ...
LocalsKept ==
  \A r \in Requests : pc[r] = "idle" <=> req[r] = NoCall

\* ... a DA while IssueFromDA runs for it (and, in the short flow, a lifetime),
\* but none before a code has been redeemed, ...
UnderWay ==
  \A r \in Requests :
    /\ pc[r] \in {"validate", "sign"} =>
         /\ req[r].flow \in DAFlows
         /\ req[r].da \in Delegations
         /\ req[r].flow = "short" => req[r].life \in Lifetimes
    /\ pc[r] \in {"lock", "locked"} =>
         /\ req[r].flow = "code"
         /\ pc[r] = "lock" => req[r].via = NoCode

\* ... a token exactly when it is granted, and then the token of its DA under
\* the DA's nonce, or one under an identifier of its own.
GrantsKept ==
  \A r \in Requests :
    /\ pc[r] = "granted" <=> tok[r] # NoToken
    /\ pc[r] = "granted" /\ req[r].flow \in DAFlows
         => /\ req[r].da \in Delegations
            /\ tok[r].da = req[r].da
            /\ tok[r].jti = req[r].da.nonce
    /\ pc[r] = "granted" /\ req[r].flow \notin DAFlows
         => tok[r].jti = r

\* The nonce of a call that holds it is in the store.
NoncesKept ==
  \A r \in Requests : Holds(r) => req[r].da.nonce \in nonces

\* One call at a time is in the critical section, and the code it found there
\* is still unspent.
LockKept ==
  /\ \A r \in Requests : pc[r] = "locked" <=> r \in stateMu
  /\ \A r1, r2 \in stateMu : r1 = r2
  /\ \A r \in stateMu : /\ req[r].via # NoCode
                       /\ codes[req[r].via] # NoCode
                       /\ ~codes[req[r].via].used

\* The code of a call is spent, and the call works on the DA stored under it.
CodesKept ==
  \A r \in Requests : Redeemed(r) =>
    /\ codes[req[r].via] # NoCode
    /\ codes[req[r].via].used
    /\ req[r].flow = "code"
    /\ req[r].da = codes[req[r].via].da

\* What the token endpoint's bookkeeping comes to: the conjunction that every
\* step preserves.  SingleUse and CodeSpentOnce alone are not inductive; they
\* rest on the stores holding what the calls in flight have taken.
Accounts ==
  /\ TypeOK
  /\ LocalsKept /\ UnderWay /\ GrantsKept
  /\ NoncesKept /\ SingleUse
  /\ LockKept /\ CodesKept /\ CodeSpentOnce

\* Every call that enters is answered: whoever takes stateMu gives it back on
\* every path through ExchangeCode, so nobody waits for it in vain, and no
\* branch of IssueFromDA is stuck.
EveryCallAnswered ==
  \A r \in Requests :
    pc[r] # "idle" ~> pc[r] \in {"granted", "refused"}
=============================================================================
