--------------------------- MODULE WorkloadIdentity ---------------------------
(***************************************************************************)
(* The WIT/WPT harness: an issuance service that turns a delegation        *)
(* authorization (DA) into a workload identity token (WIT), the proof      *)
(* (WPT) an agent mints for one request, and the verifier of a resource    *)
(* server, with its replay store and entitlement policy.                   *)
(*                                                                         *)
(* The harness exists three times, with the same tests in the same order:  *)
(* in Go and in TypeScript (wit-wpt-interop/go, ts) and for the browser    *)
(* (wit-demo/src/lib), where awaits stand between the steps.  Only the Go  *)
(* verifier can be without a replay store (Configured).                    *)
(*                                                                         *)
(* Issuing touches no shared state and is one step.  A verification reads  *)
(* the clock, runs every test up to the replay store, and enters the store *)
(* under its mutex; it is two steps, and others run between them:          *)
(*                                                                         *)
(*   idle --Arrive--> admitted --Settle--> permitted | denied              *)
(*                                                                         *)
(* Abstractions.  "intact" stands for what depends on an artefact's bytes  *)
(* only: encoding, header, signature under the key in that header, nonce   *)
(* length, known constraints; for a DA also that this key is the one of    *)
(* the principal it names (checkKeyHash).  The key a PA is signed with is  *)
(* kept apart, as "signer": Issue discards it.  Each issuance r generates  *)
(* a key of its own, so r names the WIT, its key and its SHA-256.          *)
(***************************************************************************)
EXTENDS Integers

CONSTANTS
  Agents,        \* agent ids: the path segment of a SPIFFE id
  Principals,    \* principals, each with its key hash
  Capabilities,  \* capability objects
  Covered,       \* <<capability, grant>>: capabilitySpecSubset
  Delegations,   \* the DAs in circulation
  Authorizations,\* the PAs in circulation
  Issues,        \* calls of Issue, each used once
  Jtis,          \* jti of the proofs
  Targets,       \* target URIs
  Verifications, \* calls of Verify, each used once
  MaxLifetime,   \* upper bound of requested_lifetime (86400)
  ProofTTL,      \* lifetime MintWPT gives a proof (120 s)
  MaxProofTTL,   \* longest remaining lifetime the verifier takes (300 s)
  Configured,    \* whether Verifier.Replay is set
  MaxSkew,       \* how far the clocks of issuer and agent may be off
  MaxTime,       \* bound on the clock
  NoPA, NoProof, NoCap, NoGrant, NoRun

VARIABLES
  now,    \* the clock, Verifier.Now
  grant,  \* the WITGrant each issuance returned
  proof,  \* the WPTs minted so far
  seen,   \* Verifier.Replay
  vpc,    \* where each verification stands
  run     \* the inputs of each verification

wVars == <<now, grant, proof, seen, vpc, run>>

Modes == {"authorized", "representative"}

DA == [agent: Agents, principal: Principals, mode: Modes,
       caps: SUBSET Capabilities, lifetime: Nat, intact: BOOLEAN]

\* signer is whose key the PA carries and is signed with.
PA == [principal: Principals, signer: Principals,
       grants: SUBSET Capabilities, intact: BOOLEAN]

\* The DA and PA are kept with the grant for the properties only.
WITGrant == [sub: Agents, iat: Nat, exp: Nat, entitlement: SUBSET Capabilities,
             da: Delegations, pa: Authorizations \cup {NoPA}]

\* key is the issuance whose key signed the proof, wth the one whose WIT it is
\* minted for.
WPT == [wth: Issues, key: Issues, target: Targets, exp: Nat]

Request == [wit: Issues, jti: Jtis, target: Targets,
            cap: Capabilities \cup {NoCap}, at: Nat]

ASSUME ArtefactAssumption ==
  /\ Delegations \subseteq DA
  /\ Authorizations \subseteq PA
  /\ NoPA \notin Authorizations
ASSUME WITBounds ==
  /\ MaxLifetime \in Nat /\ ProofTTL \in Nat /\ MaxProofTTL \in Nat
  /\ MaxSkew \in Nat /\ MaxTime \in Nat /\ Configured \in BOOLEAN
ASSUME WITAbsence ==
  /\ NoGrant \notin WITGrant
  /\ NoProof \notin WPT
  /\ NoRun \notin Request

-----------------------------------------------------------------------------
\* Issue and MintWPT are given the time by their callers, each from a clock of
\* its own.
Clock == {t \in 0..(now + MaxSkew) : now <= t + MaxSkew}

\* Mutant: some capability is covered.
CapabilitiesOverlap(caps, grants) ==
  \E c \in caps : \E g \in grants : <<c, g>> \in Covered

CapabilitiesCovered(caps, grants) ==
  \A c \in caps : \E g \in grants : <<c, g>> \in Covered

\* A representative DA needs a PA that names its principal and covers it, and
\* its holder is entitled to what the PA grants; who signed the PA is not
\* compared with anything.  An authorized DA is the whole authorization and
\* comes without a PA.
Issuable(da, pa, agent) ==
  /\ da.intact
  /\ da.agent = agent
  /\ da.lifetime \in 1..MaxLifetime
  /\ \/ /\ da.mode = "representative"
        /\ pa # NoPA
        /\ pa.intact
        /\ pa.principal = da.principal
        /\ CapabilitiesCovered(da.caps, pa.grants)
     \/ /\ da.mode = "authorized"
        /\ pa = NoPA

\* A refused call returns no grant and leaves nothing behind.
Issue(r, da, pa, agent, at) ==
  /\ grant[r] = NoGrant
  /\ at \in Clock
  /\ Issuable(da, pa, agent)
  /\ grant' = [grant EXCEPT ![r] =
       [sub |-> agent, iat |-> at, exp |-> at + da.lifetime,
        entitlement |-> IF da.mode = "representative" THEN pa.grants
                        ELSE da.caps,
        da |-> da, pa |-> pa]]
  /\ UNCHANGED <<now, proof, seen, vpc, run>>

\* MintWPT, with a fresh jti: the holder of the key of issuance key mints a
\* proof over the WIT of issuance wth.
MintWPT(j, wth, key, target, at) ==
  /\ proof[j] = NoProof
  /\ at \in Clock
  /\ grant[wth] # NoGrant /\ grant[key] # NoGrant
  /\ proof' = [proof EXCEPT ![j] =
       [wth |-> wth, key |-> key, target |-> target, exp |-> at + ProofTTL]]
  /\ UNCHANGED <<now, grant, seen, vpc, run>>

-----------------------------------------------------------------------------
(* Verify.                                                                 *)

WITValid(w, at) == at < w.exp /\ w.iat <= at

\* Mutant: the proof's signature is checked under any issued key.
AdmissibleByAnyKey(q) ==
  LET p == proof[q.jti]
  IN  /\ WITValid(grant[q.wit], q.at)
      /\ p # NoProof
      /\ p.target = q.target
      /\ q.at < p.exp
      /\ p.exp - q.at <= MaxProofTTL

\* Everything tested before the replay store: the WIT's time, the proof's
\* signature under the key of the WIT, target and time.
Admissible(q) ==
  LET p == proof[q.jti]
  IN  /\ WITValid(grant[q.wit], q.at)
      /\ p # NoProof
      /\ p.key = q.wit
      /\ p.target = q.target
      /\ q.at < p.exp
      /\ p.exp - q.at <= MaxProofTTL

\* A request without a proof (a jti nothing was minted under) is denied.
Arrive(v, wit, jti, target, cap) ==
  LET q == [wit |-> wit, jti |-> jti, target |-> target, cap |-> cap,
            at |-> now]
  IN  /\ vpc[v] = "idle"
      /\ grant[wit] # NoGrant
      /\ run' = [run EXCEPT ![v] = q]
      /\ vpc' = [vpc EXCEPT ![v] = IF Admissible(q) THEN "admitted"
                                   ELSE "denied"]
      /\ UNCHANGED <<now, grant, proof, seen>>

\* The deployment's policy hook, as the scenarios configure it: the request is
\* within the entitlement recorded when this WIT was issued.
PolicyAllows(q) ==
  q.cap # NoCap =>
    CapabilitiesCovered({q.cap}, grant[q.wit].entitlement)

\* Mutant: the jti is recorded but not looked up.
SettleUnchecked(v) ==
  LET q  == run[v]
      ok == proof[q.jti].wth = q.wit /\ PolicyAllows(q)
  IN  /\ vpc[v] = "admitted"
      /\ vpc' = [vpc EXCEPT ![v] = IF ok THEN "permitted" ELSE "denied"]
      /\ seen' = IF Configured THEN seen \cup {q.jti} ELSE seen
      /\ UNCHANGED <<now, grant, proof, run>>

\* Mutant: the store is keyed by the token instead of the proof.
SettleByToken(v) ==
  LET q  == run[v]
      ok == /\ Configured => q.wit \notin seen
            /\ proof[q.jti].wth = q.wit
            /\ PolicyAllows(q)
  IN  /\ vpc[v] = "admitted"
      /\ vpc' = [vpc EXCEPT ![v] = IF ok THEN "permitted" ELSE "denied"]
      /\ seen' = IF Configured THEN seen \cup {q.wit} ELSE seen
      /\ UNCHANGED <<now, grant, proof, run>>

\* The replay store and what follows it.  A verifier without a store makes one
\* for this call.  The jti is recorded before the token hash and the policy
\* are looked at, so a denied request has spent its proof.
Settle(v) ==
  LET q     == run[v]
      fresh == Configured => q.jti \notin seen
      ok    == /\ fresh
               /\ proof[q.jti].wth = q.wit
               /\ PolicyAllows(q)
  IN  /\ vpc[v] = "admitted"
      /\ vpc' = [vpc EXCEPT ![v] = IF ok THEN "permitted" ELSE "denied"]
      /\ seen' = IF Configured THEN seen \cup {q.jti} ELSE seen
      /\ UNCHANGED <<now, grant, proof, run>>

Tick ==
  /\ now < MaxTime
  /\ now' = now + 1
  /\ UNCHANGED <<grant, proof, seen, vpc, run>>

-----------------------------------------------------------------------------
Init ==
  /\ now = 0
  /\ grant = [r \in Issues |-> NoGrant]
  /\ proof = [j \in Jtis |-> NoProof]
  /\ seen = {}
  /\ vpc = [v \in Verifications |-> "idle"]
  /\ run = [v \in Verifications |-> NoRun]

Next ==
  \/ \E r \in Issues, da \in Delegations, pa \in Authorizations \cup {NoPA},
        agent \in Agents, at \in Clock : Issue(r, da, pa, agent, at)
  \/ \E j \in Jtis, wth \in Issues, key \in Issues, target \in Targets,
        at \in Clock : MintWPT(j, wth, key, target, at)
  \/ \E v \in Verifications, wit \in Issues, jti \in Jtis, target \in Targets,
        cap \in Capabilities \cup {NoCap} : Arrive(v, wit, jti, target, cap)
  \/ \E v \in Verifications : Settle(v)
  \/ Tick

Spec == Init /\ [][Next]_wVars

-----------------------------------------------------------------------------
(* Properties.                                                             *)

TypeOK ==
  /\ now \in Nat
  /\ grant \in [Issues -> WITGrant \cup {NoGrant}]
  /\ proof \in [Jtis -> WPT \cup {NoProof}]
  /\ seen \subseteq Jtis
  /\ vpc \in [Verifications -> {"idle", "admitted", "permitted", "denied"}]
  /\ run \in [Verifications -> Request \cup {NoRun}]

Permitted(v) == vpc[v] = "permitted"

\* verifier.go:18: the same jti passes the same verifier only once, also when
\* two requests with it are being verified at the same time.
JtiPassesOnce ==
  \A v1, v2 \in Verifications :
    Permitted(v1) /\ Permitted(v2) /\ run[v1].jti = run[v2].jti => v1 = v2

\* Possession: a permitted request carries a proof that the holder of this
\* WIT's key minted, for this WIT and this target; the one proof is enough to
\* tell which issuance, and so which DA, the permission goes back to.
ProofOfHolder ==
  \A v \in Verifications : Permitted(v) =>
    LET p == proof[run[v].jti]
    IN  /\ p # NoProof
        /\ p.wth = run[v].wit /\ p.key = run[v].wit
        /\ p.target = run[v].target
        /\ run[v].at < grant[run[v].wit].exp

\* A stray presentation spends no proof: a recorded jti was presented by the
\* holder of the key that signed it, at the target it was minted for, while it
\* was valid (Verify consults the store after those tests).
SpentInPlace ==
  \A j \in seen :
    \E v \in Verifications :
      /\ vpc[v] \in {"permitted", "denied"}
      /\ run[v].jti = j
      /\ proof[j] # NoProof
      /\ run[v].wit = proof[j].key
      /\ run[v].target = proof[j].target
      /\ run[v].at < proof[j].exp

\* From the artefacts presented at issuance to the decision: what is permitted
\* is covered by the DA itself or, where the agent represents a principal, by
\* the PA that came with it, which names the DA's principal and covers the
\* whole DA.  That PA need not be signed by the principal it names: its
\* pa.signer is anyone's (Issue drops the key that parseArtifact returns).
WithinGrant ==
  \A v \in Verifications : Permitted(v) /\ run[v].cap # NoCap =>
    LET g == grant[run[v].wit]
    IN  \/ /\ g.da.mode = "authorized"
           /\ \E c \in g.da.caps : <<run[v].cap, c>> \in Covered
        \/ /\ g.da.mode = "representative"
           /\ g.pa # NoPA /\ g.pa.principal = g.da.principal
           /\ \A c \in g.da.caps \cup {run[v].cap} :
                \E h \in g.pa.grants : <<c, h>> \in Covered
=============================================================================
