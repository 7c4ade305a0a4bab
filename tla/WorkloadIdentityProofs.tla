----------------------- MODULE WorkloadIdentityProofs -----------------------
(***************************************************************************)
(* Theorems about the WIT/WPT verifier, for any number of issuances,       *)
(* proofs and concurrent verifications and any clocks.                     *)
(***************************************************************************)
EXTENDS WorkloadIdentity, TLAPS

\* What Issue establishes and nobody changes: the entitlement of a grant comes
\* from the artefacts it was issued on.
GrantsSound ==
  \A r \in Issues : grant[r] # NoGrant =>
    LET g == grant[r]
    IN  \/ g.da.mode = "authorized" /\ g.entitlement = g.da.caps
        \/ /\ g.da.mode = "representative"
           /\ g.pa # NoPA /\ g.pa.principal = g.da.principal
           /\ g.entitlement = g.pa.grants
           /\ CapabilitiesCovered(g.da.caps, g.pa.grants)

\* What a verification that arrived works on stays in place.
RunsSound ==
  \A v \in Verifications : vpc[v] # "idle" =>
    run[v] \in Request /\ grant[run[v].wit] # NoGrant

AdmittedSound ==
  \A v \in Verifications :
    vpc[v] \in {"admitted", "permitted"} => Admissible(run[v])

PermittedSound ==
  \A v \in Verifications : Permitted(v) =>
    /\ proof[run[v].jti].wth = run[v].wit
    /\ PolicyAllows(run[v])
    /\ Configured => run[v].jti \in seen

WInv ==
  /\ TypeOK
  /\ GrantsSound
  /\ RunsSound
  /\ AdmittedSound
  /\ PermittedSound
  /\ SpentInPlace
  /\ Configured => JtiPassesOnce

\* The invariant holds before anything is issued.
LEMMA InitialWorkload == Init => WInv
  BY WITBounds, SMT
  DEF Init, WInv, TypeOK, GrantsSound, RunsSound, AdmittedSound,
      PermittedSound, SpentInPlace, JtiPassesOnce, Permitted

\* A step that keeps the verifications, the store and every grant and proof
\* there is keeps the part of the invariant that is about them.
LEMMA VerifierUndisturbed ==
  ASSUME WInv,
         UNCHANGED <<seen, vpc, run>>,
         \A r \in Issues : grant[r] # NoGrant => grant'[r] = grant[r],
         \A j \in Jtis : proof[j] # NoProof => proof'[j] = proof[j]
  PROVE  /\ RunsSound'
         /\ AdmittedSound'
         /\ PermittedSound'
         /\ SpentInPlace'
         /\ Configured => JtiPassesOnce'
  <1>1. RunsSound'
    BY DEF WInv, RunsSound, Request
  <1>2. ASSUME NEW v \in Verifications, vpc[v] \in {"admitted", "permitted"}
        PROVE  /\ grant'[run[v].wit] = grant[run[v].wit]
               /\ proof'[run[v].jti] = proof[run[v].jti]
               /\ Admissible(run[v])
    <2>1. run[v].wit \in Issues /\ run[v].jti \in Jtis
          /\ grant[run[v].wit] # NoGrant
      BY <1>2 DEF WInv, RunsSound, Request
    <2>2. Admissible(run[v])
      BY <1>2 DEF WInv, AdmittedSound
    <2>3. proof[run[v].jti] # NoProof
      BY <2>2 DEF Admissible
    <2> QED BY <2>1, <2>2, <2>3
  <1>3. AdmittedSound'
    <2>1. SUFFICES ASSUME NEW v \in Verifications,
                          vpc[v] \in {"admitted", "permitted"}
                   PROVE  Admissible(run[v])'
      BY DEF AdmittedSound
    <2>2. /\ grant'[run[v].wit] = grant[run[v].wit]
          /\ proof'[run[v].jti] = proof[run[v].jti]
          /\ Admissible(run[v])
      BY <1>2, <2>1
    <2>3. run'[v] = run[v]
      OBVIOUS
    <2> QED BY <2>2, <2>3 DEF Admissible, WITValid
  <1>4. PermittedSound'
    <2>1. SUFFICES ASSUME NEW v \in Verifications, vpc[v] = "permitted"
                   PROVE  /\ proof'[run[v].jti].wth = run[v].wit
                          /\ PolicyAllows(run[v])'
                          /\ Configured => run[v].jti \in seen
      BY DEF PermittedSound, Permitted
    <2>2. /\ grant'[run[v].wit] = grant[run[v].wit]
          /\ proof'[run[v].jti] = proof[run[v].jti]
      BY <1>2, <2>1
    <2>3. /\ proof[run[v].jti].wth = run[v].wit
          /\ PolicyAllows(run[v])
          /\ Configured => run[v].jti \in seen
      BY <2>1 DEF WInv, PermittedSound, Permitted
    <2> QED BY <2>2, <2>3 DEF PolicyAllows, CapabilitiesCovered
  <1>5. SpentInPlace'
    BY DEF WInv, SpentInPlace, TypeOK
  <1>6. Configured => JtiPassesOnce'
    BY DEF WInv, JtiPassesOnce, Permitted
  <1> QED BY <1>1, <1>3, <1>4, <1>5, <1>6

\* Issue adds a grant that comes from its artefacts and changes no other.
LEMMA IssueKeepsInv ==
  ASSUME WInv,
         NEW r \in Issues, NEW da \in Delegations,
         NEW pa \in Authorizations \cup {NoPA}, NEW agent \in Agents, NEW at,
         Issue(r, da, pa, agent, at)
  PROVE  WInv'
  <1>1. at \in Nat /\ da \in DA /\ (pa = NoPA \/ pa \in PA)
    BY ArtefactAssumption, WITBounds DEF Issue, Clock, WInv, TypeOK
  <1> DEFINE g == [sub |-> agent, iat |-> at, exp |-> at + da.lifetime,
                   entitlement |-> IF da.mode = "representative"
                                   THEN pa.grants ELSE da.caps,
                   da |-> da, pa |-> pa]
  <1>2. grant' = [grant EXCEPT ![r] = g]
    BY DEF Issue
  <1>3. pa \in PA => pa.grants \in SUBSET Capabilities
    BY DEF PA
  <1>4. g.entitlement \in SUBSET Capabilities
    BY <1>1, <1>3 DEF Issue, Issuable, DA, Modes
  <1>5. g \in WITGrant
    BY <1>1, <1>4, SMT DEF WITGrant, DA
  <1>6. TypeOK'
    BY <1>2, <1>5 DEF WInv, TypeOK, Issue
  <1>7. GrantsSound'
    <2>1. SUFFICES ASSUME NEW s \in Issues, s = r
                   PROVE  \/ g.da.mode = "authorized"
                             /\ g.entitlement = g.da.caps
                          \/ /\ g.da.mode = "representative"
                             /\ g.pa # NoPA /\ g.pa.principal = g.da.principal
                             /\ g.entitlement = g.pa.grants
                             /\ CapabilitiesCovered(g.da.caps, g.pa.grants)
      BY <1>2 DEF WInv, GrantsSound, TypeOK, CapabilitiesCovered
    <2> QED BY <1>1 DEF Issue, Issuable
  <1>8. /\ UNCHANGED <<seen, vpc, run>>
        /\ \A s \in Issues : grant[s] # NoGrant => grant'[s] = grant[s]
        /\ \A j \in Jtis : proof[j] # NoProof => proof'[j] = proof[j]
    BY DEF Issue, WInv, TypeOK
  <1> QED BY <1>6, <1>7, <1>8, VerifierUndisturbed DEF WInv

\* MintWPT adds a proof under a jti of its own.
LEMMA MintKeepsInv ==
  ASSUME WInv,
         NEW j \in Jtis, NEW wth \in Issues, NEW key \in Issues,
         NEW target \in Targets, NEW at,
         MintWPT(j, wth, key, target, at)
  PROVE  WInv'
  <1>1. at \in Nat
    BY WITBounds DEF MintWPT, Clock, WInv, TypeOK
  <1>2. [wth |-> wth, key |-> key, target |-> target, exp |-> at + ProofTTL]
          \in WPT
    BY <1>1, WITBounds DEF WPT
  <1>3. TypeOK'
    BY <1>2 DEF WInv, TypeOK, MintWPT
  <1>4. GrantsSound'
    BY DEF WInv, GrantsSound, MintWPT, CapabilitiesCovered
  <1>5. /\ UNCHANGED <<seen, vpc, run>>
        /\ \A s \in Issues : grant[s] # NoGrant => grant'[s] = grant[s]
        /\ \A i \in Jtis : proof[i] # NoProof => proof'[i] = proof[i]
    BY DEF MintWPT, WInv, TypeOK
  <1> QED BY <1>3, <1>4, <1>5, VerifierUndisturbed DEF WInv

\* Arrive admits or denies one verification; nobody is permitted by it.
LEMMA ArriveKeepsInv ==
  ASSUME WInv,
         NEW v \in Verifications, NEW wit \in Issues, NEW jti \in Jtis,
         NEW target \in Targets, NEW cap \in Capabilities \cup {NoCap},
         Arrive(v, wit, jti, target, cap)
  PROVE  WInv'
  <1> DEFINE q == [wit |-> wit, jti |-> jti, target |-> target, cap |-> cap,
                   at |-> now]
  <1>1. /\ vpc[v] = "idle"
        /\ grant[wit] # NoGrant
        /\ run' = [run EXCEPT ![v] = q]
        /\ vpc' = [vpc EXCEPT ![v] = IF Admissible(q) THEN "admitted"
                                     ELSE "denied"]
        /\ UNCHANGED <<now, grant, proof, seen>>
    BY DEF Arrive
  <1>2. q \in Request
    BY DEF Request, WInv, TypeOK
  <1> HIDE DEF q
  <1>3. TypeOK'
    BY <1>1, <1>2 DEF WInv, TypeOK
  <1>4. GrantsSound'
    BY <1>1 DEF WInv, GrantsSound, CapabilitiesCovered
  <1>5. /\ run'[v] = q
        /\ vpc'[v] \in {"admitted", "denied"}
        /\ vpc'[v] = "admitted" => Admissible(q)
        /\ \A u \in Verifications : u # v => run'[u] = run[u] /\ vpc'[u] = vpc[u]
    BY <1>1 DEF WInv, TypeOK
  <1>6. q.wit = wit
    BY DEF q
  <1>7. RunsSound'
    BY <1>1, <1>2, <1>5, <1>6 DEF WInv, RunsSound
  <1>8. AdmittedSound'
    BY <1>1, <1>5 DEF WInv, AdmittedSound, Admissible, WITValid
  <1>9. PermittedSound'
    BY <1>1, <1>5
    DEF WInv, PermittedSound, Permitted, PolicyAllows, CapabilitiesCovered
  <1>10. SpentInPlace'
    BY <1>1, <1>5 DEF WInv, SpentInPlace
  <1>11. Configured => JtiPassesOnce'
    BY <1>5 DEF WInv, JtiPassesOnce, Permitted
  <1> QED BY <1>3, <1>4, <1>7, <1>8, <1>9, <1>10, <1>11 DEF WInv

\* Settle records the jti of the verification it decides, and permits it only
\* if no other was permitted under that jti.
LEMMA SettleKeepsInv ==
  ASSUME WInv, NEW v \in Verifications, Settle(v)
  PROVE  WInv'
  <1> DEFINE q == run[v]
  <1>1. /\ vpc[v] = "admitted"
        /\ q \in Request
        /\ grant[q.wit] # NoGrant
        /\ Admissible(q)
    BY DEF Settle, WInv, RunsSound, AdmittedSound
  <1>2. /\ UNCHANGED <<now, grant, proof, run>>
        /\ seen' = IF Configured THEN seen \cup {q.jti} ELSE seen
        /\ vpc'[v] \in {"permitted", "denied"}
        /\ vpc'[v] = "permitted" => /\ Configured => q.jti \notin seen
                                    /\ proof[q.jti].wth = q.wit
                                    /\ PolicyAllows(q)
        /\ vpc' = [vpc EXCEPT ![v] = vpc'[v]]
        /\ \A u \in Verifications : u # v => vpc'[u] = vpc[u]
    BY DEF Settle, WInv, TypeOK
  <1>3. seen \subseteq seen' /\ (Configured => q.jti \in seen')
    BY <1>2
  <1>4. TypeOK'
    BY <1>1, <1>2 DEF WInv, TypeOK, Request
  <1>5. GrantsSound'
    BY <1>2 DEF WInv, GrantsSound, CapabilitiesCovered
  <1>6. RunsSound'
    BY <1>1, <1>2 DEF WInv, RunsSound
  <1>7. AdmittedSound'
    BY <1>1, <1>2 DEF WInv, AdmittedSound, Admissible, WITValid
  <1>8. PermittedSound'
    BY <1>2, <1>3
    DEF WInv, PermittedSound, Permitted, PolicyAllows, CapabilitiesCovered
  <1>9. SpentInPlace'
    <2>1. SUFFICES ASSUME NEW j \in seen'
                   PROVE  \E u \in Verifications :
                            /\ vpc'[u] \in {"permitted", "denied"}
                            /\ run[u].jti = j
                            /\ proof[j] # NoProof
                            /\ run[u].wit = proof[j].key
                            /\ run[u].target = proof[j].target
                            /\ run[u].at < proof[j].exp
      BY <1>2 DEF SpentInPlace
    <2>2. CASE j = q.jti
      BY <1>1, <1>2, <2>2 DEF Admissible
    <2>3. CASE j \in seen
      BY <1>1, <1>2, <2>3 DEF WInv, SpentInPlace
    <2> QED BY <1>2, <2>1, <2>2, <2>3
  <1>10. ASSUME Configured PROVE JtiPassesOnce'
    <2>1. ASSUME NEW u \in Verifications, u # v, Permitted(u)', Permitted(v)'
          PROVE  run[u].jti # q.jti
      <3>1. Permitted(u)
        BY <1>2, <2>1 DEF Permitted
      <3>2. run[u].jti \in seen
        BY <1>10, <3>1 DEF WInv, PermittedSound
      <3>3. q.jti \notin seen
        BY <1>2, <1>10, <2>1 DEF Permitted
      <3> QED BY <3>2, <3>3
    <2>2. ASSUME NEW u \in Verifications, NEW w \in Verifications,
                 Permitted(u)', Permitted(w)', run[u].jti = run[w].jti
          PROVE  u = w
      <3>1. CASE u # v /\ w # v
        BY <1>2, <1>10, <2>2, <3>1 DEF WInv, JtiPassesOnce, Permitted
      <3>2. CASE u = v \/ w = v
        BY <2>1, <2>2, <3>2
      <3> QED BY <3>1, <3>2
    <2> QED BY <1>2, <2>2 DEF JtiPassesOnce
  <1> QED BY <1>4, <1>5, <1>6, <1>7, <1>8, <1>9, <1>10 DEF WInv

\* Time passes: nothing else changes.
LEMMA TickKeepsInv == ASSUME WInv, Tick PROVE WInv'
  <1>1. TypeOK'
    BY DEF WInv, TypeOK, Tick
  <1>2. GrantsSound'
    BY DEF WInv, GrantsSound, Tick, CapabilitiesCovered
  <1>3. /\ UNCHANGED <<seen, vpc, run>>
        /\ \A s \in Issues : grant[s] # NoGrant => grant'[s] = grant[s]
        /\ \A i \in Jtis : proof[i] # NoProof => proof'[i] = proof[i]
    BY DEF Tick
  <1> QED BY <1>1, <1>2, <1>3, VerifierUndisturbed DEF WInv

\* The invariant holds in every behaviour.
THEOREM WorkloadInvariant == Spec => []WInv
  <1>1. Init => WInv
    BY InitialWorkload
  <1>2. WInv /\ [Next]_wVars => WInv'
    <2>1. SUFFICES ASSUME WInv, [Next]_wVars PROVE WInv'
      OBVIOUS
    <2>2. CASE \E r \in Issues, da \in Delegations,
                  pa \in Authorizations \cup {NoPA}, agent \in Agents,
                  at \in Clock : Issue(r, da, pa, agent, at)
      BY <2>1, <2>2, IssueKeepsInv
    <2>3. CASE \E j \in Jtis, wth \in Issues, key \in Issues,
                  target \in Targets, at \in Clock :
                 MintWPT(j, wth, key, target, at)
      BY <2>1, <2>3, MintKeepsInv
    <2>4. CASE \E v \in Verifications, wit \in Issues, jti \in Jtis,
                  target \in Targets, cap \in Capabilities \cup {NoCap} :
                 Arrive(v, wit, jti, target, cap)
      BY <2>1, <2>4, ArriveKeepsInv
    <2>5. CASE \E v \in Verifications : Settle(v)
      BY <2>1, <2>5, SettleKeepsInv
    <2>6. CASE Tick
      BY <2>1, <2>6, TickKeepsInv
    <2>7. CASE UNCHANGED wVars
      <3>1. TypeOK' /\ GrantsSound'
        BY <2>1, <2>7
        DEF wVars, WInv, TypeOK, GrantsSound, CapabilitiesCovered
      <3>2. /\ UNCHANGED <<seen, vpc, run>>
            /\ \A s \in Issues : grant[s] # NoGrant => grant'[s] = grant[s]
            /\ \A i \in Jtis : proof[i] # NoProof => proof'[i] = proof[i]
        BY <2>7 DEF wVars
      <3> QED BY <2>1, <3>1, <3>2, VerifierUndisturbed DEF WInv
    <2> QED BY <2>1, <2>2, <2>3, <2>4, <2>5, <2>6, <2>7 DEF Next
  <1> QED BY <1>1, <1>2, PTL DEF Spec

\* The store, the artefacts and the runs of the verifier keep their shapes: in
\* particular the store holds jtis of proofs and nothing else.
THEOREM TypeCorrect == Spec => []TypeOK
  <1>1. WInv => TypeOK
    BY DEF WInv
  <1> QED BY <1>1, WorkloadInvariant, PTL

\* verifier.go:18: with a configured store, a jti passes a verifier once,
\* however many requests carry it at the same time.
THEOREM JtiPassesOnceHolds ==
  ASSUME Configured PROVE Spec => []JtiPassesOnce
  <1>1. WInv => JtiPassesOnce
    BY DEF WInv
  <1> QED BY <1>1, WorkloadInvariant, PTL

\* A jti is spent only by the holder of the key that signed it, at the target
\* it was minted for, with or without a configured store.
THEOREM SpentInPlaceHolds == Spec => []SpentInPlace
  <1>1. WInv => SpentInPlace
    BY DEF WInv
  <1> QED BY <1>1, WorkloadInvariant, PTL

\* A permission goes back to a proof of the holder of the token's key.
THEOREM ProofOfHolderHolds == Spec => []ProofOfHolder
  <1>1. WInv => ProofOfHolder
    BY DEF WInv, ProofOfHolder, AdmittedSound, PermittedSound, Permitted,
           Admissible, WITValid
  <1> QED BY <1>1, WorkloadInvariant, PTL

\* What is permitted is covered by the DA or by the PA that confines it.
THEOREM WithinGrantHolds == Spec => []WithinGrant
  <1>1. ASSUME WInv, NEW v \in Verifications, Permitted(v),
               run[v].cap # NoCap
        PROVE  LET g == grant[run[v].wit]
               IN  \/ /\ g.da.mode = "authorized"
                      /\ \E c \in g.da.caps : <<run[v].cap, c>> \in Covered
                   \/ /\ g.da.mode = "representative"
                      /\ g.pa # NoPA /\ g.pa.principal = g.da.principal
                      /\ \A c \in g.da.caps \cup {run[v].cap} :
                           \E h \in g.pa.grants : <<c, h>> \in Covered
    <2> DEFINE g == grant[run[v].wit]
    <2>1. run[v].wit \in Issues /\ g # NoGrant
      BY <1>1 DEF WInv, RunsSound, Request, Permitted
    <2>2. \E c \in g.entitlement : <<run[v].cap, c>> \in Covered
      BY <1>1
      DEF WInv, PermittedSound, PolicyAllows, CapabilitiesCovered
    <2>3. \/ g.da.mode = "authorized" /\ g.entitlement = g.da.caps
          \/ /\ g.da.mode = "representative"
             /\ g.pa # NoPA /\ g.pa.principal = g.da.principal
             /\ g.entitlement = g.pa.grants
             /\ CapabilitiesCovered(g.da.caps, g.pa.grants)
      BY <1>1, <2>1 DEF WInv, GrantsSound
    <2> QED BY <2>2, <2>3 DEF CapabilitiesCovered
  <1>2. WInv => WithinGrant
    BY <1>1 DEF WithinGrant
  <1> QED BY <1>2, WorkloadInvariant, PTL
=============================================================================
