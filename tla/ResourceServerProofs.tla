-------------------------- MODULE ResourceServerProofs --------------------------
(***************************************************************************)
(* Proofs about the resource server, for any number of checks and proofs,  *)
(* any tokens and any behaviour of the clock and of the status map.        *)
(***************************************************************************)
EXTENDS ResourceServer, TLAPS

\* A check whose proof is to be tested has one; the proof of a check that got
\* past VerifyDPoP is in the replay store.
ProofsKept ==
  \A c \in Checks :
    /\ cpc[c] = "prove" => chk[c].proof # NoProof
    /\ Proved(c) => chk[c].proof.jti \in replay

\* The inductive invariant.
Standing ==
  /\ RSTypeOK
  /\ ProofsKept
  /\ ProofOnce
  /\ DelegationHonoured

\* What Validate lets through, the principal's signature covers.
LEMMA ValidateHonours ==
  ASSUME NEW q \in CheckLocals, Validate(q.t, CheckOptions(q)),
         q.t.da # NoDA
  PROVE  /\ q.cap # NoCap => MatchCapabilities(q.t.da.caps, q.cap)
         /\ q.t.da.constraints \subseteq q.met
         /\ q.at <= DAExp(q.t.da)
         /\ q.proof # NoProof /\ q.t.da.ver = 3
              => q.proof.key = q.t.da.binding
  <1> DEFINE o == CheckOptions(q)
  <1>1. /\ o.at = q.at /\ o.cap = q.cap /\ o.met = q.met
        /\ o.presenter = IF q.proof = NoProof THEN NoKey ELSE q.proof.key
    BY DEF CheckOptions
  <1>2. /\ DAStep(q.t, o) /\ CheckConsistency(q.t, q.t.da)
        /\ EvaluateConstraints(q.t, o) /\ CapabilityStep(q.t, o)
    BY DEF Validate
  <1> HIDE DEF o
  <1>3. q.t.caps = q.t.da.caps /\ q.t.constraints = q.t.da.constraints
    BY <1>2 DEF CheckConsistency
  <1>4. /\ o.at <= DAExp(q.t.da)
        /\ q.t.da.ver = 3 /\ o.presenter # NoKey
             => o.presenter = q.t.da.binding
    BY <1>2 DEF DAStep, ValidDA
  <1>5. q.proof # NoProof => o.presenter = q.proof.key /\ o.presenter # NoKey
    BY <1>1, ProofAssumption, NoneAssumption DEF CheckLocals, Proof
  <1> QED
    BY <1>1, <1>2, <1>3, <1>4, <1>5 DEF EvaluateConstraints, CapabilityStep

\* No check has begun.
LEMMA InitStanding == RSInit => Standing
  BY DEF RSInit, Standing, RSTypeOK, CheckPCs, ProofsKept, ProofOnce,
         Proved, DelegationHonoured

\* A check begins: it is neither past its proof nor permitted, except that a
\* check without a proof goes straight to its decision.
LEMMA ReceiveStanding ==
  ASSUME Standing, Surroundings, NEW c \in Checks, Receive(c)
  PROVE  Standing'
  <1>1. PICK t \in wire, proof \in Proofs \cup {NoProof}, target \in Targets,
             aud \in Audiences, cap \in Requested, met \in Contexts,
             at \in {u \in 0..now : now - u <= MaxCheckLag} :
          Present(c, t, proof, target, aud, cap, met, at)
    BY DEF Receive
  <1> DEFINE l == [t |-> t, proof |-> proof, target |-> target, aud |-> aud,
                   cap |-> cap, met |-> met, at |-> at]
             to == IF proof = NoProof THEN "decide" ELSE "prove"
  <1>2. /\ cpc[c] = "idle" /\ chk' = [chk EXCEPT ![c] = l]
        /\ cpc' = [cpc EXCEPT ![c] = to] /\ UNCHANGED replay
    BY <1>1 DEF Present
  <1>3. l \in CheckLocals /\ l.proof = proof
    BY DEF CheckLocals, Surroundings
  <1>4. to \in {"decide", "prove"} /\ (to = "decide" => proof = NoProof)
    OBVIOUS
  <1> HIDE DEF l, to
  <1>5. cpc \in [Checks -> CheckPCs] /\ chk \in [Checks -> CheckLocals \cup {NoCheck}]
    BY DEF Standing, RSTypeOK
  <1>6. RSTypeOK'
    BY <1>2, <1>3, <1>4, <1>5, NoCheckAssumption DEF Standing, RSTypeOK, CheckPCs
  <1>7. /\ chk'[c].proof = proof /\ cpc'[c] = to
        /\ \A d \in Checks \ {c} : chk'[d] = chk[d] /\ cpc'[d] = cpc[d]
    BY <1>2, <1>3, <1>5
  <1>8. ProofsKept'
    <2>1. \A d \in Checks \ {c} :
            /\ cpc'[d] = "prove" => chk'[d].proof # NoProof
            /\ Proved(d)' => chk'[d].proof.jti \in replay'
      BY <1>2, <1>7 DEF Standing, ProofsKept, Proved
    <2>2. (cpc'[c] = "prove" => chk'[c].proof # NoProof) /\ ~Proved(c)'
      BY <1>4, <1>7 DEF to, Proved
    <2> QED
      BY <2>1, <2>2 DEF ProofsKept
  <1>9. ProofOnce'
    BY <1>4, <1>7 DEF Standing, ProofOnce, Proved
  <1>10. DelegationHonoured'
    BY <1>2, <1>4, <1>5 DEF Standing, DelegationHonoured
  <1> QED
    BY <1>6, <1>8, <1>9, <1>10 DEF Standing

\* A proof is tested and recorded in one step, so it was new.
LEMMA VerifyDPoPStanding ==
  ASSUME Standing, NEW c \in Checks, VerifyDPoP(c)
  PROVE  Standing'
  <1> DEFINE q == chk[c]
             ok == ProofFits(q) /\ q.proof.jti \notin replay
             to == IF ok THEN "decide" ELSE "unproved"
  <1>1. /\ cpc[c] = "prove" /\ cpc' = [cpc EXCEPT ![c] = to] /\ UNCHANGED chk
        /\ replay' = IF ok THEN replay \cup {q.proof.jti} ELSE replay
    BY DEF VerifyDPoP
  <1>2. to \in {"decide", "unproved"} /\ (to = "decide" <=> ok)
    OBVIOUS
  <1> HIDE DEF to
  <1>3. /\ cpc \in [Checks -> CheckPCs] /\ replay \subseteq ProofIds
        /\ q \in CheckLocals
    BY <1>1 DEF Standing, RSTypeOK
  <1>4. q.proof.jti \in ProofIds
    BY <1>1, <1>3, ProofAssumption
    DEF Standing, ProofsKept, CheckLocals, Proof
  <1>5. RSTypeOK'
    BY <1>1, <1>2, <1>3, <1>4 DEF Standing, RSTypeOK, CheckPCs
  <1>6. ProofsKept'
    BY <1>1, <1>2, <1>3 DEF Standing, ProofsKept, Proved
  <1>7. ProofOnce'
    BY <1>1, <1>2, <1>3 DEF Standing, ProofsKept, ProofOnce, Proved
  <1>8. DelegationHonoured'
    BY <1>1, <1>2, <1>3 DEF Standing, DelegationHonoured
  <1> QED
    BY <1>5, <1>6, <1>7, <1>8 DEF Standing

\* A decision permits what Validate accepts.
LEMMA DecideStanding ==
  ASSUME Standing, NEW c \in Checks, Decide(c)
  PROVE  Standing'
  <1> DEFINE ok == Validate(chk[c].t, CheckOptions(chk[c]))
             to == IF ok THEN "permitted" ELSE "denied"
  <1>1. /\ cpc[c] = "decide" /\ cpc' = [cpc EXCEPT ![c] = to]
        /\ UNCHANGED <<replay, chk>>
    BY DEF Decide
  <1>2. to \in {"permitted", "denied"} /\ (to = "permitted" => ok)
    OBVIOUS
  <1> HIDE DEF to
  <1>3. cpc \in [Checks -> CheckPCs] /\ chk[c] \in CheckLocals
    BY <1>1 DEF Standing, RSTypeOK
  <1>4. RSTypeOK'
    BY <1>1, <1>2, <1>3 DEF Standing, RSTypeOK, CheckPCs
  <1>5. ProofsKept' /\ ProofOnce'
    BY <1>1, <1>2, <1>3 DEF Standing, ProofsKept, ProofOnce, Proved
  <1>6. DelegationHonoured'
    <2> SUFFICES ASSUME NEW d \in Checks, cpc'[d] = "permitted",
                        chk[d].t.da # NoDA
                 PROVE  /\ chk[d].cap # NoCap
                             => MatchCapabilities(chk[d].t.da.caps, chk[d].cap)
                        /\ chk[d].t.da.constraints \subseteq chk[d].met
                        /\ chk[d].at <= DAExp(chk[d].t.da)
                        /\ chk[d].proof # NoProof /\ chk[d].t.da.ver = 3
                             => chk[d].proof.key = chk[d].t.da.binding
      BY <1>1 DEF DelegationHonoured
    <2>1. CASE d = c
      <3>1. Validate(chk[d].t, CheckOptions(chk[d])) /\ chk[d] \in CheckLocals
        BY <1>1, <1>2, <1>3, <2>1
      <3> QED
        BY <3>1, ValidateHonours
    <2>2. CASE d # c
      BY <1>1, <1>3, <2>2 DEF Standing, DelegationHonoured
    <2> QED
      BY <2>1, <2>2
  <1> QED
    BY <1>4, <1>5, <1>6 DEF Standing

\* One step, or none.
LEMMA NextStanding == Standing /\ Surroundings /\ [RSNext]_rsVars => Standing'
  <1> SUFFICES ASSUME Standing, Surroundings, [RSNext]_rsVars PROVE Standing'
    OBVIOUS
  <1>1. CASE UNCHANGED rsVars
    BY <1>1 DEF rsVars, Standing, RSTypeOK, ProofsKept, ProofOnce, Proved,
                DelegationHonoured
  <1>2. CASE RSNext
    BY <1>2, ReceiveStanding, VerifyDPoPStanding, DecideStanding DEF RSNext
  <1> QED
    BY <1>1, <1>2

\* The inductive invariant, in any surroundings.
THEOREM StandingInvariant == RSSpec => []Standing
  <1>1. RSInit => Standing
    BY InitStanding
  <1>2. Standing /\ Surroundings /\ [RSNext]_rsVars => Standing'
    BY NextStanding
  <1> QED
    BY <1>1, <1>2, PTL DEF RSSpec

\* The replay store holds proof identifiers only, and a check has local
\* variables exactly when it has begun.
THEOREM RSTypeCorrect == RSSpec => []RSTypeOK
  <1>1. Standing => RSTypeOK
    BY DEF Standing
  <1> QED
    BY <1>1, StandingInvariant, PTL

\* A DPoP proof admits one check, however many checks race with it.
THEOREM ProofOnceHolds == RSSpec => []ProofOnce
  <1>1. Standing => ProofOnce
    BY DEF Standing
  <1> QED
    BY <1>1, StandingInvariant, PTL

\* No permitted request goes beyond what the principal signed.
THEOREM DelegationHonouredHolds == RSSpec => []DelegationHonoured
  <1>1. Standing => DelegationHonoured
    BY DEF Standing
  <1> QED
    BY <1>1, StandingInvariant, PTL
-----------------------------------------------------------------------------
(* A token is not a one-time ticket.  The issuer never takes a revocation  *)
(* back, and on that the argument rests: a check denied then would be      *)
(* denied now, and one permitted then would be permitted now if nothing    *)
(* were revoked.                                                           *)

\* The options of a check when no status reference is revoked.
Unrevoked(q) == [CheckOptions(q) EXCEPT !.revoked = {}]

Verdict(c) ==
  /\ cpc[c] = "permitted" => Validate(chk[c].t, Unrevoked(chk[c]))
  /\ cpc[c] = "denied" => ~Validate(chk[c].t, CheckOptions(chk[c]))

VerdictsStand == \A c \in Checks : Verdict(c)

\* Validate has no test that time, a missing proof of possession or a shorter
\* revocation list could turn from success to failure: what passed with the
\* options o passes with options p that ask no more.
LEMMA ValidateMonotone ==
  ASSUME NEW t \in OuterClaims, NEW o, NEW p,
         o.at \in Nat, p.at \in Nat, p.at <= o.at,
         p.aud = o.aud, p.cap = o.cap, p.pa = o.pa, p.met = o.met,
         p.checker = o.checker, p.shallow = o.shallow,
         p.presenter = o.presenter \/ p.presenter = NoKey,
         t.status # NoStatus => t.status \notin p.revoked,
         Validate(t, o)
  PROVE  Validate(t, p)
  <1>1. DAStep(t, p)
    <2>1. t.da # NoDA => t.da.ts \in Nat /\ t.da.lifetime \in Nat
      BY DelegationsAssumption DEF OuterClaims, DAClaims
    <2> QED
      BY <2>1 DEF Validate, DAStep, ValidDA, DAExp
  <1>2. p.at <= t.exp
    BY DEF Validate, OuterClaims
  <1>3. StatusStep(t, p)
    BY DEF Validate, StatusStep
  <1>4. PresenterStep(t, p)
    BY DEF Validate, PresenterStep
  <1>5. EvaluateConstraints(t, p) /\ CheckDepth(t, p) /\ CapabilityStep(t, p)
    BY DEF Validate, EvaluateConstraints, CheckDepth, CapabilityStep
  <1> QED
    BY <1>1, <1>2, <1>3, <1>4, <1>5 DEF Validate

\* A check that passes with the revocation list passes without it.
LEMMA RevocationOnlyDenies ==
  ASSUME NEW q \in CheckLocals, Validate(q.t, CheckOptions(q))
  PROVE  Validate(q.t, Unrevoked(q))
  <1> DEFINE o == CheckOptions(q)
             p == Unrevoked(q)
  <1>1. /\ o.at = q.at /\ p.at = q.at /\ p.aud = o.aud /\ p.cap = o.cap
        /\ p.pa = o.pa /\ p.met = o.met /\ p.checker = o.checker
        /\ p.shallow = o.shallow /\ p.presenter = o.presenter
        /\ p.revoked = {}
    BY DEF Unrevoked, CheckOptions
  <1>2. q.t \in OuterClaims /\ q.at \in Nat
    BY DEF CheckLocals
  <1>3. Validate(q.t, o)
    OBVIOUS
  <1> HIDE DEF o, p
  <1>4. Validate(q.t, p)
    BY <1>1, <1>2, <1>3, ValidateMonotone
  <1> QED
    BY <1>4 DEF p

\* A revocation list that only grows keeps a denial.
LEMMA DenialStands ==
  ASSUME NEW q \in CheckLocals, status \subseteq status',
         ~Validate(q.t, CheckOptions(q))
  PROVE  ~Validate(q.t, [CheckOptions(q) EXCEPT !.revoked = status'])
  <1> DEFINE p == CheckOptions(q)
             o == [p EXCEPT !.revoked = status']
  <1>1. /\ o.at = q.at /\ p.at = q.at /\ p.aud = o.aud /\ p.cap = o.cap
        /\ p.pa = o.pa /\ p.met = o.met /\ p.checker = o.checker
        /\ p.shallow = o.shallow /\ p.presenter = o.presenter
        /\ p.revoked = status /\ o.revoked = status'
    BY DEF CheckOptions
  <1>2. q.t \in OuterClaims /\ q.at \in Nat
    BY DEF CheckLocals
  <1> HIDE DEF o, p
  <1>3. SUFFICES ASSUME Validate(q.t, o) PROVE Validate(q.t, p)
    BY DEF o, p
  <1>4. q.t.status # NoStatus => q.t.status \notin p.revoked
    BY <1>1, <1>3 DEF Validate, StatusStep
  <1> QED
    BY <1>1, <1>2, <1>3, <1>4, ValidateMonotone

\* A verdict is not disturbed by what happens to other checks or to the
\* status map.
LEMMA NextVerdictsStand ==
  Standing /\ VerdictsStand /\ [RSNext]_rsVars /\ [status \subseteq status']_status
    => VerdictsStand'
  <1> SUFFICES ASSUME Standing, VerdictsStand, [RSNext]_rsVars,
                      [status \subseteq status']_status
               PROVE  VerdictsStand'
    OBVIOUS
  <1>1. status \subseteq status'
    OBVIOUS
  <1>2. /\ cpc \in [Checks -> CheckPCs]
        /\ chk \in [Checks -> CheckLocals \cup {NoCheck}]
        /\ \A d \in Checks : cpc[d] # "idle" => chk[d] \in CheckLocals
    BY DEF Standing, RSTypeOK
  <1>3. ASSUME NEW d \in Checks, cpc'[d] = cpc[d], chk'[d] = chk[d]
        PROVE  Verdict(d)'
    <2>1. CASE cpc[d] = "permitted"
      <3>1. Validate(chk[d].t, Unrevoked(chk[d]))
        BY <2>1 DEF VerdictsStand, Verdict
      <3>2. Unrevoked(chk[d])' = Unrevoked(chk[d])
        <4>1. CheckOptions(chk[d])' = [CheckOptions(chk[d]) EXCEPT !.revoked = status']
          BY <1>3 DEF CheckOptions
        <4> QED
          BY <4>1 DEF Unrevoked
      <3> QED
        BY <1>3, <2>1, <3>1, <3>2 DEF Verdict
    <2>2. CASE cpc[d] = "denied"
      <3>1. chk[d] \in CheckLocals
        BY <1>2, <2>2
      <3>2. ~Validate(chk[d].t, CheckOptions(chk[d]))
        BY <2>2 DEF VerdictsStand, Verdict
      <3>3. \A q \in CheckLocals :
              ~Validate(q.t, CheckOptions(q))
                => ~Validate(q.t, [CheckOptions(q) EXCEPT !.revoked = status'])
        BY <1>1, DenialStands
      <3>4. CheckOptions(chk[d])' = [CheckOptions(chk[d]) EXCEPT !.revoked = status']
        BY <1>3 DEF CheckOptions
      <3>5. ~Validate(chk[d].t, [CheckOptions(chk[d]) EXCEPT !.revoked = status'])
        BY <3>1, <3>2, <3>3
      <3> QED
        BY <1>3, <2>2, <3>4, <3>5 DEF Verdict
    <2> QED
      BY <1>3, <2>1, <2>2 DEF Verdict
  <1>4. CASE UNCHANGED rsVars
    BY <1>3, <1>4 DEF rsVars, VerdictsStand, Verdict
  <1>5. ASSUME NEW c \in Checks, Receive(c) \/ VerifyDPoP(c)
        PROVE  VerdictsStand'
    <2>1. /\ \A d \in Checks \ {c} : cpc'[d] = cpc[d] /\ chk'[d] = chk[d]
          /\ cpc'[c] \notin {"permitted", "denied"}
      <3>1. CASE Receive(c)
        BY <1>2, <3>1 DEF Receive, Present
      <3>2. CASE VerifyDPoP(c)
        BY <1>2, <3>2 DEF VerifyDPoP
      <3> QED
        BY <1>5, <3>1, <3>2
    <2> QED
      BY <1>3, <2>1 DEF VerdictsStand, Verdict
  <1>6. ASSUME NEW c \in Checks, Decide(c)
        PROVE  VerdictsStand'
    <2> DEFINE q  == chk[c]
               ok == Validate(q.t, CheckOptions(q))
    <2>1. /\ cpc[c] = "decide" /\ UNCHANGED chk
          /\ \A d \in Checks \ {c} : cpc'[d] = cpc[d]
          /\ cpc'[c] = IF ok THEN "permitted" ELSE "denied"
      BY <1>2, <1>6 DEF Decide
    <2>2. q \in CheckLocals
      BY <1>2, <2>1
    <2>3. ok => Validate(q.t, Unrevoked(q)')
      <3>1. Unrevoked(q)' = Unrevoked(q)
        BY <2>1 DEF Unrevoked, CheckOptions
      <3>2. ok => Validate(q.t, Unrevoked(q))
        BY <2>2, RevocationOnlyDenies
      <3> QED
        BY <3>1, <3>2
    <2>4. ~ok => ~Validate(q.t, CheckOptions(q)')
      <3>1. \A l \in CheckLocals :
              ~Validate(l.t, CheckOptions(l))
                => ~Validate(l.t, [CheckOptions(l) EXCEPT !.revoked = status'])
        BY <1>1, DenialStands
      <3>2. CheckOptions(q)' = [CheckOptions(q) EXCEPT !.revoked = status']
        BY <2>1 DEF CheckOptions
      <3> QED
        BY <2>2, <3>1, <3>2
    <2> QED
      <3>1. Verdict(c)'
        BY <2>1, <2>3, <2>4 DEF Verdict
      <3> QED
        BY <1>3, <2>1, <3>1 DEF VerdictsStand
  <1> QED
    BY <1>4, <1>5, <1>6 DEF RSNext

\* Checks that ask the same of the same token get the same answer, up to the
\* passing of time and to revocation.
LEMMA VerdictsAgree == Standing /\ VerdictsStand => TokenReusable
  <1> SUFFICES ASSUME Standing, VerdictsStand, NEW c1 \in Checks, NEW c2 \in Checks,
                      cpc[c1] = "permitted", cpc[c2] = "denied",
                      ProvedAsMuch(c1, c2), chk[c1].t = chk[c2].t,
                      chk[c1].aud = chk[c2].aud, chk[c1].cap = chk[c2].cap,
                      chk[c1].met = chk[c2].met,
                      ~(chk[c2].at > chk[c1].at), chk[c2].t.status \notin status
               PROVE  FALSE
    BY DEF TokenReusable
  <1> DEFINE o == Unrevoked(chk[c1])
             p == CheckOptions(chk[c2])
  <1>1. chk[c1] \in CheckLocals /\ chk[c2] \in CheckLocals
    BY DEF Standing, RSTypeOK
  <1>2. /\ chk[c1].t \in OuterClaims /\ chk[c1].at \in Nat /\ chk[c2].at \in Nat
    BY <1>1 DEF CheckLocals
  <1>3. Validate(chk[c1].t, o) /\ ~Validate(chk[c1].t, p)
    BY DEF VerdictsStand, Verdict
  <1>4. /\ o.at = chk[c1].at /\ p.at = chk[c2].at /\ p.aud = o.aud /\ p.cap = o.cap
        /\ p.pa = o.pa /\ p.met = o.met /\ p.checker = o.checker
        /\ p.shallow = o.shallow /\ p.revoked = status
        /\ p.presenter = o.presenter \/ p.presenter = NoKey
    BY DEF Unrevoked, CheckOptions, ProvedAsMuch
  <1> HIDE DEF o, p
  <1> QED
    BY <1>2, <1>3, <1>4, ValidateMonotone

\* Presenting a token does not use it up: where revocations are never taken
\* back, a check that proves as much is denied what another was permitted only
\* for being later or for a revocation.
THEOREM TokenReusableHolds == RSSpec /\ RevocationsStand => []TokenReusable
  <1>1. RSInit => VerdictsStand
    BY DEF RSInit, VerdictsStand, Verdict
  <1>2. Standing /\ VerdictsStand /\ [RSNext]_rsVars
          /\ [status \subseteq status']_status => VerdictsStand'
    BY NextVerdictsStand
  <1>3. Standing /\ VerdictsStand => TokenReusable
    BY VerdictsAgree
  <1> QED
    BY <1>1, <1>2, <1>3, StandingInvariant, PTL DEF RSSpec, RevocationsStand

=============================================================================
