---------------------------- MODULE ResourceServer ----------------------------
(***************************************************************************)
(* The resource server of oauth.go: ResourceServer.Check and VerifyDPoP.   *)
(*                                                                         *)
(* A check runs in a goroutine of its own.  It touches shared state twice: *)
(* the replay store of DPoP proofs (its own mutex), and the issuer's       *)
(* status map (the issuer's mutex, through StatusChecker):                 *)
(*                                                                         *)
(*   idle --Present--> prove --VerifyDPoP--> decide --Decide--> verdict    *)
(*                                                                         *)
(* A proof that does not hold ends the check as "unproved", a token that   *)
(* does not as "denied": the code returns a different error for each.      *)
(* A request without a proof goes straight to decide: possession of the    *)
(* key is then not checked at all.                                         *)
(***************************************************************************)
EXTENDS AICClaims

CONSTANTS
  Checks,      \* calls of Check, each used once
  Proofs,      \* DPoP proofs in circulation
  ProofIds,    \* their jti values
  Targets,     \* method and URL of a request
  Requested,   \* capabilities (or NoCap) requests ask for
  Contexts,    \* sets of constraints a request context may satisfy
  Window,      \* DPoP freshness window (five minutes)
  MaxCheckLag, \* bound on how stale a check's clock reading is
  PA,          \* the principal authorization on file, or NoPA
  HasChecker,  \* whether a status checker is configured
  Shallow,     \* RejectDepthGT1
  NoProof, NoAth, NoCheck

VARIABLES
  now,     \* wall clock
  status,  \* revoked identifiers, kept by the issuer
  wire,    \* the tokens in circulation
  replay,  \* ResourceServer.NonceStore: jti of the proofs seen
  cpc,     \* where each check stands
  chk      \* the local variables of each check

rsVars == <<replay, cpc, chk>>

Proof ==
  [jti: ProofIds, key: Keys, target: Targets, iat: Nat,
   ath: TokenIds \cup {NoAth}, intact: BOOLEAN]

ASSUME ProofAssumption ==
  /\ Proofs \subseteq Proof
  /\ NoProof \notin Proofs
ASSUME CheckBounds ==
  /\ Window \in Nat /\ MaxCheckLag \in Nat
  /\ HasChecker \in BOOLEAN /\ Shallow \in BOOLEAN
  /\ Contexts \subseteq SUBSET Constraints
  /\ Requested \subseteq Capabilities \cup {NoCap}

CheckPCs ==
  {"idle", "prove", "unproved", "decide", "permitted", "denied"}

\* The local variables of a check.
CheckLocals ==
  [t: OuterClaims, proof: Proofs \cup {NoProof}, target: Targets,
   aud: Audiences, cap: Requested, met: Contexts, at: Nat]

RSTypeOK ==
  /\ replay \subseteq ProofIds
  /\ cpc \in [Checks -> CheckPCs]
  /\ chk \in [Checks -> CheckLocals \cup {NoCheck}]
  /\ \A c \in Checks : cpc[c] = "idle" <=> chk[c] = NoCheck

ASSUME NoCheckAssumption == NoCheck \notin CheckLocals

RSInit ==
  /\ replay = {}
  /\ cpc = [c \in Checks |-> "idle"]
  /\ chk = [c \in Checks |-> NoCheck]

-----------------------------------------------------------------------------
Present(c, t, proof, target, aud, cap, met, at) ==
  /\ cpc[c] = "idle"
  /\ chk' = [chk EXCEPT ![c] =
       [t |-> t, proof |-> proof, target |-> target, aud |-> aud,
        cap |-> cap, met |-> met, at |-> at]]
  /\ cpc' = [cpc EXCEPT ![c] = IF proof = NoProof THEN "decide" ELSE "prove"]
  /\ UNCHANGED replay

Distance(a, b) == IF a > b THEN a - b ELSE b - a

\* Everything VerifyDPoP tests before it consults the replay store; ath is
\* compared only when the proof carries it.
ProofFits(q) ==
  /\ q.proof.intact
  /\ q.proof.target = q.target
  /\ q.proof.ath # NoAth => q.proof.ath = q.t.jti
  /\ Distance(q.at, q.proof.iat) <= Window

\* The options Check passes to Validate: no nonce store, so that a token may
\* be presented again; the status map is read when the pipeline gets there.
CheckOptions(q) ==
  [at |-> q.at, aud |-> {q.aud},
   presenter |-> IF q.proof = NoProof THEN NoKey ELSE q.proof.key,
   cap |-> q.cap, pa |-> PA, met |-> q.met, revoked |-> status,
   checker |-> HasChecker, shallow |-> Shallow]

\* Mutant: the proof is recorded once the token has been accepted.
VerifyDPoPLate(c) ==
  /\ cpc[c] = "prove"
  /\ ProofFits(chk[c]) /\ chk[c].proof.jti \notin replay
  /\ cpc' = [cpc EXCEPT ![c] = "decide"]
  /\ replay' = IF Validate(chk[c].t, CheckOptions(chk[c]))
               THEN replay \cup {chk[c].proof.jti} ELSE replay
  /\ UNCHANGED chk

\* Mutant: ath is recorded instead of jti.
VerifyDPoPRecordsAth(c) ==
  /\ cpc[c] = "prove"
  /\ ProofFits(chk[c])
  /\ replay' = replay \cup {chk[c].proof.ath}
  /\ cpc' = [cpc EXCEPT ![c] = "decide"]
  /\ UNCHANGED chk

VerifyDPoP(c) ==
  LET q  == chk[c]
      ok == ProofFits(q) /\ q.proof.jti \notin replay
  IN  /\ cpc[c] = "prove"
      /\ \/ /\ ok
            /\ replay' = replay \cup {q.proof.jti}
            /\ cpc' = [cpc EXCEPT ![c] = "decide"]
         \/ /\ ~ok
            /\ cpc' = [cpc EXCEPT ![c] = "unproved"]
            /\ UNCHANGED replay
      /\ UNCHANGED chk

\* Mutant: Validate is given the nonce store, so a token passes once.
DecideOnce(c) ==
  /\ cpc[c] = "decide"
  /\ cpc' = [cpc EXCEPT ![c] =
       IF /\ Validate(chk[c].t, CheckOptions(chk[c]))
          /\ \A d \in Checks : cpc[d] = "permitted"
                               => chk[d].t.jti # chk[c].t.jti
       THEN "permitted" ELSE "denied"]
  /\ UNCHANGED <<replay, chk>>

Decide(c) ==
  /\ cpc[c] = "decide"
  /\ cpc' = [cpc EXCEPT ![c] =
       IF Validate(chk[c].t, CheckOptions(chk[c])) THEN "permitted"
       ELSE "denied"]
  /\ UNCHANGED <<replay, chk>>

-----------------------------------------------------------------------------
Receive(c) ==
  \E t \in wire, proof \in Proofs \cup {NoProof}, target \in Targets,
     aud \in Audiences, cap \in Requested, met \in Contexts,
     at \in {u \in 0..now : now - u <= MaxCheckLag} :
    Present(c, t, proof, target, aud, cap, met, at)

RSNext == \E c \in Checks : Receive(c) \/ VerifyDPoP(c) \/ Decide(c)

\* The resource server in any environment: clock, status map and tokens in
\* circulation may change in any way between its steps, the tokens in
\* circulation being the issuer's.
Surroundings == now \in Nat /\ wire \subseteq OuterClaims

RSSpec == RSInit /\ [][RSNext]_rsVars /\ []Surroundings

\* An environment that never takes a revocation back: Revoke only adds.
RevocationsStand == [][status \subseteq status']_status

-----------------------------------------------------------------------------
(* Properties.                                                             *)

\* A check that got past VerifyDPoP with a proof, whatever its verdict.
Proved(c) ==
  cpc[c] \in {"decide", "permitted", "denied"} /\ chk[c].proof # NoProof

\* A proof admits one check: of all checks with the same proof jti, concurrent
\* or not, at most one gets past VerifyDPoP.  If its token is refused later on,
\* the proof is spent all the same.
ProofOnce ==
  \A c1, c2 \in Checks :
    Proved(c1) /\ Proved(c2) /\ chk[c1].proof.jti = chk[c2].proof.jti
    => c1 = c2

\* Check c1 proved no less than c2: c2 brought no proof, or one by the key of
\* the proof of c1.
ProvedAsMuch(c1, c2) ==
  \/ chk[c2].proof = NoProof
  \/ /\ chk[c1].proof # NoProof
     /\ chk[c1].proof.key = chk[c2].proof.key

\* A token is not a one-time ticket: a check that asks what a permitted check
\* asked, with a clock reading no later, a proof (where it brings one) by the
\* same key and a token that is not revoked, is not denied for having been
\* asked before.  The DA nonce and the token jti play no part at the resource
\* server; only the jti of a DPoP proof does, and it ends a check earlier.
TokenReusable ==
  \A c1, c2 \in Checks :
    /\ cpc[c1] = "permitted" /\ cpc[c2] = "denied"
    /\ ProvedAsMuch(c1, c2)
    /\ chk[c1].t = chk[c2].t /\ chk[c1].aud = chk[c2].aud
    /\ chk[c1].cap = chk[c2].cap /\ chk[c1].met = chk[c2].met
    => \/ chk[c2].at > chk[c1].at
       \/ chk[c2].t.status \in status

\* What a resource server permits, the principal's signature covers: the
\* capability is allowed by the DA, each constraint of the DA is met, the DA
\* has not expired and, where possession was proved, the key is the one the
\* principal bound.
DelegationHonoured ==
  \A c \in Checks :
    LET q == chk[c] IN
    cpc[c] = "permitted" /\ q.t.da # NoDA =>
      /\ q.cap # NoCap => MatchCapabilities(q.t.da.caps, q.cap)
      /\ q.t.da.constraints \subseteq q.met
      /\ q.at <= DAExp(q.t.da)
      /\ q.proof # NoProof /\ q.t.da.ver = 3 => q.proof.key = q.t.da.binding

\* draft-wei-aic-jwt-02 Section 11 step 8: in representative mode a permitted
\* request satisfies the PA constraints as well.
PAConstraintsHonoured ==
  \A c \in Checks :
    cpc[c] = "permitted" /\ chk[c].t.mode = "representative"
      => PA.constraints \subseteq chk[c].met
=============================================================================
