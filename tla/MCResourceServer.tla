--------------------------- MODULE MCResourceServer ---------------------------
(***************************************************************************)
(* A small instance of ResourceServer in an environment that lets time     *)
(* pass and revokes status references.  The tokens are those the issuer    *)
(* can sign: issued from a DA, exchanged (narrowed, and constraints        *)
(* dropped), carrying a status reference, deeper than one hop, and another *)
(* issuer's.                                                               *)
(***************************************************************************)
EXTENDS ResourceServer, TLC

CONSTANTS
  r1, n1, n2, k1, k2, alice, agent1, read, write, quota, rs, uri,
  q1, q2, p1, p2, post, get, MaxTime

Bound ==
  [nonce |-> n1, principal |-> alice, agent |-> agent1, mode |-> "authorized",
   ver |-> 3, binding |-> k1, caps |-> {read}, constraints |-> {quota},
   aud |-> {AS}, ts |-> 0, lifetime |-> 1, intact |-> TRUE]

Legacy ==
  [Bound EXCEPT !.nonce = n2, !.mode = "representative", !.ver = 2,
                !.binding = NoKey, !.constraints = {}]

AllDelegations == {Bound, Legacy}

FromBound ==
  [iss |-> AS, sub |-> agent1, act |-> NoOne, aud |-> {rs}, iat |-> 0,
   exp |-> 1, jti |-> n1, cnf |-> k1, mode |-> "authorized",
   principal |-> alice, caps |-> {read}, constraints |-> {quota},
   da |-> Bound, status |-> NoStatus, chain |-> 0, max |-> 0]

FromLegacy ==
  [FromBound EXCEPT !.sub = alice, !.act = agent1, !.jti = n2, !.da = Legacy,
                    !.mode = "representative", !.constraints = {}]

Exchanged == [FromBound EXCEPT !.jti = r1, !.constraints = {}]

Listed ==
  [FromBound EXCEPT !.da = NoDA, !.jti = r1, !.constraints = {},
                    !.caps = {read, write}, !.status = uri, !.exp = 3]

Deep    == [Listed EXCEPT !.status = NoStatus, !.exp = 2, !.max = 2]
Foreign == [FromBound EXCEPT !.iss = rs]

Tokens == {FromBound, FromLegacy, Exchanged, Listed, Deep, Foreign}

FreshProof ==
  [jti |-> p1, key |-> k1, target |-> post, iat |-> 0, ath |-> NoAth,
   intact |-> TRUE]

AllProofs ==
  {FreshProof,
   [FreshProof EXCEPT !.key = k2, !.ath = n1],
   [FreshProof EXCEPT !.jti = p2, !.iat = 2]}

AlicePA ==
  [principal |-> alice, representative |-> TRUE, grants |-> {read},
   constraints |-> {quota}]

Reflexive  == {<<c, c>> : c \in Capabilities}
AnyContext == {{}, {quota}}
CheckSymmetry == Permutations(Checks)

-----------------------------------------------------------------------------
Elapse ==
  /\ now < MaxTime
  /\ now' = now + 1
  /\ UNCHANGED <<status, wire>>

Withdraw ==
  /\ \E id \in StatusURIs : status' = status \cup {id}
  /\ UNCHANGED <<now, wire>>

ClosedInit == RSInit /\ now = 0 /\ status = {} /\ wire = Tokens

ClosedNext ==
  \/ RSNext /\ UNCHANGED <<now, status, wire>>
  \/ (Elapse \/ Withdraw) /\ UNCHANGED rsVars

ClosedSpec == ClosedInit /\ [][ClosedNext]_<<rsVars, now, status, wire>>
=============================================================================
