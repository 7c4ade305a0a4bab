------------------------ MODULE MCAuthorizationSystem ------------------------
(***************************************************************************)
(* Small instances of AuthorizationSystem: the delegations, consents and   *)
(* credentials of MCTokenEndpoint, and a resource server that is asked for *)
(* one or two capabilities in one of two contexts.                         *)
(***************************************************************************)
EXTENDS AuthorizationSystem, MCTokenEndpoint

CONSTANTS q1, q2, p1, p2, post, get

\* A fresh proof by the bound key, one by another key, for another request.
ProofOf(id, key, target) ==
  [jti |-> id, key |-> key, target |-> target, iat |-> 0, ath |-> NoAth,
   intact |-> TRUE]

SystemProofs == {ProofOf(p1, k1, post), ProofOf(p1, k2, post)}

\* alice lets agent1 represent her within read and write.
AlicePA ==
  [principal |-> alice, representative |-> TRUE, grants |-> {read, write},
   constraints |-> {quota}]

AnyContext == {{}, {quota}}
FullContext == {{quota}}
AskRead    == {read}
AskEither  == {read, write}

UnconstrainedLegacy == {[Legacy EXCEPT !.constraints = {}]}
BoundDelegations   == {[Bound EXCEPT !.constraints = {}, !.caps = {read}]}

\* An unconstrained DA, whose token may be exchanged for one that is accepted,
\* and a constrained one, whose token may not.
ChainDelegations ==
  {[Bound EXCEPT !.lifetime = 1, !.constraints = {}, !.caps = {read}],
   [Legacy EXCEPT !.mode = "authorized", !.caps = {read}, !.lifetime = 2]}

\* alice's own token, good for read.
OneCredential ==
  {[iss |-> AS, aud |-> {AS}, iat |-> 0, exp |-> 2, grants |-> {read}]}

SystemSymmetry == Permutations(Requests) \cup Permutations(Checks)
=============================================================================
