--------------------------- MODULE MCTokenEndpoint ---------------------------
(***************************************************************************)
(* Small instances of TokenEndpoint: two agents' keys, two capabilities,   *)
(* DAs of both modes and both versions, one of them for another server.    *)
(***************************************************************************)
EXTENDS TokenEndpointRefinement, TLC

CONSTANTS
  r1, r2, r3, n1, n2, k1, k2, alice, agent1, agent2, read, write, quota,
  as2, rs, c1, app, other, v1, v2, uri

\* Signed at time 0 for two seconds, bound to key k1, agent1 acting alone.
Bound ==
  [nonce |-> n1, principal |-> alice, agent |-> agent1, mode |-> "authorized",
   ver |-> 3, binding |-> k1, caps |-> {read, write}, constraints |-> {quota},
   aud |-> {AS}, ts |-> 0, lifetime |-> 2, intact |-> TRUE]

\* The legacy claim set, agent1 acting for alice, expiring at time 1.
Legacy ==
  [Bound EXCEPT !.nonce = n2, !.mode = "representative", !.ver = 2,
                !.binding = NoKey, !.lifetime = 1]

\* The same nonce in a DA for another server: it fails after the nonce check.
Elsewhere == [Bound EXCEPT !.aud = {as2}]

\* Not signed by alice's key.
Broken == [Legacy EXCEPT !.intact = FALSE]

Grants == {Bound, Legacy, Elsewhere}

Consents ==
  {[agent |-> agent1, principal |-> alice, caps |-> {read},
    constraints |-> {quota}]}

Credentials ==
  {[iss |-> AS, aud |-> {AS}, iat |-> 0, exp |-> 2, grants |-> {read}],
   [iss |-> AS, aud |-> {AS}, iat |-> 2, exp |-> 3, grants |-> {read, write}],
   [iss |-> AS, aud |-> {rs}, iat |-> 0, exp |-> 3, grants |-> {write}]}

RaceDelegations     == Grants
CodeDelegations     == {Bound, Legacy, Broken}

Reflexive == {<<c, c>> : c \in Capabilities}

ToResource == {{rs}}

\* For both servers, and for this one with an empty string beside it.
ToAny == {{rs, AS}, {AS, Blank}}

RequestSymmetry == Permutations(Requests)
=============================================================================
