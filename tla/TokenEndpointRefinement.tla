----------------------- MODULE TokenEndpointRefinement -----------------------
(***************************************************************************)
(* The token endpoint implements DelegationGrants.  The server keeps       *)
(* neither map: a grant's state is read off the nonce store and the calls  *)
(* that got past it, a ticket's off the code map.  Two locks, several      *)
(* goroutines and three flows look like one step at a time.                *)
(***************************************************************************)
EXTENDS TokenEndpoint

\* Some call that got past the nonce store with nonce n stands at state s.
HeldAt(n, s) ==
  \E r \in Requests : /\ pc[r] = s
                      /\ req[r].flow \in DAFlows
                      /\ req[r].da.nonce = n

GrantOf(n) ==
  IF n \notin nonces        THEN "fresh"
  ELSE IF HeldAt(n, "sign") THEN "claimed"
  ELSE IF HeldAt(n, "granted") THEN "minted"
  ELSE "burnt"

TicketOf(c) ==
  IF codes[c] = NoCode  THEN "unissued"
  ELSE IF codes[c].used THEN "spent"
  ELSE "open"

DG == INSTANCE DelegationGrants WITH
        grant  <- [n \in Nonces |-> GrantOf(n)],
        ticket <- [c \in Codes |-> TicketOf(c)]

\* A DA is claimed once, ends in one token or none, and never comes back; a
\* code is spent once.
ImplementsGrants == DG!Spec

\* The same, and every claim is settled.
ImplementsGrantsFairly == DG!FairSpec
=============================================================================
