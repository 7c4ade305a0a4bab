--------------------------- MODULE DelegationGrants ---------------------------
(***************************************************************************)
(* What the token endpoint promises about delegation authorizations, with  *)
(* no requests, locks or tokens: a DA is a one-time grant.  It is claimed  *)
(* at most once; a claim ends in one token or in none; and a grant that    *)
(* was claimed never becomes available again.  An authorization code is a  *)
(* second one-time ticket, opened at consent and spent once.               *)
(***************************************************************************)
CONSTANTS Nonces, Codes

VARIABLES
  grant,   \* the grants, by nonce
  ticket   \* the authorization codes

vars == <<grant, ticket>>

GrantStates  == {"fresh", "claimed", "minted", "burnt"}
TicketStates == {"unissued", "open", "spent"}

TypeOK ==
  /\ grant \in [Nonces -> GrantStates]
  /\ ticket \in [Codes -> TicketStates]

Init ==
  /\ grant = [n \in Nonces |-> "fresh"]
  /\ ticket = [c \in Codes |-> "unissued"]

Move(n, from, to) ==
  /\ grant[n] = from
  /\ grant' = [grant EXCEPT ![n] = to]
  /\ UNCHANGED ticket

Claim(n) == Move(n, "fresh", "claimed")
Mint(n)  == Move(n, "claimed", "minted")
Burn(n)  == Move(n, "claimed", "burnt")

Punch(c, from, to) ==
  /\ ticket[c] = from
  /\ ticket' = [ticket EXCEPT ![c] = to]
  /\ UNCHANGED grant

Open(c)  == Punch(c, "unissued", "open")
Spend(c) == Punch(c, "open", "spent")

Next ==
  \/ \E n \in Nonces : Claim(n) \/ Mint(n) \/ Burn(n)
  \/ \E c \in Codes : Open(c) \/ Spend(c)

Spec == Init /\ [][Next]_vars

\* A claim does not stay open.
FairSpec == Spec /\ \A n \in Nonces : WF_vars(Mint(n) \/ Burn(n))
=============================================================================
