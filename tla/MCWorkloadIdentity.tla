------------------------- MODULE MCWorkloadIdentity -------------------------
(***************************************************************************)
(* Instances of WorkloadIdentity for TLC.                                  *)
(***************************************************************************)
EXTENDS WorkloadIdentity, TLC

CONSTANTS agent1, agent2, alice, bob, read, part

DAOf(principal, mode, caps) ==
  [agent |-> agent1, principal |-> principal, mode |-> mode, caps |-> caps,
   lifetime |-> 1, intact |-> TRUE]

\* One DA of each mode; the second asks for less than its principal may grant.
TwoModes ==
  {DAOf(alice, "authorized", {part}), DAOf(alice, "representative", {part})}

\* A DA that no PA of its principal covers in full, one of a lifetime out of range and
\* one whose bytes do not verify are refused whatever else is in circulation.
Circulating ==
  TwoModes \cup
  {DAOf(bob, "representative", {read, part}),
   [DAOf(alice, "authorized", {read}) EXCEPT !.lifetime = 0],
   [DAOf(alice, "authorized", {read}) EXCEPT !.intact = FALSE]}

PAOf(principal, signer, caps) ==
  [principal |-> principal, signer |-> signer, grants |-> caps,
   intact |-> TRUE]

\* The second grant covers a part of what bob asks, and the third, which bob
\* made out in the name of alice, less than alice's own.
SomeGrants ==
  {PAOf(alice, alice, {read}), PAOf(bob, bob, {part}),
   PAOf(alice, bob, {part})}

\* part is a restriction of read (a narrower id or smaller parameters).
Narrower == {<<read, read>>, <<part, part>>, <<part, read>>}

VerificationSymmetry == Permutations(Verifications)
=============================================================================
