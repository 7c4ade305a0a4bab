------------------------------ MODULE MCDemoPage ------------------------------
(***************************************************************************)
(* Instance of DemoPage for TLC.                                           *)
(***************************************************************************)
EXTENDS DemoPage, TLC

CONSTANTS anyQuery, reset, select, drop

\* query:* grants query:SELECT; admin:reset grants itself; nothing grants
\* admin:drop.
GrantsSelect == {<<anyQuery, select>>, <<reset, reset>>}
Reflexive    == {<<c, c>> : c \in Capabilities}

CallSymmetry == Permutations(Calls)
=============================================================================
