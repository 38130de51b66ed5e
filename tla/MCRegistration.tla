----------------------------- MODULE MCRegistration -----------------------------
(***************************************************************************)
(* Model-checking instance of Registration.                                *)
(***************************************************************************)
EXTENDS Registration, TLC

CONSTANTS c1, c2

\* Every group of the components; the order within a group does not matter to
\* its rule.
AllGroups == {<<c1>>, <<c2>>, <<c2, c1>>}

Symmetry == Permutations(Markers)
=============================================================================
