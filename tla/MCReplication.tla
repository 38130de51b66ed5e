--------------------------- MODULE MCReplication ---------------------------
(***************************************************************************)
(* Model-checking instances of Replication.                                *)
(***************************************************************************)
EXTENDS Replication, TLC

VisibleToAll == {"All"}
Selective == {"Whitelist"}
AllPolicies == Policies

Symmetry == Permutations(Entities) \cup Permutations(Components)
=============================================================================
