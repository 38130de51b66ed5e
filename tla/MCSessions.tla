------------------------------- MODULE MCSessions -------------------------------
(***************************************************************************)
(* Model-checking instance of Sessions.                                    *)
(***************************************************************************)
EXTENDS Sessions, TLC

Symmetry == Permutations(Clients)
=============================================================================
