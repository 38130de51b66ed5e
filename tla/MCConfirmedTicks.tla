-------------------------- MODULE MCConfirmedTicks --------------------------
(***************************************************************************)
(* Model-checking instances of ConfirmedTicks: the module has no constants *)
(* but numbers.                                                            *)
(***************************************************************************)
EXTENDS ConfirmedTicks
=============================================================================
