----------------------------- MODULE MCClientEvents -----------------------------
(***************************************************************************)
(* Model-checking instance of ClientEvents.                                *)
(***************************************************************************)
EXTENDS ClientEvents
=============================================================================
