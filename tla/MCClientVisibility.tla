------------------------- MODULE MCClientVisibility -------------------------
(***************************************************************************)
(* Model-checking instance of ClientVisibility: entities are model values  *)
(* and interchangeable.                                                    *)
(***************************************************************************)
EXTENDS ClientVisibility, TLC

AllPolicies == Policies
OnlyBlacklist == {"Blacklist"}
OnlyWhitelist == {"Whitelist"}

Symmetry == Permutations(Entities)
=============================================================================
