-------------------------- MODULE MCAddressSearch --------------------------
(* Two places for the two ends, and two of them tapped before either answers. *)
EXTENDS AddressSearch, TLC

CONSTANTS ikeja, lekki, t1, t2

Symmetric == Permutations({ikeja, lekki}) \cup Permutations({t1, t2})
=============================================================================
