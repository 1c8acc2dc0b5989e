---------------------------- MODULE MCRideBooking ----------------------------
(* Small instances of RideBooking for TLC. *)
EXTENDS RideBooking, TLC

Symmetry == Permutations(Panels) \cup Permutations(Orders)
=============================================================================
