--------------------------- MODULE MCBookingWidget ---------------------------
(* Small instances of BookingWidget for TLC: a wait of three seconds, a poll
   on every second tick. *)
EXTENDS BookingWidget, TLC

Symmetry == Permutations(Orders) \cup Permutations(Panels)
=============================================================================
