-------------------------- MODULE MCRideTracking --------------------------
(* Two calls in flight, of which the older may be answered last. *)
EXTENDS RideTracking
=============================================================================
