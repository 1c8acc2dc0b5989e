----------------------------- MODULE MCOutages -----------------------------
(* Both outages, with two home screens that listen and room for their screens. *)
EXTENDS Outages
=============================================================================
