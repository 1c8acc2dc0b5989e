----------------------------- MODULE MCSession -----------------------------
(* Two calls of any kind that meet, and a third to overtake them. *)
EXTENDS Session
=============================================================================
