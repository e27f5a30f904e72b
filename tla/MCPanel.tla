------------------------------ MODULE MCPanel ------------------------------
(* Panel with two connections, of which the hub admits one at a time, and a
   buffer of one frame. *)
EXTENDS Panel, TLC
=============================================================================
