----------------------------- MODULE MCChannel -----------------------------
(* Channel with a small window, short deadlines and three-bit durations. *)
EXTENDS Channel
CONSTANTS loop, api
Auto     == {"auto"}
LoopOnly == {loop}
Both     == {loop, api}
=============================================================================
