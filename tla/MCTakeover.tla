----------------------------- MODULE MCTakeover -----------------------------
(* Takeover with two serve processes. *)
EXTENDS Takeover
CONSTANTS s1, s2
TwoServes == {s1, s2}

\* Bound: an execution is followed until the only copy of the user's setting
\* is deleted.  "lost" stays, and no property says anything from there on.
NotLost == ~lost
=============================================================================
