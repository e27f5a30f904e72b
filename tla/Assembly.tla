------------------------------ MODULE Assembly ------------------------------
(***************************************************************************)
(* What a download promises, whatever channels it goes through: the file   *)
(* grows block by block, all of its blocks are those of one copy in their  *)
(* places, it is called done only when that copy is complete, and in the   *)
(* end it is done or reported as failed.  Download implements this.        *)
(***************************************************************************)
EXTENDS Integers, Sequences

CONSTANTS
    Copies, \* versions of the file that a server may hold
    Length  \* number of blocks of each

VARIABLES
    file,   \* the blocks on disk: <<copy, number>>
    state   \* "busy", "done" or "failed"

vars == <<file, state>>

PrefixOf(c) == \A i \in 1..Len(file) : file[i] = <<c, i>>
Whole(c)    == Len(file) = Length[c] /\ PrefixOf(c)

Init == file = <<>> /\ state = "busy"

Write ==
    /\ state = "busy"
    /\ \E c \in Copies : /\ PrefixOf(c) /\ Len(file) < Length[c]
                         /\ file' = Append(file, <<c, Len(file) + 1>>)
    /\ UNCHANGED state

Finish ==
    /\ state = "busy"
    /\ \E c \in Copies : Whole(c)
    /\ state' = "done"
    /\ UNCHANGED file

Fail ==
    /\ state = "busy"
    /\ state' = "failed"
    /\ UNCHANGED file

Next == Write \/ Finish \/ Fail

SafeSpec == Init /\ [][Next]_vars
Spec     == SafeSpec /\ WF_vars(Finish \/ Fail)
=============================================================================
