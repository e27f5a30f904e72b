------------------------------ MODULE Download ------------------------------
(***************************************************************************)
(* One download of engine/get: Downloader.Get fetches a file over channel  *)
(* A (the best address of the origin) or B (a CDN prefix), judges A slow   *)
(* by its first answer or its first window, and resumes with a range       *)
(* request on the other channel after an error.  What a server answers is  *)
(* chosen here: B's nodes may hold other copies than the origin, a server  *)
(* may leave headers out or ignore the range, and anything may break.      *)
(*                                                                         *)
(* The file is written at the offset the segments add up to, so it is a    *)
(* sequence of blocks and the offset is its length.  A block stands for    *)
(* what one Read delivers.  Progress callbacks, rates and segment reports  *)
(* are left out.                                                           *)
(***************************************************************************)
EXTENDS Integers, Sequences

CONSTANTS
    Copies,      \* versions of the file that a server may hold
    Length,      \* number of blocks of each
    Tag,         \* ETag of each
    Serves,      \* the copies that channel "A" and channel "B" may answer with
    HasB,        \* is there a channel B
    MaxSwitches, \* Config.MaxSwitches
    ProbeWindow, \* Config.ProbeBytes, in blocks
    BigFile,     \* Config.BigFile, in blocks
    Quirks,      \* what servers do: leave out the total ("no_total") or the tag
                 \* ("no_tag"), answer a range with all ("no_range"), end early ("cut")
    None

ASSUME DownloadAssumption ==
    /\ Length \in [Copies -> Nat \ {0}]
    /\ \A c \in Copies : Tag[c] # None
    /\ Serves \in [{"A", "B"} -> SUBSET Copies]
    /\ None \notin Copies
    /\ HasB \in BOOLEAN /\ MaxSwitches \in Nat \ {0}
    /\ ProbeWindow \in Nat \ {0} /\ BigFile \in Nat
    /\ ProbeWindow <= BigFile

VARIABLES
    pc,       \* "create", "request", "body", "done" or "failed"
    cur,      \* the channel of this segment
    switches, \* changes of channel so far
    window,   \* blocks left of the window that judges A, 0 = not judging
    total,    \* Result.TotalBytes in blocks, 0 = unknown
    tag,      \* Result.ETag
    file,     \* the blocks written: <<copy, number>>
    resp      \* the answer being read: its copy and the next block of its body

vars == <<pc, cur, switches, window, total, tag, file, resp>>

NoResp == [copy |-> None, next |-> 0, total |-> 0, tag |-> None]
Other(ch) == IF ch = "A" THEN "B" ELSE "A"

\* The answer contradicts what earlier answers declared; unknown is not compared.
OtherTotal(r) == total > 0 /\ r.total > 0 /\ r.total # total
OtherTag(r)   == tag # None /\ r.tag # None /\ r.tag # tag

\* Bug variant: only the totals are compared.
MismatchTotal(r) == OtherTotal(r)

Mismatch(r) == OtherTotal(r) \/ OtherTag(r)

\* What Get keeps of an answer, an answer that it refused included.
Adopt(r) ==
    /\ total' = IF total = 0 THEN r.total ELSE total
    /\ tag' = IF tag = None THEN r.tag ELSE tag

MaySwitch == HasB /\ switches < MaxSwitches

\* The segment ends; go on with the other channel if there may be a switch.
LeaveFor(end) ==
    /\ resp' = NoResp /\ window' = 0
    /\ IF MaySwitch
       THEN pc' = "request" /\ cur' = Other(cur) /\ switches' = switches + 1
       ELSE pc' = end /\ UNCHANGED <<cur, switches>>

Create ==
    /\ pc = "create"
    /\ pc' \in {"request", "failed"}
    /\ UNCHANGED <<cur, switches, window, total, tag, file, resp>>

\* No usable answer: dial, TLS, header timeout, a status that is not 200 or 206.
Refused ==
    /\ pc = "request"
    /\ LeaveFor("failed")
    /\ UNCHANGED <<total, tag, file>>

\* Bug variant: the range request is one block ahead of the file.
ResumeLate == IF file = <<>> THEN 1 ELSE Len(file) + 2

\* The block the range request asks for.
Resume == Len(file) + 1

Replies ==
    {r \in [copy  : Serves[cur],
            next  : {Resume} \cup (IF "no_range" \in Quirks THEN {1} ELSE {}),
            total : {Length[c] : c \in Copies} \cup (IF "no_total" \in Quirks THEN {0} ELSE {}),
            tag   : {Tag[c] : c \in Copies} \cup (IF "no_tag" \in Quirks THEN {None} ELSE {})] :
        /\ r.next <= Length[r.copy]
        /\ r.total \in {0, Length[r.copy]} /\ r.tag \in {None, Tag[r.copy]}}

\* The headers are in.  A mismatch ends the segment before its body is read;
\* so does a first answer of A that was slow to come, for a big file.
Answer ==
    /\ pc = "request"
    /\ \E r \in Replies :
         /\ Adopt(r)
         /\ \/ Mismatch(r) /\ LeaveFor("failed")
            \/ ~Mismatch(r) /\ window > 0 /\ r.total > BigFile /\ LeaveFor("done")
            \/ /\ ~Mismatch(r)
               /\ pc' = "body" /\ resp' = r
               /\ UNCHANGED <<cur, switches, window>>
    /\ UNCHANGED file

\* A block arrives and is written.  The block that closes the window may
\* show that A is slow.
Read ==
    /\ pc = "body"
    /\ resp.next <= Length[resp.copy]
    /\ file' = Append(file, <<resp.copy, resp.next>>)
    /\ \/ /\ resp' = [resp EXCEPT !.next = @ + 1]
          /\ window' = IF window > 0 THEN window - 1 ELSE 0
          /\ UNCHANGED <<pc, cur, switches>>
       \/ window = 1 /\ resp.total > BigFile /\ LeaveFor("done")
    /\ UNCHANGED <<total, tag>>

\* The body ends as the server means it to: the download is complete.
Eof ==
    /\ pc = "body"
    /\ resp.next > Length[resp.copy] \/ "cut" \in Quirks
    /\ pc' = "done" /\ resp' = NoResp /\ window' = 0
    /\ UNCHANGED <<cur, switches, total, tag, file>>

\* The connection breaks, the write fails or the context is cancelled.
Break ==
    /\ pc = "body"
    /\ LeaveFor("failed")
    /\ UNCHANGED <<total, tag, file>>

Init ==
    /\ pc = "create" /\ cur = "A" /\ switches = 0
    /\ window = IF HasB THEN ProbeWindow ELSE 0
    /\ total = 0 /\ tag = None /\ file = <<>> /\ resp = NoResp

Next == Create \/ Refused \/ Answer \/ Read \/ Eof \/ Break

Spec == Init /\ [][Next]_vars

\* A request is answered or given up, and a body goes on, ends or breaks.  The
\* code has timeouts for the dial and for the headers of B only; for the rest
\* this is an assumption about servers and TCP.
FairSpec == Spec /\ WF_vars(Next)

-----------------------------------------------------------------------------
State == IF pc \in {"done", "failed"} THEN pc ELSE "busy"
A == INSTANCE Assembly WITH state <- State

\* Types, and the window is judged on the first segment only, so a slow channel
\* always finds a switch left (get.go:107, get.go:151).
TypeOK ==
    /\ pc \in {"create", "request", "body", "done", "failed"}
    /\ cur \in {"A", "B"} /\ switches \in 0..MaxSwitches
    /\ window \in 0..ProbeWindow /\ (window > 0 => switches = 0 /\ HasB)
    /\ total \in Nat
    /\ tag \in {Tag[c] : c \in Copies} \cup {None}
    /\ file \in Seq(Copies \X (Nat \ {0}))
    /\ pc = "body" <=> resp # NoResp
    /\ resp.next \in Nat /\ resp.total \in Nat

\* A download reported as complete is one copy, whole and in order, however its
\* channels were mixed (get.go:8: a CDN's stale copy is refused).
Intact == pc = "done" => \E c \in Copies : A!Whole(c)

\* The download implements its promise, the eventual outcome included.
Implements == A!Spec
=============================================================================
