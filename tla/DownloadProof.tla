--------------------------- MODULE DownloadProof ---------------------------
(***************************************************************************)
(* Proofs about Download for files of any length, any copies, any bound on *)
(* switches and any window: its types; and for servers that name the copy  *)
(* they answer with and honour a range request, that the file is one copy, *)
(* and that every step is one of Assembly's.                               *)
(*                                                                         *)
(* The second half is about Panel, a specification of its own: what the    *)
(* page shows of a download and of an update, for any number of            *)
(* connections, runs and faults and any buffer (PanelAssumption).          *)
(***************************************************************************)
EXTENDS Download, Panel, TLAPS

\* What get.go's checks rely on: only the total may be missing, and copies
\* differ in their tag.
NamedCopies ==
    /\ Quirks \subseteq {"no_total"}
    /\ \A c, d \in Copies : Tag[c] = Tag[d] => c = d

Bodies == [copy : Copies, next : Nat \ {0}, total : Nat, tag : {Tag[c] : c \in Copies} \cup {None}]

BodyTyped == pc = "body" => resp \in Bodies

\* The copy that the tag names is the one on disk, and what is being read
\* continues it.
FileNamed ==
    /\ file # <<>> => tag # None
    /\ \A c \in Copies : tag = Tag[c] => A!PrefixOf(c) /\ Len(file) <= Length[c]
BodyContinues == pc = "body" => resp.next = Len(file) + 1 /\ tag = Tag[resp.copy]
DoneIsWhole   == pc = "done" => \E c \in Copies : tag = Tag[c] /\ Len(file) = Length[c]

TypeInv == TypeOK /\ BodyTyped
CopyInv == FileNamed /\ BodyContinues /\ DoneIsWhole

-----------------------------------------------------------------------------
\* An answer is typed (get.go, stream: what is parsed from its headers).
LEMMA ReplyType ==
    ASSUME TypeInv, NEW r \in Replies
    PROVE  r \in Bodies /\ r # NoResp
  <1>1. Len(file) \in Nat BY DEF TypeInv, TypeOK
  <1>2. cur \in {"A", "B"} /\ Serves[cur] \subseteq Copies BY DownloadAssumption DEF TypeInv, TypeOK
  <1>3. \A c \in Copies : Length[c] \in Nat BY DownloadAssumption
  <1>4. r.copy \in Copies /\ r.next \in Nat \ {0} BY <1>1, <1>2 DEF Replies, Resume
  <1>5. r.total \in Nat BY <1>3 DEF Replies
  <1>6. r.tag \in {Tag[c] : c \in Copies} \cup {None} BY DEF Replies
  <1>7. r = [copy |-> r.copy, next |-> r.next, total |-> r.total, tag |-> r.tag] BY DEF Replies
  <1>8. r.next # NoResp.next BY <1>4 DEF NoResp
  <1> QED BY <1>4, <1>5, <1>6, <1>7, <1>8 DEF Bodies

\* Ending a segment keeps the types (get.go:146-172).
LEMMA LeaveType ==
    ASSUME TypeInv, NEW end \in {"done", "failed"}, LeaveFor(end),
           total' \in Nat, tag' \in {Tag[c] : c \in Copies} \cup {None},
           file' \in Seq(Copies \X (Nat \ {0}))
    PROVE  TypeInv'
  <1>1. /\ pc' \in {"request", "done", "failed"} /\ cur' \in {"A", "B"}
        /\ switches' \in 0..MaxSwitches /\ window' = 0 /\ resp' = NoResp
    BY DownloadAssumption DEF TypeInv, TypeOK, LeaveFor, MaySwitch, Other
  <1>2. NoResp.next = 0 /\ NoResp.total = 0 BY DEF NoResp
  <1>3. window' \in 0..ProbeWindow /\ ~(window' > 0) BY <1>1, DownloadAssumption
  <1>4. resp'.next \in Nat /\ resp'.total \in Nat BY <1>1, <1>2
  <1> QED BY <1>1, <1>3, <1>4 DEF TypeInv, TypeOK, BodyTyped

LEMMA AdoptType ==
    ASSUME TypeInv, NEW r \in Bodies, Adopt(r)
    PROVE  total' \in Nat /\ tag' \in {Tag[c] : c \in Copies} \cup {None}
  BY DEF TypeInv, TypeOK, Adopt, Bodies

LEMMA TypeInit == Init => TypeInv
  <1> SUFFICES ASSUME Init PROVE TypeInv OBVIOUS
  <1>1. NoResp.next \in Nat /\ NoResp.total \in Nat BY DEF NoResp
  <1>2. <<>> \in Seq(Copies \X (Nat \ {0})) OBVIOUS
  <1>3. window \in 0..ProbeWindow /\ (window > 0 => HasB) BY DownloadAssumption DEF Init
  <1> QED BY <1>1, <1>2, <1>3, DownloadAssumption DEF Init, TypeInv, TypeOK, BodyTyped

LEMMA TypeStep == TypeInv /\ [Next]_vars => TypeInv'
  <1> SUFFICES ASSUME TypeInv, [Next]_vars PROVE TypeInv' OBVIOUS
  <1>0. NoResp.next = 0 /\ NoResp.total = 0 BY DEF NoResp
  <1>1. CASE Create
    BY <1>1 DEF Create, TypeInv, TypeOK, BodyTyped
  <1>2. CASE Refused
    <2>1. LeaveFor("failed") /\ UNCHANGED <<total, tag, file>> BY <1>2 DEF Refused
    <2>2. /\ total' \in Nat /\ tag' \in {Tag[c] : c \in Copies} \cup {None}
          /\ file' \in Seq(Copies \X (Nat \ {0}))
      BY <2>1 DEF TypeInv, TypeOK
    <2> QED BY <2>1, <2>2, LeaveType
  <1>3. CASE Answer
    <2>1. PICK r \in Replies : /\ Adopt(r)
                               /\ \/ LeaveFor("failed") \/ LeaveFor("done")
                                  \/ pc' = "body" /\ resp' = r /\ UNCHANGED <<cur, switches, window>>
      BY <1>3 DEF Answer
    <2>2. r \in Bodies /\ r # NoResp BY ReplyType
    <2>3. total' \in Nat /\ tag' \in {Tag[c] : c \in Copies} \cup {None} BY <2>1, <2>2, AdoptType
    <2>4. file' \in Seq(Copies \X (Nat \ {0})) BY <1>3 DEF Answer, TypeInv, TypeOK
    <2>5. ASSUME NEW end \in {"done", "failed"}, LeaveFor(end) PROVE TypeInv'
      BY <2>3, <2>4, <2>5, LeaveType
    <2>6. ASSUME pc' = "body", resp' = r, UNCHANGED <<cur, switches, window>> PROVE TypeInv'
      <3>1. resp'.next \in Nat /\ resp'.total \in Nat BY <2>2, <2>6 DEF Bodies
      <3> QED BY <2>2, <2>3, <2>4, <2>6, <3>1 DEF TypeInv, TypeOK, BodyTyped
    <2> QED BY <2>1, <2>5, <2>6
  <1>4. CASE Read
    <2>1. resp \in Bodies BY <1>4 DEF Read, TypeInv, BodyTyped
    <2>2. file' \in Seq(Copies \X (Nat \ {0}))
      <3>1. <<resp.copy, resp.next>> \in Copies \X (Nat \ {0}) BY <2>1 DEF Bodies
      <3> QED BY <1>4, <3>1 DEF Read, TypeInv, TypeOK
    <2>3. CASE LeaveFor("done")
      <3>1. total' \in Nat /\ tag' \in {Tag[c] : c \in Copies} \cup {None}
        BY <1>4 DEF Read, TypeInv, TypeOK
      <3> QED BY <2>2, <2>3, <3>1, LeaveType
    <2>4. CASE /\ resp' = [resp EXCEPT !.next = @ + 1]
               /\ window' = IF window > 0 THEN window - 1 ELSE 0
               /\ UNCHANGED <<pc, cur, switches>>
      <3>1. resp' \in Bodies /\ resp'.next # 0 BY <2>1, <2>4 DEF Bodies
      <3>2. resp' # NoResp BY <1>0, <3>1
      <3>3. resp'.next \in Nat /\ resp'.total \in Nat BY <3>1 DEF Bodies
      <3>4. window' \in 0..ProbeWindow /\ (window' > 0 => window > 0)
        BY <2>4, DownloadAssumption DEF TypeInv, TypeOK
      <3>5. window' > 0 => switches' = 0 /\ HasB BY <2>4, <3>4 DEF TypeInv, TypeOK
      <3>6. pc' = "body" BY <1>4, <2>4 DEF Read
      <3> QED BY <1>4, <2>2, <2>4, <3>1, <3>2, <3>3, <3>4, <3>5, <3>6 DEF Read, TypeInv, TypeOK, BodyTyped
    <2> QED BY <1>4, <2>3, <2>4 DEF Read
  <1>5. CASE Eof
    BY <1>0, <1>5, DownloadAssumption DEF Eof, TypeInv, TypeOK, BodyTyped
  <1>6. CASE Break
    <2>1. LeaveFor("failed") /\ UNCHANGED <<total, tag, file>> BY <1>6 DEF Break
    <2>2. /\ total' \in Nat /\ tag' \in {Tag[c] : c \in Copies} \cup {None}
          /\ file' \in Seq(Copies \X (Nat \ {0}))
      BY <2>1 DEF TypeInv, TypeOK
    <2> QED BY <2>1, <2>2, LeaveType
  <1>7. CASE UNCHANGED vars
    BY <1>7 DEF vars, TypeInv, TypeOK, BodyTyped, Bodies
  <1> QED BY <1>1, <1>2, <1>3, <1>4, <1>5, <1>6, <1>7 DEF Next

LEMMA TypeHolds == Spec => []TypeInv
  BY TypeInit, TypeStep, PTL DEF Spec

\* The types hold for every file and bound, and a slow channel always finds a
\* switch left (get.go:107, get.go:151).
THEOREM DownloadTypes == Spec => []TypeOK
  <1>1. TypeInv => TypeOK BY DEF TypeInv
  <1> QED BY <1>1, TypeHolds, PTL

-----------------------------------------------------------------------------
\* A copy is named by its tag in every answer (get.go:222), and the body goes on
\* where the file ends.
LEMMA ReplyNamed ==
    ASSUME NamedCopies, NEW r \in Replies
    PROVE  /\ r.copy \in Serves[cur] /\ r.tag = Tag[r.copy]
           /\ r.next = Len(file) + 1 /\ r.next <= Length[r.copy]
  <1>1. "no_range" \notin Quirks /\ "no_tag" \notin Quirks BY DEF NamedCopies
  <1>2. r.tag # None BY <1>1, DownloadAssumption DEF Replies
  <1> QED BY <1>1, <1>2 DEF Replies, Resume

\* A segment that ends leaves the file; it ends the download as done only if no
\* switch is left, which is not so for one that was judged (get.go:151).
LEMMA LeaveCopy ==
    ASSUME TypeInv, NEW end \in {"done", "failed"}, LeaveFor(end),
           end = "done" => window > 0, FileNamed'
    PROVE  CopyInv'
  <1>1. window > 0 => MaySwitch
    BY DownloadAssumption DEF TypeInv, TypeOK, MaySwitch
  <1>2. pc' \in {"request", "failed"} BY <1>1 DEF LeaveFor
  <1> QED BY <1>2 DEF CopyInv, BodyContinues, DoneIsWhole

\* The tag that is kept once is kept for good; while nothing is known of the
\* copy there is no block on disk (get.go:134).
LEMMA AdoptCopy ==
    ASSUME NamedCopies, TypeInv, CopyInv, NEW r \in Replies, Adopt(r), file' = file
    PROVE  /\ FileNamed' /\ tag' # None
           /\ ~Mismatch(r) => tag' = Tag[r.copy]
  <1>1. r.copy \in Copies /\ r.tag = Tag[r.copy] /\ r.tag # None
    BY ReplyNamed, ReplyType, DownloadAssumption DEF Bodies
  <1>2. CASE tag = None
    <2>1. tag' = Tag[r.copy] /\ file = <<>> BY <1>1, <1>2 DEF Adopt, CopyInv, FileNamed
    <2>2. \A c \in Copies : Length[c] \in Nat BY DownloadAssumption
    <2>3. FileNamed' BY <1>1, <2>1, <2>2 DEF FileNamed, A!PrefixOf
    <2> QED BY <1>1, <2>1, <2>3
  <1>3. CASE tag # None
    <2>1. tag' = tag BY <1>3 DEF Adopt
    <2>2. FileNamed' BY <2>1 DEF CopyInv, FileNamed, A!PrefixOf
    <2> QED BY <1>1, <1>3, <2>1, <2>2 DEF Mismatch, OtherTag
  <1> QED BY <1>2, <1>3

\* A block goes behind the ones of its copy (get.go:259-263).
LEMMA ReadCopy ==
    ASSUME NamedCopies, TypeInv, CopyInv, Read
    PROVE  /\ resp.copy \in Copies /\ tag = Tag[resp.copy] /\ A!PrefixOf(resp.copy)
           /\ Len(file) < Length[resp.copy]
           /\ file' = Append(file, <<resp.copy, Len(file) + 1>>)
           /\ Len(file') = Len(file) + 1
           /\ FileNamed'
  <1>1. resp \in Bodies /\ resp.next = Len(file) + 1 /\ tag = Tag[resp.copy]
    BY DEF Read, TypeInv, BodyTyped, CopyInv, BodyContinues
  <1>2. resp.copy \in Copies BY <1>1 DEF Bodies
  <1>3. Len(file) \in Nat /\ Length[resp.copy] \in Nat
    BY <1>2, DownloadAssumption DEF TypeInv, TypeOK
  <1>4. A!PrefixOf(resp.copy) BY <1>1, <1>2 DEF CopyInv, FileNamed
  <1>5. Len(file) < Length[resp.copy] BY <1>1, <1>3 DEF Read
  <1>6. file' = Append(file, <<resp.copy, Len(file) + 1>>) BY <1>1 DEF Read
  <1>7. /\ Len(file') = Len(file) + 1
        /\ file'[Len(file) + 1] = <<resp.copy, Len(file) + 1>>
        /\ \A i \in 1..Len(file) : file'[i] = file[i]
    BY <1>6 DEF TypeInv, TypeOK
  <1>8. \A i \in 1..Len(file') : file'[i] = <<resp.copy, i>>
    BY <1>3, <1>4, <1>7 DEF A!PrefixOf
  <1>9. tag' = tag /\ tag # None BY <1>1, <1>2, DownloadAssumption DEF Read
  <1>10. FileNamed'
    <2> SUFFICES ASSUME NEW c \in Copies, tag' = Tag[c]
                 PROVE  A!PrefixOf(c)' /\ Len(file') <= Length[c]
      BY <1>9 DEF FileNamed
    <2>1. c = resp.copy BY <1>1, <1>2, <1>9 DEF NamedCopies
    <2> QED BY <1>3, <1>5, <1>7, <1>8, <2>1 DEF A!PrefixOf
  <1> QED BY <1>1, <1>2, <1>4, <1>5, <1>6, <1>7, <1>10

LEMMA CopyInit == Init => CopyInv
  <1> SUFFICES ASSUME Init PROVE CopyInv OBVIOUS
  <1>1. \A c \in Copies : tag # Tag[c] BY DownloadAssumption DEF Init
  <1> QED BY <1>1 DEF Init, CopyInv, FileNamed, BodyContinues, DoneIsWhole

LEMMA CopyStep ==
    ASSUME NamedCopies, TypeInv, CopyInv, [Next]_vars
    PROVE  CopyInv'
  <1>0. UNCHANGED <<tag, file>> => FileNamed'
    BY DEF CopyInv, FileNamed, A!PrefixOf
  <1>1. CASE Create
    BY <1>0, <1>1 DEF Create, CopyInv, BodyContinues, DoneIsWhole
  <1>2. CASE Refused
    BY <1>0, <1>2, LeaveCopy DEF Refused
  <1>3. CASE Answer
    <2>1. PICK r \in Replies :
            /\ Adopt(r)
            /\ \/ LeaveFor("failed")
               \/ window > 0 /\ LeaveFor("done")
               \/ ~Mismatch(r) /\ pc' = "body" /\ resp' = r
      BY <1>3 DEF Answer
    <2>2. file' = file BY <1>3 DEF Answer
    <2>3. FileNamed' /\ (~Mismatch(r) => tag' = Tag[r.copy]) BY <2>1, <2>2, AdoptCopy
    <2>4. CASE LeaveFor("failed") BY <2>3, <2>4, LeaveCopy
    <2>5. CASE window > 0 /\ LeaveFor("done") BY <2>3, <2>5, LeaveCopy
    <2>6. CASE ~Mismatch(r) /\ pc' = "body" /\ resp' = r
      BY <2>2, <2>3, <2>6, ReplyNamed DEF CopyInv, BodyContinues, DoneIsWhole
    <2> QED BY <2>1, <2>4, <2>5, <2>6
  <1>4. CASE Read
    <2>1. CASE window = 1 /\ LeaveFor("done")
      BY <1>4, <2>1, ReadCopy, LeaveCopy
    <2>2. CASE resp' = [resp EXCEPT !.next = @ + 1] /\ pc' = pc
      <3>1. resp \in Bodies BY <1>4 DEF Read, TypeInv, BodyTyped
      <3>2. resp'.next = resp.next + 1 /\ resp'.copy = resp.copy BY <2>2, <3>1 DEF Bodies
      <3>3. pc' = "body" /\ tag' = tag BY <1>4, <2>2 DEF Read
      <3>4. resp.next = Len(file) + 1 /\ tag = Tag[resp.copy]
        BY <1>4 DEF Read, CopyInv, BodyContinues
      <3>5. Len(file') = Len(file) + 1 /\ FileNamed' BY <1>4, ReadCopy
      <3> QED BY <3>2, <3>3, <3>4, <3>5 DEF CopyInv, BodyContinues, DoneIsWhole
    <2> QED BY <1>4, <2>1, <2>2 DEF Read
  <1>5. CASE Eof
    <2>1. resp \in Bodies /\ resp.next = Len(file) + 1 /\ tag = Tag[resp.copy]
      BY <1>5 DEF Eof, TypeInv, BodyTyped, CopyInv, BodyContinues
    <2>2. resp.copy \in Copies BY <2>1 DEF Bodies
    <2>3. resp.next > Length[resp.copy] BY <1>5 DEF Eof, NamedCopies
    <2>4. Len(file) \in Nat /\ Length[resp.copy] \in Nat
      BY <2>2, DownloadAssumption DEF TypeInv, TypeOK
    <2>5. Len(file) <= Length[resp.copy] BY <2>1, <2>2 DEF CopyInv, FileNamed
    <2>6. Len(file) = Length[resp.copy] BY <2>1, <2>3, <2>4, <2>5
    <2>7. pc' = "done" /\ UNCHANGED <<tag, file>> BY <1>5 DEF Eof
    <2> QED BY <1>0, <2>1, <2>2, <2>6, <2>7 DEF CopyInv, BodyContinues, DoneIsWhole
  <1>6. CASE Break
    BY <1>0, <1>6, LeaveCopy DEF Break
  <1>7. CASE UNCHANGED vars
    BY <1>0, <1>7 DEF vars, CopyInv, BodyContinues, DoneIsWhole
  <1> QED BY <1>1, <1>2, <1>3, <1>4, <1>5, <1>6, <1>7 DEF Next

LEMMA CopyHolds == ASSUME NamedCopies PROVE Spec => [](TypeInv /\ CopyInv)
  <1>1. CopyInv /\ TypeInv /\ [Next]_vars => CopyInv' BY CopyStep
  <1> QED BY <1>1, CopyInit, TypeHolds, PTL DEF Spec

\* Whatever mixture of channels, refusals and breaks a download goes through, if
\* it is reported complete the file is one whole copy (get.go:7, the consistency
\* checks), provided that answers name their copy and honour a range.
THEOREM DownloadIntact == ASSUME NamedCopies PROVE Spec => []Intact
  <1>1. TypeInv /\ CopyInv => Intact
    BY DEF CopyInv, FileNamed, DoneIsWhole, Intact, A!Whole
  <1> QED BY <1>1, CopyHolds, PTL

-----------------------------------------------------------------------------
\* What a segment's end is for the promise: a failure or nothing.
LEMMA LeaveImplements ==
    ASSUME TypeInv, pc \in {"request", "body"}, file' = file,
           NEW end \in {"done", "failed"}, LeaveFor(end), end = "done" => window > 0
    PROVE  A!Fail \/ UNCHANGED A!vars
  <1>1. window > 0 => MaySwitch
    BY DownloadAssumption DEF TypeInv, TypeOK, MaySwitch
  <1>2. pc' \in {"request", "failed"} BY <1>1 DEF LeaveFor
  <1> QED BY <1>2 DEF A!Fail, A!vars, State

LEMMA StepImplements ==
    ASSUME NamedCopies, TypeInv, CopyInv, [Next]_vars
    PROVE  [A!Next]_(A!vars)
  <1>1. CASE Create BY <1>1 DEF Create, A!Next, A!Fail, A!vars, State
  <1>2. CASE Refused BY <1>2, LeaveImplements DEF Refused, A!Next
  <1>3. CASE Answer
    <2>1. /\ pc = "request" /\ file' = file
          /\ \/ LeaveFor("failed")
             \/ window > 0 /\ LeaveFor("done")
             \/ pc' = "body"
      BY <1>3 DEF Answer
    <2>2. CASE pc' = "body" BY <2>1, <2>2 DEF A!vars, State
    <2> QED BY <2>1, <2>2, LeaveImplements DEF A!Next
  <1>4. CASE Read
    <2>1. \/ window = 1 /\ LeaveFor("done")
          \/ pc' = pc
      BY <1>4 DEF Read
    <2>2. window > 0 => MaySwitch
      BY DownloadAssumption DEF TypeInv, TypeOK, MaySwitch
    <2>3. pc = "body" /\ pc' \in {"body", "request"} BY <1>4, <2>1, <2>2 DEF Read, LeaveFor
    <2>4. A!Write BY <1>4, <2>3, ReadCopy DEF A!Write, State
    <2> QED BY <2>4 DEF A!Next
  <1>5. CASE Eof
    <2>1. CopyInv' BY <1>5, CopyStep
    <2>2. pc = "body" /\ pc' = "done" /\ file' = file BY <1>5 DEF Eof
    <2>3. \E c \in Copies : A!Whole(c)'
      BY <2>1, <2>2 DEF CopyInv, FileNamed, DoneIsWhole, A!Whole
    <2>4. \E c \in Copies : A!Whole(c) BY <2>2, <2>3 DEF A!Whole, A!PrefixOf
    <2> QED BY <2>2, <2>4 DEF A!Next, A!Finish, State
  <1>6. CASE Break BY <1>6, LeaveImplements DEF Break, A!Next
  <1>7. CASE UNCHANGED vars BY <1>7 DEF vars, A!vars, State
  <1> QED BY <1>1, <1>2, <1>3, <1>4, <1>5, <1>6, <1>7 DEF Next

\* The download implements the safety part of its promise: every step writes the
\* next block of the one copy, ends as done or failed, or changes nothing.
THEOREM DownloadImplements == ASSUME NamedCopies PROVE Spec => A!SafeSpec
  <1>1. Init => A!Init BY DEF Init, A!Init, State
  <1>2. TypeInv /\ CopyInv /\ [Next]_vars => [A!Next]_(A!vars) BY StepImplements
  <1> QED BY <1>1, <1>2, CopyHolds, PTL DEF Spec, A!SafeSpec
-----------------------------------------------------------------------------
(* What the panel shows of it                                              *)

States == Settled \cup Phases
Frames == [ev : {"status"}, v : States] \cup [ev : {"get"}, id : Nat, done : BOOLEAN]

PanelTypes ==
    /\ conn \in [Conns -> [pc : {"free", "hello", "snapshot", "first", "loop"}, reg : BOOLEAN,
                           ch : Seq(Frames), seen : States \cup {Nil}]]
    /\ panel = [link |-> panel.link, status |-> panel.status, get |-> panel.get]
    /\ tick \in States \cup {Nil}
    /\ upd \in [st : States, check : BOOLEAN, apply : {"none", "run", "failed", "done"}]
    /\ task \in [seq : Nat, active : Nat, first : BOOLEAN] /\ task.active \in {0, task.seq}

\* The download as it is.
Current == GetFrame(task.seq, task.active = 0)

\* A page that shows now and is sent the frames of s shows g in the end.
EndsWith(s, g, now) ==
    \/ now = g /\ \A i \in 1..Len(s) : s[i].ev # "get"
    \/ \E i \in 1..Len(s) : s[i] = g /\ \A j \in (i + 1)..Len(s) : s[j].ev # "get"

\* What is still in the buffer of a subscription that heard of the download brings the page up to date.
UpToDate ==
    \A c \in Conns : c \in heard /\ conn[c].reg /\ panel.link = c => EndsWith(conn[c].ch, Current, panel.get)

\* An apply that is over, or has failed and not yet returned, leaves nothing busy.
Answered == ~upd.check /\ upd.apply # "run" => upd.st \in Settled

PanelInv == PanelTypes /\ UpToDate /\ Answered

-----------------------------------------------------------------------------
LEMMA EndsAppend ==
    ASSUME NEW s \in Seq(Frames), NEW f \in Frames, NEW g \in Frames, NEW now
    PROVE  /\ Append(s, f) \in Seq(Frames)
           /\ f = g => EndsWith(Append(s, f), g, now)
           /\ f.ev # "get" /\ EndsWith(s, g, now) => EndsWith(Append(s, f), g, now)
<1> DEFINE t == Append(s, f)
<1>1. t \in Seq(Frames) /\ Len(t) = Len(s) + 1 /\ Len(s) \in Nat OBVIOUS
<1>2. (\A i \in 1..Len(s) : t[i] = s[i]) /\ t[Len(s) + 1] = f OBVIOUS
<1> HIDE DEF t
<1>3. ASSUME f = g PROVE EndsWith(t, g, now)
  BY <1>1, <1>2, <1>3, Len(s) + 1 \in 1..Len(t) DEF EndsWith
<1>4. ASSUME f.ev # "get", EndsWith(s, g, now) PROVE EndsWith(t, g, now)
  <2>1. CASE now = g /\ \A i \in 1..Len(s) : s[i].ev # "get"
    BY <1>1, <1>2, <1>4, <2>1 DEF EndsWith
  <2>2. ASSUME NEW i \in 1..Len(s), s[i] = g, \A j \in (i + 1)..Len(s) : s[j].ev # "get"
        PROVE  EndsWith(t, g, now)
    <3>1. i \in 1..Len(t) /\ t[i] = g BY <1>1, <1>2, <2>2
    <3>2. \A j \in (i + 1)..Len(t) : j = Len(s) + 1 \/ (j \in (i + 1)..Len(s) /\ j \in 1..Len(s)) BY <1>1
    <3>3. \A j \in (i + 1)..Len(t) : t[j].ev # "get" BY <3>2, <1>2, <2>2, <1>4
    <3> QED BY <3>1, <3>3 DEF EndsWith
  <2> QED BY <2>1, <2>2, <1>4 DEF EndsWith
<1> QED BY <1>1, <1>3, <1>4 DEF t

LEMMA EndsTail ==
    ASSUME NEW s \in Seq(Frames), s # <<>>, NEW g \in Frames, g.ev = "get", NEW now, EndsWith(s, g, now)
    PROVE  /\ Head(s) \in Frames /\ Tail(s) \in Seq(Frames)
           /\ EndsWith(Tail(s), g, IF Head(s).ev = "get" THEN Head(s) ELSE now)
<1> DEFINE t == Tail(s)
<1>1. Head(s) = s[1] /\ Head(s) \in Frames /\ t \in Seq(Frames) /\ Len(t) = Len(s) - 1 /\ Len(s) \in Nat \ {0} OBVIOUS
<1>2. \A i \in 1..(Len(s) - 1) : t[i] = s[i + 1] OBVIOUS
<1> HIDE DEF t
<1>3. CASE now = g /\ \A i \in 1..Len(s) : s[i].ev # "get"
  <2>1. \A i \in 1..Len(t) : t[i].ev # "get" BY <1>1, <1>2, <1>3
  <2>2. Head(s).ev # "get" BY <1>1, <1>3
  <2> QED BY <1>1, <1>3, <2>1, <2>2 DEF EndsWith, t
<1>4. ASSUME NEW i \in 1..Len(s), s[i] = g, \A j \in (i + 1)..Len(s) : s[j].ev # "get"
      PROVE  EndsWith(t, g, IF Head(s).ev = "get" THEN Head(s) ELSE now)
  <2>1. \A j \in i..Len(t) : t[j].ev # "get" BY <1>1, <1>2, <1>4
  <2>2. CASE i = 1 BY <1>1, <1>4, <2>1, <2>2 DEF EndsWith
  <2>3. CASE i # 1
    <3>1. i - 1 \in 1..Len(t) /\ t[i - 1] = g /\ (i - 1) + 1 = i BY <1>1, <1>2, <1>4, <2>3
    <3> QED BY <3>1, <2>1 DEF EndsWith
  <2> QED BY <2>2, <2>3
<1> QED BY <1>1, <1>3, <1>4 DEF EndsWith, t

LEMMA EndsEmpty == ASSUME NEW g, NEW now, EndsWith(<<>>, g, now) PROVE now = g
BY DEF EndsWith

LEMMA Kinds ==
    /\ \A v \in States : StatusFrame(v) \in Frames /\ StatusFrame(v).ev # "get"
    /\ \A id \in Nat, done \in BOOLEAN :
          GetFrame(id, done) \in Frames /\ GetFrame(id, done).ev = "get"
BY DEF StatusFrame, GetFrame, Frames

LEMMA CurrentFrame == ASSUME PanelTypes PROVE Current \in Frames /\ Current.ev = "get"
<1>1. task.seq \in Nat BY DEF PanelTypes
<1> QED BY <1>1, Kinds DEF Current

\* A page that lost its link keeps the frame of the download.
LEMMA LostPage ==
    ASSUME NEW l, NEW s, NEW g
    PROVE  Lost([link |-> l, status |-> s, get |-> g]) = [link |-> Nil, status |-> Nil, get |-> g]
<1> DEFINE p == [link |-> l, status |-> s, get |-> g]
           q == [link |-> Nil, status |-> s, get |-> g]
<1>1. [p EXCEPT !.link = Nil] = q OBVIOUS
<1>2. [q EXCEPT !.status = Nil] = [link |-> Nil, status |-> Nil, get |-> g] OBVIOUS
<1>3. Lost(p) = [[p EXCEPT !.link = Nil] EXCEPT !.status = Nil] BY DEF Lost
<1> QED BY <1>1, <1>2, <1>3

LEMMA FreeType == Free \in [pc : {"free", "hello", "snapshot", "first", "loop"}, reg : BOOLEAN,
                              ch : Seq(Frames), seen : States \cup {Nil}] /\ ~Free.reg
<1>1. <<>> \in Seq(Frames) OBVIOUS
<1> QED BY <1>1 DEF Free

\* A broadcast brings a buffer with room up to date with a frame of the download, and puts a
\* status behind what is there; a subscription without room ends (hub.go broadcast).
LEMMA BroadcastKeeps ==
    ASSUME PanelTypes, NEW f \in Frames, Broadcast(f)
    PROVE  /\ conn' \in [Conns -> [pc : {"free", "hello", "snapshot", "first", "loop"}, reg : BOOLEAN,
                                    ch : Seq(Frames), seen : States \cup {Nil}]]
           /\ \A c \in Conns : conn'[c].reg =>
                 /\ conn[c].reg /\ c \in Subs /\ conn'[c].ch = Append(conn[c].ch, f)
<1> SUFFICES ASSUME NEW c \in Conns
             PROVE  /\ conn'[c] \in [pc : {"free", "hello", "snapshot", "first", "loop"}, reg : BOOLEAN,
                                      ch : Seq(Frames), seen : States \cup {Nil}]
                    /\ conn'[c].reg => conn[c].reg /\ c \in Subs /\ conn'[c].ch = Append(conn[c].ch, f)
  <2>1. conn' = [c \in Conns |-> conn'[c]] BY DEF Broadcast
  <2> QED BY <2>1
<1>1. conn[c] \in [pc : {"free", "hello", "snapshot", "first", "loop"}, reg : BOOLEAN,
                   ch : Seq(Frames), seen : States \cup {Nil}] BY DEF PanelTypes
<1>2. Append(conn[c].ch, f) \in Seq(Frames) BY <1>1
<1>3. CASE c \in Full BY <1>1, <1>3 DEF Broadcast
<1>4. CASE c \notin Full /\ c \in Subs BY <1>1, <1>2, <1>4 DEF Broadcast, Subs
<1>5. CASE c \notin Full /\ c \notin Subs BY <1>1, <1>5 DEF Broadcast, Subs
<1> QED BY <1>3, <1>4, <1>5

LEMMA PanelStart == PanelInit => PanelInv
<1> SUFFICES ASSUME PanelInit PROVE PanelInv OBVIOUS
<1>1. conn \in [Conns -> [pc : {"free", "hello", "snapshot", "first", "loop"}, reg : BOOLEAN,
                          ch : Seq(Frames), seen : States \cup {Nil}]]
  BY FreeType DEF PanelInit
<1>2. PanelTypes BY <1>1 DEF PanelInit, PanelTypes, States, Settled
<1>3. UpToDate BY DEF PanelInit, UpToDate
<1>4. Answered BY DEF PanelInit, Answered, Settled
<1> QED BY <1>2, <1>3, <1>4 DEF PanelInv

\* What the hub and the page do leaves the runner and the registry alone.
LEMMA HandlersKeep ==
    ASSUME PanelInv, NEW c \in Conns, Connect(c) \/ Handler(c)
    PROVE  PanelInv'
<1> DEFINE R == [pc : {"free", "hello", "snapshot", "first", "loop"}, reg : BOOLEAN,
                 ch : Seq(Frames), seen : States \cup {Nil}]
<1>1. conn \in [Conns -> R] /\ conn[c] \in R /\ PanelTypes BY DEF PanelInv, PanelTypes
<1>2. /\ UNCHANGED <<upd, tick, task>>
      /\ heard' \subseteq heard
  BY DEF Connect, Handler, Hello, Snapshot, First, Deliver, Evicted, Abandon, HandlerVars
<1>3. Current' = Current /\ Answered' BY <1>2 DEF Current, Answered, PanelInv, GetFrame
\* Of the subscription the page is linked to nothing gets lost.
<1> SUFFICES /\ conn' \in [Conns -> R]
             /\ panel' = [link |-> panel'.link, status |-> panel'.status, get |-> panel'.get]
             /\ \A d \in Conns : d \in heard' /\ conn'[d].reg /\ panel'.link = d =>
                    EndsWith(conn'[d].ch, Current, panel'.get)
  BY <1>1, <1>2, <1>3 DEF PanelInv, PanelTypes, UpToDate
<1>4. panel = [link |-> panel.link, status |-> panel.status, get |-> panel.get] BY <1>1 DEF PanelTypes
<1>5. \A d \in Conns : d \in heard /\ conn[d].reg /\ panel.link = d => EndsWith(conn[d].ch, Current, panel.get)
  BY DEF PanelInv, UpToDate
<1> HIDE DEF R
<1>6. CASE Connect(c)
  <2>1. Free \in R /\ [Free EXCEPT !.pc = "hello", !.reg = TRUE] \in R BY FreeType DEF R, Free
  <2>2. conn' \in [Conns -> R] BY <1>1, <1>6, <2>1 DEF Connect
  <2>3. panel' = [panel EXCEPT !.link = c] /\ heard' = heard \ {c} BY <1>6 DEF Connect
  <2>4. panel' = [link |-> c, status |-> panel.status, get |-> panel.get] BY <1>4, <2>3
  <2> QED BY <2>2, <2>3, <2>4
<1>7. CASE Hello(c) \/ Snapshot(c) \/ First(c)
  <2>1. /\ conn' \in [Conns -> R]
        /\ \A d \in Conns : conn'[d].reg = conn[d].reg /\ conn'[d].ch = conn[d].ch
    <3>1. upd.st \in States \cup {Nil} BY <1>1 DEF PanelTypes
    <3>2. PICK p \in {"snapshot", "first", "loop"}, v \in States \cup {Nil} :
            conn' = [conn EXCEPT ![c].pc = p, ![c].seen = v]
      <4>1. CASE Hello(c)
        <5>1. conn' = [conn EXCEPT ![c].pc = "snapshot", ![c].seen = conn[c].seen] /\ conn[c].seen \in States \cup {Nil}
          BY <1>1, <4>1 DEF Hello, R
        <5> QED BY <5>1
      <4>2. CASE Snapshot(c) BY <3>1, <4>2 DEF Snapshot
      <4>3. CASE First(c) BY <4>3 DEF First
      <4> QED BY <1>7, <4>1, <4>2, <4>3
    <3> QED BY <1>1, <3>2 DEF R
  <2>2. /\ panel' = [link |-> panel'.link, status |-> panel'.status, get |-> panel'.get]
        /\ panel'.link = panel.link /\ panel'.get = panel.get
    BY <1>4, <1>7 DEF Hello, Snapshot, First
  <2> QED BY <1>2, <1>5, <2>1, <2>2
<1>8. CASE Deliver(c)
  <2> DEFINE frame == Head(conn[c].ch)
             g == IF frame.ev = "get" THEN frame ELSE panel.get
  <2>1. conn[c].ch \in Seq(Frames) /\ conn[c].ch # <<>> BY <1>1, <1>8 DEF Deliver, R
  <2>2. Tail(conn[c].ch) \in Seq(Frames) BY <2>1
  <2>3. conn' = [conn EXCEPT ![c].ch = Tail(@)] /\ panel.link = c /\ heard' = heard
    BY <1>8 DEF Deliver, Gone, HandlerVars
  <2>4. conn' \in [Conns -> R] BY <1>1, <2>2, <2>3 DEF R
  <2>5. panel' = [link |-> c, status |-> panel'.status, get |-> g]
    BY <1>4, <1>8, <2>3 DEF Deliver
  <2>6. conn'[c].ch = Tail(conn[c].ch) /\ conn'[c].reg = conn[c].reg BY <1>1, <2>3 DEF R
  <2>7. ASSUME c \in heard, conn[c].reg PROVE EndsWith(Tail(conn[c].ch), Current, g)
    <3>1. EndsWith(conn[c].ch, Current, panel.get) BY <1>5, <2>3, <2>7
    <3> QED BY <1>1, <2>1, <3>1, EndsTail, CurrentFrame
  <2> HIDE DEF g
  <2> QED BY <2>3, <2>4, <2>5, <2>6, <2>7
<1>9. CASE Evicted(c)
  <2>1. conn' = [conn EXCEPT ![c] = Free] /\ panel' = Lost(panel) /\ panel.link = c
    BY <1>9 DEF Evicted, Gone
  <2>2. conn' \in [Conns -> R] BY <1>1, <2>1, FreeType DEF R
  <2>3. panel' = [link |-> Nil, status |-> Nil, get |-> panel.get] BY <1>4, <2>1 DEF Lost
  <2>4. Nil \notin Conns BY PanelAssumption
  <2> QED BY <2>2, <2>3, <2>4
<1>10. CASE Abandon(c)
  <2>1. conn' = [conn EXCEPT ![c] = Free] /\ panel' = panel /\ heard' = heard
    BY <1>10 DEF Abandon, Leave, HandlerVars
  <2>2. conn' \in [Conns -> R] BY <1>1, <2>1, FreeType DEF R
  <2>3. \A d \in Conns : conn'[d].reg => conn'[d] = conn[d] BY <1>1, <2>1, FreeType
  <2> QED BY <1>4, <1>5, <2>1, <2>2, <2>3
<1> QED BY <1>6, <1>7, <1>8, <1>9, <1>10 DEF Handler

\* A status goes behind the frames of a download (api.go tickStatus).
LEMMA TickKeeps == ASSUME PanelInv, Tick PROVE PanelInv'
<1>1. PanelTypes /\ Answered /\ UpToDate BY DEF PanelInv
<1>2. upd.st \in States BY <1>1 DEF PanelTypes
<1>3. CASE TickRead
  <2>1. tick' = upd.st /\ UNCHANGED <<conn, panel, upd, task, heard>> BY <1>3 DEF TickRead
  <2>2. PanelTypes' BY <1>1, <1>2, <2>1 DEF PanelTypes
  <2>3. UpToDate' /\ Answered' BY <1>1, <2>1 DEF UpToDate, Answered, Current
  <2> QED BY <2>2, <2>3 DEF PanelInv
<1>4. CASE TickSend
  <2>1. /\ tick \in States /\ tick' = Nil /\ UNCHANGED <<panel, upd, task, heard>>
        /\ Broadcast(StatusFrame(tick))
    BY <1>1, <1>4 DEF TickSend, PanelTypes
  <2> DEFINE f == StatusFrame(tick)
  <2>2. f \in Frames /\ f.ev # "get" BY <2>1, Kinds
  <2> HIDE DEF f
  <2>3. PanelTypes' BY <1>1, <2>1, <2>2, BroadcastKeeps DEF PanelTypes, f
  <2>4. ASSUME NEW c \in Conns, c \in heard, conn'[c].reg, panel.link = c
        PROVE  EndsWith(conn'[c].ch, Current, panel.get)
    <3>1. conn[c].reg /\ conn'[c].ch = Append(conn[c].ch, f) BY <1>1, <2>1, <2>2, <2>4, BroadcastKeeps DEF f
    <3>2. conn[c].ch \in Seq(Frames) BY <1>1 DEF PanelTypes
    <3>3. EndsWith(conn[c].ch, Current, panel.get) BY <1>1, <2>4, <3>1 DEF UpToDate
    <3> QED BY <1>1, <2>2, <3>1, <3>2, <3>3, EndsAppend, CurrentFrame
  <2>5. UpToDate' /\ Answered' BY <1>1, <2>1, <2>4 DEF UpToDate, Answered, Current
  <2> QED BY <2>3, <2>5 DEF PanelInv
<1> QED BY <1>3, <1>4 DEF Tick

\* A frame of the download reaches every subscription with room, behind all that is before it
\* (gettasks.go start, update, finish).
LEMMA TaskKeeps == ASSUME PanelInv, StartTask \/ Progress \/ Finish PROVE PanelInv'
<1>1. PanelTypes /\ Answered /\ UpToDate BY DEF PanelInv
<1>2. task = [seq |-> task.seq, active |-> task.active, first |-> task.first] /\ task.seq \in Nat
  BY <1>1 DEF PanelTypes
<1>3. UNCHANGED <<panel, upd, tick>> BY DEF StartTask, Progress, Finish, TaskVars
<1>4. Answered' BY <1>1, <1>3 DEF Answered
<1>5. CASE StartTask
  <2>1. /\ task' = [seq |-> task.seq + 1, active |-> task.seq + 1, first |-> TRUE]
        /\ heard' = {} /\ UNCHANGED conn
    BY <1>5 DEF StartTask
  <2>2. PanelTypes' BY <1>1, <1>2, <1>3, <2>1 DEF PanelTypes
  <2>3. UpToDate' BY <2>1 DEF UpToDate
  <2> QED BY <1>4, <2>2, <2>3 DEF PanelInv
<1>6. CASE UNCHANGED <<conn, task, heard>>
  BY <1>1, <1>3, <1>4, <1>6 DEF PanelInv, PanelTypes, UpToDate, Current
<1>7. ASSUME NEW done \in BOOLEAN, task.active # 0, Broadcast(GetFrame(task.active, done)), heard' = Subs,
             task' = IF done THEN [task EXCEPT !.active = 0] ELSE [task EXCEPT !.first = FALSE]
      PROVE  PanelInv'
  <2> DEFINE f == GetFrame(task.active, done)
  <2>1. task.active = task.seq BY <1>1, <1>7 DEF PanelTypes
  <2>2. /\ task' \in [seq : Nat, active : Nat, first : BOOLEAN] /\ task'.active \in {0, task'.seq}
        /\ task'.seq = task.seq /\ (task'.active = 0) = done
    BY <1>1, <1>2, <1>7, <2>1 DEF PanelTypes
  <2>3. f = Current' BY <2>1, <2>2 DEF Current
  <2>4. f \in Frames BY <1>2, <2>1, Kinds
  <2> HIDE DEF f
  <2>5. PanelTypes' BY <1>1, <1>3, <1>7, <2>2, <2>4, BroadcastKeeps DEF PanelTypes, f
  <2>6. ASSUME NEW c \in Conns, conn'[c].reg PROVE EndsWith(conn'[c].ch, f, panel.get)
    <3>1. conn'[c].ch = Append(conn[c].ch, f) BY <1>1, <1>7, <2>4, <2>6, BroadcastKeeps DEF f
    <3>2. conn[c].ch \in Seq(Frames) BY <1>1 DEF PanelTypes
    <3> QED BY <2>4, <3>1, <3>2, EndsAppend
  <2>7. UpToDate' BY <1>3, <2>3, <2>6 DEF UpToDate
  <2> QED BY <1>4, <2>5, <2>7 DEF PanelInv
<1>8. CASE Progress
  <2>1. CASE UNCHANGED <<conn, task, heard>> BY <1>6, <2>1
  <2>2. CASE /\ Broadcast(GetFrame(task.active, FALSE))
             /\ task' = [task EXCEPT !.first = FALSE] /\ heard' = Subs
    BY <1>7, <1>8, <2>2 DEF Progress
  <2> QED BY <1>8, <2>1, <2>2 DEF Progress
<1>9. CASE Finish BY <1>7, <1>9 DEF Finish
<1> QED BY <1>5, <1>8, <1>9

\* The runner of updates (updateapi.go Check, Apply).
LEMMA UpdateKeeps == ASSUME PanelInv, Update PROVE PanelInv'
<1>1. PanelTypes /\ Answered /\ UpToDate BY DEF PanelInv
<1>2. UNCHANGED <<conn, panel, tick, task, heard>>
  BY DEF Update, CheckStart, CheckEnd, ApplyStart, ApplyStep, ApplyEnd, UpdVars
<1>3. UpToDate' BY <1>1, <1>2 DEF UpToDate, Current
<1>4. upd \in [st : States, check : BOOLEAN, apply : {"none", "run", "failed", "done"}] BY <1>1 DEF PanelTypes
<1>5. upd' \in [st : States, check : BOOLEAN, apply : {"none", "run", "failed", "done"}] /\ Answered'
  <2>1. CASE CheckStart
    BY <1>4, <2>1 DEF CheckStart, States, Settled, Phases, Answered
  <2>2. CASE CheckEnd
    BY <1>4, <2>2 DEF CheckEnd, States, Settled, Phases, Answered
  <2>3. CASE ApplyStart
    BY <1>4, <2>3 DEF ApplyStart, States, Settled, Phases, Answered
  <2>4. CASE ApplyStep
    BY <1>4, <2>4 DEF ApplyStep, States, Settled, Phases, Answered
  <2>5. CASE ApplyEnd
    BY <1>1, <1>4, <2>5 DEF ApplyEnd, States, Settled, Phases, Answered
  <2> QED BY <2>1, <2>2, <2>3, <2>4, <2>5 DEF Update
<1>6. PanelTypes' BY <1>1, <1>2, <1>5 DEF PanelTypes
<1> QED BY <1>3, <1>5, <1>6 DEF PanelInv

\* A link that breaks or is refused, a page that is loaded again, a daemon that restarts.
LEMMA FaultsKeep ==
    ASSUME PanelInv, Refuse \/ LinkBreak \/ Restart
    PROVE  PanelInv'
<1>1. PanelTypes /\ Answered /\ UpToDate BY DEF PanelInv
<1>2. Nil \notin Conns /\ "closed" \notin Conns BY PanelAssumption
<1>3. panel = [link |-> panel.link, status |-> panel.status, get |-> panel.get] BY <1>1 DEF PanelTypes
<1>4. CASE Refuse \/ LinkBreak
  <2>1. UNCHANGED <<conn, upd, tick, task, heard>> BY <1>4 DEF Refuse, LinkBreak
  <2>2. /\ panel' = [link |-> panel'.link, status |-> panel'.status, get |-> panel'.get]
        /\ panel'.link \in {Nil, "closed"}
    <3>1. CASE Refuse BY <1>3, <3>1 DEF Refuse
    <3>2. CASE LinkBreak
      <4>1. \/ panel' = Lost(panel)
            \/ panel' = [link |-> Nil, status |-> Nil, get |-> Nil]
        BY <3>2 DEF LinkBreak
      <4>2. Lost(panel) = [link |-> Nil, status |-> Nil, get |-> panel.get] BY <1>3, LostPage
      <4> QED BY <4>1, <4>2
    <3> QED BY <1>4, <3>1, <3>2
  <2>3. UpToDate' BY <1>2, <2>2 DEF UpToDate
  <2>4. PanelTypes' /\ Answered' BY <1>1, <2>1, <2>2 DEF PanelTypes, Answered
  <2> QED BY <2>3, <2>4 DEF PanelInv
<1>5. CASE Restart
  <2>1. /\ conn' = [c \in Conns |-> Free] /\ tick' = Nil
        /\ upd' = [st |-> "idle", check |-> FALSE, apply |-> "none"]
        /\ task' = [seq |-> 0, active |-> 0, first |-> TRUE] /\ heard' = {}
        /\ panel' = IF panel.link = "closed" THEN panel ELSE Lost(panel)
    BY <1>5 DEF Restart
  <2>2. conn' \in [Conns -> [pc : {"free", "hello", "snapshot", "first", "loop"}, reg : BOOLEAN,
                             ch : Seq(Frames), seen : States \cup {Nil}]] BY <2>1, FreeType
  <2>3. panel' = [link |-> panel'.link, status |-> panel'.status, get |-> panel'.get]
    BY <1>3, <2>1 DEF Lost
  <2>4. PanelTypes' BY <2>1, <2>2, <2>3 DEF PanelTypes, States, Settled
  <2>5. UpToDate' /\ Answered' BY <2>1 DEF UpToDate, Answered, Settled
  <2> QED BY <2>4, <2>5 DEF PanelInv
<1> QED BY <1>4, <1>5

LEMMA PanelHolds == PanelSpec => []PanelInv
<1>1. PanelInit => PanelInv BY PanelStart
<1>2. PanelInv /\ [PanelNext]_panelVars => PanelInv'
  <2> SUFFICES ASSUME PanelInv, [PanelNext]_panelVars PROVE PanelInv' OBVIOUS
  <2>1. CASE UNCHANGED panelVars
    BY <2>1 DEF panelVars, PanelInv, PanelTypes, UpToDate, Answered, Current
  <2>2. CASE PanelNext
    BY <2>2, HandlersKeep, TickKeeps, TaskKeeps, UpdateKeeps, FaultsKeep DEF PanelNext
  <2> QED BY <2>1, <2>2
<1> QED BY <1>1, <1>2, PTL DEF PanelSpec

\* The end of a download, and each frame before it, reaches every subscription that is still
\* there, in order and behind what it had not read yet: when its buffer is empty the page shows
\* the download as it is (hub.go broadcast, gettasks.go finish, sse.ts).
THEOREM DownloadSeen == PanelSpec => []DownloadShown
<1>1. PanelInv => DownloadShown
  <2> SUFFICES ASSUME PanelInv, NEW c \in Conns, InStep(c), c \in heard PROVE panel.get = Current
    BY DEF DownloadShown, Current
  <2>1. EndsWith(conn[c].ch, Current, panel.get) /\ conn[c].ch = <<>> BY DEF PanelInv, UpToDate, InStep
  <2> QED BY <2>1, EndsEmpty
<1> QED BY <1>1, PanelHolds, PTL

\* With no check and no apply in flight the state of the update is a settled one, whichever of the
\* two ended first and however (updateapi.go).
THEOREM UpdateSettled == PanelSpec => []UpdateSettles
<1>1. PanelInv => UpdateSettles BY DEF PanelInv, Answered, UpdateSettles
<1> QED BY <1>1, PanelHolds, PTL
=============================================================================
