------------------------------- MODULE Panel -------------------------------
(***************************************************************************)
(* What the GUI knows of the daemon: the event hub and its SSE handlers    *)
(* (hub.go, api.go), the two things it pushes that a user waits for, the   *)
(* state of an update (updateapi.go) and a download task (gettasks.go),    *)
(* and the panel that shows the last frame it got (sse.ts).  A hub frame   *)
(* goes into the buffer of every subscription or evicts it; a handler      *)
(* copies its buffer to a client that may be gone; the panel reconnects.   *)
(***************************************************************************)
EXTENDS Naturals, Sequences, FiniteSets

CONSTANTS
    Conns,      \* ids of connections, used again
    MaxSubs,    \* defaultMaxSubs
    Buf,        \* subBuf, the buffer of a subscription
    Nil,
    MaxTasks,   \* bound: downloads of one life of the daemon
    MaxRuns,    \* bound: checks and applies of one life
    MaxFaults   \* bound: evictions (a client that reads is faster than the
                \* ticks), lost connections, reloads of the page, restarts

ASSUME PanelAssumption ==
    /\ {MaxSubs, MaxTasks, MaxRuns, MaxFaults} \subseteq Nat
    /\ Buf \in Nat \ {0} /\ {Nil, "closed"} \cap Conns = {}

VARIABLES
    conn,    \* connection -> its handler, subscription and buffer
    panel,   \* the page: link (Nil, "closed" or a connection) and what it shows
    upd,     \* updateRunner: st, the state in the status; check and apply, in flight
    tick,    \* tickStatus: the state read for the status and not yet broadcast
    task,    \* taskRegistry: seq, active, and whether a frame was pushed (lastPush)
    heard,   \* history: subscriptions that were sent a frame of the last task
    ran, faults    \* bounded counters

panelVars == <<conn, panel, upd, tick, task, heard, ran, faults>>

Phases  == {"busy"}                  \* while something runs
Settled == {"idle", "failed", "pending_boot"}

StatusFrame(v) == [ev |-> "status", v |-> v]
GetFrame(id, done) == [ev |-> "get", id |-> id, done |-> done]

-----------------------------------------------------------------------------
(* Hub *)

Subs == {c \in Conns : conn[c].reg}

Free == [pc |-> "free", reg |-> FALSE, ch |-> <<>>, seen |-> Nil]

Full == {c \in Subs : Len(conn[c].ch) = Buf}

\* A subscription without room is closed and leaves the map at once.
Broadcast(frame) ==
    /\ Full # {} => faults < MaxFaults
    /\ faults' = IF Full = {} THEN faults ELSE faults + 1
    /\ conn' = [c \in Conns |->
                  IF c \in Full THEN [conn[c] EXCEPT !.reg = FALSE]
                  ELSE IF c \in Subs THEN [conn[c] EXCEPT !.ch = Append(@, frame)]
                  ELSE conn[c]]

\* handleEvents: subscribed before anything is written.
Connect(c) ==
    /\ panel.link = Nil /\ conn[c].pc = "free" /\ Cardinality(Subs) < MaxSubs
    /\ conn' = [conn EXCEPT ![c] = [Free EXCEPT !.pc = "hello", !.reg = TRUE]]
    /\ panel' = [panel EXCEPT !.link = c]
    /\ heard' = heard \ {c}
    /\ UNCHANGED <<upd, tick, task, ran, faults>>

\* ErrTooManySubs is a 503, and an EventSource that is answered so does not
\* try again.
Refuse ==
    /\ panel.link = Nil /\ Cardinality(Subs) >= MaxSubs
    /\ panel' = [panel EXCEPT !.link = "closed"]
    /\ UNCHANGED <<conn, upd, tick, task, heard, ran, faults>>

Gone(c) == panel.link # c

\* Bug variant: a handler that fails to write returns with its subscription.
LeaveSubscribed(c) == [Free EXCEPT !.reg = conn[c].reg]

\* The deferred unsubscribe; what is left in the buffer is lost.
Leave(c) == Free

HandlerVars == <<upd, tick, task, heard, ran, faults>>

Hello(c) ==
    /\ conn[c].pc = "hello" /\ ~Gone(c)
    /\ conn' = [conn EXCEPT ![c].pc = "snapshot"]
    /\ UNCHANGED <<panel, HandlerVars>>

\* deps.Status() is read, then written to the client past the buffer.
Snapshot(c) ==
    /\ conn[c].pc = "snapshot"
    /\ conn' = [conn EXCEPT ![c].pc = "first", ![c].seen = upd.st]
    /\ UNCHANGED <<panel, HandlerVars>>

First(c) ==
    /\ conn[c].pc = "first" /\ ~Gone(c)
    /\ conn' = [conn EXCEPT ![c].pc = "loop", ![c].seen = Nil]
    /\ panel' = [panel EXCEPT !.status = conn[c].seen]
    /\ UNCHANGED HandlerVars

\* sse.ts: the last frame of each kind is what is shown.  A closed buffer is
\* emptied first.
Deliver(c) ==
    /\ conn[c].pc = "loop" /\ conn[c].ch # <<>> /\ ~Gone(c)
    /\ LET frame == Head(conn[c].ch) IN
        /\ conn' = [conn EXCEPT ![c].ch = Tail(@)]
        /\ panel' = IF frame.ev = "get" THEN [panel EXCEPT !.get = frame]
                  ELSE [panel EXCEPT !.status = frame.v]
    /\ UNCHANGED HandlerVars

\* The end of the response is an error event of the page: the status shown is
\* void, the last get frame stays.
Lost(p) == [p EXCEPT !.link = Nil, !.status = Nil]

\* Bug variant: an evicted subscription is forgotten and its channel left open.
Unclosed(c) == FALSE

\* An evicted handler returns when its buffer is empty.
Drained(c) == conn[c].ch = <<>> /\ ~conn[c].reg

Evicted(c) ==
    /\ conn[c].pc = "loop" /\ ~Gone(c) /\ Drained(c)
    /\ conn' = [conn EXCEPT ![c] = Free]
    /\ panel' = Lost(panel)
    /\ UNCHANGED HandlerVars

\* A failing write or ping, or the context of the request.  What is still
\* written to a client that is gone makes no difference but to its buffer.
Abandon(c) ==
    /\ conn[c].pc # "free" /\ Gone(c)
    /\ conn' = [conn EXCEPT ![c] = Leave(c)]
    /\ UNCHANGED <<panel, HandlerVars>>

-----------------------------------------------------------------------------
(* What is pushed *)

TickRead ==
    /\ tick = Nil
    /\ tick' = upd.st
    /\ UNCHANGED <<conn, panel, upd, task, heard, ran, faults>>

\* The status differs from the last one at every tick: it has uptime_s in it.
TickSend ==
    /\ tick # Nil
    /\ tick' = Nil
    /\ Broadcast(StatusFrame(tick))
    /\ UNCHANGED <<panel, upd, task, heard, ran>>

TaskVars == <<panel, upd, tick, ran>>

\* start: one task at a time.
StartTask ==
    /\ task.active = 0 /\ task.seq < MaxTasks
    /\ task' = [seq |-> task.seq + 1, active |-> task.seq + 1, first |-> TRUE]
    /\ heard' = {}
    /\ UNCHANGED <<TaskVars, conn, faults>>

\* update: the first frame at once, another 250 ms after the last.
Progress ==
    /\ task.active # 0
    /\ \/ /\ Broadcast(GetFrame(task.active, FALSE))
          /\ task' = [task EXCEPT !.first = FALSE] /\ heard' = Subs
       \/ ~task.first /\ UNCHANGED <<conn, faults, task, heard>>
    /\ UNCHANGED TaskVars

\* Bug variant: the frame of the end is held back like any other.
FinishSilent ==
    /\ task.active # 0
    /\ task' = [task EXCEPT !.active = 0]
    /\ \/ Broadcast(GetFrame(task.active, TRUE)) /\ heard' = Subs
       \/ ~task.first /\ UNCHANGED <<conn, faults, heard>>
    /\ UNCHANGED TaskVars

\* finish: pushed whatever the throttle says.
Finish ==
    /\ task.active # 0
    /\ task' = [task EXCEPT !.active = 0]
    /\ Broadcast(GetFrame(task.active, TRUE)) /\ heard' = Subs
    /\ UNCHANGED TaskVars

-----------------------------------------------------------------------------
(* updateRunner.  A cached answer of Check changes nothing and is left out. *)

UpdVars == <<conn, panel, tick, task, heard, faults>>

CheckStart ==
    /\ ~upd.check /\ ran < MaxRuns
    /\ upd' = [upd EXCEPT !.check = TRUE, !.st = "busy"] /\ ran' = ran + 1
    /\ UNCHANGED UpdVars

\* Bug variant: only an answer ends the checking state, an error does not.
CheckEndOk ==
    /\ upd.check
    /\ \E ok \in BOOLEAN :
        upd' = [upd EXCEPT !.check = FALSE, !.st = IF ok THEN "idle" ELSE @]
    /\ UNCHANGED <<ran, UpdVars>>

\* Idle after an answer and after an error, whatever an apply is doing.
CheckEnd ==
    /\ upd.check
    /\ upd' = [upd EXCEPT !.check = FALSE, !.st = "idle"]
    /\ UNCHANGED <<ran, UpdVars>>

\* inFlight; a second apply is refused.
ApplyStart ==
    /\ upd.apply = "none" /\ ran < MaxRuns
    /\ upd' = [upd EXCEPT !.apply = "run", !.st = "busy"] /\ ran' = ran + 1
    /\ UNCHANGED UpdVars

\* A phase of the updater, a failure of its check or of one of its phases, or
\* the new executable is in place.
ApplyStep ==
    /\ upd.apply = "run"
    /\ upd' \in {[upd EXCEPT !.st = "busy"],
                 [upd EXCEPT !.apply = "failed", !.st = "failed"],
                 [upd EXCEPT !.apply = "done", !.st = "pending_boot"]}
    /\ UNCHANGED <<ran, UpdVars>>

\* inFlight is given back after the state is set.
ApplyEnd ==
    /\ upd.apply = "failed"
    /\ upd' = [upd EXCEPT !.apply = "none"]
    /\ UNCHANGED <<ran, UpdVars>>

-----------------------------------------------------------------------------
(* Faults *)

\* The connection is lost, or the page is loaded again.
LinkBreak ==
    /\ faults < MaxFaults /\ faults' = faults + 1
    /\ panel' \in {Lost(panel), [link |-> Nil, status |-> Nil, get |-> Nil]}
    /\ panel.link \in {Nil, "closed"} => panel'.get = Nil
    /\ UNCHANGED <<conn, upd, tick, task, heard, ran>>

\* The daemon ends, after an update too (onDone), and is started again:
\* tasks and states were in its memory.
Restart ==
    /\ upd.apply = "done" \/ faults < MaxFaults
    /\ faults' = IF upd.apply = "done" THEN faults ELSE faults + 1
    /\ conn' = [c \in Conns |-> Free]
    /\ panel' = IF panel.link = "closed" THEN panel ELSE Lost(panel)
    /\ upd' = [st |-> "idle", check |-> FALSE, apply |-> "none"]
    /\ tick' = Nil
    /\ task' = [seq |-> 0, active |-> 0, first |-> TRUE] /\ heard' = {}
    /\ UNCHANGED <<ran>>

PanelInit ==
    /\ conn = [c \in Conns |-> Free]
    /\ panel = [link |-> Nil, status |-> Nil, get |-> Nil]
    /\ upd = [st |-> "idle", check |-> FALSE, apply |-> "none"]
    /\ tick = Nil
    /\ task = [seq |-> 0, active |-> 0, first |-> TRUE] /\ heard = {}
    /\ ran = 0 /\ faults = 0

Handler(c) == Hello(c) \/ Snapshot(c) \/ First(c) \/ Deliver(c) \/ Evicted(c) \/ Abandon(c)
Tick   == TickRead \/ TickSend
Update == CheckStart \/ CheckEnd \/ ApplyStart \/ ApplyStep \/ ApplyEnd

PanelNext ==
    \/ \E c \in Conns : Connect(c) \/ Handler(c)
    \/ Refuse \/ Tick \/ StartTask \/ Progress \/ Finish
    \/ Update \/ LinkBreak \/ Restart

\* Handlers and the ticker run, and the hub's lock is fair: frames of a download,
\* four in a second at most, do not keep a tick out for ever.  A check has 30 s
\* and an apply 10 minutes; the page reconnects by itself.  Nothing makes a
\* download end.
Fairness ==
    /\ \A c \in Conns : WF_panelVars(Handler(c))
    /\ SF_panelVars(Tick)
    /\ WF_panelVars(CheckEnd) /\ WF_panelVars(ApplyStep) /\ WF_panelVars(ApplyEnd)
    /\ WF_panelVars((\E c \in Conns : Connect(c)) \/ Refuse)

PanelSpec == PanelInit /\ [][PanelNext]_panelVars /\ Fairness

-----------------------------------------------------------------------------
(* Properties *)

InStep(c) == /\ panel.link = c /\ conn[c].pc = "loop"
             /\ conn[c].reg /\ conn[c].ch = <<>>

\* A subscription that stayed until its buffer was empty and was sent a frame
\* of the last download shows that download as it is, running or done: the
\* end is pushed at once (gettasks.go:6), and no frame is lost, doubled or out
\* of order on the way.
DownloadShown ==
    \A c \in Conns : InStep(c) /\ c \in heard =>
        panel.get = GetFrame(task.seq, task.active = 0)

\* With no check and no apply in flight the state of the update is a settled
\* one, however the two overlapped: the panel never waits for nothing.
UpdateSettles == ~upd.check /\ upd.apply = "none" => upd.st \in Settled

\* If the state of the daemon stays what it is, the panel comes to show it,
\* whatever was evicted, broken or restarted before, unless it was refused
\* ("new frames recover it after the reconnect", sse.ts:35).
ShownTrue ==
    \A v \in Settled \cup Phases :
        <>[](upd.st = v) => <>[](panel.status = v \/ panel.link = "closed")

\* A client that is gone gives its place among the subscribers back.
SlotsFreed == \A c \in Conns : (conn[c].reg /\ Gone(c)) ~> ~(conn[c].reg /\ Gone(c))
=============================================================================
