----------------------------- MODULE EventStream -----------------------------
(***************************************************************************)
(* The event log of a session, the handler that streams it and the client  *)
(* of the Go SDK that waits for a task over the stream: emit and Events    *)
(* (internal/modules/execution/store.go), streamEvents (handler.go),       *)
(* Client.Events (sdks/go/stream.go) and Client.Wait (sdks/go/client.go).  *)
(*                                                                         *)
(* Writers hold the session's row lock from their read of event_seq to the *)
(* commit. Poll stands for the handler's wake, timer and ping alike: each  *)
(* leads to the same query. An event is a row [seq, mine, relevant]: mine  *)
(* when it is of the awaited task, relevant when waitEventRelevant.        *)
(***************************************************************************)
EXTENDS Naturals, Sequences, FiniteSets, SequencesExt, FiniteSetsExt

CONSTANTS
  Writers,        (* transactions that may emit events of the session      *)
  Page,           (* the limit of Events (200)                             *)
  MaxReconnects,  (* waitMaxReconnects                                     *)
  MaxEvents       (* bound: events of the session                          *)

ASSUME EventStreamAssumption == Page \in Nat \ {0} /\ {MaxReconnects, MaxEvents} \subseteq Nat

VARIABLES
  eventSeq,   (* the session's committed event_seq                         *)
  eventLog,   (* the committed rows of events                              *)
  txn,        (* txn[w]: the open transaction of w: the event_seq it has   *)
              (* counted to, its rows and what it does to the task         *)
  task,       (* the awaited task: state, whether a call of its turn needs *)
              (* an action, and whether one behind that call does not      *)
  served,     (* the handler's connection: open, after, rows on the wire   *)
  reader,     (* Client.Events: cursor, attempt, stopped                   *)
  delivered,  (* history: the events handed to visit                       *)
  relevant,   (* the one-slot channel of waitStream: events in it          *)
  wait        (* Client.Wait: where it is, the state it read, its answer   *)

streamVars == <<eventSeq, eventLog, txn, task, served, reader, delivered, relevant, wait>>

Claimed == [state |-> "running", action |-> FALSE, behind |-> FALSE]
NoTxn == [open |-> FALSE, seq |-> 0, rows |-> {}, task |-> Claimed]
NoConn == [open |-> FALSE, after |-> 0, wire |-> <<>>]

StreamInit ==
  /\ eventSeq = 0 /\ eventLog = {} /\ txn = [w \in Writers |-> NoTxn]
  /\ task = Claimed
  /\ served = NoConn /\ reader = [cursor |-> 0, attempt |-> 0, stopped |-> FALSE]
  /\ delivered = <<>> /\ relevant = 0
  /\ wait = [pc |-> "idle", during |-> "start", read |-> "running", answer |-> "none"]

-----------------------------------------------------------------------------
(* Mutant: event_seq is read without the row lock.                         *)
NeverLocked == FALSE
(* The writers.                                                            *)
SessionLocked == \E w \in Writers : txn[w].open

BeginTxn(w) ==
  /\ ~SessionLocked /\ Cardinality(eventLog) < MaxEvents
  /\ txn' = [txn EXCEPT ![w] = [open |-> TRUE, seq |-> eventSeq, rows |-> {}, task |-> task]]
  /\ UNCHANGED <<eventSeq, eventLog, task, served, reader, delivered, relevant, wait>>

(* What a transaction makes of the task with the event it emits: progress  *)
(* of it or of another task, its end, an outcome that is unknown, and      *)
(* calls of its turn that are created or answered. Some of these may need  *)
(* an action while one behind them is ready, or done and not delivered; an *)
(* answer puts a task that stands back into the queue.                     *)
Standing == {"waiting", "unknown"}
Resumed(t) == IF t.state \in Standing THEN "queued" ELSE t.state
Advanced(t) ==
  {[state |-> Resumed(t), action |-> FALSE, behind |-> FALSE]}
    \union (IF t.state # "running" /\ ~t.action THEN {} ELSE
      {[state |-> Resumed(t), action |-> TRUE, behind |-> b] : b \in BOOLEAN})
Written(t) ==
  {[task |-> t, mine |-> FALSE, relevant |-> TRUE]}
    \union (IF t.state = "done" THEN {} ELSE
      {[task |-> t, mine |-> TRUE, relevant |-> FALSE],
       [task |-> [Claimed EXCEPT !.state = "done"], mine |-> TRUE, relevant |-> TRUE]}
      \union {[task |-> u, mine |-> TRUE, relevant |-> TRUE] : u \in Advanced(t)})
    \union (IF t.state = "running" THEN
      {[task |-> [t EXCEPT !.state = "unknown"], mine |-> TRUE, relevant |-> TRUE]} ELSE {})

Emit(w) ==
  /\ txn[w].open /\ Cardinality(eventLog) + Cardinality(txn[w].rows) < MaxEvents
  /\ \E written \in Written(txn[w].task) :
       txn' = [txn EXCEPT ![w].seq = txn[w].seq + 1, ![w].task = written.task,
                 ![w].rows = txn[w].rows \union
                   {[seq |-> txn[w].seq + 1, mine |-> written.mine, relevant |-> written.relevant]}]
  /\ UNCHANGED <<eventSeq, eventLog, task, served, reader, delivered, relevant, wait>>

CommitTxn(w) ==
  /\ txn[w].open /\ txn' = [txn EXCEPT ![w] = NoTxn]
  /\ eventSeq' = txn[w].seq /\ eventLog' = eventLog \union txn[w].rows /\ task' = txn[w].task
  /\ UNCHANGED <<served, reader, delivered, relevant, wait>>

RollBack(w) ==
  /\ txn[w].open /\ txn' = [txn EXCEPT ![w] = NoTxn]
  /\ UNCHANGED <<eventSeq, eventLog, task, served, reader, delivered, relevant, wait>>

(* park and claim emit nothing. A turn is worked through from its first    *)
(* call: a task with a call behind the one that needs an action goes back  *)
(* into the queue instead of waiting, and so it does after the next claim. *)
ParkTask ==
  /\ ~SessionLocked /\ task.state = "running" /\ task.action
  /\ task' = [task EXCEPT !.state = IF task.behind THEN "queued" ELSE "waiting"]
  /\ UNCHANGED <<eventSeq, eventLog, txn, served, reader, delivered, relevant, wait>>
ClaimAgain ==
  /\ ~SessionLocked /\ task.state = "queued"
  /\ task' = [task EXCEPT !.state = "running"]
  /\ UNCHANGED <<eventSeq, eventLog, txn, served, reader, delivered, relevant, wait>>

-----------------------------------------------------------------------------
(* The handler and the reader of the stream.                               *)
Streaming == wait.pc \in {"select", "probe", "actions"} /\ wait.during = "stream"
Connect ==
  /\ Streaming /\ ~served.open /\ ~reader.stopped /\ reader.attempt <= MaxReconnects
  /\ reader.cursor <= eventSeq
  /\ served' = [open |-> TRUE, after |-> reader.cursor, wire |-> <<>>]
  /\ UNCHANGED <<eventSeq, eventLog, txn, task, reader, delivered, relevant, wait>>

InOrder(rows) ==
  CHOOSE s \in Bijection(1..Cardinality(rows), rows) :
    \A i, j \in 1..Cardinality(rows) : i < j => s[i].seq <= s[j].seq
Events(after) ==
  LET rows == InOrder({row \in eventLog : row.seq > after}) IN
  SubSeq(rows, 1, IF Len(rows) < Page THEN Len(rows) ELSE Page)

Poll ==
  LET rows == Events(served.after) IN
  /\ served.open /\ rows # <<>>
  /\ served' = [served EXCEPT !.after = Last(rows).seq, !.wire = served.wire \o rows]
  /\ UNCHANGED <<eventSeq, eventLog, txn, task, reader, delivered, relevant, wait>>

(* The connection breaks, what is on the wire with it.                     *)
Break ==
  /\ Streaming /\ ~reader.stopped /\ served' = NoConn
  /\ reader' = [reader EXCEPT !.attempt = reader.attempt + 1, !.stopped = reader.attempt >= MaxReconnects]
  /\ UNCHANGED <<eventSeq, eventLog, txn, task, delivered, relevant, wait>>

(* A complete frame: another task's only moves the cursor, a relevant one  *)
(* waits for the slot of the channel.                                      *)
Receive ==
  LET row == Head(served.wire) IN
  /\ Streaming /\ served.wire # <<>>
  /\ served' = [served EXCEPT !.wire = Tail(served.wire)]
  /\ reader' = [reader EXCEPT !.cursor = row.seq]
  /\ IF ~row.mine THEN UNCHANGED <<delivered, relevant>>
     ELSE /\ delivered' = Append(delivered, row)
          /\ IF row.relevant THEN relevant = 0 /\ relevant' = row.seq ELSE UNCHANGED relevant
  /\ UNCHANGED <<eventSeq, eventLog, txn, task, wait>>

-----------------------------------------------------------------------------
(* Wait: the first probe, then a probe on each relevant event or tick of   *)
(* the recheck timer while the stream lasts, then polls.                   *)
AfterProbe == IF wait.during = "stream" THEN "select" ELSE "probe"
AfterNothing == IF wait.during = "start" THEN [wait EXCEPT !.pc = "select", !.during = "stream"]
                ELSE [wait EXCEPT !.pc = AfterProbe]

StartWait ==
  /\ wait.pc = "idle" /\ wait' = [wait EXCEPT !.pc = "probe"]
  /\ UNCHANGED <<eventSeq, eventLog, txn, task, served, reader, delivered, relevant>>

OnEvent ==
  /\ wait.pc = "select" /\ relevant # 0 /\ relevant' = 0
  /\ wait' = [wait EXCEPT !.pc = "probe", !.read = "forced"]
  /\ UNCHANGED <<eventSeq, eventLog, txn, task, served, reader, delivered>>
(* Mutant: the recheck timer is not reset after its first tick.            *)
OnTimerOnce ==
  /\ wait.pc = "select" /\ wait.read = "forced" /\ wait' = [wait EXCEPT !.pc = "probe", !.read = "running"]
  /\ UNCHANGED <<eventSeq, eventLog, txn, task, served, reader, delivered, relevant>>
OnTimer ==
  /\ wait.pc = "select" /\ wait' = [wait EXCEPT !.pc = "probe", !.read = "running"]
  /\ UNCHANGED <<eventSeq, eventLog, txn, task, served, reader, delivered, relevant>>
OnStopped ==
  /\ wait.pc = "select" /\ reader.stopped
  /\ wait' = [wait EXCEPT !.pc = "probe", !.during = "poll", !.read = "running"]
  /\ UNCHANGED <<eventSeq, eventLog, txn, task, served, reader, delivered, relevant>>

(* waitProbe reads the task, then, for a task that stands or after a tool  *)
(* or agent.wait event, the required actions. An event of another kind     *)
(* forces nothing, nor does a tick or a poll.                              *)
ProbeTask ==
  /\ wait.pc = "probe"
  /\ \/ /\ task.state = "done" /\ wait' = [wait EXCEPT !.pc = "answered", !.answer = "terminal"]
     \/ /\ task.state \in Standing \/ (task.state # "done" /\ wait.read = "forced")
        /\ wait' = [wait EXCEPT !.pc = "actions", !.read = task.state]
     \/ /\ task.state \in {"queued", "running"} /\ wait' = [AfterNothing EXCEPT !.read = "running"]
  /\ UNCHANGED <<eventSeq, eventLog, txn, task, served, reader, delivered, relevant>>
ProbeActions ==
  /\ wait.pc = "actions"
  /\ wait' = IF task.action \/ wait.read = "unknown" THEN [wait EXCEPT !.pc = "answered", !.answer = "action"]
             ELSE AfterNothing
  /\ UNCHANGED <<eventSeq, eventLog, txn, task, served, reader, delivered, relevant>>

StreamNext ==
  \/ \E w \in Writers : BeginTxn(w) \/ Emit(w) \/ CommitTxn(w) \/ RollBack(w)
  \/ ParkTask \/ ClaimAgain \/ Connect \/ Poll \/ Break \/ Receive
  \/ StartWait \/ OnEvent \/ OnTimer \/ OnStopped \/ ProbeTask \/ ProbeActions
(* The waiting goroutine runs and its timer ticks. Nothing is assumed of    *)
(* the stream, of the writers and of the workers.                          *)
StreamFairness ==
  /\ WF_streamVars(ProbeTask) /\ WF_streamVars(ProbeActions)
  /\ WF_streamVars(OnTimer \/ OnEvent \/ OnStopped)
StreamSpec == StreamInit /\ [][StreamNext]_streamVars /\ StreamFairness

-----------------------------------------------------------------------------
(* Rows are numbered from 1 without a gap up to event_seq.                 *)
StreamTypeOK ==
  /\ {row.seq : row \in eventLog} = 1..eventSeq /\ Cardinality(eventLog) = eventSeq
  /\ task.state \in {"queued", "running", "waiting", "unknown", "done"}
  /\ task.action \in BOOLEAN /\ task.behind \in BOOLEAN
  /\ served.open \in BOOLEAN /\ {served.after, relevant, reader.cursor} \subseteq 0..eventSeq
  /\ reader.attempt \in 0..(MaxReconnects + 1)
  /\ wait.pc \in {"idle", "probe", "actions", "select", "answered"} /\ wait.during \in {"start", "stream", "poll"}
  /\ wait.answer \in {"none", "terminal", "action"}

(* Across reconnects the client is handed the committed events of its task *)
(* up to its cursor: each once, none skipped, in their order (stream.go    *)
(* 72-86, handler.go streamEvents, the lock under which emit numbers).     *)
StreamExact ==
  delivered = InOrder({row \in eventLog : row.mine /\ row.seq <= reader.cursor})

(* Wait returns once its task has ended, and when the task stands for a    *)
(* client, parked for an action or with an unknown outcome, unless that is *)
(* answered first, however the stream behaves (waitProbe, waitStream,      *)
(* waitPoll). An action that was asked for and left its task running or in *)
(* the queue is not read without an event (client.go 433-434).             *)
Answerable == \/ task.state \in {"done", "unknown"}
              \/ task.state = "waiting" /\ task.action
WaitAnswers ==
  wait.pc # "idle" /\ Answerable ~> wait.pc = "answered" \/ ~Answerable
=============================================================================
