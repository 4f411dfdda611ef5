----------------------------- MODULE Execution -----------------------------
(***************************************************************************)
(* The durable execution engine of one session (internal/modules/         *)
(* execution): root tasks, the child tasks they delegate to, their tool    *)
(* calls, the workers that claim tasks under a fenced lease, and the API   *)
(* operations clients race against them.                                   *)
(*                                                                         *)
(* Every writer of the code locks the session row and then the task row    *)
(* (store.go), so one database transaction is one action here, and a       *)
(* worker's `pc` names the transaction or external call it performs next.  *)
(* What a worker read in one transaction and uses in a later one is kept   *)
(* in its own record `wk[w]`.                                              *)
(***************************************************************************)
EXTENDS Integers, FiniteSets

CONSTANTS
  Tasks,           (* task rows that may be created in the session            *)
  Parent,          (* Parent[t]: the coordinator of child t, NoTask for roots *)
  Calls,           (* tool calls, numbered in the order of created_at         *)
  CallTask,        (* CallTask[c]: the task whose model turn requests c       *)
  Kind,            (* Kind[c]: what executes c                                *)
  NeedsApproval,   (* calls whose tool requires a client's approval           *)
  WaitFor,         (* WaitFor[c]: task_ids of an agent_wait, {} means all     *)
  WaitAny,         (* agent_wait calls with mode "any"; the others wait "all" *)
  Timed,           (* agent_wait calls with a positive timeout_seconds        *)
  Workers,
  NoTask, NoWorker, NoCall,
  HasEnvironment,  (* the session binds an environment: prepare provisions it *)
  MaxToolCalls,    (* MaxToolCalls[t]: Budget.MaxToolCalls of the task        *)
  MaxAgents,       (* Budget.MaxAgents, the coordinator included              *)
  MaxConcurrentAgents,
  MaxFailures,     (* model failures in a row that fail a task (3 in step.go) *)
  MaxEpoch,        (* MaxEpoch[t]: bound of the model, the claims of one task *)
  StopReasons,     (* how a turn without tool calls may end                   *)
  Admissions,      (* verdicts the admission callback may give                *)
  Faults,          (* faults of the environment this instance exercises       *)
  Api              (* API operations this instance exercises                  *)

CallKinds == {"read", "write", "custom", "agent", "wait", "unavailable"}

ASSUME ParentAssumption ==
  /\ NoTask \notin Tasks
  /\ Parent \in [Tasks -> Tasks \cup {NoTask}]
  /\ \A t \in Tasks : Parent[t] # NoTask => Parent[Parent[t]] = NoTask
ASSUME CallAssumption ==
  /\ Calls \subseteq Nat /\ NoCall \notin Calls
  /\ CallTask \in [Calls -> Tasks]
  /\ Kind \in [Calls -> CallKinds]
  /\ NeedsApproval \subseteq Calls
  /\ WaitFor \in [Calls -> SUBSET Tasks]
ASSUME WorkerAssumption == NoWorker \notin Workers
ASSUME BoundAssumption ==
  /\ MaxToolCalls \in [Tasks -> Nat]
  /\ MaxEpoch \in [Tasks -> Nat]
  /\ {MaxAgents, MaxConcurrentAgents} \subseteq Nat
  /\ MaxFailures \in Nat \ {0}
  /\ StopReasons \subseteq {"succeeded", "partial"}
  /\ Admissions \subseteq {"ok", "declined", "impossible"}
  /\ HasEnvironment \in BOOLEAN

VARIABLES
  session,  (* the session row: activeRoot, writerCall, archived              *)
  ws,       (* the session's workspace row: root, state                       *)
  task,     (* task rows; state "none" before the row exists                  *)
  call,     (* tool-call rows; status "none" before the row exists            *)
  wk,       (* what each worker process holds in memory                       *)
  execs     (* history: how often the executor was invoked for a call         *)

vars == <<session, ws, task, call, wk, execs>>

-----------------------------------------------------------------------------
(* Rows.                                                                    *)

TerminalStates == {"succeeded", "partial", "failed", "canceled"}
TaskStates == {"none", "queued", "running", "waiting", "unknown"} \cup TerminalStates
CallStatuses == {"none", "ready", "approval", "custom", "running",
                 "waiting_children", "unknown", "completed"}
PCs == {"idle", "begin", "deliver", "tool", "exec", "record", "wait", "park",
        "requeue", "prepare", "provision", "model", "summary", "respond",
        "stream", "unknown", "fin1", "hook", "fin2", "cleanup"}

(* `live` is "lease_until lies in the future"; `error` is "the error column *)
(* is not empty"; `input` is "some accepted input is not consumed"; `gens`  *)
(* counts generation rows still marked running.                             *)
TaskRow == [state: TaskStates, owner: Workers \cup {NoWorker}, epoch: Nat,
            live: BOOLEAN, cancel: BOOLEAN, finalizing: BOOLEAN,
            pending: {""} \cup TerminalStates, failures: Nat, error: BOOLEAN,
            input: BOOLEAN, gens: Nat, toolCount: Nat]
CallRow == [status: CallStatuses, delivered: BOOLEAN,
            deadline: {"none", "armed", "passed"}]
Session == [activeRoot: Tasks \cup {NoTask}, writerCall: Calls \cup {NoCall},
            archived: BOOLEAN]
Workspace == [root: Tasks \cup {NoTask}, state: {"", "preparing", "ready"}]

(* A worker's memory: the claim (task, epoch), and from the step's first    *)
(* transaction the completed calls to deliver, the first call that is not   *)
(* completed and what to do with it, or the state to finish in.             *)
WorkerRow == [pc: PCs, task: Tasks \cup {NoTask}, epoch: Nat,
              batch: SUBSET Calls, head: Calls \cup {NoCall},
              then: {"idle", "begin", "tool", "wait", "park"},
              fin: {""} \cup TerminalStates]

Terminal(s) == s \in TerminalStates
RootOf(t) == IF Parent[t] = NoTask THEN t ELSE Parent[t]
Roots == {t \in Tasks : Parent[t] = NoTask}
Exists(t) == task[t].state # "none"
Children(t) == {c \in Tasks : Parent[c] = t /\ Exists(c)}
Tree(t) == {u \in Tasks : RootOf(u) = RootOf(t) /\ Exists(u)}
AgentCount(t) == 1 + Cardinality(Children(t))
CallsOf(t) == {c \in Calls : CallTask[c] = t /\ call[c].status # "none"}
CallsIn(t, statuses) == {c \in Calls : CallTask[c] = t /\ call[c].status \in statuses}
First(S) == CHOOSE c \in S : \A d \in S : c <= d

NewTask == [state |-> "none", owner |-> NoWorker, epoch |-> 0, live |-> FALSE,
            cancel |-> FALSE, finalizing |-> FALSE, pending |-> "",
            failures |-> 0, error |-> FALSE, input |-> FALSE, gens |-> 0,
            toolCount |-> 0]
NewCall == [status |-> "none", delivered |-> FALSE, deadline |-> "none"]
Idle == [pc |-> "idle", task |-> NoTask, epoch |-> 0, batch |-> {},
         head |-> NoCall, then |-> "idle", fin |-> ""]

(* The row a transaction leaves when it gives the claim up.                 *)
Release(r, state) == [r EXCEPT !.state = state, !.owner = NoWorker, !.live = FALSE]
(* Mutant: nothing wakes a waiting task.                                    *)
NotRearmed(r) == r
(* A task leaves "waiting" when something re-arms it.                       *)
Rearm(r) == [r EXCEPT !.state = IF @ = "waiting" THEN "queued" ELSE @]
(* Mutants: one row is settled whether or not there is any; none is.        *)
InterruptedOne(r) == [r EXCEPT !.gens = @ - 1]
InterruptedNone(r) == r
(* interruptGenerations settles the generation rows a claim left running.   *)
Interrupted(r) == [r EXCEPT !.gens = 0]

(* fenced: the stored row still shows this claim with a live lease.         *)
Fenced(w) == LET r == task[wk[w].task] IN
  /\ wk[w].task # NoTask
  /\ r.owner = w /\ r.epoch = wk[w].epoch /\ r.state = "running" /\ r.live

Goto(w, pc) == wk' = [wk EXCEPT ![w].pc = pc]
GoIdle(w) == wk' = [wk EXCEPT ![w] = Idle]
(* The next iteration of run's loop forgets the previous step's snapshot.   *)
GoBegin(w) == wk' = [wk EXCEPT ![w] = [Idle EXCEPT !.pc = "begin",
                                         !.task = wk[w].task, !.epoch = wk[w].epoch]]

Init ==
  /\ session = [activeRoot |-> NoTask, writerCall |-> NoCall, archived |-> FALSE]
  /\ ws = [root |-> NoTask, state |-> ""]
  /\ task = [t \in Tasks |-> NewTask]
  /\ call = [c \in Calls |-> NewCall]
  /\ wk = [w \in Workers |-> Idle]
  /\ execs = [c \in Calls |-> 0]

-----------------------------------------------------------------------------
(* Claiming: claimSession visits the candidates of one locked session. One  *)
(* candidate is one action here: only the visit that claims a task writes a *)
(* row another visit reads, and it ends the loop.                           *)

(* Mutant: the session is not pinned to its active root.                    *)
ClaimableUnpinned(t) == task[t].state = "queued" \/ (task[t].state = "running" /\ ~task[t].live)
(* claimable, with the session pinned to its active root.                   *)
Claimable(t) ==
  /\ \/ task[t].state = "queued"
     \/ task[t].state = "running" /\ ~task[t].live
  /\ session.activeRoot \in {NoTask, RootOf(t)}

(* A lapsed claim that stopped inside finalization or a tool execution has  *)
(* an uncertain outcome: it is settled to unknown and never taken over.     *)
Uncertain(t) == task[t].state = "running"
                /\ (task[t].finalizing \/ CallsIn(t, {"running"}) # {})

(* Mutant: an off-by-one in the count of running siblings.                  *)
SiblingsOverfull(t) ==
  /\ Parent[t] # NoTask /\ ~task[t].cancel
  /\ Cardinality({u \in Tasks \ {t} : Parent[u] = Parent[t] /\ task[u].state = "running"})
       > MaxConcurrentAgents
SiblingsFull(t) ==
  /\ Parent[t] # NoTask /\ ~task[t].cancel
  /\ Cardinality({u \in Tasks \ {t} : Parent[u] = Parent[t] /\ task[u].state = "running"})
       >= MaxConcurrentAgents

(* Mutants: a lost call is left running, or is queued to be executed again. *)
LoseNothing(t) == call
LoseCallsForRetry(t) == [c \in Calls |->
  IF CallTask[c] = t /\ call[c].status = "running"
    THEN [call[c] EXCEPT !.status = "ready"] ELSE call[c]]
(* The calls a settled claim was executing; a finalizing one executes none. *)
LoseCalls(t) == [c \in Calls |->
  IF CallTask[c] = t /\ call[c].status = "running"
    THEN [call[c] EXCEPT !.status = "unknown"] ELSE call[c]]

ClaimSettles(t) ==
  /\ Claimable(t) /\ Uncertain(t)
  /\ task' = [task EXCEPT ![t] =
       [Release(Interrupted(@), "unknown") EXCEPT
          !.error = task[t].error \/ task[t].finalizing]]
  /\ call' = IF task[t].finalizing THEN call ELSE LoseCalls(t)
  /\ UNCHANGED <<session, ws, wk, execs>>

(* Admission is asked unless the task only has to be finished.              *)
NeedsAdmission(t) == ~task[t].cancel /\ task[t].pending = ""

(* Interrupting the stranded generations of a lapsed claim commits even     *)
(* when the candidate is then skipped.                                      *)
ClaimSkips(t) ==
  /\ Claimable(t) /\ ~Uncertain(t)
  /\ task[t].state = "running" /\ task[t].gens > 0
  /\ SiblingsFull(t) \/ (NeedsAdmission(t) /\ "declined" \in Admissions)
  /\ task' = [task EXCEPT ![t] = Interrupted(@)]
  /\ UNCHANGED <<session, ws, call, wk, execs>>

Claim(w, t) ==
  /\ wk[w].pc = "idle" /\ task[t].epoch < MaxEpoch[t]
  /\ Claimable(t) /\ ~Uncertain(t) /\ ~SiblingsFull(t)
  /\ \E verdict \in IF NeedsAdmission(t) THEN Admissions \ {"declined"} ELSE {"ok"} :
       task' = [task EXCEPT ![t] =
         [Interrupted(@) EXCEPT !.state = "running", !.owner = w, !.live = TRUE,
            !.epoch = task[t].epoch + 1,
            !.pending = IF verdict = "impossible" THEN "failed" ELSE task[t].pending,
            !.error = task[t].error \/ verdict = "impossible"]]
  /\ session' = [session EXCEPT !.activeRoot = RootOf(t)]
  /\ wk' = [wk EXCEPT ![w] = [Idle EXCEPT !.pc = "begin", !.task = t,
                                !.epoch = task[t].epoch + 1]]
  /\ UNCHANGED <<ws, call, execs>>

-----------------------------------------------------------------------------
(* One step of the worker's loop.                                           *)

(* Mutant: only calls that have a result are looked at.                     *)
UndeliveredResults(t) == {c \in CallsOf(t) : call[c].status = "completed" /\ ~call[c].delivered}
Undelivered(t) == {c \in CallsOf(t) : ~call[c].delivered}

(* What step does with the first call that is not completed, as read by its *)
(* first transaction.                                                       *)
Dispatch(c) ==
  CASE call[c].status = "waiting_children" -> "wait"
    [] call[c].status = "ready" /\ Kind[c] = "wait" -> "wait"
    [] call[c].status = "ready" /\ Kind[c] # "wait" -> "tool"
    [] OTHER -> "park"

StepBegin(w) ==
  LET t == wk[w].task
      undelivered == Undelivered(t)
      consumes == ~task[t].cancel /\ undelivered = {}
      row == IF consumes /\ task[t].input
               THEN [task[t] EXCEPT !.input = FALSE, !.pending = ""] ELSE task[t]
      blocked == {c \in undelivered : call[c].status # "completed"}
      head == IF blocked = {} THEN NoCall ELSE First(blocked)
      batch == {c \in undelivered : blocked = {} \/ c < head}
      then == IF blocked = {} THEN "begin" ELSE Dispatch(head)
      next == CASE row.cancel -> [pc |-> "fin1", fin |-> IF row.pending = "failed"
                                                         THEN "failed" ELSE "canceled"]
                [] ~row.cancel /\ undelivered # {} ->
                     [pc |-> IF batch # {} THEN "deliver" ELSE then, fin |-> ""]
                [] ~row.cancel /\ undelivered = {} /\ row.pending # "" ->
                     [pc |-> "fin1", fin |-> row.pending]
                [] OTHER -> [pc |-> "prepare", fin |-> ""]
  IN
  /\ wk[w].pc = "begin" /\ Fenced(w)
  /\ task' = [task EXCEPT ![t] = row]
  /\ wk' = [wk EXCEPT ![w] = [@ EXCEPT !.pc = next.pc, !.fin = next.fin,
       !.batch = IF next.pc = "fin1" THEN {} ELSE batch,
       !.head = IF next.pc = "fin1" THEN NoCall ELSE head,
       !.then = IF next.pc \in {"fin1", "prepare"} THEN "idle" ELSE then]]
  /\ UNCHANGED <<session, ws, call, execs>>

(* Completed results are appended to the model context one by one.          *)
Deliver(w) ==
  LET c == First(wk[w].batch)
      rest == wk[w].batch \ {c}
  IN
  /\ wk[w].pc = "deliver" /\ Fenced(w)
  /\ call' = [call EXCEPT ![c].delivered = TRUE]
  /\ IF rest = {} /\ wk[w].then = "begin" THEN GoBegin(w)
     ELSE wk' = [wk EXCEPT ![w].batch = rest,
                           ![w].pc = IF rest = {} THEN wk[w].then ELSE "deliver"]
  /\ UNCHANGED <<session, ws, task, execs>>

-----------------------------------------------------------------------------
(* Tool execution.                                                          *)

(* A call that writes the workspace needs the session's writer lock.        *)
WriterFree(c) == Kind[c] = "write" => session.writerCall \in {NoCall, c}

ToolStart(w) ==
  LET t == wk[w].task
      c == wk[w].head
  IN
  /\ wk[w].pc = "tool" /\ Fenced(w)
  /\ \/ /\ task[t].cancel      \* context.Canceled ends the step
        /\ Goto(w, "cleanup")
        /\ UNCHANGED <<session, call>>
     \/ /\ ~task[t].cancel /\ ~WriterFree(c)
        /\ Goto(w, "requeue")
        /\ UNCHANGED <<session, call>>
     \/ /\ ~task[t].cancel /\ WriterFree(c)
        /\ session' = [session EXCEPT !.writerCall = IF Kind[c] = "write" THEN c ELSE @]
        /\ call' = [call EXCEPT ![c].status = "running"]
        /\ Goto(w, "exec")
  /\ UNCHANGED <<ws, task, execs>>

(* The executor runs outside every transaction, so a worker that has lost   *)
(* its claim executes the call all the same.                                *)
Execute(w) ==
  /\ wk[w].pc = "exec" /\ Kind[wk[w].head] # "agent"
  /\ execs' = [execs EXCEPT ![wk[w].head] = @ + 1]
  /\ Goto(w, "record")
  /\ UNCHANGED <<session, ws, task, call>>

(* The outcome: confirmed, or an error that leaves it unknown.              *)
Record(w) ==
  LET t == wk[w].task
      c == wk[w].head
  IN
  /\ wk[w].pc = "record" /\ Fenced(w)
  /\ \/ /\ call' = [call EXCEPT ![c].status = "completed"]
        /\ session' = [session EXCEPT !.writerCall = IF Kind[c] = "write" THEN NoCall ELSE @]
        /\ GoBegin(w)
        /\ UNCHANGED task
     \/ /\ "error" \in Faults
        /\ call' = [call EXCEPT ![c].status = "unknown"]
        /\ task' = [task EXCEPT ![t] = [Release(@, "unknown") EXCEPT !.error = TRUE]]
        /\ GoIdle(w)
        /\ UNCHANGED session
  /\ UNCHANGED <<ws, execs>>

-----------------------------------------------------------------------------
(* Collaboration. The same row changes serve the API and the agent tools.   *)

SpawnAllowed(p, t) ==
  /\ Parent[t] = p /\ p # NoTask /\ ~Exists(t)
  /\ Parent[p] = NoTask /\ Exists(p) /\ ~Terminal(task[p].state)
  /\ ~task[p].cancel /\ ~task[p].finalizing
  /\ AgentCount(p) < MaxAgents
Spawned(t) == [task EXCEPT ![t] = [NewTask EXCEPT !.state = "queued", !.input = TRUE]]

SteerAllowed(t) == /\ Exists(t) /\ ~Terminal(task[t].state)
                   /\ ~task[t].cancel /\ ~task[t].finalizing
Steered(t) == [task EXCEPT ![t] =
  IF task[t].state = "waiting" /\ task[t].pending # ""
    THEN [@ EXCEPT !.input = TRUE, !.pending = "", !.state = "queued"]
    ELSE [@ EXCEPT !.input = TRUE]]

(* Mutant: a child is resumed although its coordinator is finalizing.       *)
FollowupWhileFinalizing(t) ==
  /\ Parent[t] # NoTask /\ Terminal(task[t].state)
  /\ LET p == task[Parent[t]] IN ~Terminal(p.state) /\ ~p.cancel
FollowupAllowed(t) ==
  /\ Parent[t] # NoTask /\ Terminal(task[t].state)
  /\ LET p == task[Parent[t]] IN ~Terminal(p.state) /\ ~p.finalizing /\ ~p.cancel
FollowedUp(t) == [task EXCEPT ![t] =
  [@ EXCEPT !.state = "queued", !.pending = "", !.finalizing = FALSE,
            !.cancel = FALSE, !.error = FALSE, !.failures = 0, !.input = TRUE]]

(* Canceling a root cancels its whole tree, canceling a child only itself.  *)
CancelScope(t) == {u \in IF Parent[t] = NoTask THEN Tree(t) ELSE {t} :
                     ~Terminal(task[u].state)}
Canceled(t) == [u \in Tasks |-> IF u \in CancelScope(t)
                                  THEN Rearm([task[u] EXCEPT !.cancel = TRUE]) ELSE task[u]]

(* agentTool: one fenced transaction carries out the request, or rejects it *)
(* with no effect; its result is recorded by a later transaction.           *)
AgentOperation(w) ==
  LET t == wk[w].task IN
  /\ wk[w].pc = "exec" /\ Kind[wk[w].head] = "agent" /\ Fenced(w)
  /\ \/ \E c \in Tasks : SpawnAllowed(t, c) /\ task' = Spawned(c)
     \/ \E u \in Tree(t) : SteerAllowed(u) /\ task' = Steered(u)
     \/ \E u \in Tree(t) : FollowupAllowed(u) /\ task' = FollowedUp(u)
     \/ \E u \in Children(t) : task' = Canceled(u)
     \/ UNCHANGED task
  /\ execs' = [execs EXCEPT ![wk[w].head] = @ + 1]
  /\ Goto(w, "record")
  /\ UNCHANGED <<session, ws, call>>

(* waitChildren decides and parks under the session lock that a finishing   *)
(* child also takes.                                                        *)
WaitSelection(t, c) == IF WaitFor[c] = {} THEN Children(t) ELSE WaitFor[c] \cap Children(t)
WaitPending(t, c) ==
  LET selected == WaitSelection(t, c)
      finished == {u \in selected : Terminal(task[u].state)}
  IN /\ WaitFor[c] \subseteq Children(t)      \* an invalid request never waits
     /\ call[c].deadline # "passed"
     /\ selected # {}
     /\ IF c \in WaitAny THEN finished = {} ELSE finished # selected

WaitChildren(w) ==
  LET t == wk[w].task
      c == wk[w].head
  IN
  /\ wk[w].pc = "wait" /\ Fenced(w)
  /\ IF WaitPending(t, c)
       THEN /\ call' = [call EXCEPT ![c].status = "waiting_children",
                          ![c].deadline = IF c \in Timed /\ @ = "none" THEN "armed" ELSE @]
            /\ task' = [task EXCEPT ![t] = Release(@, "waiting")]
            /\ GoIdle(w)
       ELSE /\ call' = [call EXCEPT ![c].status = "completed", ![c].deadline = "none"]
            /\ GoBegin(w)
            /\ UNCHANGED task
  /\ UNCHANGED <<session, ws, execs>>

(* Mutant: park does not look at what clients decided meanwhile.            *)
NoProgress(t) == FALSE
(* park("waiting"), unless a client's decision progressed a call meanwhile. *)
Progressed(t) == \E c \in CallsOf(t) :
  \/ call[c].status = "ready"
  \/ call[c].status = "completed" /\ ~call[c].delivered
Park(w) ==
  LET t == wk[w].task IN
  /\ wk[w].pc = "park" /\ Fenced(w)
  /\ task' = [task EXCEPT ![t] = Release(@, IF Progressed(t) THEN "queued" ELSE "waiting")]
  /\ GoIdle(w)
  /\ UNCHANGED <<session, ws, call, execs>>

(* park("queued")                                                           *)
Requeue(w) ==
  /\ wk[w].pc = "requeue" /\ Fenced(w)
  /\ task' = [task EXCEPT ![wk[w].task] = Release(@, "queued")]
  /\ GoIdle(w)
  /\ UNCHANGED <<session, ws, call, execs>>

ParkUnknown(w) ==
  /\ wk[w].pc = "unknown" /\ Fenced(w)
  /\ task' = [task EXCEPT ![wk[w].task] = [Release(@, "unknown") EXCEPT !.error = TRUE]]
  /\ GoIdle(w)
  /\ UNCHANGED <<session, ws, call, execs>>

-----------------------------------------------------------------------------
(* The workspace (app.prepare). Its transaction locks the session but does  *)
(* not check the claim, and its last write replaces the whole row.          *)

PrepareBegin(w) ==
  LET t == wk[w].task
      mine == ws.root = RootOf(t)
  IN
  /\ wk[w].pc = "prepare"
  /\ \/ /\ ~HasEnvironment \/ (mine /\ ws.state = "ready")
        /\ Goto(w, "model") /\ UNCHANGED ws
     \/ /\ HasEnvironment /\ ~(mine /\ ws.state = "ready") /\ Parent[t] # NoTask
        /\ Goto(w, "requeue") /\ UNCHANGED ws
     \/ /\ HasEnvironment /\ mine /\ ws.state = "preparing" /\ Parent[t] = NoTask
        /\ Goto(w, "unknown") /\ UNCHANGED ws
     \/ /\ HasEnvironment /\ ~(mine /\ ws.state # "") /\ Parent[t] = NoTask
        /\ ws' = [root |-> t, state |-> "preparing"]
        /\ Goto(w, "provision")
  /\ UNCHANGED <<session, task, call, execs>>

PrepareEnd(w) ==
  /\ wk[w].pc = "provision"
  /\ \/ /\ ws' = [root |-> wk[w].task, state |-> "ready"]
        /\ Goto(w, "model")
     \/ /\ "error" \in Faults
        /\ Goto(w, "unknown") /\ UNCHANGED ws
  /\ UNCHANGED <<session, task, call, execs>>

-----------------------------------------------------------------------------
(* Model work.                                                              *)

(* fail: an exhausted budget, a guardrail or a context that cannot be       *)
(* compacted fails the task, which its next step finishes.                  *)
Fail(w) ==
  /\ "fail" \in Faults
  /\ wk[w].pc \in {"model", "respond"} /\ Fenced(w)
  /\ task' = [task EXCEPT ![wk[w].task].pending = "failed", ![wk[w].task].error = TRUE]
  /\ GoBegin(w)
  /\ UNCHANGED <<session, ws, call, execs>>

StartGeneration(w) ==
  /\ wk[w].pc \in {"model", "respond"} /\ Fenced(w)
  /\ task' = [task EXCEPT ![wk[w].task].gens = @ + 1]
  /\ \/ "summary" \in Faults /\ wk[w].pc = "model" /\ Goto(w, "summary")
     \/ Goto(w, "stream")
  /\ UNCHANGED <<session, ws, call, execs>>

(* compact saves its generation whatever the outcome.                       *)
CompactEnd(w) ==
  /\ wk[w].pc = "summary" /\ Fenced(w)
  /\ task' = [task EXCEPT ![wk[w].task].gens = @ - 1]
  /\ Goto(w, "respond")
  /\ UNCHANGED <<session, ws, call, execs>>

ModelFails(w) ==
  LET t == wk[w].task
      row == [task[t] EXCEPT !.gens = @ - 1, !.failures = @ + 1]
  IN
  /\ "model" \in Faults
  /\ wk[w].pc = "stream" /\ Fenced(w)
  /\ \/ /\ row.failures >= MaxFailures
        /\ task' = [task EXCEPT ![t] = [row EXCEPT !.error = TRUE, !.pending = "failed"]]
        /\ GoBegin(w)
     \/ /\ row.failures < MaxFailures
        /\ task' = [task EXCEPT ![t] = Release(row, "queued")]
        /\ GoIdle(w)
  /\ UNCHANGED <<session, ws, call, execs>>

(* The calls a turn may request next, in the order it requests them.        *)
Turns(t) == LET fresh == {c \in Calls : CallTask[c] = t /\ call[c].status = "none"}
            IN {S \in SUBSET fresh : /\ IsFiniteSet(S)
                                      /\ \A c \in S, d \in fresh : d < c => d \in S}
(* Mutant: a child's calls are not held against its coordinator's budget.   *)
AcceptedByTask(t, turn) == LET usable == {c \in turn : Kind[c] # "unavailable"} IN
  {c \in usable : task[t].toolCount + Cardinality({d \in usable : d < c}) < MaxToolCalls[t]}
(* A call is accepted while both the task's and its root's budget have room.*)
Accepted(t, turn) == LET usable == {c \in turn : Kind[c] # "unavailable"} IN
  {c \in usable : \A u \in {t, RootOf(t)} :
     task[u].toolCount + Cardinality({d \in usable : d < c}) < MaxToolCalls[u]}
FirstStatus(c, accepted) ==
  CASE c \notin accepted -> "completed"
    [] c \in accepted /\ c \in NeedsApproval -> "approval"
    [] c \in accepted /\ c \notin NeedsApproval /\ Kind[c] = "custom" -> "custom"
    [] OTHER -> "ready"

ModelAnswers(w) ==
  LET t == wk[w].task IN
  /\ wk[w].pc = "stream" /\ Fenced(w)
  /\ \E turn \in Turns(t), stop \in StopReasons :
       LET accepted == Accepted(t, turn)
           charge(r) == [r EXCEPT !.toolCount = @ + Cardinality(accepted)]
       IN
       /\ call' = [c \in Calls |-> IF c \in turn
            THEN [NewCall EXCEPT !.status = FirstStatus(c, accepted)] ELSE call[c]]
       /\ task' = [u \in Tasks |->
            CASE u = t -> [charge(task[t]) EXCEPT !.gens = @ - 1, !.failures = 0,
                             !.pending = IF turn = {} THEN stop ELSE @]
              [] u # t /\ u = RootOf(t) -> charge(task[u])
              [] OTHER -> task[u]]
  /\ GoBegin(w)
  /\ UNCHANGED <<session, ws, execs>>

-----------------------------------------------------------------------------
(* Finishing: a first transaction settles what must be settled or waits, a  *)
(* callback outside any transaction publishes outputs, a second transaction *)
(* makes the task terminal.                                                 *)

Stopping(state) == state \in {"canceled", "failed"}
StoppedCalls(t) == [c \in Calls |->
  IF c \in CallsIn(t, {"ready", "approval", "waiting_children"})
    THEN [call[c] EXCEPT !.status = "completed"] ELSE call[c]]

(* Mutant: only running children are waited for.                            *)
RunningChildren(t) == {u \in Children(t) : task[u].state = "running"}
OpenChildren(t) == {u \in Children(t) : ~Terminal(task[u].state)}

FinishBegin(w) ==
  LET t == wk[w].task
      unsettled == CallsIn(t, {"running", "unknown", "custom"}) # {}
      open == OpenChildren(t)
      short == \E u \in Children(t) : task[u].state \in TerminalStates \ {"succeeded"}
      fin == IF wk[w].fin = "succeeded" /\ short THEN "partial" ELSE wk[w].fin
  IN
  /\ wk[w].pc = "fin1" /\ Fenced(w)
  /\ call' = IF Stopping(wk[w].fin) THEN StoppedCalls(t) ELSE call
  /\ \/ /\ Stopping(wk[w].fin) /\ unsettled
        /\ task' = [task EXCEPT ![t] = [Release(@, "unknown") EXCEPT !.error = TRUE]]
        /\ GoIdle(w)
     \/ /\ ~(Stopping(wk[w].fin) /\ unsettled) /\ open # {}
        /\ task' = [u \in Tasks |->
             CASE u = t -> [Release(task[t], "waiting") EXCEPT !.pending = fin]
               [] u \in open /\ Stopping(fin) -> Rearm([task[u] EXCEPT !.cancel = TRUE])
               [] OTHER -> task[u]]
        /\ GoIdle(w)
     \/ /\ ~(Stopping(wk[w].fin) /\ unsettled) /\ open = {}
        /\ task' = [task EXCEPT ![t].finalizing = TRUE, ![t].pending = fin]
        /\ wk' = [wk EXCEPT ![w].pc = IF Parent[t] = NoTask THEN "hook" ELSE "fin2",
                            ![w].fin = fin]
  /\ UNCHANGED <<session, ws, execs>>

(* app.finish publishes the artifacts and stops the sandbox; it refuses a   *)
(* workspace with an unresolved writer.                                     *)
FinishHook(w) ==
  /\ wk[w].pc = "hook"
  /\ \/ /\ HasEnvironment => session.writerCall = NoCall
        /\ Goto(w, "fin2")
     \/ /\ HasEnvironment /\ (session.writerCall # NoCall \/ "error" \in Faults)
        /\ Goto(w, "unknown")
  /\ UNCHANGED <<session, ws, task, call, execs>>

(* A finished child reports to its coordinator and re-arms it.              *)
FinishEnd(w) ==
  LET t == wk[w].task
      p == Parent[t]
      done == [task EXCEPT ![t] = Release(@, wk[w].fin)]
  IN
  /\ wk[w].pc = "fin2" /\ Fenced(w)
  /\ IF p = NoTask
       THEN /\ task' = done
            /\ session' = [session EXCEPT !.activeRoot = NoTask]
       ELSE /\ task' = [done EXCEPT ![p] = Rearm([@ EXCEPT !.input = TRUE])]
            /\ UNCHANGED session
  /\ GoIdle(w)
  /\ UNCHANGED <<ws, call, execs>>

-----------------------------------------------------------------------------
(* The API and the maintenance loop.                                        *)

(* Mutant: an archived session accepts a task.                              *)
CreateAnyway(t) ==
  /\ Parent[t] = NoTask /\ ~Exists(t)
  /\ task' = [task EXCEPT ![t] = [NewTask EXCEPT !.state = "queued", !.input = TRUE]]
  /\ UNCHANGED <<session, ws, call, wk, execs>>
CreateTask(t) ==
  /\ Parent[t] = NoTask /\ ~Exists(t) /\ ~session.archived
  /\ task' = [task EXCEPT ![t] = [NewTask EXCEPT !.state = "queued", !.input = TRUE]]
  /\ UNCHANGED <<session, ws, call, wk, execs>>

(* Mutant: queued tasks are not looked at.                                  *)
ArchiveInactive ==
  /\ "archive" \in Api /\ session.activeRoot = NoTask
  /\ session' = [session EXCEPT !.archived = TRUE]
  /\ UNCHANGED <<ws, task, call, wk, execs>>
Archive ==
  /\ "archive" \in Api
  /\ session.activeRoot = NoTask
  /\ \A t \in Tasks : Exists(t) => Terminal(task[t].state)
  /\ session' = [session EXCEPT !.archived = TRUE]
  /\ UNCHANGED <<ws, task, call, wk, execs>>

Spawn(t) == /\ "spawn" \in Api /\ SpawnAllowed(Parent[t], t) /\ task' = Spawned(t)
            /\ UNCHANGED <<session, ws, call, wk, execs>>
Steer(t) == /\ "steer" \in Api /\ SteerAllowed(t) /\ task' = Steered(t)
            /\ UNCHANGED <<session, ws, call, wk, execs>>
Followup(t) == /\ "followup" \in Api /\ FollowupAllowed(t) /\ task' = FollowedUp(t)
               /\ UNCHANGED <<session, ws, call, wk, execs>>
Cancel(t) == /\ "cancel" \in Api /\ Exists(t) /\ task' = Canceled(t)
             /\ UNCHANGED <<session, ws, call, wk, execs>>

(* Resolve: an approval decision, or the result of a custom or unknown call.*)
(* A decision already committed is answered without a change.               *)
Resolved(c, status) ==
  LET t == CallTask[c] IN
  /\ call' = [call EXCEPT ![c].status = status]
  /\ task' = IF task[t].state \in {"waiting", "unknown"}
               THEN [task EXCEPT ![t].state = "queued", ![t].error = FALSE] ELSE task
  /\ UNCHANGED <<ws, wk, execs>>
Approve(c) == /\ call[c].status = "approval"
              /\ Resolved(c, IF Kind[c] = "custom" THEN "custom" ELSE "ready")
              /\ UNCHANGED session
Deny(c) == /\ "deny" \in Api /\ call[c].status = "approval" /\ Resolved(c, "completed")
           /\ UNCHANGED session
(* Mutant: a submitted result does not free the writer lock.                *)
SubmitResultOnly(c) ==
  /\ call[c].status \in {"custom", "unknown"}
  /\ Resolved(c, "completed") /\ UNCHANGED session
SubmitResult(c) ==
  /\ call[c].status \in {"custom", "unknown"}
  /\ Resolved(c, "completed")
  /\ session' = [session EXCEPT !.writerCall = IF @ = c THEN NoCall ELSE @]

Reconcile(t) ==
  /\ task[t].state = "unknown" /\ CallsIn(t, {"running", "unknown", "custom"}) = {}
  /\ task' = [task EXCEPT ![t].state = "queued", ![t].error = FALSE, ![t].finalizing = FALSE]
  /\ ws' = [ws EXCEPT !.state = IF @ = "preparing" THEN "" ELSE @]
  /\ UNCHANGED <<session, call, wk, execs>>

(* Expire: a started task ran out of its duration budget.                   *)
Expire(t) ==
  /\ "expire" \in Api
  /\ Exists(t) /\ ~Terminal(task[t].state) /\ ~task[t].cancel /\ task[t].epoch > 0
  /\ task' = [Canceled(t) EXCEPT ![t].pending = "failed", ![t].error = TRUE]
  /\ UNCHANGED <<session, ws, call, wk, execs>>

(* An agent_wait deadline passes; the maintenance loop wakes its waiter.    *)
DeadlinePasses(c) ==
  /\ call[c].status = "waiting_children" /\ call[c].deadline = "armed"
  /\ call' = [call EXCEPT ![c].deadline = "passed"]
  /\ UNCHANGED <<session, ws, task, wk, execs>>
WakeWaiter(c) ==
  /\ call[c].status = "waiting_children" /\ call[c].deadline = "passed"
  /\ task[CallTask[c]].state = "waiting"
  /\ task' = [task EXCEPT ![CallTask[c]].state = "queued"]
  /\ UNCHANGED <<session, ws, call, wk, execs>>

-----------------------------------------------------------------------------
(* Faults. A lease that lapses is never renewed: renewLease is fenced too.  *)

LapseLease(t) ==
  /\ "lapse" \in Faults /\ task[t].live
  /\ task' = [task EXCEPT ![t].live = FALSE]
  /\ UNCHANGED <<session, ws, call, wk, execs>>

(* The process dies, or its deferred cleanup cannot reach the database.     *)
Crash(w) ==
  /\ "crash" \in Faults /\ wk[w].pc # "idle"
  /\ GoIdle(w)
  /\ UNCHANGED <<session, ws, task, call, execs>>

(* A step ends early: shutdown, a cancelled context, a database error.      *)
Interrupt(w) ==
  /\ "interrupt" \in Faults /\ wk[w].pc \notin {"idle", "cleanup"}
  /\ Goto(w, "cleanup")
  /\ UNCHANGED <<session, ws, task, call, execs>>

(* run's deferred cleanup gives the claim up; a call or a finalization in   *)
(* flight becomes an uncertain outcome. The error column is written from a  *)
(* row that did not load it.                                                *)
Cleanup(w) ==
  LET t == wk[w].task
      running == CallsIn(t, {"running"}) # {}
      uncertain == task[t].finalizing \/ running
  IN
  /\ wk[w].pc = "cleanup" /\ Fenced(w)
  /\ task' = [task EXCEPT ![t] =
       [Release(Interrupted(@), IF uncertain THEN "unknown" ELSE "queued")
          EXCEPT !.error = uncertain]]
  /\ call' = LoseCalls(t)
  /\ GoIdle(w)
  /\ UNCHANGED <<session, ws, execs>>

(* The next fenced transaction of a worker that lost its claim fails, and   *)
(* so does its cleanup. External work already under way goes on.            *)
FenceLost(w) ==
  /\ wk[w].pc \notin {"idle", "prepare", "provision", "hook"} /\ ~Fenced(w)
  /\ wk[w].pc = "exec" => Kind[wk[w].head] = "agent"
  /\ GoIdle(w)
  /\ UNCHANGED <<session, ws, task, call, execs>>

-----------------------------------------------------------------------------
WorkerStep(w) ==
  \/ StepBegin(w) \/ Deliver(w) \/ ToolStart(w) \/ Execute(w) \/ Record(w)
  \/ AgentOperation(w) \/ WaitChildren(w) \/ Park(w) \/ Requeue(w)
  \/ ParkUnknown(w) \/ PrepareBegin(w) \/ PrepareEnd(w) \/ Fail(w)
  \/ StartGeneration(w) \/ CompactEnd(w) \/ ModelFails(w) \/ ModelAnswers(w)
  \/ FinishBegin(w) \/ FinishHook(w) \/ FinishEnd(w) \/ Cleanup(w) \/ FenceLost(w)

ClaimStep == \/ \E t \in Tasks : ClaimSettles(t) \/ ClaimSkips(t)
             \/ \E w \in Workers, t \in Tasks : Claim(w, t)

TaskRequest == \E t \in Tasks :
  \/ CreateTask(t) \/ Spawn(t) \/ Steer(t) \/ Followup(t) \/ Cancel(t)
  \/ Reconcile(t) \/ Expire(t)
CallRequest == \E c \in Calls :
  Approve(c) \/ Deny(c) \/ SubmitResult(c) \/ DeadlinePasses(c) \/ WakeWaiter(c)
Fault == \/ \E t \in Tasks : LapseLease(t)
         \/ \E w \in Workers : Crash(w) \/ Interrupt(w)

Next == \/ ClaimStep \/ (\E w \in Workers : WorkerStep(w))
        \/ TaskRequest \/ CallRequest \/ Archive \/ Fault

Spec == Init /\ [][Next]_vars

TypeOK ==
  /\ session \in Session
  /\ ws \in Workspace
  /\ task \in [Tasks -> TaskRow]
  /\ call \in [Calls -> CallRow]
  /\ wk \in [Workers -> WorkerRow]
  /\ execs \in [Calls -> Nat]
-----------------------------------------------------------------------------
(* Safety.                                                                  *)

(* Only tasks of the tree that holds the session are ever claimed, however  *)
(* leases lapse and roots queue behind each other (claimSession, finish).   *)
OneTreeRuns == \A t \in Tasks :
  task[t].state = "running" => session.activeRoot = RootOf(t)

(* No crash, lapse, retry or reconciliation invokes the executor twice for  *)
(* one tool call (tool, claimSession, run's cleanup, Resolve).              *)
AtMostOnce == \A c \in Calls : execs[c] <= 1

(* The session's writer lock names exactly the write call that runs or may  *)
(* still run: it is neither leaked nor freed early (tool, Resolve).         *)
WriterLock ==
  \A c \in Calls : Kind[c] = "write" =>
    (session.writerCall = c <=> call[c].status \in {"running", "unknown"})

(* A call marked running belongs to a claim: whoever gives the claim up or  *)
(* takes it over settles the call (run's cleanup, claimSession, tool).      *)
RunningCallOwned == \A t \in Tasks :
  CallsIn(t, {"running"}) # {} =>
    task[t].state = "running" /\ Cardinality(CallsIn(t, {"running"})) = 1

(* A waiting task is never stranded: a client's decision, an unfinished     *)
(* child or a deadline will queue it again (park, waitChildren, finish).    *)
WaitingHasWaker == \A t \in Tasks : task[t].state = "waiting" =>
  \/ CallsIn(t, {"approval", "custom", "unknown"}) # {}
  \/ \E u \in Children(t) : ~Terminal(task[u].state)
  \/ \E c \in CallsIn(t, {"waiting_children"}) : call[c].deadline # "none"

(* From the decision to finalize on, nothing of the tree is open: outputs   *)
(* are published, and the task ends, with every call answered and every     *)
(* child terminal (finish, Spawn, followup).                                *)
FinalizingIsSettled == \A t \in Tasks : task[t].finalizing =>
  /\ CallsOf(t) = CallsIn(t, {"completed"})
  /\ \A u \in Children(t) : Terminal(task[u].state)

(* An archived session has no work left and never gets any (Archive,        *)
(* CreateTask, followup).                                                   *)
ArchivedIsQuiet == session.archived =>
  /\ session.activeRoot = NoTask
  /\ \A t \in Tasks : Exists(t) => Terminal(task[t].state)

(* The coordinator's tool budget bounds the whole tree, its children's      *)
(* executions included (step's last transaction).                           *)
TreeToolBudget == \A r \in Roots :
  Cardinality({c \in Calls : RootOf(CallTask[c]) = r
                 /\ (execs[c] > 0 \/ call[c].status \notin {"none", "completed"})})
    <= MaxToolCalls[r]

(* A generation row marked running belongs to the claim that streams it     *)
(* (interruptGenerations in run's cleanup and claimSession).                *)
GenerationsSettled == \A t \in Tasks :
  task[t].gens <= IF task[t].state = "running" THEN 1 ELSE 0

(* Uncancelled children never run beyond the coordinator's limit, whatever  *)
(* lapses or is resumed (claimSession).                                     *)
ConcurrentAgents == \A r \in Roots :
  Cardinality({u \in Children(r) : task[u].state = "running" /\ ~task[u].cancel})
    <= MaxConcurrentAgents

-----------------------------------------------------------------------------
(* The inductive invariant of Execution_proofs.                             *)

(* A worker that finishes a task knows the state to finish it in.           *)
FinIsTerminal == \A w \in Workers :
  wk[w].pc \in {"fin1", "hook", "fin2"} => wk[w].fin \in TerminalStates

(* The holder of a claim has a generation row open exactly while it talks   *)
(* to the model; only its cleanup does not know.                            *)
GenerationOwned == \A w \in Workers : Fenced(w) =>
  /\ wk[w].pc \in {"summary", "stream"} => task[wk[w].task].gens = 1
  /\ wk[w].pc \notin {"summary", "stream", "cleanup"} => task[wk[w].task].gens = 0

(* The holder of a claim past finish's first transaction has marked its     *)
(* task.                                                                    *)
FinalizerMarked == \A w \in Workers :
  Fenced(w) /\ wk[w].pc \in {"hook", "fin2"} => task[wk[w].task].finalizing

(* No child of a finalizing coordinator is open.                            *)
ChildrenSettled == \A u \in Tasks :
  Parent[u] # NoTask /\ task[Parent[u]].finalizing =>
    task[u].state \in {"none"} \cup TerminalStates

(* Types alone are not inductive: `gens - 1` is a natural number only for a *)
(* claim with an open row. Nor is OneTreeRuns: a root gives the session up  *)
(* only because its children are settled by then.                           *)
IInv == TypeOK /\ FinIsTerminal /\ GenerationOwned /\ GenerationsSettled
        /\ OneTreeRuns /\ FinalizerMarked /\ ChildrenSettled

-----------------------------------------------------------------------------
(* What the repository says of failures, and the code does not keep.        *)

(* A failed task says why: recovery.md tells the client to "inspect         *)
(* task.result, task.error". run's cleanup and Resolve empty the column.    *)
FailedHasReason == \A t \in Tasks : task[t].state = "failed" => task[t].error

(* "An impossible request must fail visibly": a task whose sandbox profile  *)
(* can never be reserved is not provisioned (admitSandbox). Meant for       *)
(* instances where every admission is impossible.                           *)
ImpossibleIsNotProvisioned == \A w \in Workers : wk[w].pc # "provision"

-----------------------------------------------------------------------------
(* Execution implements DurableSession.                                     *)

Life(t) == CASE ~Exists(t) -> "absent"
             [] Exists(t) /\ Terminal(task[t].state) -> "done"
             [] OTHER -> "open"
Phase(c) == CASE call[c].status = "none" -> "absent"
              [] call[c].status = "running" -> "running"
              [] call[c].status = "unknown" -> "uncertain"
              [] call[c].status = "completed" ->
                   IF call[c].delivered THEN "delivered" ELSE "answered"
              [] OTHER -> "pending"
Contract == INSTANCE DurableSession WITH
  Writers <- {c \in Calls : Kind[c] = "write"},
  life <- [t \in Tasks |-> Life(t)],
  active <- session.activeRoot,
  archived <- session.archived,
  phase <- [c \in Calls |-> Phase(c)]

(* Every transaction of every worker and request is a step the session's    *)
(* client was promised, or invisible to it.                                 *)
KeepsContract == Contract!Spec

=============================================================================
