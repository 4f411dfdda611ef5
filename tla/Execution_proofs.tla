-------------------------- MODULE Execution_proofs --------------------------
(***************************************************************************)
(* For every session, tree of tasks, set of calls and number of workers:   *)
(* the engine's rows keep their types, a claim is the only owner of the    *)
(* generations it streams, and one task tree runs at a time.               *)
(***************************************************************************)
EXTENDS Execution, FiniteSetTheorems, WellFoundedInduction, TLAPS

-----------------------------------------------------------------------------
(* Rows.                                                                    *)

Alive(r) == r.state = "running" /\ r.live
Closed(r) == r.state = "none" \/ r.state \in TerminalStates
GensBound(r) == r.gens <= IF r.state = "running" THEN 1 ELSE 0

(* A row `s` that a transaction leaves for `r` gives no claim to anyone but *)
(* worker `w`, and closes the generations of a task that stops running.     *)
RowStep(w, r, s) ==
  /\ GensBound(s)
  /\ Alive(s) => \/ s.owner = w
                 \/ /\ Alive(r) /\ s.owner = r.owner /\ s.epoch = r.epoch
                    /\ s.gens = r.gens /\ (r.finalizing => s.finalizing)

(* It starts nothing, opens no closed task and decides no finalization.     *)
Quiet(r, s) ==
  /\ s.state = "running" => r.state = "running"
  /\ Closed(r) => Closed(s)
  /\ s.finalizing => r.finalizing

(* What the invariant says of one worker.                                   *)
MemoryOK(w) ==
  /\ wk[w].pc \in {"fin1", "hook", "fin2"} => wk[w].fin \in TerminalStates
  /\ Fenced(w) =>
       /\ wk[w].pc \in {"summary", "stream"} => task[wk[w].task].gens = 1
       /\ wk[w].pc \notin {"summary", "stream", "cleanup"} => task[wk[w].task].gens = 0
       /\ wk[w].pc \in {"hook", "fin2"} => task[wk[w].task].finalizing

(* What a transaction that gives a claim up leaves is a row, whether or not *)
(* it also records an error.                                                *)
LEMMA ReleaseType ==
  ASSUME NEW r \in TaskRow, NEW s \in TaskStates
  PROVE  /\ Release(r, s) \in TaskRow
         /\ Release(r, s).state = s /\ ~Release(r, s).live
         /\ Release(r, s).gens = r.gens /\ Release(r, s).finalizing = r.finalizing
BY DEF Release, TaskRow

(* Setting the error column of a row (finish.go, worker.go) changes nothing *)
(* the invariant reads.                                                     *)
LEMMA ErrorType ==
  ASSUME NEW r \in TaskRow, NEW e \in BOOLEAN
  PROVE  LET x == [r EXCEPT !.error = e]
         IN x \in TaskRow /\ x.state = r.state /\ x.gens = r.gens
            /\ x.owner = r.owner /\ x.live = r.live /\ x.finalizing = r.finalizing
BY DEF TaskRow

(* A row released with an error.                                            *)
LEMMA ReleaseErrorType ==
  ASSUME NEW r \in TaskRow, NEW s \in TaskStates, NEW e \in BOOLEAN
  PROVE  LET x == [Release(r, s) EXCEPT !.error = e]
         IN x \in TaskRow /\ x.state = s /\ x.gens = r.gens /\ x.finalizing = r.finalizing
BY ReleaseType, ErrorType

(* Closing a row's running generations (generation.go:78-107) leaves none   *)
(* and keeps its claim.                                                     *)
LEMMA InterruptedType ==
  ASSUME NEW r \in TaskRow
  PROVE  /\ Interrupted(r) \in TaskRow /\ Interrupted(r).gens = 0
         /\ Interrupted(r).state = r.state /\ Interrupted(r).live = r.live
         /\ Interrupted(r).owner = r.owner /\ Interrupted(r).finalizing = r.finalizing
BY DEF Interrupted, TaskRow

(* A row's counters are natural numbers.                                    *)
LEMMA CountersType ==
  ASSUME NEW r \in TaskRow
  PROVE  {r.epoch, r.failures, r.gens, r.toolCount} \subseteq Nat
BY DEF TaskRow

(* Opening or closing a generation keeps the rest of the row.               *)
LEMMA GensType ==
  ASSUME NEW r \in TaskRow, NEW n \in Nat
  PROVE  LET x == [r EXCEPT !.gens = n]
         IN x \in TaskRow /\ x.gens = n /\ x.state = r.state /\ x.owner = r.owner
            /\ x.live = r.live /\ x.finalizing = r.finalizing /\ x.failures = r.failures
BY DEF TaskRow

(* Counting a failed model turn (step.go:238) keeps the rest of the row.    *)
LEMMA FailuresType ==
  ASSUME NEW r \in TaskRow, NEW n \in Nat
  PROVE  LET x == [r EXCEPT !.failures = n]
         IN x \in TaskRow /\ x.gens = r.gens /\ x.state = r.state /\ x.owner = r.owner
            /\ x.live = r.live /\ x.finalizing = r.finalizing
BY DEF TaskRow

(* Replacing one call's row by a row keeps the table of calls typed.        *)
LEMMA CallsType ==
  ASSUME TypeOK, NEW c, NEW x, c \in Calls => x \in CallRow, call' = [call EXCEPT ![c] = x]
  PROVE  call' \in [Calls -> CallRow]
<1>1. \A d \in Calls : call'[d] = IF d = c THEN x ELSE call[d]
  BY DEF TypeOK
<1> QED
  BY <1>1 DEF TypeOK

(* Executing a call once more keeps the executions counted.                 *)
LEMMA ExecsType ==
  ASSUME TypeOK, NEW c, execs' = [execs EXCEPT ![c] = @ + 1]
  PROVE  execs' \in [Calls -> Nat]
<1>1. execs' = [d \in Calls |-> IF d = c THEN execs[d] + 1 ELSE execs[d]]
  BY DEF TypeOK
<1>2. \A d \in Calls : execs'[d] \in Nat
  BY <1>1 DEF TypeOK
<1> QED
  BY <1>1, <1>2

(* The inductive invariant, split into what it says of the tree, of each    *)
(* row and of each worker's memory.                                         *)
LEMMA Parts ==
  IInv <=> /\ TypeOK /\ OneTreeRuns /\ ChildrenSettled
           /\ \A t \in Tasks : GensBound(task[t])
           /\ \A w \in Workers : MemoryOK(w)
BY DEF IInv, GensBound, MemoryOK, FinIsTerminal, GenerationOwned,
       GenerationsSettled, FinalizerMarked

(* A worker's memory stays right through every step that is not its own.    *)
LEMMA MemoryKept ==
  ASSUME IInv, TypeOK', NEW w, NEW v \in Workers, v # w,
         \A t \in Tasks : RowStep(w, task[t], task'[t]),
         wk'[v] = wk[v]
  PROVE  MemoryOK(v)'
<1>1. MemoryOK(v)
  BY Parts
<1> SUFFICES ASSUME Fenced(v)'
             PROVE  /\ Fenced(v) /\ task'[wk[v].task].gens = task[wk[v].task].gens
                    /\ task[wk[v].task].finalizing => task'[wk[v].task].finalizing
  BY <1>1 DEF MemoryOK
<1>2. wk[v].task \in Tasks
  BY DEF Fenced, IInv, TypeOK, WorkerRow
<1>3. Alive(task'[wk[v].task]) /\ task'[wk[v].task].owner = v
      /\ task'[wk[v].task].epoch = wk[v].epoch
  BY <1>2 DEF Fenced, Alive
<1> QED
  BY <1>2, <1>3 DEF Fenced, RowStep, Alive

(* A step that starts, opens and finalizes nothing keeps the order of the   *)
(* trees and of their ends.                                                 *)
LEMMA QuietKeeps ==
  ASSUME IInv, session'.activeRoot = session.activeRoot,
         \A t \in Tasks : Quiet(task[t], task'[t])
  PROVE  OneTreeRuns' /\ ChildrenSettled'
<1>1. OneTreeRuns'
  BY DEF IInv, OneTreeRuns, Quiet, RootOf
<1>2. ChildrenSettled'
  BY ParentAssumption DEF IInv, ChildrenSettled, Quiet, Closed
<1> QED
  BY <1>1, <1>2

(* A step of worker `w`, or of a client when `w` is none of them.           *)
LEMMA FramedStep ==
  ASSUME IInv, TypeOK', OneTreeRuns', ChildrenSettled', NEW w,
         \A t \in Tasks : RowStep(w, task[t], task'[t]),
         \A v \in Workers \ {w} : wk'[v] = wk[v],
         w \in Workers => MemoryOK(w)'
  PROVE  IInv'
<1>1. \A v \in Workers : MemoryOK(v)'
  BY MemoryKept
<1>2. \A t \in Tasks : GensBound(task'[t])
  BY DEF RowStep
<1> QED
  BY <1>1, <1>2 DEF IInv, GensBound, MemoryOK, FinIsTerminal, GenerationOwned,
       GenerationsSettled, FinalizerMarked

(* Steps that write no task row: only the worker that takes it changes.     *)
LEMMA NoTaskStep ==
  ASSUME IInv, TypeOK', NEW w, UNCHANGED task,
         session'.activeRoot = session.activeRoot,
         \A v \in Workers \ {w} : wk'[v] = wk[v],
         w \in Workers => MemoryOK(w)'
  PROVE  IInv'
<1>1. \A t \in Tasks : RowStep(w, task[t], task'[t]) /\ Quiet(task[t], task'[t])
  BY Parts DEF RowStep, Quiet, Alive
<1> QED
  BY <1>1, QuietKeeps, FramedStep

(* Steps of a claim's holder that write its own row only.                   *)
LEMMA OwnRowStep ==
  ASSUME IInv, TypeOK', NEW w \in Workers, Fenced(w), NEW r,
         task' = [task EXCEPT ![wk[w].task] = r],
         Alive(r) => r.owner = w, GensBound(r),
         r.finalizing => task[wk[w].task].finalizing,
         session'.activeRoot = session.activeRoot,
         \A v \in Workers \ {w} : wk'[v] = wk[v],
         MemoryOK(w)'
  PROVE  IInv'
<1>1. wk[w].task \in Tasks /\ task[wk[w].task].state = "running"
  BY DEF IInv, TypeOK, WorkerRow, Fenced
<1>2. \A t \in Tasks : task'[t] = IF t = wk[w].task THEN r ELSE task[t]
  BY DEF IInv, TypeOK
<1>3. \A t \in Tasks : RowStep(w, task[t], task'[t])
  BY <1>2, Parts DEF RowStep, Alive
<1>4. \A t \in Tasks : Quiet(task[t], task'[t])
  BY <1>1, <1>2 DEF Quiet, Closed, TerminalStates
<1> QED
  BY <1>3, <1>4, QuietKeeps, FramedStep

-----------------------------------------------------------------------------
(* First.                                                                   *)

(* A set of calls that is not empty has a first one: the smallest of the    *)
(* intervals 0..c is well defined, strict inclusion being well-founded.     *)
LEMMA FirstType ==
  ASSUME NEW S \in SUBSET Calls, S # {}
  PROVE  First(S) \in S /\ \A d \in S : First(S) <= d
<1> DEFINE R == StrictSubsetOrdering(Nat)
           T == {0..c : c \in S}
<1>1. S \subseteq Nat
  BY CallAssumption
<1>2. IsWellFoundedOn(R, FiniteSubsetsOf(Nat))
  BY FS_StrictSubsetOrderingWellFounded
<1>3. T \subseteq FiniteSubsetsOf(Nat) /\ T # {}
  <2>1. \A c \in S : IsFiniteSet(0..c) /\ 0..c \subseteq Nat
    BY <1>1, FS_Interval
  <2> QED
    BY <2>1 DEF FiniteSubsetsOf
<1> HIDE DEF R
<1>4. \E x \in T : \A y \in T : ~(<<y, x>> \in R)
  BY <1>2, <1>3, WFMin
<1>5. PICK c \in S : \A d \in S : ~(<<0..d, 0..c>> \in R)
  BY <1>4
<1>6. \A d \in S : c <= d
  <2> TAKE d \in S
  <2>1. ~(<<0..d, 0..c>> \in R)
    BY <1>5
  <2>2. d < c => 0..d \subseteq 0..c /\ c \in 0..c /\ c \notin 0..d
    BY <1>1
  <2>3. d < c => <<0..d, 0..c>> \in R
    BY <1>1, <2>2 DEF R, StrictSubsetOrdering
  <2> QED
    BY <1>1, <2>1, <2>3
<1> QED
  BY <1>6 DEF First

-----------------------------------------------------------------------------
(* What a worker remembers.                                                 *)

LEMMA SetMemory ==
  ASSUME TypeOK, NEW w \in Workers, NEW x \in WorkerRow, wk' = [wk EXCEPT ![w] = x]
  PROVE  /\ wk' \in [Workers -> WorkerRow] /\ wk'[w] = x
         /\ \A v \in Workers \ {w} : wk'[v] = wk[v]
BY DEF TypeOK

(* A worker that moves on keeps its claim and its decision in memory.       *)
LEMMA GotoMemory ==
  ASSUME TypeOK, NEW w \in Workers, NEW p \in PCs, Goto(w, p)
  PROVE  /\ wk' \in [Workers -> WorkerRow]
         /\ \A v \in Workers \ {w} : wk'[v] = wk[v]
         /\ wk'[w].pc = p /\ wk'[w].task = wk[w].task
         /\ wk'[w].epoch = wk[w].epoch /\ wk'[w].fin = wk[w].fin
BY DEF TypeOK, Goto, WorkerRow

(* A worker that gives its claim up has nothing left to be right about.     *)
LEMMA IdleMemory ==
  ASSUME TypeOK, NEW w \in Workers, GoIdle(w)
  PROVE  /\ wk' \in [Workers -> WorkerRow]
         /\ \A v \in Workers \ {w} : wk'[v] = wk[v]
         /\ MemoryOK(w)'
<1>1. Idle \in WorkerRow /\ Idle.pc = "idle" /\ Idle.task = NoTask
  BY DEF Idle, WorkerRow, PCs
<1>2. wk' = [wk EXCEPT ![w] = Idle] /\ wk'[w] = Idle
  BY DEF TypeOK, GoIdle
<1> QED
  BY <1>1, <1>2 DEF TypeOK, MemoryOK, Fenced

(* A worker that starts its next step keeps its claim.                      *)
LEMMA BeginMemory ==
  ASSUME TypeOK, NEW w \in Workers, GoBegin(w)
  PROVE  /\ wk' \in [Workers -> WorkerRow]
         /\ \A v \in Workers \ {w} : wk'[v] = wk[v]
         /\ wk'[w].pc = "begin" /\ wk'[w].task = wk[w].task
         /\ wk'[w].epoch = wk[w].epoch
BY DEF TypeOK, GoBegin, Idle, WorkerRow, PCs

(* A worker that holds a claim holds it on a running task.                  *)
LEMMA FencedTask ==
  ASSUME TypeOK, NEW w \in Workers, Fenced(w)
  PROVE  /\ wk[w].task \in Tasks /\ task[wk[w].task] \in TaskRow
         /\ task[wk[w].task].state = "running" /\ task[wk[w].task].owner = w
BY DEF TypeOK, WorkerRow, Fenced

(* The generations of a claim's row are settled but while it streams.       *)
LEMMA FencedGens ==
  ASSUME IInv, NEW w \in Workers, Fenced(w)
  PROVE  /\ wk[w].pc \in {"summary", "stream"} => task[wk[w].task].gens = 1
         /\ wk[w].pc \notin {"summary", "stream", "cleanup"} => task[wk[w].task].gens = 0
BY DEF IInv, GenerationOwned

-----------------------------------------------------------------------------
(* How a step may end.                                                      *)

(* The worker gives its claim up.                                           *)
LEMMA GivesUp ==
  ASSUME IInv, NEW w \in Workers, Fenced(w), NEW r \in TaskRow,
         task' = [task EXCEPT ![wk[w].task] = r],
         r.state # "running", r.gens = 0,
         r.finalizing => task[wk[w].task].finalizing,
         GoIdle(w), UNCHANGED <<session, ws, execs>>, call' \in [Calls -> CallRow]
  PROVE  IInv'
<1>1. /\ wk' \in [Workers -> WorkerRow] /\ MemoryOK(w)'
      /\ \A v \in Workers \ {w} : wk'[v] = wk[v]
  BY IdleMemory DEF IInv
<1>2. TypeOK'
  BY <1>1 DEF IInv, TypeOK
<1>3. (Alive(r) => r.owner = w) /\ GensBound(r)
  BY DEF Alive, GensBound
<1>4. session'.activeRoot = session.activeRoot
  OBVIOUS
<1> QED
  BY <1>1, <1>2, <1>3, <1>4, OwnRowStep

(* The worker keeps its claim and goes to the next step.                    *)
LEMMA Continues ==
  ASSUME IInv, NEW w \in Workers, Fenced(w), NEW r \in TaskRow,
         task' = [task EXCEPT ![wk[w].task] = r],
         r.owner = w, r.gens = 0,
         r.finalizing => task[wk[w].task].finalizing,
         GoBegin(w), UNCHANGED <<session, ws, call, execs>>
  PROVE  IInv'
<1>1. /\ wk' \in [Workers -> WorkerRow]
      /\ \A v \in Workers \ {w} : wk'[v] = wk[v]
      /\ wk'[w].pc = "begin" /\ wk'[w].task = wk[w].task
  BY BeginMemory DEF IInv
<1>2. TypeOK'
  BY <1>1 DEF IInv, TypeOK
<1>3. MemoryOK(w)'
  BY <1>1, <1>2, FencedTask DEF IInv, TypeOK, MemoryOK
<1>4. (Alive(r) => r.owner = w) /\ GensBound(r)
  BY DEF Alive, GensBound
<1>5. session'.activeRoot = session.activeRoot
  OBVIOUS
<1> QED
  BY <1>1, <1>2, <1>3, <1>4, <1>5, OwnRowStep

(* A step that writes no task row goes on to `p`, or to the next step.      *)
LEMMA GoesTo ==
  ASSUME IInv, NEW w \in Workers, UNCHANGED task,
         NEW p \in PCs \ {"summary", "stream", "fin1", "hook", "fin2"},
         Goto(w, p) \/ (p = "begin" /\ GoBegin(w)),
         wk[w].pc \in {"summary", "stream", "cleanup"} => p = "cleanup",
         session' \in Session, session'.activeRoot = session.activeRoot,
         ws' \in Workspace, call' \in [Calls -> CallRow], execs' \in [Calls -> Nat]
  PROVE  IInv'
<1>1. /\ wk' \in [Workers -> WorkerRow]
      /\ \A v \in Workers \ {w} : wk'[v] = wk[v]
      /\ wk'[w].pc = p /\ wk'[w].task = wk[w].task /\ wk'[w].epoch = wk[w].epoch
  BY GotoMemory, BeginMemory DEF IInv
<1>2. TypeOK'
  BY <1>1 DEF IInv, TypeOK
<1>3. Fenced(w)' => Fenced(w)
  BY <1>1 DEF Fenced
<1>4. MemoryOK(w)'
  BY <1>1, <1>3, FencedGens DEF MemoryOK
<1> QED
  BY <1>1, <1>2, <1>4, NoTaskStep

(* The worker forgets its claim: it lost it, or died.                       *)
LEMMA GoesIdle ==
  ASSUME IInv, NEW w \in Workers, GoIdle(w), UNCHANGED <<session, ws, task, call, execs>>
  PROVE  IInv'
<1>1. /\ wk' \in [Workers -> WorkerRow] /\ MemoryOK(w)'
      /\ \A v \in Workers \ {w} : wk'[v] = wk[v]
  BY IdleMemory DEF IInv
<1>2. TypeOK'
  BY <1>1 DEF IInv, TypeOK
<1> QED
  BY <1>1, <1>2, NoTaskStep

-----------------------------------------------------------------------------
(* The steps of a worker.                                                   *)

LEMMA KeepsToolStart ==
  ASSUME IInv, NEW w \in Workers, ToolStart(w)
  PROVE  IInv'
<1> DEFINE c == wk[w].head
<1>1. wk[w].pc = "tool" /\ UNCHANGED <<ws, task, execs>>
  BY DEF ToolStart
<1>2. ws \in Workspace /\ execs \in [Calls -> Nat]
  BY DEF IInv, TypeOK
<1>3. CASE Goto(w, "cleanup") /\ UNCHANGED <<session, call>>
  BY <1>1, <1>3, GoesTo DEF PCs, IInv, TypeOK
<1>4. CASE Goto(w, "requeue") /\ UNCHANGED <<session, call>>
  BY <1>1, <1>4, GoesTo DEF PCs, IInv, TypeOK
<1>5. CASE /\ session' = [session EXCEPT !.writerCall = IF Kind[c] = "write" THEN c ELSE @]
           /\ call' = [call EXCEPT ![c].status = "running"]
           /\ Goto(w, "exec")
  <2>1. c \in Calls \cup {NoCall} /\ session \in Session
    BY DEF IInv, TypeOK, WorkerRow
  <2>2. session' \in Session /\ session'.activeRoot = session.activeRoot
    BY <1>5, <2>1 DEF Session
  <2>3. call' \in [Calls -> CallRow]
    BY <1>5 DEF IInv, TypeOK, CallRow, CallStatuses
  <2> QED
    BY <1>1, <1>2, <1>5, <2>2, <2>3, GoesTo DEF PCs
<1> QED
  BY <1>3, <1>4, <1>5 DEF ToolStart

(* The executor of a call runs outside any transaction (tools.go:46-63).    *)
LEMMA KeepsExecute ==
  ASSUME IInv, NEW w \in Workers, Execute(w)
  PROVE  IInv'
<1>1. execs' \in [Calls -> Nat]
  BY ExecsType DEF IInv, Execute
<1> QED
  BY <1>1, GoesTo DEF Execute, PCs, IInv, TypeOK

(* The outcome of a call is recorded under the fence (tools.go:64-97).      *)
LEMMA KeepsRecord ==
  ASSUME IInv, NEW w \in Workers, Record(w)
  PROVE  IInv'
<1> DEFINE t == wk[w].task
           c == wk[w].head
<1>1. wk[w].pc = "record" /\ Fenced(w) /\ UNCHANGED <<ws, execs>>
  BY DEF Record
<1>2. CASE /\ call' = [call EXCEPT ![c].status = "completed"]
           /\ session' = [session EXCEPT !.writerCall = IF Kind[c] = "write" THEN NoCall ELSE @]
           /\ GoBegin(w) /\ UNCHANGED task
  <2>1. session' \in Session /\ session'.activeRoot = session.activeRoot
    BY <1>2 DEF IInv, TypeOK, Session
  <2>2. call' \in [Calls -> CallRow]
    BY <1>2 DEF IInv, TypeOK, CallRow, CallStatuses
  <2> QED
    BY <1>1, <1>2, <2>1, <2>2, GoesTo DEF PCs, IInv, TypeOK
<1>3. CASE /\ call' = [call EXCEPT ![c].status = "unknown"]
           /\ task' = [task EXCEPT ![t] = [Release(@, "unknown") EXCEPT !.error = TRUE]]
           /\ GoIdle(w) /\ UNCHANGED session
  <2> DEFINE r == [Release(task[t], "unknown") EXCEPT !.error = TRUE]
  <2>1. r \in TaskRow /\ r.state = "unknown" /\ r.gens = 0
        /\ r.finalizing = task[t].finalizing
    <3>1. task[t] \in TaskRow /\ task[t].gens = 0 /\ "unknown" \in TaskStates
      BY <1>1, FencedTask, FencedGens DEF IInv, TaskStates
    <3> QED
      BY <3>1, ReleaseErrorType
  <2>2. call' \in [Calls -> CallRow]
    BY <1>3 DEF IInv, TypeOK, CallRow, CallStatuses
  <2>3. task' = [task EXCEPT ![t] = r]
    BY <1>3
  <2> HIDE DEF r
  <2> QED
    BY <1>1, <1>3, <2>1, <2>2, <2>3, GivesUp
<1> QED
  BY <1>2, <1>3 DEF Record

(* Results are handed to the model's history under the fence                *)
(* (step.go:79-102).                                                        *)
LEMMA KeepsDeliver ==
  ASSUME IInv, NEW w \in Workers, Deliver(w)
  PROVE  IInv'
<1> DEFINE c == First(wk[w].batch)
           rest == wk[w].batch \ {c}
<1>1. /\ wk' \in [Workers -> WorkerRow]
      /\ \A v \in Workers \ {w} : wk'[v] = wk[v]
      /\ wk'[w].pc \in {"idle", "begin", "deliver", "tool", "wait", "park"}
      /\ wk'[w].task = wk[w].task /\ wk'[w].epoch = wk[w].epoch
  <2>1. CASE GoBegin(w)
    BY <2>1, BeginMemory DEF IInv
  <2>2. CASE wk' = [wk EXCEPT ![w].batch = rest,
                              ![w].pc = IF rest = {} THEN wk[w].then ELSE "deliver"]
    <3> DEFINE x == [wk[w] EXCEPT !.batch = rest,
                                  !.pc = IF rest = {} THEN wk[w].then ELSE "deliver"]
    <3>1. wk[w] \in WorkerRow
      BY DEF IInv, TypeOK
    <3>2. rest \in SUBSET Calls /\ wk[w].then \in PCs
      BY <3>1 DEF WorkerRow, PCs
    <3> HIDE DEF rest
    <3>3. x \in WorkerRow /\ x.pc \in {"idle", "begin", "deliver", "tool", "wait", "park"}
          /\ x.task = wk[w].task /\ x.epoch = wk[w].epoch
      BY <3>1, <3>2 DEF WorkerRow, PCs
    <3>4. wk' = [wk EXCEPT ![w] = x]
      BY <2>2
    <3> QED
      BY <3>3, <3>4, SetMemory DEF IInv
  <2> QED
    BY <2>1, <2>2 DEF Deliver
<1>2. call' \in [Calls -> CallRow]
  BY DEF IInv, TypeOK, Deliver, CallRow
<1>3. TypeOK'
  BY <1>1, <1>2 DEF IInv, TypeOK, Deliver
<1>4. MemoryOK(w)'
  BY <1>1, FencedGens DEF Deliver, MemoryOK, Fenced
<1> QED
  BY <1>1, <1>3, <1>4, NoTaskStep DEF Deliver

(* A coordinator that waits for children gets its answer or parks           *)
(* (wait.go:19-108).                                                        *)
LEMMA KeepsWaitChildren ==
  ASSUME IInv, NEW w \in Workers, WaitChildren(w)
  PROVE  IInv'
<1> DEFINE t == wk[w].task
           c == wk[w].head
<1>1. wk[w].pc = "wait" /\ Fenced(w) /\ UNCHANGED <<session, ws, execs>>
  BY DEF WaitChildren
<1>2. CASE /\ call' = [call EXCEPT ![c].status = "waiting_children",
                          ![c].deadline = IF c \in Timed /\ @ = "none" THEN "armed" ELSE @]
           /\ task' = [task EXCEPT ![t] = Release(@, "waiting")] /\ GoIdle(w)
  <2> DEFINE r == Release(task[t], "waiting")
  <2>1. task[t] \in TaskRow /\ task[t].gens = 0 /\ "waiting" \in TaskStates
    BY <1>1, FencedTask, FencedGens DEF IInv, TaskStates
  <2>2. r \in TaskRow /\ r.state = "waiting" /\ r.gens = 0 /\ r.finalizing = task[t].finalizing
    BY <2>1, ReleaseType
  <2>3. call' \in [Calls -> CallRow]
    <3> DEFINE x == [call[c] EXCEPT !.status = "waiting_children",
                       !.deadline = IF c \in Timed /\ @ = "none" THEN "armed" ELSE @]
    <3>1. c \in Calls => x \in CallRow
      BY DEF IInv, TypeOK, CallRow, CallStatuses
    <3>2. call' = [call EXCEPT ![c] = x]
      BY <1>2
    <3> HIDE DEF x
    <3> QED
      BY <3>1, <3>2, CallsType DEF IInv
  <2>4. task' = [task EXCEPT ![t] = r]
    BY <1>2
  <2> HIDE DEF r
  <2> QED
    BY <1>1, <1>2, <2>2, <2>3, <2>4, GivesUp
<1>3. CASE /\ call' = [call EXCEPT ![c].status = "completed", ![c].deadline = "none"]
           /\ GoBegin(w) /\ UNCHANGED task
  <2>1. call' \in [Calls -> CallRow]
    BY <1>3 DEF IInv, TypeOK, CallRow, CallStatuses
  <2> QED
    BY <1>1, <1>3, <2>1, GoesTo DEF PCs, IInv, TypeOK
<1> QED
  BY <1>2, <1>3 DEF WaitChildren

(* A worker parks its task, or queues it again when something progressed    *)
(* (finish.go:15-60).                                                       *)
LEMMA KeepsPark ==
  ASSUME IInv, NEW w \in Workers, Park(w) \/ Requeue(w) \/ ParkUnknown(w)
  PROVE  IInv'
<1> DEFINE t == wk[w].task
<1>1. /\ Fenced(w) /\ GoIdle(w) /\ UNCHANGED <<session, ws, call, execs>>
      /\ wk[w].pc \in {"park", "requeue", "unknown"}
  BY DEF Park, Requeue, ParkUnknown
<1>2. task[t] \in TaskRow /\ task[t].gens = 0
  BY <1>1, FencedTask, FencedGens DEF IInv
<1>3. call' \in [Calls -> CallRow]
  BY <1>1 DEF IInv, TypeOK
<1>4. ASSUME NEW s \in TaskStates, s # "running",
             task' = [task EXCEPT ![t] = Release(@, s)]
      PROVE  IInv'
  <2> DEFINE r == Release(task[t], s)
  <2>1. r \in TaskRow /\ r.state = s /\ r.gens = 0 /\ r.finalizing = task[t].finalizing
    BY <1>2, ReleaseType
  <2>2. task' = [task EXCEPT ![t] = r]
    BY <1>4
  <2> HIDE DEF r
  <2> QED
    BY <1>1, <1>3, <1>4, <2>1, <2>2, GivesUp
<1>5. CASE task' = [task EXCEPT ![t] = [Release(@, "unknown") EXCEPT !.error = TRUE]]
  <2> DEFINE r == [Release(task[t], "unknown") EXCEPT !.error = TRUE]
  <2>1. "unknown" \in TaskStates
    BY DEF TaskStates
  <2>2. r \in TaskRow /\ r.state = "unknown" /\ r.gens = 0
        /\ r.finalizing = task[t].finalizing
    BY <1>2, <2>1, ReleaseErrorType
  <2>3. task' = [task EXCEPT ![t] = r]
    BY <1>5
  <2> HIDE DEF r
  <2> QED
    BY <1>1, <1>3, <2>2, <2>3, GivesUp
<1>6. CASE Park(w) \/ Requeue(w)
  <2>1. \E s \in {"queued", "waiting"} : task' = [task EXCEPT ![t] = Release(@, s)]
    BY <1>6 DEF Park, Requeue
  <2> QED
    BY <1>4, <2>1 DEF TaskStates
<1> QED
  BY <1>5, <1>6 DEF ParkUnknown

(* The workspace row is read, or written, before it is provisioned          *)
(* (workspace.go:28-56).                                                    *)
LEMMA KeepsPrepareBegin ==
  ASSUME IInv, NEW w \in Workers, PrepareBegin(w)
  PROVE  IInv'
<1> DEFINE t == wk[w].task
<1>1. wk[w].pc = "prepare" /\ UNCHANGED <<session, task, call, execs>>
  BY DEF PrepareBegin
<1>2. ws' \in Workspace
  <2>1. CASE UNCHANGED ws
    BY <2>1 DEF IInv, TypeOK
  <2>2. CASE ws' = [root |-> t, state |-> "preparing"]
    BY <2>2 DEF IInv, TypeOK, WorkerRow, Workspace
  <2> QED
    BY <2>1, <2>2 DEF PrepareBegin
<1>3. PICK p \in {"model", "requeue", "unknown", "provision"} : Goto(w, p)
  BY DEF PrepareBegin
<1> QED
  BY <1>1, <1>2, <1>3, GoesTo DEF PCs, IInv, TypeOK

(* The workspace is saved without a look at the claim; no task row is       *)
(* touched (workspace.go:57-148).                                           *)
LEMMA KeepsPrepareEnd ==
  ASSUME IInv, NEW w \in Workers, PrepareEnd(w)
  PROVE  IInv'
<1>1. wk[w].pc = "provision" /\ UNCHANGED <<session, task, call, execs>>
  BY DEF PrepareEnd
<1>2. ws' \in Workspace
  <2>1. CASE UNCHANGED ws
    BY <2>1 DEF IInv, TypeOK
  <2>2. CASE ws' = [root |-> wk[w].task, state |-> "ready"]
    BY <2>2 DEF IInv, TypeOK, WorkerRow, Workspace
  <2> QED
    BY <2>1, <2>2 DEF PrepareEnd
<1>3. PICK p \in {"model", "unknown"} : Goto(w, p)
  BY DEF PrepareEnd
<1> QED
  BY <1>1, <1>2, <1>3, GoesTo DEF PCs, IInv, TypeOK

(* A step that cannot go on records the failure its task will finish with   *)
(* (step.go:126-174).                                                       *)
LEMMA KeepsFail ==
  ASSUME IInv, NEW w \in Workers, Fail(w)
  PROVE  IInv'
<1> DEFINE t == wk[w].task
           r == [task[t] EXCEPT !.pending = "failed", !.error = TRUE]
<1>1. Fenced(w) /\ wk[w].pc \in {"model", "respond"} /\ GoBegin(w)
      /\ UNCHANGED <<session, ws, call, execs>>
  BY DEF Fail
<1>2. task[t] \in TaskRow /\ task[t].gens = 0 /\ task[t].owner = w /\ t \in Tasks
  BY <1>1, FencedTask, FencedGens DEF IInv
<1>3. r \in TaskRow /\ r.gens = 0 /\ r.owner = w /\ (r.finalizing => task[t].finalizing)
  BY <1>2 DEF TaskRow, TerminalStates
<1>4. task' = [task EXCEPT ![t] = r]
  BY <1>2 DEF Fail, IInv, TypeOK
<1> HIDE DEF r
<1> QED
  BY <1>1, <1>3, <1>4, Continues

(* A worker that calls the model opens a generation, when it has none open  *)
(* (generation.go:36-51).                                                   *)
LEMMA KeepsStartGeneration ==
  ASSUME IInv, NEW w \in Workers, StartGeneration(w)
  PROVE  IInv'
<1> DEFINE t == wk[w].task
           r == [task[t] EXCEPT !.gens = 1]
<1>1. Fenced(w) /\ wk[w].pc \in {"model", "respond"}
      /\ UNCHANGED <<session, ws, call, execs>>
  BY DEF StartGeneration
<1>2. /\ task[t] \in TaskRow /\ task[t].gens = 0 /\ task[t].owner = w
      /\ task[t].state = "running" /\ t \in Tasks
  BY <1>1, FencedTask, FencedGens DEF IInv
<1>3. r \in TaskRow /\ r.gens = 1 /\ r.owner = w /\ r.state = "running"
      /\ r.finalizing = task[t].finalizing
  BY <1>2, GensType
<1>4. task' = [task EXCEPT ![t] = r]
  BY <1>2 DEF StartGeneration, IInv, TypeOK
<1> HIDE DEF r
<1>5. PICK p \in {"summary", "stream"} : Goto(w, p)
  BY DEF StartGeneration
<1>6. /\ wk' \in [Workers -> WorkerRow]
      /\ \A v \in Workers \ {w} : wk'[v] = wk[v]
      /\ wk'[w].pc = p /\ wk'[w].task = t
  BY <1>5, GotoMemory DEF IInv, PCs
<1>7. TypeOK'
  BY <1>1, <1>3, <1>4, <1>6 DEF IInv, TypeOK
<1>8. task'[t] = r
  BY <1>2, <1>4 DEF IInv, TypeOK
<1>9. MemoryOK(w)'
  BY <1>3, <1>6, <1>8 DEF MemoryOK
<1>10. (Alive(r) => r.owner = w) /\ GensBound(r) /\ session'.activeRoot = session.activeRoot
  BY <1>1, <1>3 DEF GensBound
<1> QED
  BY <1>1, <1>3, <1>4, <1>6, <1>7, <1>9, <1>10, OwnRowStep

(* The summary of a long context closes its generation (context.go:34-162). *)
LEMMA KeepsCompactEnd ==
  ASSUME IInv, NEW w \in Workers, CompactEnd(w)
  PROVE  IInv'
<1> DEFINE t == wk[w].task
           r == [task[t] EXCEPT !.gens = 0]
<1>1. Fenced(w) /\ wk[w].pc = "summary" /\ Goto(w, "respond")
      /\ UNCHANGED <<session, ws, call, execs>>
  BY DEF CompactEnd
<1>2. /\ task[t] \in TaskRow /\ task[t].gens = 1 /\ task[t].owner = w
      /\ task[t].state = "running" /\ t \in Tasks
  BY <1>1, FencedTask, FencedGens DEF IInv
<1>3. r \in TaskRow /\ r.gens = 0 /\ r.owner = w /\ r.state = "running"
      /\ r.finalizing = task[t].finalizing
  BY <1>2, GensType
<1>4. task' = [task EXCEPT ![t] = r]
  BY <1>2 DEF CompactEnd, IInv, TypeOK
<1> HIDE DEF r
<1>5. /\ wk' \in [Workers -> WorkerRow]
      /\ \A v \in Workers \ {w} : wk'[v] = wk[v]
      /\ wk'[w].pc = "respond" /\ wk'[w].task = t
  BY <1>1, GotoMemory DEF IInv, PCs
<1>6. TypeOK'
  BY <1>1, <1>3, <1>4, <1>5 DEF IInv, TypeOK
<1>7. task'[t] = r
  BY <1>2, <1>4 DEF IInv, TypeOK
<1>8. MemoryOK(w)'
  BY <1>3, <1>5, <1>7 DEF MemoryOK
<1>9. (Alive(r) => r.owner = w) /\ GensBound(r) /\ session'.activeRoot = session.activeRoot
  BY <1>1, <1>3 DEF GensBound
<1> QED
  BY <1>1, <1>3, <1>4, <1>5, <1>6, <1>8, <1>9, OwnRowStep

(* A model turn that fails closes its generation and is retried, or fails   *)
(* the task (step.go:190-252).                                              *)
LEMMA KeepsModelFails ==
  ASSUME IInv, NEW w \in Workers, ModelFails(w)
  PROVE  IInv'
<1> DEFINE t == wk[w].task
           row == [task[t] EXCEPT !.gens = 0, !.failures = task[t].failures + 1]
<1>1. Fenced(w) /\ wk[w].pc = "stream" /\ UNCHANGED <<session, ws, call, execs>>
  BY DEF ModelFails
<1>2. task[t] \in TaskRow /\ task[t].gens = 1 /\ task[t].owner = w /\ t \in Tasks
  BY <1>1, FencedTask, FencedGens DEF IInv
<1>3. row \in TaskRow /\ row.gens = 0 /\ row.owner = w
      /\ row.finalizing = task[t].finalizing
  <2> DEFINE x == [task[t] EXCEPT !.gens = 0]
  <2>1. x \in TaskRow /\ x.gens = 0 /\ x.owner = w /\ x.finalizing = task[t].finalizing
    BY <1>2, GensType
  <2>2. task[t].failures + 1 \in Nat
    <3>1. task[t].failures \in Nat
      BY <1>2, CountersType
    <3> QED
      BY <3>1
  <2>3. row = [x EXCEPT !.failures = task[t].failures + 1]
    OBVIOUS
  <2> HIDE DEF x, row
  <2> QED
    BY <2>1, <2>2, <2>3, FailuresType
<1>4. call' \in [Calls -> CallRow]
  BY <1>1 DEF IInv, TypeOK
<1> HIDE DEF row
<1>5. CASE /\ task' = [task EXCEPT ![t] = [row EXCEPT !.error = TRUE, !.pending = "failed"]]
           /\ GoBegin(w)
  <2> DEFINE r == [row EXCEPT !.error = TRUE, !.pending = "failed"]
  <2>1. r \in TaskRow /\ r.gens = 0 /\ r.owner = w /\ (r.finalizing => task[t].finalizing)
    BY <1>3 DEF TaskRow, TerminalStates
  <2>2. task' = [task EXCEPT ![t] = r]
    BY <1>5
  <2> HIDE DEF r
  <2> QED
    BY <1>1, <1>5, <2>1, <2>2, Continues
<1>6. CASE task' = [task EXCEPT ![t] = Release(row, "queued")] /\ GoIdle(w)
  <2> DEFINE r == Release(row, "queued")
  <2>1. "queued" \in TaskStates
    BY DEF TaskStates
  <2>2. r \in TaskRow /\ r.state = "queued" /\ r.gens = 0 /\ r.finalizing = row.finalizing
    BY <1>3, <2>1, ReleaseType
  <2>3. task' = [task EXCEPT ![t] = r]
    BY <1>6
  <2> HIDE DEF r
  <2> QED
    BY <1>1, <1>3, <1>4, <1>6, <2>2, <2>3, GivesUp
<1>7. row = [task[t] EXCEPT !.gens = @ - 1, !.failures = @ + 1]
  BY <1>2 DEF row
<1> QED
  BY <1>5, <1>6, <1>7 DEF ModelFails

(* The step's first transaction may consume the input; what it read of the  *)
(* calls goes to the worker's memory.                                       *)
LEMMA KeepsStepBegin ==
  ASSUME IInv, NEW w \in Workers, StepBegin(w)
  PROVE  IInv'
<1> DEFINE t == wk[w].task
           row == IF ~task[t].cancel /\ Undelivered(t) = {} /\ task[t].input
                    THEN [task[t] EXCEPT !.input = FALSE, !.pending = ""] ELSE task[t]
           blocked == {c \in Undelivered(t) : call[c].status # "completed"}
           head == IF blocked = {} THEN NoCall ELSE First(blocked)
           batch == {c \in Undelivered(t) : blocked = {} \/ c < head}
           then == IF blocked = {} THEN "begin" ELSE Dispatch(head)
           next == CASE row.cancel -> [pc |-> "fin1", fin |-> IF row.pending = "failed"
                                                         THEN "failed" ELSE "canceled"]
                     [] ~row.cancel /\ Undelivered(t) # {} ->
                          [pc |-> IF batch # {} THEN "deliver" ELSE then, fin |-> ""]
                     [] ~row.cancel /\ Undelivered(t) = {} /\ row.pending # "" ->
                          [pc |-> "fin1", fin |-> row.pending]
                     [] OTHER -> [pc |-> "prepare", fin |-> ""]
           x == [wk[w] EXCEPT !.pc = next.pc, !.fin = next.fin,
                   !.batch = IF next.pc = "fin1" THEN {} ELSE batch,
                   !.head = IF next.pc = "fin1" THEN NoCall ELSE head,
                   !.then = IF next.pc \in {"fin1", "prepare"} THEN "idle" ELSE then]
<1>1. /\ wk[w].pc = "begin" /\ Fenced(w) /\ UNCHANGED <<session, ws, call, execs>>
      /\ task' = [task EXCEPT ![t] = row] /\ wk' = [wk EXCEPT ![w] = x]
  BY DEF StepBegin
<1>2. /\ t \in Tasks /\ task[t] \in TaskRow /\ task[t].gens = 0 /\ task[t].owner = w
      /\ task[t].state = "running" /\ wk[w] \in WorkerRow
  BY <1>1, FencedTask, FencedGens DEF IInv, TypeOK
<1>3. /\ row \in TaskRow /\ row.gens = 0 /\ row.owner = w
      /\ row.state = "running" /\ row.finalizing = task[t].finalizing
  BY <1>2 DEF TaskRow
<1>4. row.pending \in {""} \cup TerminalStates
  BY <1>3 DEF TaskRow
<1>5. head \in Calls \cup {NoCall} /\ batch \in SUBSET Calls
  <2>1. blocked \subseteq Calls
    BY DEF Undelivered, CallsOf
  <2> QED
    BY <2>1, FirstType DEF Undelivered, CallsOf
<1>6. then \in {"begin", "tool", "wait", "park"}
  BY DEF Dispatch
<1> HIDE DEF row, head, batch, then
<1>7. \/ next.pc = "fin1" /\ next.fin \in TerminalStates
      \/ next.pc \in {"deliver", "begin", "tool", "wait", "park", "prepare"} /\ next.fin = ""
  BY <1>4, <1>6 DEF TerminalStates
<1> HIDE DEF next
<1>8. /\ x \in WorkerRow /\ x.pc = next.pc /\ x.fin = next.fin /\ x.task = t
  <2> DEFINE b == IF next.pc = "fin1" THEN {} ELSE batch
             h == IF next.pc = "fin1" THEN NoCall ELSE head
             n == IF next.pc \in {"fin1", "prepare"} THEN "idle" ELSE then
  <2>1. next.pc \in PCs /\ next.fin \in {""} \cup TerminalStates
    BY <1>7 DEF PCs
  <2>2. b \in SUBSET Calls /\ h \in Calls \cup {NoCall}
        /\ n \in {"idle", "begin", "tool", "wait", "park"}
    BY <1>5, <1>6
  <2> DEFINE x1 == [wk[w] EXCEPT !.pc = next.pc]
             x2 == [x1 EXCEPT !.fin = next.fin]
             x3 == [x2 EXCEPT !.batch = b]
             x4 == [x3 EXCEPT !.head = h]
  <2>3. x = [x4 EXCEPT !.then = n]
    OBVIOUS
  <2>4. x1 \in WorkerRow /\ x1.pc = next.pc /\ x1.task = t
    BY <1>2, <2>1 DEF WorkerRow
  <2> HIDE DEF x1, b, h, n
  <2>5. x2 \in WorkerRow /\ x2.pc = next.pc /\ x2.task = t /\ x2.fin = next.fin
    BY <2>1, <2>4 DEF WorkerRow
  <2> HIDE DEF x2
  <2>6. x3 \in WorkerRow /\ x3.pc = next.pc /\ x3.task = t /\ x3.fin = next.fin
    BY <2>2, <2>5 DEF WorkerRow
  <2> HIDE DEF x3
  <2>7. x4 \in WorkerRow /\ x4.pc = next.pc /\ x4.task = t /\ x4.fin = next.fin
    BY <2>2, <2>6 DEF WorkerRow
  <2> HIDE DEF x4, x
  <2> QED
    BY <2>2, <2>3, <2>7 DEF WorkerRow
<1> HIDE DEF x
<1>9. /\ wk' \in [Workers -> WorkerRow] /\ wk'[w] = x
      /\ \A v \in Workers \ {w} : wk'[v] = wk[v]
  BY <1>1, <1>8, SetMemory DEF IInv
<1>10. TypeOK'
  BY <1>1, <1>3, <1>9 DEF IInv, TypeOK
<1>11. task'[t] = row
  BY <1>1, <1>2 DEF IInv, TypeOK
<1>12. MemoryOK(w)'
  BY <1>3, <1>7, <1>8, <1>9, <1>11 DEF MemoryOK
<1>13. (Alive(row) => row.owner = w) /\ GensBound(row) /\ session'.activeRoot = session.activeRoot
  BY <1>1, <1>3 DEF GensBound
<1> QED
  BY <1>1, <1>3, <1>9, <1>10, <1>12, <1>13, OwnRowStep

(* The deferred cleanup of Worker.run closes the generations of the claim   *)
(* it gives up (worker.go:158-210).                                         *)
LEMMA KeepsCleanup ==
  ASSUME IInv, NEW w \in Workers, Cleanup(w)
  PROVE  IInv'
<1> DEFINE t == wk[w].task
           uncertain == task[t].finalizing \/ CallsIn(t, {"running"}) # {}
           s == IF uncertain THEN "unknown" ELSE "queued"
           r == [Release(Interrupted(task[t]), s) EXCEPT !.error = uncertain]
<1>1. Fenced(w) /\ GoIdle(w) /\ UNCHANGED <<session, ws, execs>> /\ call' = LoseCalls(t)
      /\ task' = [task EXCEPT ![t] = r]
  BY DEF Cleanup
<1>2. task[t] \in TaskRow
  BY <1>1, FencedTask DEF IInv
<1>3. uncertain \in BOOLEAN
  BY <1>2 DEF TaskRow
<1>4. s \in TaskStates /\ s # "running"
  BY DEF TaskStates
<1> HIDE DEF uncertain, s
<1>5. r \in TaskRow /\ r.state = s /\ r.gens = 0 /\ r.finalizing = task[t].finalizing
  BY <1>2, <1>3, <1>4, InterruptedType, ReleaseErrorType
<1> HIDE DEF r
<1>6. call' \in [Calls -> CallRow]
  BY <1>1 DEF LoseCalls, IInv, TypeOK, CallRow, CallStatuses
<1> QED
  BY <1>1, <1>4, <1>5, <1>6, GivesUp

(* A transaction that finds the claim gone changes no row (store.go:83-91). *)
LEMMA KeepsFenceLost ==
  ASSUME IInv, NEW w \in Workers, FenceLost(w) \/ Crash(w)
  PROVE  IInv'
BY GoesIdle DEF FenceLost, Crash

(* A worker whose context is cancelled goes to its cleanup                  *)
(* (worker.go:211-224).                                                     *)
LEMMA KeepsInterrupt ==
  ASSUME IInv, NEW w \in Workers, Interrupt(w)
  PROVE  IInv'
BY GoesTo DEF Interrupt, PCs, IInv, TypeOK

(* The hook that closes the workspace runs outside any transaction          *)
(* (workspace.go:149-180).                                                  *)
LEMMA KeepsFinishHook ==
  ASSUME IInv, NEW w \in Workers, FinishHook(w)
  PROVE  IInv'
<1>1. wk[w].pc = "hook" /\ UNCHANGED <<session, ws, task, call, execs>>
  BY DEF FinishHook
<1>2. CASE Goto(w, "fin2")
  <2>1. /\ wk' \in [Workers -> WorkerRow]
        /\ \A v \in Workers \ {w} : wk'[v] = wk[v]
        /\ wk'[w].pc = "fin2" /\ wk'[w].task = wk[w].task
        /\ wk'[w].epoch = wk[w].epoch /\ wk'[w].fin = wk[w].fin
    BY <1>2, GotoMemory DEF IInv, PCs
  <2>2. TypeOK'
    BY <1>1, <2>1 DEF IInv, TypeOK
  <2>3. MemoryOK(w)
    BY Parts
  <2>4. MemoryOK(w)'
    BY <1>1, <2>1, <2>3 DEF MemoryOK, Fenced
  <2> QED
    BY <1>1, <2>1, <2>2, <2>4, NoTaskStep
<1>3. CASE Goto(w, "unknown")
  BY <1>1, <1>3, GoesTo DEF PCs, IInv, TypeOK
<1> QED
  BY <1>2, <1>3 DEF FinishHook

-----------------------------------------------------------------------------
(* What clients, and agent calls on their behalf, do to the task rows.      *)

LEMMA CanceledRow ==
  ASSUME NEW r \in TaskRow, GensBound(r), NEW w
  PROVE  LET s == Rearm([r EXCEPT !.cancel = TRUE])
         IN s \in TaskRow /\ RowStep(w, r, s) /\ Quiet(r, s)
            /\ s.gens = r.gens
<1> DEFINE x == [r EXCEPT !.cancel = TRUE]
<1>1. /\ x \in TaskRow /\ x.state = r.state /\ x.gens = r.gens /\ x.live = r.live
      /\ x.owner = r.owner /\ x.epoch = r.epoch /\ x.finalizing = r.finalizing
  BY DEF TaskRow
<1> HIDE DEF x
<1>2. CASE x.state # "waiting"
  <2>1. Rearm(x) = x
    BY <1>1, <1>2 DEF Rearm, TaskRow
  <2> QED
    BY <1>1, <2>1 DEF RowStep, Quiet, GensBound, Alive, Closed, x
<1>3. CASE x.state = "waiting"
  <2> DEFINE y == [x EXCEPT !.state = "queued"]
  <2>1. Rearm(x) = y
    BY <1>1, <1>3 DEF Rearm, TaskRow
  <2>2. /\ y \in TaskRow /\ y.state = "queued" /\ y.gens = r.gens
        /\ y.finalizing = r.finalizing
    BY <1>1 DEF TaskRow, TaskStates
  <2> HIDE DEF y
  <2> QED
    BY <1>1, <1>3, <2>1, <2>2 DEF RowStep, Quiet, GensBound, Alive, Closed, TerminalStates, x
<1> QED
  BY <1>2, <1>3

(* An input appended to a task leaves its state alone (inputs.go:26-42).    *)
LEMMA InputRow ==
  ASSUME NEW r \in TaskRow, GensBound(r), NEW w
  PROVE  LET s == [r EXCEPT !.input = TRUE]
         IN s \in TaskRow /\ RowStep(w, r, s) /\ Quiet(r, s) /\ s.gens = r.gens
BY DEF TaskRow, RowStep, Quiet, GensBound, Alive, Closed

(* An input wakes a task that waits (inputs.go:32-40).                      *)
LEMMA SteeredRow ==
  ASSUME NEW r \in TaskRow, GensBound(r), NEW w, r.state = "waiting"
  PROVE  LET s == [r EXCEPT !.input = TRUE, !.pending = "", !.state = "queued"]
         IN s \in TaskRow /\ RowStep(w, r, s) /\ Quiet(r, s) /\ s.gens = r.gens
BY DEF TaskRow, TaskStates, RowStep, Quiet, GensBound, Alive, Closed, TerminalStates

(* Steering a task disturbs no claim and opens nothing that was closed.     *)
LEMMA SteeredRows ==
  ASSUME IInv, NEW w, NEW t \in Tasks, task' = Steered(t),
         session'.activeRoot = session.activeRoot
  PROVE  /\ task' \in [Tasks -> TaskRow]
         /\ \A u \in Tasks : RowStep(w, task[u], task'[u]) /\ task'[u].gens = task[u].gens
         /\ OneTreeRuns' /\ ChildrenSettled'
<1> DEFINE r == task[t]
           s == IF r.state = "waiting" /\ r.pending # ""
                  THEN [r EXCEPT !.input = TRUE, !.pending = "", !.state = "queued"]
                  ELSE [r EXCEPT !.input = TRUE]
<1>1. task' = [task EXCEPT ![t] = s]
  BY DEF Steered
<1>2. \A u \in Tasks : task[u] \in TaskRow /\ GensBound(task[u])
  BY Parts DEF TypeOK
<1>3. s \in TaskRow /\ RowStep(w, r, s) /\ Quiet(r, s) /\ s.gens = r.gens
  <2>1. CASE r.state = "waiting" /\ r.pending # ""
    BY <1>2, <2>1, SteeredRow
  <2>2. CASE ~(r.state = "waiting" /\ r.pending # "")
    BY <1>2, <2>2, InputRow
  <2> QED
    BY <2>1, <2>2
<1> HIDE DEF s
<1>4. \A u \in Tasks : task'[u] = IF u = t THEN s ELSE task[u]
  BY <1>1 DEF IInv, TypeOK
<1>5. task' \in [Tasks -> TaskRow]
  BY <1>1, <1>3 DEF IInv, TypeOK
<1>6. \A u \in Tasks : RowStep(w, task[u], task'[u]) /\ Quiet(task[u], task'[u])
  <2>1. \A u \in Tasks : RowStep(w, task[u], task[u]) /\ Quiet(task[u], task[u])
    BY <1>2 DEF RowStep, Quiet, Alive
  <2> QED
    BY <1>3, <1>4, <2>1
<1> QED
  BY <1>3, <1>4, <1>5, <1>6, QuietKeeps

(* Cancelling a task and its children disturbs no claim and opens nothing   *)
(* that was closed (cancel.go:11-44).                                       *)
LEMMA CanceledRows ==
  ASSUME IInv, NEW w, NEW t \in Tasks, task' = Canceled(t),
         session'.activeRoot = session.activeRoot
  PROVE  /\ task' \in [Tasks -> TaskRow]
         /\ \A u \in Tasks : /\ RowStep(w, task[u], task'[u]) /\ Quiet(task[u], task'[u])
                            /\ task'[u].gens = task[u].gens
         /\ OneTreeRuns' /\ ChildrenSettled'
<1>1. \A u \in Tasks : task[u] \in TaskRow /\ GensBound(task[u])
  BY Parts DEF TypeOK
<1>2. \A u \in Tasks : task'[u] \in {task[u], Rearm([task[u] EXCEPT !.cancel = TRUE])}
  BY DEF Canceled
<1>3. \A u \in Tasks : RowStep(w, task[u], task[u]) /\ Quiet(task[u], task[u])
  BY <1>1 DEF RowStep, Quiet, Alive
<1>4. \A u \in Tasks : /\ task'[u] \in TaskRow /\ RowStep(w, task[u], task'[u])
                       /\ Quiet(task[u], task'[u]) /\ task'[u].gens = task[u].gens
  BY <1>1, <1>2, <1>3, CanceledRow
<1>5. task' = [u \in Tasks |-> task'[u]]
  BY DEF Canceled
<1>6. task' \in [Tasks -> TaskRow]
  BY <1>4, <1>5
<1> QED
  BY <1>4, <1>6, QuietKeeps

(* A closed task is opened, under no finalizing coordinator.                *)
LEMMA OpenedRows ==
  ASSUME IInv, NEW w, NEW t \in Tasks, NEW s \in TaskRow,
         task' = [task EXCEPT ![t] = s],
         s.state = "queued", s.gens = 0, ~s.finalizing,
         Parent[t] # NoTask => ~task[Parent[t]].finalizing,
         session'.activeRoot = session.activeRoot
  PROVE  /\ task' \in [Tasks -> TaskRow]
         /\ \A u \in Tasks : RowStep(w, task[u], task'[u])
         /\ OneTreeRuns' /\ ChildrenSettled'
<1>1. \A u \in Tasks : task'[u] = IF u = t THEN s ELSE task[u]
  BY DEF IInv, TypeOK
<1>2. \A u \in Tasks : RowStep(w, task[u], task'[u])
  BY <1>1, Parts DEF RowStep, GensBound, Alive
<1>3. OneTreeRuns'
  BY <1>1 DEF IInv, OneTreeRuns, RootOf
<1>4. ChildrenSettled'
  BY <1>1, ParentAssumption DEF IInv, ChildrenSettled
<1>5. task' \in [Tasks -> TaskRow]
  BY DEF IInv, TypeOK
<1> QED
  BY <1>2, <1>3, <1>4, <1>5

(* The row of a spawned task is queued and streams nothing.                 *)
LEMMA NewTaskType ==
  LET s == [NewTask EXCEPT !.state = "queued", !.input = TRUE]
  IN s \in TaskRow /\ s.state = "queued" /\ s.gens = 0 /\ ~s.finalizing
BY DEF NewTask, TaskRow, TaskStates

(* A spawned task belongs to the tree that runs: its coordinator is not     *)
(* terminal (spawn.go:15-33).                                               *)
LEMMA SpawnedRows ==
  ASSUME IInv, NEW w, NEW t \in Tasks, SpawnAllowed(Parent[t], t), task' = Spawned(t),
         session'.activeRoot = session.activeRoot
  PROVE  /\ task' \in [Tasks -> TaskRow]
         /\ \A u \in Tasks : RowStep(w, task[u], task'[u])
         /\ OneTreeRuns' /\ ChildrenSettled'
<1> DEFINE s == [NewTask EXCEPT !.state = "queued", !.input = TRUE]
<1>1. s \in TaskRow /\ s.state = "queued" /\ s.gens = 0 /\ ~s.finalizing
  BY NewTaskType
<1>2. task' = [task EXCEPT ![t] = s] /\ ~task[Parent[t]].finalizing
  BY DEF Spawned, SpawnAllowed
<1> HIDE DEF s
<1> QED
  BY <1>1, <1>2, OpenedRows

(* A resumed child belongs to the tree that runs: its root is neither       *)
(* terminal nor finalizing (followup.go:14-34).                             *)
LEMMA FollowedUpRows ==
  ASSUME IInv, NEW w, NEW t \in Tasks, FollowupAllowed(t), task' = FollowedUp(t),
         session'.activeRoot = session.activeRoot
  PROVE  /\ task' \in [Tasks -> TaskRow]
         /\ \A u \in Tasks : RowStep(w, task[u], task'[u])
         /\ OneTreeRuns' /\ ChildrenSettled'
<1> DEFINE x == [task[t] EXCEPT !.state = "queued", !.pending = "", !.finalizing = FALSE]
           s == [x EXCEPT !.cancel = FALSE, !.error = FALSE, !.failures = 0, !.input = TRUE]
<1>1. /\ task[t] \in TaskRow /\ task[t].state \in TerminalStates
      /\ task[t].gens <= 0
  BY Parts DEF TypeOK, GensBound, FollowupAllowed, Terminal, TerminalStates
<1>2. task[t].gens = 0
  BY <1>1, CountersType
<1>3. x \in TaskRow /\ x.state = "queued" /\ x.gens = 0 /\ ~x.finalizing
  BY <1>1, <1>2 DEF TaskRow, TaskStates
<1>4. task' = [task EXCEPT ![t] = s] /\ ~task[Parent[t]].finalizing
  BY DEF FollowedUp, FollowupAllowed
<1> HIDE DEF x
<1>5. s \in TaskRow /\ s.state = "queued" /\ s.gens = 0 /\ ~s.finalizing
  BY <1>3 DEF TaskRow
<1> HIDE DEF s
<1> QED
  BY <1>4, <1>5, OpenedRows

(* An agent call spawns, steers, resumes or cancels a child in its          *)
(* transaction (collaboration.go:51-106).                                   *)
LEMMA KeepsAgentOperation ==
  ASSUME IInv, NEW w \in Workers, AgentOperation(w)
  PROVE  IInv'
<1>1. /\ wk[w].pc = "exec" /\ Fenced(w) /\ Goto(w, "record")
      /\ UNCHANGED <<session, ws, call>>
      /\ execs' = [execs EXCEPT ![wk[w].head] = @ + 1]
  BY DEF AgentOperation
<1>2. /\ task' \in [Tasks -> TaskRow]
      /\ \A u \in Tasks : RowStep(w, task[u], task'[u])
      /\ OneTreeRuns' /\ ChildrenSettled'
  <2>1. CASE \E c \in Tasks : SpawnAllowed(wk[w].task, c) /\ task' = Spawned(c)
    <3>1. PICK c \in Tasks : SpawnAllowed(wk[w].task, c) /\ task' = Spawned(c)
      BY <2>1
    <3>2. SpawnAllowed(Parent[c], c)
      BY <3>1 DEF SpawnAllowed
    <3> QED
      BY <1>1, <3>1, <3>2, SpawnedRows
  <2>2. CASE \E u \in Tree(wk[w].task) : SteerAllowed(u) /\ task' = Steered(u)
    BY <1>1, <2>2, SteeredRows DEF Tree
  <2>3. CASE \E u \in Tree(wk[w].task) : FollowupAllowed(u) /\ task' = FollowedUp(u)
    BY <1>1, <2>3, FollowedUpRows DEF Tree
  <2>4. CASE \E u \in Children(wk[w].task) : task' = Canceled(u)
    BY <1>1, <2>4, CanceledRows DEF Children
  <2>5. CASE UNCHANGED task
    <3>1. \A u \in Tasks : RowStep(w, task[u], task'[u]) /\ Quiet(task[u], task'[u])
      BY <2>5, Parts DEF RowStep, Quiet, Alive
    <3> QED
      BY <1>1, <2>5, <3>1, QuietKeeps DEF IInv, TypeOK
  <2> QED
    BY <2>1, <2>2, <2>3, <2>4, <2>5 DEF AgentOperation
<1>3. /\ wk' \in [Workers -> WorkerRow]
      /\ \A v \in Workers \ {w} : wk'[v] = wk[v]
      /\ wk'[w].pc = "record" /\ wk'[w].task = wk[w].task
      /\ wk'[w].epoch = wk[w].epoch
  BY <1>1, GotoMemory DEF IInv, PCs
<1>4. execs' \in [Calls -> Nat]
  BY <1>1, ExecsType DEF IInv
<1>5. TypeOK'
  BY <1>1, <1>2, <1>3, <1>4 DEF IInv, TypeOK
<1>6. wk[w].task \in Tasks /\ task[wk[w].task].gens = 0 /\ task[wk[w].task].state = "running"
  BY <1>1, FencedTask, FencedGens DEF IInv
<1>7. task'[wk[w].task].gens = 0
  <2> DEFINE t == wk[w].task
  <2>1. CASE \E c \in Tasks : SpawnAllowed(t, c) /\ task' = Spawned(c)
    BY <1>6, <2>1 DEF SpawnAllowed, Spawned, Exists, IInv, TypeOK
  <2>2. CASE \E u \in Tree(t) : SteerAllowed(u) /\ task' = Steered(u)
    BY <1>1, <1>6, <2>2, SteeredRows DEF Tree
  <2>3. CASE \E u \in Tree(t) : FollowupAllowed(u) /\ task' = FollowedUp(u)
    BY <1>6, <2>3 DEF FollowupAllowed, FollowedUp, Tree, Terminal, TerminalStates, IInv, TypeOK
  <2>4. CASE \E u \in Children(t) : task' = Canceled(u)
    BY <1>1, <1>6, <2>4, CanceledRows DEF Children
  <2>5. CASE UNCHANGED task
    BY <1>6, <2>5
  <2> QED
    BY <2>1, <2>2, <2>3, <2>4, <2>5 DEF AgentOperation
<1>8. MemoryOK(w)'
  BY <1>3, <1>7 DEF MemoryOK
<1> QED
  BY <1>2, <1>3, <1>5, <1>8, FramedStep

-----------------------------------------------------------------------------
(* The requests of clients and of the maintenance loop.                     *)

LEMMA ClientStep ==
  ASSUME IInv, UNCHANGED wk,
         task' \in [Tasks -> TaskRow],
         \A u \in Tasks : RowStep(NoWorker, task[u], task'[u]),
         OneTreeRuns', ChildrenSettled',
         session' \in Session, ws' \in Workspace,
         call' \in [Calls -> CallRow], execs' \in [Calls -> Nat]
  PROVE  IInv'
<1>1. TypeOK'
  BY DEF IInv, TypeOK
<1> QED
  BY <1>1, WorkerAssumption, FramedStep

(* Requests that write one row, and open nothing.                           *)
LEMMA OneRowRequest ==
  ASSUME IInv, UNCHANGED <<session, wk>>, NEW t \in Tasks, NEW s \in TaskRow,
         task' = [task EXCEPT ![t] = s],
         RowStep(NoWorker, task[t], s), Quiet(task[t], s),
         ws' \in Workspace, call' \in [Calls -> CallRow], execs' = execs
  PROVE  IInv'
<1>1. \A u \in Tasks : task'[u] = IF u = t THEN s ELSE task[u]
  BY DEF IInv, TypeOK
<1>2. \A u \in Tasks : RowStep(NoWorker, task[u], task[u]) /\ Quiet(task[u], task[u])
  BY Parts DEF RowStep, Quiet, Alive
<1>3. \A u \in Tasks : RowStep(NoWorker, task[u], task'[u]) /\ Quiet(task[u], task'[u])
  BY <1>1, <1>2
<1>4. OneTreeRuns' /\ ChildrenSettled'
  BY <1>3, QuietKeeps
<1>5. task' \in [Tasks -> TaskRow] /\ session' \in Session /\ execs' \in [Calls -> Nat]
  BY DEF IInv, TypeOK
<1> QED
  BY <1>3, <1>4, <1>5, ClientStep

(* A request that writes no task row keeps the invariant.                   *)
LEMMA NoRowRequest ==
  ASSUME IInv, UNCHANGED <<task, wk>>, session' \in Session,
         session'.activeRoot = session.activeRoot,
         ws' \in Workspace, call' \in [Calls -> CallRow], execs' = execs
  PROVE  IInv'
<1>1. \A u \in Tasks : RowStep(NoWorker, task[u], task'[u]) /\ Quiet(task[u], task'[u])
  BY Parts DEF RowStep, Quiet, Alive
<1>2. OneTreeRuns' /\ ChildrenSettled'
  BY <1>1, QuietKeeps
<1>3. task' \in [Tasks -> TaskRow] /\ execs' \in [Calls -> Nat]
  BY DEF IInv, TypeOK
<1> QED
  BY <1>1, <1>2, <1>3, ClientStep

(* The requests of a client on a tree: spawn, steer, follow up, cancel.     *)
LEMMA KeepsTreeRequest ==
  ASSUME IInv, NEW t \in Tasks,
         CreateTask(t) \/ Spawn(t) \/ Steer(t) \/ Followup(t) \/ Cancel(t)
  PROVE  IInv'
<1>1. UNCHANGED <<session, ws, call, wk, execs>>
  BY DEF CreateTask, Spawn, Steer, Followup, Cancel
<1>2. /\ task' \in [Tasks -> TaskRow]
      /\ \A u \in Tasks : RowStep(NoWorker, task[u], task'[u])
      /\ OneTreeRuns' /\ ChildrenSettled'
  <2>1. CASE CreateTask(t)
    <3> DEFINE s == [NewTask EXCEPT !.state = "queued", !.input = TRUE]
    <3>1. s \in TaskRow /\ s.state = "queued" /\ s.gens = 0 /\ ~s.finalizing
      BY NewTaskType
    <3>2. task' = [task EXCEPT ![t] = s] /\ Parent[t] = NoTask
      BY <2>1 DEF CreateTask
    <3> HIDE DEF s
    <3> QED
      BY <1>1, <3>1, <3>2, OpenedRows
  <2>2. CASE Spawn(t)
    BY <1>1, <2>2, SpawnedRows DEF Spawn
  <2>3. CASE Steer(t)
    BY <1>1, <2>3, SteeredRows DEF Steer
  <2>4. CASE Followup(t)
    BY <1>1, <2>4, FollowedUpRows DEF Followup
  <2>5. CASE Cancel(t)
    BY <1>1, <2>5, CanceledRows DEF Cancel
  <2> QED
    BY <2>1, <2>2, <2>3, <2>4, <2>5
<1>3. /\ session' \in Session /\ ws' \in Workspace
      /\ call' \in [Calls -> CallRow] /\ execs' \in [Calls -> Nat]
  BY <1>1 DEF IInv, TypeOK
<1> QED
  BY <1>1, <1>2, <1>3, ClientStep

(* A session is archived when nothing of it is open (archive.go:11-26).     *)
LEMMA KeepsArchive ==
  ASSUME IInv, Archive
  PROVE  IInv'
<1>1. session' \in Session /\ session'.activeRoot = session.activeRoot
  BY DEF Archive, IInv, TypeOK, Session
<1> QED
  BY <1>1, NoRowRequest DEF Archive, IInv, TypeOK

(* A row that becomes queued again after it waited or was uncertain.        *)
LEMMA RequeuedRow ==
  ASSUME NEW r \in TaskRow, GensBound(r), r.state \in {"waiting", "unknown"}
  PROVE  LET s == [r EXCEPT !.state = "queued"]
         IN s \in TaskRow /\ RowStep(NoWorker, r, s) /\ Quiet(r, s) /\ s.state = "queued"
            /\ s.gens = r.gens
BY DEF TaskRow, TaskStates, RowStep, Quiet, GensBound, Alive, Closed, TerminalStates

(* A client approves, denies or answers a call; a task that waits for it is *)
(* queued (tool_result.go:33-91).                                           *)
LEMMA KeepsResolve ==
  ASSUME IInv, NEW c \in Calls, Approve(c) \/ Deny(c) \/ SubmitResult(c)
  PROVE  IInv'
<1> DEFINE t == CallTask[c]
<1>1. UNCHANGED <<ws, wk, execs>> /\ t \in Tasks
  BY CallAssumption DEF Approve, Deny, SubmitResult, Resolved
<1>2. session' \in Session /\ session'.activeRoot = session.activeRoot
  BY DEF Approve, Deny, SubmitResult, IInv, TypeOK, Session
<1>3. call' \in [Calls -> CallRow]
  <2>1. PICK s \in {"custom", "ready", "completed"} : Resolved(c, s)
    BY DEF Approve, Deny, SubmitResult
  <2> QED
    BY <2>1 DEF Resolved, IInv, TypeOK, CallRow, CallStatuses
<1>4. \/ /\ task[t].state \in {"waiting", "unknown"}
         /\ task' = [task EXCEPT ![t].state = "queued", ![t].error = FALSE]
      \/ UNCHANGED task
  BY DEF Approve, Deny, SubmitResult, Resolved
<1>5. \A u \in Tasks : task[u] \in TaskRow /\ GensBound(task[u])
  BY Parts DEF TypeOK
<1>6. CASE /\ task[t].state \in {"waiting", "unknown"}
           /\ task' = [task EXCEPT ![t].state = "queued", ![t].error = FALSE]
  <2> DEFINE x == [task[t] EXCEPT !.state = "queued"]
             s == [x EXCEPT !.error = FALSE]
  <2>1. x \in TaskRow /\ x.state = "queued" /\ x.gens = task[t].gens
        /\ x.finalizing = task[t].finalizing
    BY <1>1, <1>5 DEF TaskRow, TaskStates
  <2>2. task' = [task EXCEPT ![t] = s]
    BY <1>1, <1>6 DEF IInv, TypeOK
  <2> HIDE DEF x
  <2>3. s \in TaskRow /\ s.state = "queued" /\ s.gens = task[t].gens
        /\ s.finalizing = task[t].finalizing
    BY <2>1, ErrorType
  <2> HIDE DEF s
  <2>4. \A u \in Tasks : task'[u] = IF u = t THEN s ELSE task[u]
    BY <2>2 DEF IInv, TypeOK
  <2>5. RowStep(NoWorker, task[t], s) /\ Quiet(task[t], s)
    BY <1>1, <1>5, <1>6, <2>3 DEF RowStep, Quiet, GensBound, Alive, Closed, TerminalStates
  <2>6. \A u \in Tasks : RowStep(NoWorker, task[u], task[u]) /\ Quiet(task[u], task[u])
    BY <1>5 DEF RowStep, Quiet, Alive
  <2>7. \A u \in Tasks : RowStep(NoWorker, task[u], task'[u]) /\ Quiet(task[u], task'[u])
    BY <2>4, <2>5, <2>6
  <2>8. task' \in [Tasks -> TaskRow]
    BY <2>2, <2>3 DEF IInv, TypeOK
  <2>9. OneTreeRuns' /\ ChildrenSettled'
    BY <1>2, <2>7, QuietKeeps
  <2> QED
    BY <1>1, <1>2, <1>3, <2>7, <2>8, <2>9, ClientStep DEF IInv, TypeOK
<1>7. CASE UNCHANGED task
  BY <1>1, <1>2, <1>3, <1>7, NoRowRequest DEF IInv, TypeOK
<1> QED
  BY <1>4, <1>6, <1>7

(* A client decides the calls whose outcome is not known                    *)
(* (reconcile.go:13-48).                                                    *)
LEMMA KeepsReconcile ==
  ASSUME IInv, NEW t \in Tasks, Reconcile(t)
  PROVE  IInv'
<1> DEFINE x == [task[t] EXCEPT !.state = "queued"]
           s == [x EXCEPT !.error = FALSE, !.finalizing = FALSE]
<1>1. /\ task[t].state = "unknown" /\ UNCHANGED <<session, call, wk, execs>>
      /\ ws' \in Workspace
  BY DEF Reconcile, IInv, TypeOK, Workspace
<1>2. task[t] \in TaskRow /\ GensBound(task[t])
  BY Parts DEF TypeOK
<1>3. x \in TaskRow /\ x.state = "queued" /\ x.gens = task[t].gens
  BY <1>2 DEF TaskRow, TaskStates
<1>4. task' = [task EXCEPT ![t] = s]
  BY DEF Reconcile, IInv, TypeOK
<1> HIDE DEF x
<1>5. s \in TaskRow /\ s.state = "queued" /\ s.gens = task[t].gens /\ ~s.finalizing
  BY <1>3 DEF TaskRow
<1> HIDE DEF s
<1>6. RowStep(NoWorker, task[t], s) /\ Quiet(task[t], s)
  BY <1>1, <1>2, <1>5 DEF RowStep, Quiet, GensBound, Alive, Closed, TerminalStates
<1> QED
  BY <1>1, <1>4, <1>5, <1>6, OneRowRequest DEF IInv, TypeOK

(* Maintenance fails a task that is older than its session allows           *)
(* (maintenance.go:98-147).                                                 *)
LEMMA KeepsExpire ==
  ASSUME IInv, NEW t \in Tasks, Expire(t)
  PROVE  IInv'
<1> DEFINE c == Canceled(t)
           s == [c[t] EXCEPT !.pending = "failed", !.error = TRUE]
<1>1. UNCHANGED <<session, ws, call, wk, execs>>
  BY DEF Expire
<1>2. \A u \in Tasks : task[u] \in TaskRow /\ GensBound(task[u])
  BY Parts DEF TypeOK
<1>3. \A u \in Tasks : c[u] \in {task[u], Rearm([task[u] EXCEPT !.cancel = TRUE])}
  BY DEF Canceled
<1>4. \A u \in Tasks : /\ c[u] \in TaskRow /\ RowStep(NoWorker, task[u], c[u])
                       /\ Quiet(task[u], c[u])
  <2>1. \A u \in Tasks : RowStep(NoWorker, task[u], task[u]) /\ Quiet(task[u], task[u])
    BY <1>2 DEF RowStep, Quiet, Alive
  <2> QED
    BY <1>2, <1>3, <2>1, CanceledRow
<1>5. c = [u \in Tasks |-> c[u]]
  BY DEF Canceled
<1>6. task' = [c EXCEPT ![t] = s]
  BY <1>5 DEF Expire
<1> HIDE DEF c
<1>7. /\ s \in TaskRow /\ s.state = c[t].state /\ s.gens = c[t].gens /\ s.live = c[t].live
      /\ s.owner = c[t].owner /\ s.epoch = c[t].epoch /\ s.finalizing = c[t].finalizing
  BY <1>4 DEF TaskRow, TerminalStates
<1> HIDE DEF s
<1>8. RowStep(NoWorker, task[t], s) /\ Quiet(task[t], s)
  BY <1>4, <1>7 DEF RowStep, Quiet, GensBound, Alive, Closed
<1>9. \A u \in Tasks : task'[u] = IF u = t THEN s ELSE c[u]
  BY <1>5, <1>6
<1>10. \A u \in Tasks : /\ task'[u] \in TaskRow /\ RowStep(NoWorker, task[u], task'[u])
                        /\ Quiet(task[u], task'[u])
  BY <1>4, <1>7, <1>8, <1>9
<1>11. task' = [u \in Tasks |-> task'[u]]
  BY <1>5, <1>6
<1>12. task' \in [Tasks -> TaskRow]
  BY <1>10, <1>11
<1>13. OneTreeRuns' /\ ChildrenSettled'
  BY <1>1, <1>10, QuietKeeps
<1> QED
  BY <1>1, <1>10, <1>12, <1>13, ClientStep DEF IInv, TypeOK

(* A wait's deadline passes, and maintenance wakes the coordinator          *)
(* (wait.go:110-138).                                                       *)
LEMMA KeepsDeadline ==
  ASSUME IInv, NEW c \in Calls, DeadlinePasses(c) \/ WakeWaiter(c)
  PROVE  IInv'
<1>1. CASE DeadlinePasses(c)
  <2>1. call' \in [Calls -> CallRow]
    BY <1>1 DEF DeadlinePasses, IInv, TypeOK, CallRow
  <2> QED
    BY <1>1, <2>1, NoRowRequest DEF DeadlinePasses, IInv, TypeOK
<1>2. CASE WakeWaiter(c)
  <2> DEFINE t == CallTask[c]
             s == [task[t] EXCEPT !.state = "queued"]
  <2>1. t \in Tasks /\ task[t].state = "waiting" /\ UNCHANGED <<session, ws, call, wk, execs>>
    BY <1>2, CallAssumption DEF WakeWaiter
  <2>2. task[t] \in TaskRow /\ GensBound(task[t])
    BY <2>1, Parts DEF TypeOK
  <2>3. s \in TaskRow /\ RowStep(NoWorker, task[t], s) /\ Quiet(task[t], s)
    BY <2>1, <2>2, RequeuedRow
  <2>4. task' = [task EXCEPT ![t] = s]
    BY <1>2, <2>1 DEF WakeWaiter, IInv, TypeOK
  <2> HIDE DEF s
  <2> QED
    BY <2>1, <2>3, <2>4, OneRowRequest DEF IInv, TypeOK
<1> QED
  BY <1>1, <1>2

(* A lease runs out: the row stays running until another worker claims it.  *)
LEMMA KeepsLapse ==
  ASSUME IInv, NEW t \in Tasks, LapseLease(t)
  PROVE  IInv'
<1> DEFINE s == [task[t] EXCEPT !.live = FALSE]
<1>1. task[t] \in TaskRow /\ GensBound(task[t])
  BY Parts DEF TypeOK
<1>2. s \in TaskRow /\ RowStep(NoWorker, task[t], s) /\ Quiet(task[t], s)
  BY <1>1 DEF TaskRow, RowStep, Quiet, GensBound, Alive, Closed
<1>3. task' = [task EXCEPT ![t] = s] /\ UNCHANGED <<session, ws, call, wk, execs>>
  BY DEF LapseLease, IInv, TypeOK
<1> HIDE DEF s
<1> QED
  BY <1>2, <1>3, OneRowRequest DEF IInv, TypeOK

-----------------------------------------------------------------------------
(* Claims.                                                                  *)

LEMMA KeepsClaimSettles ==
  ASSUME IInv, NEW t \in Tasks, ClaimSettles(t)
  PROVE  IInv'
<1> DEFINE e == task[t].error \/ task[t].finalizing
           s == [Release(Interrupted(task[t]), "unknown") EXCEPT !.error = e]
<1>1. UNCHANGED <<session, ws, wk, execs>> /\ task[t].state = "running"
  BY DEF ClaimSettles, Uncertain
<1>2. task[t] \in TaskRow
  BY DEF IInv, TypeOK
<1>3. /\ Interrupted(task[t]) \in TaskRow /\ Interrupted(task[t]).gens = 0
      /\ Interrupted(task[t]).finalizing = task[t].finalizing
  BY <1>2, InterruptedType
<1>4. e \in BOOLEAN /\ "unknown" \in TaskStates
  BY <1>2 DEF TaskRow, TaskStates
<1>5. task' = [task EXCEPT ![t] = s]
  BY DEF ClaimSettles
<1> HIDE DEF e
<1>6. s \in TaskRow /\ s.state = "unknown" /\ s.gens = 0 /\ s.finalizing = task[t].finalizing
  BY <1>3, <1>4, ReleaseErrorType
<1> HIDE DEF s
<1>8. call' \in [Calls -> CallRow]
  BY DEF ClaimSettles, LoseCalls, IInv, TypeOK, CallRow, CallStatuses
<1>9. RowStep(NoWorker, task[t], s) /\ Quiet(task[t], s)
  BY <1>1, <1>6 DEF RowStep, Quiet, GensBound, Alive, Closed, TerminalStates
<1> QED
  BY <1>1, <1>5, <1>6, <1>8, <1>9, OneRowRequest DEF IInv, TypeOK

(* A worker that looks at a task it may not claim settles what is uncertain *)
(* in it, at most (claim.go:110-173).                                       *)
LEMMA KeepsClaimSkips ==
  ASSUME IInv, NEW t \in Tasks, ClaimSkips(t)
  PROVE  IInv'
<1> DEFINE s == Interrupted(task[t])
<1>1. /\ UNCHANGED <<session, ws, call, wk, execs>> /\ task[t].state = "running"
      /\ ~task[t].live /\ task' = [task EXCEPT ![t] = s]
  BY DEF ClaimSkips, Claimable
<1>2. task[t] \in TaskRow
  BY DEF IInv, TypeOK
<1>3. /\ s \in TaskRow /\ s.gens = 0 /\ s.state = "running" /\ ~s.live
      /\ s.finalizing = task[t].finalizing
  BY <1>1, <1>2, InterruptedType
<1> HIDE DEF s
<1>4. RowStep(NoWorker, task[t], s) /\ Quiet(task[t], s)
  BY <1>1, <1>3 DEF RowStep, Quiet, GensBound, Alive, Closed, TerminalStates
<1> QED
  BY <1>1, <1>3, <1>4, OneRowRequest DEF IInv, TypeOK

(* Only the tree that holds the session is claimed from; nothing of another *)
(* tree can be running when a root takes the session.                       *)
LEMMA KeepsClaim ==
  ASSUME IInv, NEW w \in Workers, NEW t \in Tasks, Claim(w, t)
  PROVE  IInv'
<1>1. /\ wk[w].pc = "idle" /\ Claimable(t) /\ UNCHANGED <<ws, call, execs>>
      /\ session' = [session EXCEPT !.activeRoot = RootOf(t)]
  BY DEF Claim
<1>2. /\ \A u \in Tasks : task[u] \in TaskRow
      /\ task[t].epoch + 1 \in Nat
  <2>1. \A u \in Tasks : task[u] \in TaskRow
    BY DEF IInv, TypeOK
  <2>2. task[t].epoch \in Nat
    BY <2>1, CountersType
  <2> QED
    BY <2>1, <2>2
<1>3. PICK verdict \in {"ok", "declined", "impossible"} :
        task' = [task EXCEPT ![t] =
          [Interrupted(@) EXCEPT !.state = "running", !.owner = w, !.live = TRUE,
             !.epoch = task[t].epoch + 1,
             !.pending = IF verdict = "impossible" THEN "failed" ELSE task[t].pending,
             !.error = task[t].error \/ verdict = "impossible"]]
  BY BoundAssumption DEF Claim
<1> DEFINE e == task[t].error \/ verdict = "impossible"
           n == IF verdict = "impossible" THEN "failed" ELSE task[t].pending
           x == [Interrupted(task[t]) EXCEPT !.state = "running", !.owner = w, !.live = TRUE]
           y == [x EXCEPT !.epoch = task[t].epoch + 1, !.pending = n]
           s == [y EXCEPT !.error = e]
<1>4. task' = [task EXCEPT ![t] = s]
  BY <1>3
<1>5. e \in BOOLEAN /\ n \in {""} \cup TerminalStates
  BY <1>2 DEF TaskRow, TerminalStates
<1> HIDE DEF e, n
<1>6. /\ Interrupted(task[t]) \in TaskRow /\ Interrupted(task[t]).gens = 0
      /\ Interrupted(task[t]).finalizing = task[t].finalizing
  BY <1>2, InterruptedType
<1>7. /\ x \in TaskRow /\ x.state = "running" /\ x.owner = w /\ x.gens = 0
      /\ x.finalizing = task[t].finalizing
  BY <1>6 DEF TaskRow, TaskStates
<1> HIDE DEF x
<1>8. /\ y \in TaskRow /\ y.state = "running" /\ y.owner = w /\ y.gens = 0
      /\ y.finalizing = task[t].finalizing
  BY <1>2, <1>5, <1>7 DEF TaskRow
<1> HIDE DEF y
<1>9. /\ s \in TaskRow /\ s.state = "running" /\ s.owner = w /\ s.gens = 0
      /\ s.finalizing = task[t].finalizing
  BY <1>5, <1>8, ErrorType
<1> HIDE DEF s
<1>10. \A u \in Tasks : task'[u] = IF u = t THEN s ELSE task[u]
  BY <1>4 DEF IInv, TypeOK
<1>11. \A u \in Tasks : RowStep(w, task[u], task'[u])
  BY <1>9, <1>10, Parts DEF RowStep, GensBound, Alive
<1>12. RootOf(t) \in Tasks /\ \A u \in Tasks : RootOf(u) # NoTask
  BY ParentAssumption DEF RootOf
<1>13. OneTreeRuns'
  <2>1. session'.activeRoot = RootOf(t)
    BY <1>1 DEF IInv, TypeOK, Session
  <2>2. ASSUME NEW u \in Tasks, task'[u].state = "running", u # t
        PROVE  RootOf(u) = RootOf(t)
    <3>1. task[u].state = "running"
      BY <1>10, <2>2
    <3>2. session.activeRoot = RootOf(u)
      BY <3>1 DEF IInv, OneTreeRuns
    <3> QED
      BY <1>1, <1>12, <3>2 DEF Claimable
  <2> QED
    BY <2>1, <2>2 DEF OneTreeRuns, RootOf
<1>14. ChildrenSettled'
  <2>1. ~Closed(task[t])
    BY <1>1 DEF Claimable, Closed, TerminalStates
  <2> QED
    BY <1>9, <1>10, <2>1, ParentAssumption DEF IInv, ChildrenSettled, Closed
<1> DEFINE m == [Idle EXCEPT !.pc = "begin", !.task = t, !.epoch = task[t].epoch + 1]
<1>15. m \in WorkerRow /\ m.pc = "begin" /\ m.task = t
  BY <1>2 DEF Idle, WorkerRow, PCs
<1>16. wk' = [wk EXCEPT ![w] = m]
  BY DEF Claim
<1> HIDE DEF m
<1>17. /\ wk' \in [Workers -> WorkerRow] /\ wk'[w] = m
       /\ \A v \in Workers \ {w} : wk'[v] = wk[v]
  BY <1>15, <1>16, SetMemory DEF IInv
<1>18. TypeOK'
  <2>1. session' \in Session
    BY <1>1, <1>12 DEF IInv, TypeOK, Session
  <2>2. task' \in [Tasks -> TaskRow]
    BY <1>4, <1>9 DEF IInv, TypeOK
  <2> QED
    BY <1>1, <1>17, <2>1, <2>2 DEF IInv, TypeOK
<1>19. MemoryOK(w)'
  BY <1>9, <1>10, <1>15, <1>17 DEF MemoryOK
<1> QED
  BY <1>11, <1>13, <1>14, <1>17, <1>18, <1>19, FramedStep

-----------------------------------------------------------------------------
(* A turn of the model, and the two transactions that finish a task.        *)

LEMMA ChargedType ==
  ASSUME NEW r \in TaskRow, NEW n \in Nat
  PROVE  LET x == [r EXCEPT !.toolCount = @ + n]
         IN /\ x \in TaskRow /\ x.state = r.state /\ x.owner = r.owner
            /\ x.live = r.live /\ x.epoch = r.epoch /\ x.gens = r.gens
            /\ x.finalizing = r.finalizing /\ x.pending = r.pending
<1>1. r.toolCount + n \in Nat
  <2>1. r.toolCount \in Nat
    BY CountersType
  <2> QED
    BY <2>1
<1> DEFINE k == r.toolCount + n
<1> HIDE DEF k
<1>2. LET x == [r EXCEPT !.toolCount = k]
      IN /\ x \in TaskRow /\ x.state = r.state /\ x.owner = r.owner
         /\ x.live = r.live /\ x.epoch = r.epoch /\ x.gens = r.gens
         /\ x.finalizing = r.finalizing /\ x.pending = r.pending
  BY <1>1 DEF TaskRow, k
<1> QED
  BY <1>2 DEF k

(* The calls a turn is granted are finitely many, so the charge is a number.*)
LEMMA AcceptedCount ==
  ASSUME NEW t \in Tasks, NEW turn \in Turns(t)
  PROVE  /\ Cardinality(Accepted(t, turn)) \in Nat
         /\ turn \subseteq Calls
<1>1. IsFiniteSet(turn) /\ turn \subseteq Calls
  BY DEF Turns
<1>2. Accepted(t, turn) \in SUBSET turn
  BY DEF Accepted
<1>3. IsFiniteSet(Accepted(t, turn))
  BY <1>1, <1>2, FS_Subset
<1> QED
  BY <1>1, <1>3, FS_CardinalityType

(* A model turn ends its generation, requests calls, and decides what to do *)
(* next (step.go:253-337).                                                  *)
LEMMA KeepsModelAnswers ==
  ASSUME IInv, NEW w \in Workers, ModelAnswers(w)
  PROVE  IInv'
<1> DEFINE t == wk[w].task
<1>1. /\ wk[w].pc = "stream" /\ Fenced(w) /\ GoBegin(w) /\ UNCHANGED <<session, ws, execs>>
  BY DEF ModelAnswers
<1>2. /\ t \in Tasks /\ task[t].gens = 1 /\ task[t].owner = w /\ task[t].state = "running"
      /\ \A u \in Tasks : task[u] \in TaskRow /\ GensBound(task[u])
  BY <1>1, FencedTask, FencedGens, Parts DEF IInv, TypeOK
<1>3. PICK turn \in Turns(t), stop \in StopReasons :
        /\ call' = [c \in Calls |-> IF c \in turn
             THEN [NewCall EXCEPT !.status = FirstStatus(c, Accepted(t, turn))] ELSE call[c]]
        /\ task' = [u \in Tasks |->
             CASE u = t -> [[task[t] EXCEPT !.toolCount = @ + Cardinality(Accepted(t, turn))]
                              EXCEPT !.gens = @ - 1, !.failures = 0,
                                     !.pending = IF turn = {} THEN stop ELSE @]
               [] u # t /\ u = RootOf(t) ->
                    [task[u] EXCEPT !.toolCount = @ + Cardinality(Accepted(t, turn))]
               [] OTHER -> task[u]]
  BY DEF ModelAnswers
<1> DEFINE n == Cardinality(Accepted(t, turn))
           charge(r) == [r EXCEPT !.toolCount = @ + n]
<1>4. n \in Nat
  BY <1>2, AcceptedCount
<1>5. call' \in [Calls -> CallRow]
  <2>1. \A c \in Calls : FirstStatus(c, Accepted(t, turn)) \in {"completed", "approval", "custom", "ready"}
    BY DEF FirstStatus
  <2> QED
    BY <1>3, <2>1 DEF IInv, TypeOK, NewCall, CallRow, CallStatuses
<1> DEFINE x == charge(task[t])
           p == IF turn = {} THEN stop ELSE x.pending
           s == [x EXCEPT !.gens = x.gens - 1, !.failures = 0, !.pending = p]
<1>6. task' = [u \in Tasks |-> CASE u = t -> s
                                [] u # t /\ u = RootOf(t) -> charge(task[u])
                                [] OTHER -> task[u]]
  BY <1>3
<1> HIDE DEF n
<1>7. \A u \in Tasks : /\ charge(task[u]) \in TaskRow
                       /\ charge(task[u]).state = task[u].state
                       /\ charge(task[u]).owner = task[u].owner
                       /\ charge(task[u]).live = task[u].live
                       /\ charge(task[u]).epoch = task[u].epoch
                       /\ charge(task[u]).gens = task[u].gens
                       /\ charge(task[u]).finalizing = task[u].finalizing
  BY <1>2, <1>4, ChargedType
<1> HIDE DEF charge
<1>8. /\ x \in TaskRow /\ x.gens = 1 /\ x.owner = w /\ x.state = "running"
      /\ x.finalizing = task[t].finalizing
  BY <1>2, <1>7
<1>9. p \in {""} \cup TerminalStates
  BY <1>8, BoundAssumption DEF TaskRow, TerminalStates
<1> HIDE DEF x, p
<1>10. /\ s \in TaskRow /\ s.gens = 0 /\ s.owner = w /\ s.state = "running"
       /\ s.finalizing = x.finalizing
  <2> DEFINE y == [x EXCEPT !.gens = 0]
             z == [y EXCEPT !.failures = 0]
  <2>1. x.gens - 1 = 0
    BY <1>8
  <2>2. s = [z EXCEPT !.pending = p]
    BY <2>1
  <2>3. /\ y \in TaskRow /\ y.gens = 0 /\ y.owner = w /\ y.state = "running"
        /\ y.finalizing = x.finalizing
    BY <1>8, GensType
  <2> HIDE DEF y, s
  <2>4. /\ z \in TaskRow /\ z.gens = 0 /\ z.owner = w /\ z.state = "running"
        /\ z.finalizing = x.finalizing
    BY <2>3, FailuresType
  <2> HIDE DEF z
  <2> QED
    BY <1>9, <2>2, <2>4 DEF TaskRow
<1> HIDE DEF s
<1>11. \A u \in Tasks : \/ u = t /\ task'[u] = s
                        \/ u # t /\ task'[u] \in {charge(task[u]), task[u]}
  BY <1>6
<1>12. \A u \in Tasks : RowStep(w, task[u], task'[u])
  BY <1>2, <1>7, <1>10, <1>11 DEF RowStep, GensBound, Alive
<1>13. \A u \in Tasks : Quiet(task[u], task'[u])
  BY <1>2, <1>7, <1>8, <1>10, <1>11 DEF Quiet, Closed, TerminalStates
<1>14. /\ wk' \in [Workers -> WorkerRow]
       /\ \A v \in Workers \ {w} : wk'[v] = wk[v]
       /\ wk'[w].pc = "begin" /\ wk'[w].task = t
  BY <1>1, BeginMemory DEF IInv
<1>15. TypeOK'
  <2>1. \A u \in Tasks : task'[u] \in TaskRow
    BY <1>2, <1>7, <1>10, <1>11
  <2>2. task' = [u \in Tasks |-> task'[u]]
    BY <1>6
  <2>3. task' \in [Tasks -> TaskRow]
    BY <2>1, <2>2
  <2> QED
    BY <1>1, <1>5, <1>14, <2>3 DEF IInv, TypeOK
<1>16. MemoryOK(w)'
  BY <1>2, <1>10, <1>11, <1>14 DEF MemoryOK
<1>17. OneTreeRuns' /\ ChildrenSettled'
  BY <1>1, <1>13, QuietKeeps
<1> QED
  BY <1>12, <1>14, <1>15, <1>16, <1>17, FramedStep

(* The first transaction of finish parks the task, fails it, or marks it    *)
(* finalizing (finish.go:70-147).                                           *)
LEMMA KeepsFinishBegin ==
  ASSUME IInv, NEW w \in Workers, FinishBegin(w)
  PROVE  IInv'
<1> DEFINE t == wk[w].task
           open == OpenChildren(t)
           short == \E u \in Children(t) : task[u].state \in TerminalStates \ {"succeeded"}
           fin == IF wk[w].fin = "succeeded" /\ short THEN "partial" ELSE wk[w].fin
<1>1. /\ wk[w].pc = "fin1" /\ Fenced(w) /\ UNCHANGED <<session, ws, execs>>
      /\ call' = IF Stopping(wk[w].fin) THEN StoppedCalls(t) ELSE call
  BY DEF FinishBegin
<1>2. /\ t \in Tasks /\ task[t].gens = 0 /\ task[t].owner = w /\ task[t].state = "running"
      /\ \A u \in Tasks : task[u] \in TaskRow /\ GensBound(task[u])
  BY <1>1, FencedTask, FencedGens, Parts DEF IInv, TypeOK
<1>3. call' \in [Calls -> CallRow]
  <2>1. StoppedCalls(t) \in [Calls -> CallRow]
    BY DEF StoppedCalls, IInv, TypeOK, CallRow, CallStatuses
  <2> QED
    BY <1>1, <2>1 DEF IInv, TypeOK
<1>4. fin \in TerminalStates
  BY <1>1 DEF IInv, FinIsTerminal, TerminalStates
<1>5. CASE /\ task' = [task EXCEPT ![t] = [Release(@, "unknown") EXCEPT !.error = TRUE]]
           /\ GoIdle(w)
  <2> DEFINE r == [Release(task[t], "unknown") EXCEPT !.error = TRUE]
  <2>1. r \in TaskRow /\ r.state = "unknown" /\ r.gens = 0 /\ r.finalizing = task[t].finalizing
    BY <1>2, ReleaseErrorType DEF TaskStates
  <2>2. task' = [task EXCEPT ![t] = r]
    BY <1>5
  <2> HIDE DEF r
  <2> QED
    BY <1>1, <1>3, <1>5, <2>1, <2>2, GivesUp
<1>6. CASE /\ task' = [u \in Tasks |->
                CASE u = t -> [Release(task[t], "waiting") EXCEPT !.pending = fin]
                  [] u \in open /\ Stopping(fin) -> Rearm([task[u] EXCEPT !.cancel = TRUE])
                  [] OTHER -> task[u]]
           /\ GoIdle(w)
  <2> DEFINE s == [Release(task[t], "waiting") EXCEPT !.pending = fin]
             canceled(u) == Rearm([task[u] EXCEPT !.cancel = TRUE])
  <2>1. Release(task[t], "waiting") \in TaskRow
    BY <1>2, ReleaseType DEF TaskStates
  <2>2. s \in TaskRow /\ s.state = "waiting" /\ s.gens = 0 /\ s.finalizing = task[t].finalizing
    <3>1. /\ Release(task[t], "waiting").state = "waiting"
          /\ Release(task[t], "waiting").gens = 0
          /\ Release(task[t], "waiting").finalizing = task[t].finalizing
      BY <1>2, ReleaseType DEF TaskStates
    <3> QED
      BY <1>4, <2>1, <3>1 DEF TaskRow
  <2> HIDE DEF s
  <2>3. RowStep(w, task[t], s) /\ Quiet(task[t], s)
    BY <1>2, <2>2 DEF RowStep, Quiet, GensBound, Alive, Closed, TerminalStates
  <2>4. \A u \in Tasks : /\ canceled(u) \in TaskRow /\ RowStep(w, task[u], canceled(u))
                         /\ Quiet(task[u], canceled(u))
    BY <1>2, CanceledRow
  <2> HIDE DEF canceled
  <2>5. \A u \in Tasks : RowStep(w, task[u], task[u]) /\ Quiet(task[u], task[u])
    BY <1>2 DEF RowStep, Quiet, Alive
  <2>6. /\ task' = [u \in Tasks |-> task'[u]]
        /\ \A u \in Tasks : (u = t /\ task'[u] = s) \/ task'[u] \in {canceled(u), task[u]}
    BY <1>6 DEF s, canceled
  <2>7. \A u \in Tasks : /\ task'[u] \in TaskRow /\ RowStep(w, task[u], task'[u])
                         /\ Quiet(task[u], task'[u])
    BY <1>2, <2>2, <2>3, <2>4, <2>5, <2>6
  <2>8. OneTreeRuns' /\ ChildrenSettled'
    BY <1>1, <2>7, QuietKeeps
  <2>9. /\ wk' \in [Workers -> WorkerRow] /\ MemoryOK(w)'
        /\ \A v \in Workers \ {w} : wk'[v] = wk[v]
    BY <1>6, IdleMemory DEF IInv
  <2>10. task' \in [Tasks -> TaskRow]
    BY <2>6, <2>7
  <2>11. TypeOK'
    BY <1>1, <1>3, <2>9, <2>10 DEF IInv, TypeOK
  <2> QED
    BY <2>7, <2>8, <2>9, <2>11, FramedStep
<1>7. CASE /\ open = {}
           /\ task' = [task EXCEPT ![t].finalizing = TRUE, ![t].pending = fin]
           /\ wk' = [wk EXCEPT ![w].pc = IF Parent[t] = NoTask THEN "hook" ELSE "fin2",
                               ![w].fin = fin]
  <2> DEFINE s == [task[t] EXCEPT !.finalizing = TRUE, !.pending = fin]
             p == IF Parent[t] = NoTask THEN "hook" ELSE "fin2"
             m == [wk[w] EXCEPT !.pc = p, !.fin = fin]
  <2>1. /\ s \in TaskRow /\ s.state = "running" /\ s.gens = 0 /\ s.owner = w
        /\ s.finalizing
    <3> DEFINE y == [task[t] EXCEPT !.finalizing = TRUE]
    <3>1. /\ y \in TaskRow /\ y.state = "running" /\ y.gens = 0 /\ y.owner = w
          /\ y.finalizing
      <4>1. task[t] \in TaskRow
        BY <1>2
      <4> QED
        BY <1>2, <4>1 DEF TaskRow
    <3>2. s = [y EXCEPT !.pending = fin]
      OBVIOUS
    <3> HIDE DEF y, s, fin
    <3> QED
      BY <1>4, <3>1, <3>2 DEF TaskRow
  <2>2. task' = [task EXCEPT ![t] = s] /\ wk' = [wk EXCEPT ![w] = m]
    BY <1>2, <1>7 DEF IInv, TypeOK
  <2> HIDE DEF s
  <2>3. \A u \in Tasks : task'[u] = IF u = t THEN s ELSE task[u]
    BY <2>2 DEF IInv, TypeOK
  <2>4. m \in WorkerRow /\ m.pc \in {"hook", "fin2"} /\ m.fin = fin /\ m.task = t
    <3>1. wk[w] \in WorkerRow /\ p \in PCs /\ p \in {"hook", "fin2"}
      BY DEF IInv, TypeOK, PCs
    <3> HIDE DEF p, fin
    <3> QED
      BY <1>4, <3>1 DEF WorkerRow
  <2> HIDE DEF m
  <2>5. /\ wk' \in [Workers -> WorkerRow] /\ wk'[w] = m
        /\ \A v \in Workers \ {w} : wk'[v] = wk[v]
    BY <2>2, <2>4, SetMemory DEF IInv
  <2>6. TypeOK'
    <3>1. task' \in [Tasks -> TaskRow]
      BY <2>1, <2>2 DEF IInv, TypeOK
    <3> QED
      BY <1>1, <1>3, <2>5, <3>1 DEF IInv, TypeOK
  <2>7. MemoryOK(w)'
    BY <1>2, <1>4, <2>1, <2>3, <2>4, <2>5 DEF MemoryOK
  <2>8. \A u \in Tasks : RowStep(w, task[u], task'[u])
    BY <1>2, <2>1, <2>3 DEF RowStep, GensBound, Alive
  <2>9. OneTreeRuns'
    BY <1>1, <1>2, <2>3 DEF IInv, OneTreeRuns, RootOf
  <2>10. \A u \in Tasks : Parent[u] = t => task[u].state \in {"none"} \cup TerminalStates
    BY <1>7 DEF OpenChildren, Children, Exists, Terminal
  <2>11. ChildrenSettled'
    BY <1>2, <2>3, <2>10, ParentAssumption DEF IInv, ChildrenSettled, TerminalStates
  <2> QED
    BY <2>5, <2>6, <2>7, <2>8, <2>9, <2>11, FramedStep
<1> QED
  BY <1>5, <1>6, <1>7 DEF FinishBegin

(* A root that ends leaves no task of its tree running.                     *)
LEMMA KeepsFinishEnd ==
  ASSUME IInv, NEW w \in Workers, FinishEnd(w)
  PROVE  IInv'
<1> DEFINE t == wk[w].task
           p == Parent[t]
           s == Release(task[t], wk[w].fin)
<1>1. wk[w].pc = "fin2" /\ Fenced(w) /\ GoIdle(w) /\ UNCHANGED <<ws, call, execs>>
  BY DEF FinishEnd
<1>2. /\ t \in Tasks /\ task[t].gens = 0 /\ task[t].owner = w /\ task[t].state = "running"
      /\ \A u \in Tasks : task[u] \in TaskRow /\ GensBound(task[u])
  BY <1>1, FencedTask, FencedGens, Parts DEF IInv, TypeOK
<1>3. task[t].finalizing /\ wk[w].fin \in TerminalStates
  BY <1>1 DEF IInv, FinalizerMarked, FinIsTerminal
<1>4. /\ s \in TaskRow /\ s.state \in TerminalStates /\ s.gens = 0
      /\ s.finalizing = task[t].finalizing
  BY <1>2, <1>3, ReleaseType DEF TaskStates
<1> HIDE DEF s
<1>5. RowStep(w, task[t], s) /\ Quiet(task[t], s)
  BY <1>2, <1>4 DEF RowStep, Quiet, GensBound, Alive, Closed, TerminalStates
<1>6. \A u \in Tasks : RowStep(w, task[u], task[u]) /\ Quiet(task[u], task[u])
  BY <1>2 DEF RowStep, Quiet, Alive
<1>7. /\ wk' \in [Workers -> WorkerRow] /\ MemoryOK(w)'
      /\ \A v \in Workers \ {w} : wk'[v] = wk[v]
  BY <1>1, IdleMemory DEF IInv
<1>8. CASE p = NoTask
  <2>1. /\ task' = [task EXCEPT ![t] = s]
        /\ session' = [session EXCEPT !.activeRoot = NoTask]
    BY <1>8 DEF FinishEnd, s
  <2>2. \A u \in Tasks : task'[u] = IF u = t THEN s ELSE task[u]
    BY <2>1 DEF IInv, TypeOK
  <2>3. \A u \in Tasks : RowStep(w, task[u], task'[u]) /\ Quiet(task[u], task'[u])
    BY <1>5, <1>6, <2>2
  <2>4. session.activeRoot = t
    BY <1>2, <1>8 DEF IInv, OneTreeRuns, RootOf
  <2>5. \A u \in Tasks : task'[u].state # "running"
    <3> SUFFICES ASSUME NEW u \in Tasks, task'[u].state = "running" PROVE FALSE
      OBVIOUS
    <3>1. u # t /\ task[u].state = "running"
      BY <1>4, <2>2 DEF TerminalStates
    <3>2. Parent[u] = t
      BY <2>4, <3>1 DEF IInv, OneTreeRuns, RootOf
    <3>3. task[u].state \in {"none"} \cup TerminalStates
      BY <1>2, <1>3, <3>2, ParentAssumption DEF IInv, ChildrenSettled
    <3> QED
      BY <3>1, <3>3 DEF TerminalStates
  <2>6. OneTreeRuns'
    BY <2>5 DEF OneTreeRuns
  <2>7. ChildrenSettled'
    BY <2>3, ParentAssumption DEF IInv, ChildrenSettled, Quiet, Closed
  <2>8. TypeOK'
    BY <1>1, <1>4, <1>7, <2>1 DEF IInv, TypeOK, Session
  <2> QED
    BY <1>7, <2>3, <2>6, <2>7, <2>8, FramedStep
<1>9. CASE p # NoTask
  <2> DEFINE x == [task[p] EXCEPT !.input = TRUE]
             y == Rearm(x)
  <2>1. p \in Tasks /\ p # t
    BY <1>2, <1>9, ParentAssumption
  <2>2. task' = [[task EXCEPT ![t] = s] EXCEPT ![p] = y] /\ UNCHANGED session
    BY <1>9, <2>1 DEF FinishEnd, s, IInv, TypeOK
  <2>3. /\ x \in TaskRow /\ RowStep(w, task[p], x) /\ Quiet(task[p], x)
        /\ x.state = task[p].state /\ x.gens = task[p].gens
        /\ x.finalizing = task[p].finalizing
    BY <1>2, <2>1, InputRow DEF TaskRow
  <2> HIDE DEF x
  <2>4. y \in TaskRow /\ RowStep(w, task[p], y) /\ Quiet(task[p], y)
    <3>1. CASE x.state = "waiting"
      <4> DEFINE z == [x EXCEPT !.state = "queued"]
      <4>1. y = z
        BY <2>3, <3>1 DEF Rearm, TaskRow
      <4>2. z \in TaskRow /\ z.state = "queued" /\ z.gens = x.gens /\ z.finalizing = x.finalizing
        BY <2>3 DEF TaskRow, TaskStates
      <4> HIDE DEF z, y
      <4>3. GensBound(task[p])
        BY <1>2, <2>1
      <4> QED
        BY <2>3, <3>1, <4>1, <4>2, <4>3 DEF RowStep, Quiet, GensBound, Alive, Closed, TerminalStates
    <3>2. CASE x.state # "waiting"
      <4>1. y = x
        BY <2>3, <3>2 DEF Rearm, TaskRow
      <4> QED
        BY <2>3, <4>1
    <3> QED
      BY <3>1, <3>2
  <2> HIDE DEF y
  <2>5. \A u \in Tasks : task'[u] = CASE u = t -> s [] u = p -> y [] OTHER -> task[u]
    BY <1>2, <2>1, <2>2 DEF IInv, TypeOK
  <2>6. \A u \in Tasks : RowStep(w, task[u], task'[u]) /\ Quiet(task[u], task'[u])
    BY <1>5, <1>6, <2>1, <2>4, <2>5
  <2>7. OneTreeRuns' /\ ChildrenSettled'
    BY <2>2, <2>6, QuietKeeps
  <2>8. TypeOK'
    <3>1. task' \in [Tasks -> TaskRow]
      BY <1>4, <2>2, <2>4 DEF IInv, TypeOK
    <3> QED
      BY <1>1, <1>7, <2>2, <3>1 DEF IInv, TypeOK
  <2> QED
    BY <1>7, <2>6, <2>7, <2>8, FramedStep
<1> QED
  BY <1>8, <1>9

-----------------------------------------------------------------------------
(* The invariant is inductive.                                              *)

LEMMA InitIInv == Init => IInv
<1> SUFFICES ASSUME Init PROVE IInv
  OBVIOUS
<1>1. NewTask \in TaskRow /\ NewTask.state = "none" /\ NewTask.gens = 0 /\ ~NewTask.finalizing
  BY DEF NewTask, TaskRow, TaskStates
<1>2. NewCall \in CallRow
  BY DEF NewCall, CallRow, CallStatuses
<1>3. Idle \in WorkerRow /\ Idle.pc = "idle" /\ Idle.task = NoTask
  BY DEF Idle, WorkerRow, PCs
<1>4. TypeOK
  BY <1>1, <1>2, <1>3 DEF Init, TypeOK, Session, Workspace
<1>5. \A w \in Workers : wk[w].pc = "idle" /\ ~Fenced(w)
  BY <1>3 DEF Init, Fenced
<1>6. FinIsTerminal /\ GenerationOwned /\ FinalizerMarked
  BY <1>5 DEF FinIsTerminal, GenerationOwned, FinalizerMarked
<1>7. \A t \in Tasks : task[t].state = "none" /\ task[t].gens = 0
  BY <1>1 DEF Init
<1>8. ChildrenSettled
  BY <1>1 DEF Init, ChildrenSettled
<1>9. OneTreeRuns /\ GenerationsSettled
  BY <1>7 DEF OneTreeRuns, GenerationsSettled
<1> QED
  BY <1>4, <1>6, <1>8, <1>9 DEF IInv

(* Every step of the engine, its clients and its faults keeps the           *)
(* invariant.                                                               *)
LEMMA StepIInv == IInv /\ [Next]_vars => IInv'
<1> SUFFICES ASSUME IInv, [Next]_vars PROVE IInv'
  OBVIOUS
<1>1. CASE \E w \in Workers : WorkerStep(w)
  <2>1. PICK w \in Workers : WorkerStep(w)
    BY <1>1
  <2> QED
    BY <2>1, KeepsStepBegin, KeepsDeliver, KeepsToolStart, KeepsExecute, KeepsRecord,
       KeepsAgentOperation, KeepsWaitChildren, KeepsPark, KeepsPrepareBegin,
       KeepsPrepareEnd, KeepsFail, KeepsStartGeneration, KeepsCompactEnd,
       KeepsModelFails, KeepsModelAnswers, KeepsFinishBegin, KeepsFinishHook,
       KeepsFinishEnd, KeepsCleanup, KeepsFenceLost
    DEF WorkerStep
<1>2. CASE ClaimStep
  BY <1>2, KeepsClaimSettles, KeepsClaimSkips, KeepsClaim DEF ClaimStep
<1>3. CASE TaskRequest
  BY <1>3, KeepsTreeRequest, KeepsReconcile, KeepsExpire DEF TaskRequest
<1>4. CASE CallRequest
  BY <1>4, KeepsResolve, KeepsDeadline DEF CallRequest
<1>5. CASE Archive
  BY <1>5, KeepsArchive
<1>6. CASE Fault
  BY <1>6, KeepsLapse, KeepsFenceLost, KeepsInterrupt DEF Fault
<1>7. CASE UNCHANGED vars
  <2>1. UNCHANGED <<task, wk>> /\ session' \in Session
        /\ session'.activeRoot = session.activeRoot
        /\ ws' \in Workspace /\ call' \in [Calls -> CallRow] /\ execs' = execs
    BY <1>7 DEF vars, IInv, TypeOK
  <2> QED
    BY <2>1, NoRowRequest
<1> QED
  BY <1>1, <1>2, <1>3, <1>4, <1>5, <1>6, <1>7 DEF Next

(* IInv holds in every state the engine can reach, whatever the tasks,      *)
(* calls and workers.                                                       *)
THEOREM Invariance == Spec => []IInv
BY InitIInv, StepIInv, PTL DEF Spec

(* Every row and every worker's memory keeps its type.                      *)
THEOREM TypeCorrect == Spec => []TypeOK
<1>1. IInv => TypeOK
  BY DEF IInv
<1> QED
  BY <1>1, Invariance, PTL

(* For any tree, any number of workers and any faults: the tasks that run   *)
(* all belong to the root that holds the session.                           *)
THEOREM OneTree == Spec => []OneTreeRuns
<1>1. IInv => OneTreeRuns
  BY DEF IInv
<1> QED
  BY <1>1, Invariance, PTL

(* No generation row outlives the claim that opened it.                     *)
THEOREM NoStrandedGeneration == Spec => []GenerationsSettled
<1>1. IInv => GenerationsSettled
  BY DEF IInv
<1> QED
  BY <1>1, Invariance, PTL
=============================================================================
