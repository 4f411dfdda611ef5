------------------------------- MODULE Sandbox -------------------------------
(***************************************************************************)
(* Session sandboxes (internal/adapters/sandbox): one container and one    *)
(* row per session. Capacity is admitted under a database-wide lock by     *)
(* counting the rows that are not stopped; ensure, exec and stop work on   *)
(* the row and on the container engine in steps, serialized per session by *)
(* a mutex of the process: another replica that has claimed a task of the  *)
(* session, or still works for one it has lost, is not held back.          *)
(*                                                                         *)
(* op[p][s] is what process p does for session s while it holds the mutex. *)
(* An action is one transaction or one call to the engine, with the row    *)
(* update that depends on it alone. Volumes and staged files are left out. *)
(***************************************************************************)
EXTENDS Naturals, FiniteSets, FiniteSetsExt

CONSTANTS
  Sessions,
  Processes,       (* replicas of the server                                *)
  Disposable,      (* sessions of the benchmark, the only caller of Destroy *)
  Bench,           (* the process that made them: no other knows their ids  *)
  ExecIds,         (* ExecIds[s]: request ids of the session's commands     *)
  NoExec,
  MaxRunning,      (* WAVE_SANDBOX_MAX_RUNNING                              *)
  MemoryOf,        (* MemoryOf[s]: the allocation a session's row retains    *)
  MemoryBudget     (* WAVE_SANDBOX_MEMORY_BUDGET_MIB                        *)

ASSUME SandboxAssumption ==
  /\ IsFiniteSet(Sessions) /\ \A s \in Sessions : NoExec \notin ExecIds[s]
  /\ Disposable \subseteq Sessions
  /\ MaxRunning \in Nat /\ MemoryBudget \in Nat
  /\ MemoryOf \in [Sessions -> Nat]

VARIABLES
  box,             (* sandbox_instances: state and whether the backend id is known *)
  container,       (* the engine's: "none", "created" (not running), "running" *)
  op,              (* op[p][s]: see above                                   *)
  command,         (* sandbox_processes, by session and request id          *)
  executed,        (* history: how often the engine started a command, since *)
                   (* its row was last deleted                              *)
  shared           (* history: sessions two processes worked on at one time *)

boxHistory == <<executed, shared>>
boxVars == <<box, container, op, command, boxHistory>>

BoxStates == {"absent", "stopped", "reserved", "creating", "starting", "running"}
(* pc names the next step; ran and known are whether the row that was       *)
(* loaded said "running" and whether it held the container's id, and exec   *)
(* the command to run once the container is up.                             *)
NoOp == [pc |-> "idle", ran |-> FALSE, known |-> FALSE, exec |-> NoExec, then |-> "end"]

Held == {s \in Sessions : box[s].state \notin {"absent", "stopped"}}
Up == {s \in Sessions : container[s] = "running"}
MemorySum(S) == MapThenSumSet(LAMBDA s : MemoryOf[s], S)

BoxInit ==
  /\ box = [s \in Sessions |-> [state |-> "absent", backend |-> FALSE]]
  /\ container = [s \in Sessions |-> "none"]
  /\ op = [p \in Processes |-> [s \in Sessions |-> NoOp]]
  /\ command = [s \in Sessions |-> [q \in ExecIds[s] |-> "none"]]
  /\ executed = [s \in Sessions |-> [q \in ExecIds[s] |-> 0]]
  /\ shared = {}

At(p, s, pc) == op[p][s].pc = pc
Go(p, s, pc) == op' = [op EXCEPT ![p][s].pc = pc]
End(p, s) == op' = [op EXCEPT ![p][s] = NoOp]
Becomes(s, state) == box' = [box EXCEPT ![s].state = state]

(* Any replica may work on a session of the server. Begin takes the mutex.  *)
Works(p, s) == s \in Disposable => p = Bench
Begin(p, s, first) ==
  /\ Works(p, s) /\ At(p, s, "idle")
  /\ op' = [op EXCEPT ![p][s] = first]
  /\ shared' = IF \A q \in Processes : At(q, s, "idle") THEN shared ELSE shared \cup {s}

-----------------------------------------------------------------------------
(* reserve: nothing to decide for a live row; else admission under the      *)
(* advisory lock, which one transaction holds until it commits.             *)

Fits(s) ==
  /\ MemoryOf[s] <= MemoryBudget
  /\ Cardinality(Held) < MaxRunning
  /\ MemorySum(Held) + MemoryOf[s] <= MemoryBudget

Reserve(s) ==
  \/ s \in Held /\ UNCHANGED box
  \/ s \notin Held /\ Fits(s) /\ Becomes(s, "reserved")

Refused(s) == s \notin Held /\ ~Fits(s)

(* admitSandbox, in the transaction that claims a task of the session.      *)
AdmitClaim(s) ==
  /\ s \notin Held /\ Reserve(s)
  /\ UNCHANGED <<container, op, command, boxHistory>>

-----------------------------------------------------------------------------
(* ensure: Ensure and every file operation begin with it, and Exec once its *)
(* intent is stored.                                                        *)

BeginEnsure(p, s) ==
  /\ Begin(p, s, [NoOp EXCEPT !.pc = "reserve"])
  /\ UNCHANGED <<box, container, command, executed>>

EnsureReserves(p, s) ==
  /\ At(p, s, "reserve")
  /\ \/ Reserve(s) /\ Go(p, s, "load")
     \/ Refused(s) /\ End(p, s) /\ UNCHANGED box
  /\ UNCHANGED <<container, command, boxHistory>>

EnsureLoads(p, s) ==
  /\ At(p, s, "load") /\ box[s].state # "absent"
  /\ op' = [op EXCEPT ![p][s].pc = "inspect", ![p][s].ran = box[s].state = "running",
                      ![p][s].known = box[s].backend]
  /\ UNCHANGED <<box, container, command, boxHistory>>

EnsureInspects(p, s) ==
  /\ At(p, s, "inspect")
  /\ CASE container[s] = "running" -> Go(p, s, "mark") /\ box' = [box EXCEPT ![s].backend = TRUE]
       [] container[s] = "created" -> Go(p, s, "adopt") /\ UNCHANGED box
       [] container[s] = "none" /\ op[p][s].known -> End(p, s) /\ UNCHANGED box
       [] OTHER -> Go(p, s, "create") /\ Becomes(s, "creating")
  /\ UNCHANGED <<container, command, boxHistory>>

(* A name conflict adopts the container another attempt created, or started. *)
EnsureCreates(p, s) ==
  /\ At(p, s, "create")
  /\ \/ /\ container[s] # "running" /\ container' = [container EXCEPT ![s] = "created"]
        /\ Go(p, s, "adopt") /\ UNCHANGED box
     \/ /\ container[s] = "running" /\ box' = [box EXCEPT ![s].backend = TRUE]
        /\ Go(p, s, "mark") /\ UNCHANGED container
     \/ End(p, s) /\ UNCHANGED <<box, container>>
  /\ UNCHANGED <<command, boxHistory>>

EnsureAdopts(p, s) ==
  /\ At(p, s, "adopt")
  /\ IF container[s] = "none" THEN End(p, s) /\ UNCHANGED box
     ELSE /\ box' = [box EXCEPT ![s] = [state |-> "starting", backend |-> TRUE]]
          /\ Go(p, s, "start")
  /\ UNCHANGED <<container, command, boxHistory>>

EnsureStarts(p, s) ==
  /\ At(p, s, "start")
  /\ \/ /\ container[s] # "none" /\ Go(p, s, "mark")
        /\ container' = [container EXCEPT ![s] = "running"]
     \/ End(p, s) /\ UNCHANGED container
  /\ UNCHANGED <<box, command, boxHistory>>

(* The state is written unless the row that was loaded had it already. Only *)
(* the command is still needed afterwards.                                  *)
EnsureMarks(p, s) ==
  /\ At(p, s, "mark")
  /\ IF op[p][s].ran THEN UNCHANGED box ELSE Becomes(s, "running")
  /\ IF op[p][s].exec = NoExec THEN End(p, s)
     ELSE op' = [op EXCEPT ![p][s] = [NoOp EXCEPT !.pc = "exec", !.exec = op[p][s].exec]]
  /\ UNCHANGED <<container, command, boxHistory>>

-----------------------------------------------------------------------------
(* Exec. A request id that is there already is answered, never run again.   *)

(* Mutant: an intent without a result is run again.                         *)
BeginExecAgain(p, s, q) ==
  /\ command[s][q] # "completed" /\ Begin(p, s, [NoOp EXCEPT !.pc = "reserve", !.exec = q])
  /\ command' = [command EXCEPT ![s][q] = "starting"]
  /\ UNCHANGED <<box, container, executed>>
BeginExec(p, s, q) ==
  /\ command[s][q] = "none" /\ Begin(p, s, [NoOp EXCEPT !.pc = "reserve", !.exec = q])
  /\ command' = [command EXCEPT ![s][q] = "starting"]
  /\ UNCHANGED <<box, container, executed>>

(* The command ends, runs out of time (the sandbox is killed, the result    *)
(* kept), or its outcome is lost (the sandbox is killed).                   *)
ExecRuns(p, s) ==
  /\ At(p, s, "exec")
  /\ \/ /\ container[s] = "running"
        /\ executed' = [executed EXCEPT ![s][op[p][s].exec] = @ + 1]
        /\ \/ Go(p, s, "complete")
           \/ \E then \in {"complete", "end"} :
                op' = [op EXCEPT ![p][s].pc = "kill", ![p][s].then = then]
     \/ End(p, s) /\ UNCHANGED executed
  /\ UNCHANGED <<box, container, command, shared>>

ExecCompletes(p, s) ==
  /\ At(p, s, "complete")
  /\ command' = [command EXCEPT ![s][op[p][s].exec] = "completed"]
  /\ End(p, s)
  /\ UNCHANGED <<box, container, boxHistory>>

Kill(p, s) ==
  /\ At(p, s, "kill")
  /\ \/ /\ container[s] # "none" /\ Go(p, s, "confirm")
        /\ container' = [container EXCEPT ![s] = "created"]
     \/ End(p, s) /\ UNCHANGED container
  /\ UNCHANGED <<box, command, boxHistory>>

(* Only a container seen not running releases the reservation; one that is  *)
(* gone answers the inspection with an error after a kill.                  *)
Confirm(p, s) ==
  /\ At(p, s, "confirm")
  /\ IF container[s] = "created" THEN Becomes(s, "stopped") ELSE UNCHANGED box
  /\ IF container[s] = "created" /\ op[p][s].then = "complete"
       THEN Go(p, s, "complete") ELSE End(p, s)
  /\ UNCHANGED <<container, command, boxHistory>>

-----------------------------------------------------------------------------
(* Stop.                                                                    *)

BeginStop(p, s) ==
  /\ s \in Held
  /\ Begin(p, s, [NoOp EXCEPT
       !.pc = IF box[s].state = "reserved" /\ ~box[s].backend THEN "release" ELSE "stop"])
  /\ UNCHANGED <<box, container, command, executed>>

(* Nothing was created when the row was loaded.                             *)
StopReleases(p, s) ==
  /\ At(p, s, "release") /\ Becomes(s, "stopped") /\ End(p, s)
  /\ UNCHANGED <<container, command, boxHistory>>

(* Mutant: the reservation is released without confirming the stop.         *)
StopUnconfirmed(p, s) ==
  /\ At(p, s, "stop") /\ Becomes(s, "stopped") /\ End(p, s)
  /\ \/ container[s] = "running" /\ container' = [container EXCEPT ![s] = "created"]
     \/ UNCHANGED container
  /\ UNCHANGED <<command, boxHistory>>
StopInspects(p, s) ==
  /\ At(p, s, "stop")
  /\ CASE container[s] = "none" -> Becomes(s, "stopped") /\ End(p, s) /\ UNCHANGED container
       [] container[s] = "created" -> Go(p, s, "confirm") /\ UNCHANGED <<box, container>>
       [] OTHER -> /\ UNCHANGED box
                   /\ \/ Go(p, s, "confirm") /\ container' = [container EXCEPT ![s] = "created"]
                      \/ End(p, s) /\ UNCHANGED container
  /\ UNCHANGED <<command, boxHistory>>

-----------------------------------------------------------------------------
(* Destroy: the container, then the commands' rows, then the session's.     *)

BeginDestroy(p, s) ==
  /\ s \in Disposable /\ box[s].state # "absent"
  /\ Begin(p, s, [NoOp EXCEPT !.pc = "forget"])
  /\ container' = [container EXCEPT ![s] = "none"]
  /\ UNCHANGED <<box, command, executed>>

DestroyForgets(p, s) ==
  /\ At(p, s, "forget") /\ Go(p, s, "drop")
  /\ command' = [command EXCEPT ![s] = [q \in ExecIds[s] |-> "none"]]
  /\ executed' = [executed EXCEPT ![s] = [q \in ExecIds[s] |-> 0]]
  /\ UNCHANGED <<box, container, shared>>

DestroyDrops(p, s) ==
  /\ At(p, s, "drop") /\ End(p, s)
  /\ box' = [box EXCEPT ![s] = [state |-> "absent", backend |-> FALSE]]
  /\ UNCHANGED <<container, command, boxHistory>>

-----------------------------------------------------------------------------
(* pruneAuxTables, a day later: the request id's replay window is over.     *)
PruneCommand(s, q) ==
  /\ command[s][q] # "none" /\ \A p \in Processes : op[p][s].exec # q
  /\ command' = [command EXCEPT ![s][q] = "none"]
  /\ executed' = [executed EXCEPT ![s][q] = 0]
  /\ UNCHANGED <<box, container, op, shared>>

(* Containers exit on their own or are removed by an operator; a process    *)
(* dies with its mutexes.                                                   *)

ContainerExits(s) ==
  /\ container[s] = "running" /\ container' = [container EXCEPT ![s] = "created"]
  /\ UNCHANGED <<box, op, command, boxHistory>>

ContainerRemoved(s) ==
  /\ container[s] = "created" /\ container' = [container EXCEPT ![s] = "none"]
  /\ UNCHANGED <<box, op, command, boxHistory>>

ProcessDies(p) ==
  /\ \E s \in Sessions : ~At(p, s, "idle")
  /\ op' = [op EXCEPT ![p] = [s \in Sessions |-> NoOp]]
  /\ UNCHANGED <<box, container, command, boxHistory>>

Step(p, s) ==
  \/ BeginEnsure(p, s) \/ EnsureReserves(p, s) \/ EnsureLoads(p, s)
  \/ EnsureInspects(p, s) \/ EnsureCreates(p, s) \/ EnsureAdopts(p, s)
  \/ EnsureStarts(p, s) \/ EnsureMarks(p, s)
  \/ \E q \in ExecIds[s] : BeginExec(p, s, q)
  \/ ExecRuns(p, s) \/ ExecCompletes(p, s) \/ Kill(p, s) \/ Confirm(p, s)
  \/ BeginStop(p, s) \/ StopReleases(p, s) \/ StopInspects(p, s)
  \/ BeginDestroy(p, s) \/ DestroyForgets(p, s) \/ DestroyDrops(p, s)

BoxNext ==
  \/ \E p \in Processes, s \in Sessions : Step(p, s)
  \/ \E s \in Sessions : \/ AdmitClaim(s) \/ ContainerExits(s) \/ ContainerRemoved(s)
                         \/ \E q \in ExecIds[s] : PruneCommand(s, q)
  \/ \E p \in Processes : ProcessDies(p)

BoxSpec == BoxInit /\ [][BoxNext]_boxVars

-----------------------------------------------------------------------------

(* Each session's row, container, commands, and the operation of each       *)
(* process on it.                                                           *)
BoxTypeOK ==
  /\ box \in [Sessions -> [state : BoxStates, backend : BOOLEAN]]
  /\ container \in [Sessions -> {"none", "created", "running"}]
  /\ op \in [Processes -> [Sessions ->
       [pc : {"idle", "reserve", "load", "inspect", "create", "adopt", "start", "mark",
              "exec", "complete", "kill", "confirm", "release", "stop", "forget", "drop"},
        ran : BOOLEAN, known : BOOLEAN, exec : UNION {ExecIds[t] : t \in Sessions} \cup {NoExec},
        then : {"complete", "end"}]]]
  /\ \A s \in Sessions :
       /\ command[s] \in [ExecIds[s] -> {"none", "starting", "completed"}]
       /\ executed[s] \in [ExecIds[s] -> Nat]
  /\ shared \subseteq Sessions

(* No more containers run, and no more memory is given to them, than the    *)
(* limits allow, over every session and every replica: "both capacity       *)
(* limits apply across replicas that share a database" (docs/deployment.md  *)
(* 105). reserve counts rows, not containers, and a process that stops a    *)
(* session's container releases the row another one is about to start.      *)
CountWithinLimit(S) == Cardinality(S) <= MaxRunning
MemoryWithinBudget(S) == MemorySum(S) <= MemoryBudget
WithinCapacity == CountWithinLimit(Up) /\ MemoryWithinBudget(Up)

(* The containers of the sessions that never had two processes at work at   *)
(* one time stay within the limits, whatever claims, crashes, kills, stops  *)
(* and containers that exit interleave, and whatever replicas do to the     *)
(* other sessions (reserve, Stop and killAndConfirm under the mutex).       *)
UnsharedWithinCapacity ==
  CountWithinLimit(Up \ shared) /\ MemoryWithinBudget(Up \ shared)

(* A command with a request id is started at most once by the engine,       *)
(* whichever replicas are asked for it and wherever one dies (Exec stores   *)
(* its intent first, under the primary key, and never replays it).          *)
ExecOnce == \A s \in Sessions : \A q \in ExecIds[s] : executed[s][q] <= 1
=============================================================================
