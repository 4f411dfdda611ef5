---------------------------- MODULE Deployments -----------------------------
(***************************************************************************)
(* Deployments (internal/modules/deployments): every process runs a        *)
(* scheduler that scans for due deployments and fires each one in a        *)
(* transaction of its own, and clients fire them by hand under an          *)
(* idempotency key. Firing records a run, may launch a task, and announces  *)
(* the run to the webhooks: Receipts and Webhooks are the other parts of   *)
(* its transaction.                                                        *)
(*                                                                         *)
(* Runs are numbered, and so are the tasks they launch and the events they *)
(* make; the subscriptions here are to the events of runs alone. Schedules *)
(* are sets of times on one clock; the policies of a deployment are        *)
(* parameters.                                                             *)
(***************************************************************************)
EXTENDS Receipts, Webhooks, Sequences

CONSTANTS
  Deployed,      (* deployments that may be created                         *)
  Occurrences,   (* Occurrences[d]: the times d's cron names; {} without one *)
  Horizon,       (* bound: the last moment                                  *)
  LateAfter,     (* how late an occurrence may start (30 s in the code)      *)
  RunOnce,       (* deployments with misfire_policy run_once                *)
  Overlapping,   (* deployments with overlap_policy allow                   *)
  Schedulers,    (* processes that run RunScheduler                         *)
  MaxRuns,       (* bound: runs recorded                                    *)
  MaxEdits,      (* bound: pause, resume and update requests                *)
  MaxFaults      (* bound: launches, transactions and schedulers that fail  *)

ASSUME DeploymentsAssumption ==
  /\ Horizon \in Nat /\ LateAfter \in Nat
  /\ Occurrences \in [Deployed -> SUBSET (1..Horizon)]
  /\ Bodies = Deployed /\ MaxRuns \in Nat /\ Announcements = 1..MaxRuns
  /\ MaxEdits \in Nat /\ MaxFaults \in Nat

VARIABLES
  clock,
  deployment,    (* the rows: paused, next occurrence, version; 0: not there *)
  runs,          (* deployment_runs                                         *)
  lastTask,      (* the run whose task d.LastTask names, 0 for none          *)
  unfinished,    (* runs whose task has not ended                           *)
  due,           (* due[s]: what scheduler s's query returned, not yet fired *)
  depBudget      (* what is left of the bounds                              *)

depVars == <<clock, deployment, runs, lastTask, unfinished, due, depBudget>>
vars == <<depVars, hookVars, recVars>>

Never == 0
Moments == 0..(Horizon + 1)
(* Mutant: the occurrence at t itself comes next.                           *)
UpcomingFrom(d, t) ==
  IF Occurrences[d] = {} THEN Never
  ELSE CHOOSE o \in Occurrences[d] \cup {Horizon + 1} :
         o >= t /\ \A p \in Occurrences[d] : p >= t => o <= p
(* The first occurrence after t; past the horizon there is always another.  *)
Upcoming(d, t) ==
  IF Occurrences[d] = {} THEN Never
  ELSE CHOOSE o \in Occurrences[d] \cup {Horizon + 1} :
         o > t /\ \A p \in Occurrences[d] : p > t => o <= p

Exists(d) == deployment[d].version > 0
IsDue(d) == ~deployment[d].paused /\ deployment[d].next # Never /\ deployment[d].next <= clock

DepInit ==
  /\ clock = 0 /\ runs = <<>> /\ unfinished = {}
  /\ deployment = [d \in Deployed |-> [paused |-> FALSE, next |-> Never, version |-> 0]]
  /\ lastTask = [d \in Deployed |-> 0]
  /\ due = [s \in Schedulers |-> {}]
  /\ depBudget = [edits |-> MaxEdits, faults |-> MaxFaults]

Charge(kind) ==
  /\ depBudget[kind] > 0
  /\ depBudget' = [depBudget EXCEPT ![kind] = @ - 1]

-----------------------------------------------------------------------------
(* Fire, up to its commit. A fault is what the launch may meet: the stored  *)
(* schedule no longer parses, a referenced resource is gone or archived     *)
(* (a domain error below 500), or the server fails.                         *)

Missed(d) == clock - deployment[d].next > LateAfter

(* Mutant: only scheduled runs are held back by an unfinished task.         *)
RunStatusOverlapping(d, scheduled, fault) ==
  CASE scheduled /\ fault = "schedule" -> "failed"
    [] scheduled /\ Missed(d) /\ d \notin RunOnce -> "skipped"
    [] /\ scheduled /\ d \notin Overlapping /\ lastTask[d] \in unfinished
       /\ fault # "server" -> "skipped"
    [] fault # "none" -> "failed"
    [] OTHER -> "launched"
RunStatus(d, scheduled, fault) ==
  CASE scheduled /\ fault = "schedule" -> "failed"
    [] scheduled /\ Missed(d) /\ d \notin RunOnce -> "skipped"
    [] /\ d \notin Overlapping /\ lastTask[d] \in unfinished
       /\ fault # "server" -> "skipped"
    [] fault # "none" -> "failed"
    [] OTHER -> "launched"

Fire(d, scheduled, fault) ==
  LET id == Len(runs) + 1
      status == RunStatus(d, scheduled, fault) IN
  /\ Exists(d) /\ id <= MaxRuns
  /\ fault = "schedule" => scheduled
  /\ fault # "none" => status = "failed"
  /\ IF fault = "none" THEN UNCHANGED depBudget ELSE Charge("faults")
  /\ runs' = Append(runs, [of |-> d, scheduled |-> scheduled, status |-> status,
                           at |-> IF scheduled THEN deployment[d].next ELSE Never])
  /\ deployment' = [deployment EXCEPT
       ![d].next = IF ~scheduled THEN @
                   ELSE IF fault = "schedule" THEN Never ELSE Upcoming(d, clock),
       ![d].paused = @ \/ (status = "failed" /\ fault # "server")]
  /\ lastTask' = IF status = "launched" THEN [lastTask EXCEPT ![d] = id] ELSE lastTask
  /\ unfinished' = IF status = "launched" THEN unfinished \cup {id} ELSE unfinished
  /\ UNCHANGED clock
  /\ Enqueue(id)

Faults == {"none", "schedule", "resource", "server"}

-----------------------------------------------------------------------------
(* RunScheduler: the query, then one transaction per row it returned.       *)

Scan(s) ==
  /\ due[s] = {} /\ \E d \in Deployed : IsDue(d)
  /\ due' = [due EXCEPT ![s] = {d \in Deployed : IsDue(d)}]
  /\ UNCHANGED <<clock, deployment, runs, lastTask, unfinished, depBudget, hookVars, recVars>>

(* Mutant: the row is not read again under its lock.                        *)
FireScanned(s, d) ==
  /\ d \in due[s] /\ due' = [due EXCEPT ![s] = @ \ {d}]
  /\ \E fault \in Faults : Fire(d, TRUE, fault)
  /\ UNCHANGED recVars
FireScheduled(s, d) ==
  /\ d \in due[s] /\ due' = [due EXCEPT ![s] = @ \ {d}]
  /\ IF IsDue(d) THEN \E fault \in Faults : Fire(d, TRUE, fault)
     ELSE UNCHANGED <<clock, deployment, runs, lastTask, unfinished, depBudget, hookVars>>
  /\ UNCHANGED recVars

(* The transaction fails, or the process stops between two of them.         *)
SchedulerFails(s) ==
  /\ due[s] # {} /\ Charge("faults")
  /\ \E rest \in {due[s] \ {d} : d \in due[s]} \cup {{}} : due' = [due EXCEPT ![s] = rest]
  /\ UNCHANGED <<clock, deployment, runs, lastTask, unfinished, hookVars, recVars>>

-----------------------------------------------------------------------------
(* Requests.                                                                *)

FireManually(r) ==
  /\ AdmitRuns(r, Len(runs) + 1) \/ RunsBare(r, Len(runs) + 1)
  /\ \E fault \in Faults : Fire(BodyOf[r[1]], FALSE, fault)
  /\ UNCHANGED due

Create(d) ==
  /\ ~Exists(d)
  /\ deployment' = [deployment EXCEPT ![d].next = Upcoming(d, clock), ![d].version = 1]
  /\ UNCHANGED <<clock, runs, lastTask, unfinished, due, depBudget, hookVars, recVars>>

Pause(d) ==
  /\ Exists(d) /\ ~deployment[d].paused /\ Charge("edits")
  /\ deployment' = [deployment EXCEPT ![d].paused = TRUE]
  /\ UNCHANGED <<clock, runs, lastTask, unfinished, due, hookVars, recVars>>

Resume(d) ==
  /\ Exists(d) /\ deployment[d].paused /\ Charge("edits")
  /\ deployment' = [deployment EXCEPT ![d].paused = FALSE, ![d].next = Upcoming(d, clock)]
  /\ UNCHANGED <<clock, runs, lastTask, unfinished, due, hookVars, recVars>>

(* A request with the current version; with another it changes nothing.     *)
Update(d) ==
  /\ Exists(d) /\ Charge("edits")
  /\ deployment' = [deployment EXCEPT ![d].next = Upcoming(d, clock), ![d].version = @ + 1]
  /\ UNCHANGED <<clock, runs, lastTask, unfinished, due, hookVars, recVars>>

-----------------------------------------------------------------------------
(* The world: time, and the tasks module Execution runs.                    *)

Tick ==
  /\ clock < Horizon /\ clock' = clock + 1
  /\ UNCHANGED <<deployment, runs, lastTask, unfinished, due, depBudget, hookVars, recVars>>

TaskEnds(id) ==
  /\ id \in unfinished /\ unfinished' = unfinished \ {id}
  /\ UNCHANGED <<clock, deployment, runs, lastTask, due, depBudget, hookVars, recVars>>

Init == DepInit /\ HooksInit /\ RecInit

Next ==
  \/ \E s \in Schedulers : \/ Scan(s) \/ SchedulerFails(s)
                           \/ \E d \in Deployed : FireScheduled(s, d)
  \/ \E r \in Requests : FireManually(r)
  \/ \E d \in Deployed : Create(d) \/ Pause(d) \/ Resume(d) \/ Update(d)
  \/ Tick
  \/ \E id \in Announcements : TaskEnds(id)
  \/ HooksNext /\ UNCHANGED <<depVars, recVars>>
  \/ RecNext /\ UNCHANGED <<depVars, hookVars>>

(* The loop of a process that stays up runs on. Nothing obliges clients,    *)
(* tasks or faults.                                                         *)
Fairness ==
  \A s \in Schedulers :
    WF_vars(Scan(s)) /\ WF_vars(\E d \in Deployed : FireScheduled(s, d))

Spec == Init /\ [][Next]_vars /\ Fairness

-----------------------------------------------------------------------------

TypeOK ==
  /\ clock \in 0..Horizon
  /\ deployment \in [Deployed -> [paused : BOOLEAN, next : Moments, version : Nat]]
  /\ runs \in Seq([of : Deployed, scheduled : BOOLEAN, at : Moments,
                   status : {"launched", "skipped", "failed"}])
  /\ lastTask \in [Deployed -> 0..MaxRuns] /\ unfinished \subseteq 1..MaxRuns
  /\ due \in [Schedulers -> SUBSET Deployed]
  /\ depBudget \in [{"edits", "faults"} -> Nat]
  /\ HooksTypeOK /\ RecTypeOK

(* Several schedulers scan the same rows, die in between and meet edits     *)
(* (RunScheduler, Fire): an occurrence is recorded once, in order.          *)
OccurrenceOnce ==
  \A i, j \in 1..Len(runs) :
    /\ i < j /\ runs[i].scheduled /\ runs[j].scheduled /\ runs[i].of = runs[j].of
    => runs[i].at < runs[j].at

(* Unless it allows overlap, a deployment has one unfinished task, however  *)
(* scheduled and manual runs interleave (Fire's check of LastTask).         *)
NoOverlap ==
  \A d \in Deployed \ Overlapping :
    \A i, j \in unfinished : runs[i].of = d /\ runs[j].of = d => i = j

(* A deployment that is due is handled: fired, skipped, edited or paused.   *)
DueIsHandled == \A d \in Deployed : IsDue(d) ~> ~IsDue(d)
=============================================================================
