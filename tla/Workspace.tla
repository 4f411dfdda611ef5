------------------------------ MODULE Workspace ------------------------------
(***************************************************************************)
(* Preparing a session's workspace (app.prepare): the row that marks it,   *)
(* packages installed by sandbox commands under a request id of the root   *)
(* and the package manager, inputs and skills staged one by one. Execution *)
(* has only the row; here are the steps between its two writes, the worker *)
(* that dies or loses its claim among them, and the operator's reconcile.  *)
(*                                                                         *)
(* A session's environment, files and container never change: the package  *)
(* fingerprint is one bit. Children, which wait for the root, are left out *)
(* and the managers and inputs are worked off in any order.                *)
(***************************************************************************)
EXTENDS Naturals, FiniteSets, FiniteSetsExt

CONSTANTS
  Roots, Preparers,      (* root tasks of one session, and the workers      *)
  Managers, Inputs,      (* package managers used; files and skills staged  *)
  NoRoot, NoPreparer, NoManager,
  MaxClaimsOfRoots       (* bound on their claims together                  *)

ASSUME WorkspaceAssumption ==
  /\ IsFiniteSet(Roots) /\ IsFiniteSet(Managers) /\ IsFiniteSet(Inputs)
  /\ NoRoot \notin Roots /\ NoPreparer \notin Preparers /\ NoManager \notin Managers
  /\ MaxClaimsOfRoots \in Nat

VARIABLES
  space,           (* workspaces row: root, state, and whether the          *)
                   (* fingerprint of the packages is recorded                *)
  rootTask,        (* rootTask[r]: state, claimer and number of claims       *)
  prep,            (* prep[w]: what worker w is at                           *)
  install,         (* install[r][m]: row of the command of that request id   *)
  contents         (* what the container and its volumes hold                *)

workspaceVars == <<space, rootTask, prep, install, contents>>

NoPrep == [pc |-> "idle", root |-> NoRoot, print |-> FALSE, todo |-> {}, manager |-> NoManager]

WorkspaceInit ==
  /\ space = [root |-> NoRoot, state |-> "", print |-> FALSE]
  /\ rootTask = [r \in Roots |-> [state |-> "queued", by |-> NoPreparer, claims |-> 0]]
  /\ prep = [w \in Preparers |-> NoPrep]
  /\ install = [r \in Roots |-> [m \in Managers |-> "none"]]
  /\ contents = [packages |-> {}, staged |-> {}]

(* The root whose tree holds the session keeps the others out.              *)
Started(r) == rootTask[r].claims > 0 /\ rootTask[r].state # "done"
Root(w) == prep[w].root
Claims(w) == Root(w) # NoRoot /\ rootTask[Root(w)].by = w
Leaves(w, state) == [rootTask EXCEPT ![Root(w)].state = state, ![Root(w)].by = NoPreparer]
Does(w, pc) == prep[w].pc = pc
To(w, pc) == prep' = [prep EXCEPT ![w].pc = pc]

-----------------------------------------------------------------------------
(* Claims, and their loss: a worker whose lease lapsed goes on until its     *)
(* renewal notices, which cancels prepare (an error of any step), or to its  *)
(* next write under the fence; prepare has none.                             *)

ClaimRoot(w, r) ==
  /\ Does(w, "idle") /\ rootTask[r].state = "queued"
  /\ MapThenSumSet(LAMBDA q : rootTask[q].claims, Roots) < MaxClaimsOfRoots
  /\ \A q \in Roots \ {r} : ~Started(q)
  /\ rootTask' = [rootTask EXCEPT ![r] = [state |-> "running", by |-> w, claims |-> @.claims + 1]]
  /\ prep' = [prep EXCEPT ![w] = [NoPrep EXCEPT !.pc = "begin", !.root = r]]
  /\ UNCHANGED <<space, install, contents>>

ClaimLapses(r) ==
  /\ rootTask[r].state = "running"
  /\ rootTask' = [rootTask EXCEPT ![r].state = "queued", ![r].by = NoPreparer]
  /\ UNCHANGED <<space, prep, install, contents>>

PreparerDies(w) ==
  /\ ~Does(w, "idle") /\ prep' = [prep EXCEPT ![w] = NoPrep]
  /\ UNCHANGED <<space, rootTask, install, contents>>

-----------------------------------------------------------------------------
(* prepare.                                                                 *)

BeginPrepare(w) ==
  LET mine == space.root = Root(w) IN
  /\ Does(w, "begin")
  /\ \/ mine /\ space.state = "ready" /\ To(w, "work") /\ UNCHANGED space
     \/ mine /\ space.state = "preparing" /\ To(w, "error") /\ UNCHANGED space
     \/ /\ ~mine \/ space.state = ""
        /\ space' = [space EXCEPT !.root = Root(w), !.state = "preparing"]
        /\ prep' = [prep EXCEPT ![w].pc = "ensure", ![w].print = space.print]
  /\ UNCHANGED <<rootTask, install, contents>>

EnsureSandbox(w) ==
  /\ Does(w, "ensure")
  /\ \/ prep' = [prep EXCEPT ![w].pc = IF prep[w].print THEN "stage" ELSE "install",
                             ![w].todo = IF prep[w].print THEN Inputs ELSE Managers]
     \/ To(w, "error")
  /\ UNCHANGED <<space, rootTask, install, contents>>

(* Exec under a request id that has a row: a completed command is answered, *)
(* an intent without a result is refused; neither runs again.               *)
(* Mutant: an intent is taken for the result.                               *)
KnownInstalled(r, m) == install[r][m] \in {"succeeded", "starting"}
Installed(r, m) == install[r][m] = "succeeded"

InstallPackages(w, m) ==
  /\ Does(w, "install") /\ m \in prep[w].todo
  /\ \/ /\ install[Root(w)][m] = "none"
        /\ install' = [install EXCEPT ![Root(w)][m] = "starting"]
        /\ prep' = [prep EXCEPT ![w].pc = "run", ![w].manager = m]
     \/ /\ Installed(Root(w), m) /\ UNCHANGED install
        /\ prep' = [prep EXCEPT ![w].todo = @ \ {m}]
     \/ /\ install[Root(w)][m] # "none" /\ ~Installed(Root(w), m)
        /\ To(w, "error") /\ UNCHANGED install
  /\ UNCHANGED <<space, rootTask, contents>>

(* The command succeeds, fails, or its outcome is lost.                     *)
InstallEnds(w) ==
  LET m == prep[w].manager
      done == contents' = [contents EXCEPT !.packages = @ \cup {m}]
      Recorded(result) == install' = [install EXCEPT ![Root(w)][m] = result]
  IN
  /\ Does(w, "run")
  /\ \/ /\ done /\ Recorded("succeeded")
        /\ prep' = [prep EXCEPT ![w].pc = "install", ![w].todo = @ \ {m}]
     \/ To(w, "error") /\ Recorded("failed") /\ UNCHANGED contents
     \/ To(w, "error") /\ UNCHANGED install /\ (done \/ UNCHANGED contents)
  /\ UNCHANGED <<space, rootTask>>

RecordPackages(w) ==
  /\ Does(w, "install") /\ prep[w].todo = {}
  /\ space' = [space EXCEPT !.print = TRUE]
  /\ prep' = [prep EXCEPT ![w].pc = "stage", ![w].print = TRUE, ![w].todo = Inputs]
  /\ UNCHANGED <<rootTask, install, contents>>

StageInput(w, i) ==
  /\ Does(w, "stage") /\ i \in prep[w].todo
  /\ \/ /\ contents' = [contents EXCEPT !.staged = @ \cup {<<Root(w), i>>}]
        /\ prep' = [prep EXCEPT ![w].todo = @ \ {i}]
     \/ To(w, "error") /\ UNCHANGED contents
  /\ UNCHANGED <<space, rootTask, install>>

(* The row loaded at the beginning is saved whole, claim or no claim.       *)
SaveReady(w) ==
  /\ Does(w, "stage") /\ prep[w].todo = {}
  /\ space' = [root |-> Root(w), state |-> "ready", print |-> prep[w].print]
  /\ To(w, "work")
  /\ UNCHANGED <<rootTask, install, contents>>

(* An error of prepare leaves the task unknown, under the fence.            *)
GiveUpPrepare(w) ==
  /\ Does(w, "error") /\ prep' = [prep EXCEPT ![w] = NoPrep]
  /\ rootTask' = IF Claims(w) THEN Leaves(w, "unknown") ELSE rootTask
  /\ UNCHANGED <<space, install, contents>>

(* The rest of a claim, of which only the end matters here.                 *)
WorkEnds(w) ==
  /\ Does(w, "work") /\ prep' = [prep EXCEPT ![w] = NoPrep]
  /\ rootTask' = IF Claims(w) THEN Leaves(w, "done") ELSE rootTask
  /\ UNCHANGED <<space, install, contents>>

-----------------------------------------------------------------------------
(* Requests, and maintenance.                                               *)

(* A cancelled root is claimed once more and finishes without preparing.    *)
CancelRoot(r) ==
  /\ rootTask[r].state = "queued"
  /\ \A q \in Roots \ {r} : ~Started(q)
  /\ rootTask' = [rootTask EXCEPT ![r].state = "done"]
  /\ UNCHANGED <<space, prep, install, contents>>

ReconcileRoot(r) ==
  /\ rootTask[r].state = "unknown"
  /\ rootTask' = [rootTask EXCEPT ![r].state = "queued"]
  /\ space' = IF space.state = "preparing" THEN [space EXCEPT !.state = ""] ELSE space
  /\ UNCHANGED <<prep, install, contents>>

(* A day later, longer than any preparation takes, the command's row goes.  *)
PruneInstall(r, m) ==
  /\ install[r][m] # "none" /\ \A w \in Preparers : Does(w, "idle")
  /\ install' = [install EXCEPT ![r][m] = "none"]
  /\ UNCHANGED <<space, rootTask, prep, contents>>

Prepare(w) ==
  \/ BeginPrepare(w) \/ EnsureSandbox(w)
  \/ \E m \in Managers : InstallPackages(w, m)
  \/ InstallEnds(w) \/ RecordPackages(w)
  \/ \E i \in Inputs : StageInput(w, i)
  \/ SaveReady(w) \/ GiveUpPrepare(w) \/ WorkEnds(w)

WorkspaceNext ==
  \/ \E w \in Preparers : Prepare(w) \/ PreparerDies(w) \/ \E r \in Roots : ClaimRoot(w, r)
  \/ \E r \in Roots : \/ ClaimLapses(r) \/ CancelRoot(r) \/ ReconcileRoot(r)
                      \/ \E m \in Managers : PruneInstall(r, m)

WorkspaceSpec == WorkspaceInit /\ [][WorkspaceNext]_workspaceVars

-----------------------------------------------------------------------------

(* The row, the root tasks, the workers, the commands and the container.    *)
WorkspaceTypeOK ==
  /\ space \in [root : Roots \cup {NoRoot}, state : {"", "preparing", "ready"}, print : BOOLEAN]
  /\ rootTask \in [Roots -> [state : {"queued", "running", "unknown", "done"},
                         by : Preparers \cup {NoPreparer}, claims : 0..MaxClaimsOfRoots]]
  /\ prep \in [Preparers ->
       [pc : {"idle", "begin", "ensure", "install", "run", "stage", "work", "error"},
        root : Roots \cup {NoRoot}, print : BOOLEAN,
        todo : SUBSET (Managers \cup Inputs), manager : Managers \cup {NoManager}]]
  /\ install \in [Roots -> [Managers -> {"none", "starting", "succeeded", "failed"}]]
  /\ contents \in [packages : SUBSET Managers, staged : SUBSET (Roots \X Inputs)]

(* Whatever workers die, lose their claim and go on, or are reconciled in   *)
(* between: a workspace marked ready for a root holds all packages, and all *)
(* inputs staged for that root (prepare, its early return for later claims  *)
(* and children).                                                           *)
ReadyIsProvisioned ==
  space.state = "ready" =>
    contents.packages = Managers /\ {<<space.root, i>> : i \in Inputs} \subseteq contents.staged

(* prepare refuses an interrupted preparation with "workspace preparation   *)
(* outcome unknown; reconcile before retry" (workspace.go 50): the retry a   *)
(* reconcile allows meets no command that will not be run again.            *)
ReconcileAllowsRetry == \A w \in Preparers :
  Does(w, "install") /\ Claims(w) =>
    \A m \in prep[w].todo : install[Root(w)][m] \in {"none", "succeeded"}
=============================================================================
