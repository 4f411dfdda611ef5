----------------------------- MODULE MCRecovery -----------------------------
(* One root task whose turns request a write call, a custom call that       *)
(* needs approval and a read call; two workers, and every fault of a        *)
(* worker.                                                                  *)
EXTENDS Execution, TLC
CONSTANTS r1, w1, w2

MCTasks == {r1}
MCParent == [t \in MCTasks |-> NoTask]
MCCalls == {1, 2, 3}
MCCallTask == [c \in MCCalls |-> r1]
MCKind == 1 :> "write" @@ 2 :> "custom" @@ 3 :> "read"
MCNeedsApproval == {2}
MCWaitFor == [c \in MCCalls |-> {}]
MCMaxToolCalls == [t \in MCTasks |-> 3]
MCMaxEpoch == [t \in MCTasks |-> 3]
MCWorkers == {w1, w2}
WorkerSymmetry == Permutations(MCWorkers)
=============================================================================
