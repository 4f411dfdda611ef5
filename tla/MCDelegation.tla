---------------------------- MODULE MCDelegation ----------------------------
(* A coordinator that delegates to, steers, resumes and cancels a child     *)
(* with an agent call; each may write, their calls together are one more    *)
(* than the coordinator's budget, and clients resume the child.             *)
EXTENDS Execution, TLC
CONSTANTS r1, k1, w1, w2

MCTasks == {r1, k1}
MCParent == r1 :> NoTask @@ k1 :> r1
MCCalls == {1, 2, 3, 4}
MCCallTask == 1 :> r1 @@ 2 :> r1 @@ 3 :> k1 @@ 4 :> k1
MCKind == 1 :> "agent" @@ 2 :> "write" @@ 3 :> "write" @@ 4 :> "read"
MCWaitFor == [c \in MCCalls |-> {}]
MCMaxToolCalls == r1 :> 3 @@ k1 :> 2
MCMaxEpoch == [t \in MCTasks |-> 2]
MCWorkers == {w1, w2}
WorkerSymmetry == Permutations(MCWorkers)
=============================================================================
