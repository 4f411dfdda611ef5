----------------------------- MODULE MCSiblings -----------------------------
(* Two children compete for one concurrent slot while leases lapse; their   *)
(* coordinator waits for either of them with a deadline, or fails and       *)
(* cancels both.                                                            *)
EXTENDS Execution, TLC
CONSTANTS r1, k1, k2, w1, w2

MCTasks == {r1, k1, k2}
MCParent == r1 :> NoTask @@ k1 :> r1 @@ k2 :> r1
MCCalls == {1}
MCCallTask == 1 :> r1
MCKind == 1 :> "wait"
MCWaitFor == 1 :> {}
MCMaxToolCalls == [t \in MCTasks |-> 1]
MCMaxEpoch == r1 :> 2 @@ k1 :> 2 @@ k2 :> 1
MCWorkers == {w1, w2}
MCSymmetry == Permutations(MCWorkers)
=============================================================================
