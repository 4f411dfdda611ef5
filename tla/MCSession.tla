----------------------------- MODULE MCSession -----------------------------
(* Two root tasks queue behind each other in one session with an            *)
(* environment; the first may delegate to a child, models fail, and the     *)
(* session is archived in the end.                                          *)
EXTENDS Execution, TLC
CONSTANTS r1, r2, k1, w1, w2

MCTasks == {r1, r2, k1}
MCParent == r1 :> NoTask @@ r2 :> NoTask @@ k1 :> r1
MCCalls == {}
MCNone == [c \in MCCalls |-> {}]
MCMaxToolCalls == [t \in MCTasks |-> 0]
MCMaxEpoch == r1 :> 2 @@ r2 :> 1 @@ k1 :> 1
MCWorkers == {w1, w2}
MCSymmetry == Permutations(MCWorkers)
=============================================================================
