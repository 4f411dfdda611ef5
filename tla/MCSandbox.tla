------------------------------ MODULE MCSandbox -----------------------------
(* Two sessions, of which one container may run at a time, and two replicas *)
(* that work on either.                                                     *)
EXTENDS Sandbox, TLC
CONSTANTS s1, s2, p1, p2

MCExecIds == [s \in {s1, s2} |-> {}]
MCMemoryOf == s1 :> 2 @@ s2 :> 1
=============================================================================
