--------------------------- MODULE DurableSession ---------------------------
(***************************************************************************)
(* What a session promises its client, with no worker, lease, transaction  *)
(* or crash in sight: one task tree at a time, a coordinator that finishes *)
(* after its children, and tool calls that start at most once, whose       *)
(* outcome is decided once and delivered once, in order. Execution         *)
(* implements it.                                                          *)
(***************************************************************************)
EXTENDS Integers

CONSTANTS Tasks, Parent, NoTask, Calls, CallTask, Writers

VARIABLES
  life,      (* a task's life: absent, open or done                          *)
  active,    (* the root whose tree holds the session                        *)
  archived,
  phase      (* a call: absent, pending, running, uncertain, answered or     *)
             (* delivered                                                    *)

vars == <<life, active, archived, phase>>

RootOf(t) == IF Parent[t] = NoTask THEN t ELSE Parent[t]
Of(t) == {c \in Calls : CallTask[c] = t}
Holds(t) == life[t] = "open" /\ active = RootOf(t)
Move(S, to) == phase' = [c \in Calls |-> IF c \in S THEN to ELSE phase[c]]

Init == /\ life = [t \in Tasks |-> "absent"]
        /\ active = NoTask
        /\ archived = FALSE
        /\ phase = [c \in Calls |-> "absent"]

Create(t) == /\ Parent[t] = NoTask /\ life[t] = "absent" /\ ~archived
             /\ life' = [life EXCEPT ![t] = "open"]
             /\ UNCHANGED <<active, archived, phase>>
(* A child is delegated to, or resumed, only while its coordinator is open. *)
Delegate(t) == /\ Parent[t] # NoTask /\ life[t] # "open" /\ life[Parent[t]] = "open"
               /\ life' = [life EXCEPT ![t] = "open"]
               /\ UNCHANGED <<active, archived, phase>>
Activate(t) == /\ Parent[t] = NoTask /\ life[t] = "open" /\ active = NoTask
               /\ active' = t
               /\ UNCHANGED <<life, archived, phase>>
Finish(t) == /\ Holds(t)
             /\ \A u \in Tasks : Parent[u] = t => life[u] # "open"
             /\ \A c \in Of(t) : phase[c] \in {"absent", "answered", "delivered"}
             /\ life' = [life EXCEPT ![t] = "done"]
             /\ active' = IF Parent[t] = NoTask THEN NoTask ELSE active
             /\ UNCHANGED <<archived, phase>>
Archive == /\ active = NoTask /\ \A t \in Tasks : life[t] # "open"
           /\ archived' = TRUE
           /\ UNCHANGED <<life, active, phase>>

(* A model turn requests calls when every earlier one is delivered; some    *)
(* are refused at once.                                                     *)
Request(t) == /\ Holds(t) /\ \A c \in Of(t) : phase[c] \in {"absent", "delivered"}
              /\ \E S \in SUBSET Of(t) : \E refused \in SUBSET S :
                   /\ S # {} /\ \A c \in S : phase[c] = "absent"
                   /\ phase' = [c \in Calls |-> CASE c \in refused -> "answered"
                                                  [] c \in S \ refused -> "pending"
                                                  [] OTHER -> phase[c]]
              /\ UNCHANGED <<life, active, archived>>
(* A writer never starts beside another that runs or may still run.         *)
Start(c) == /\ Holds(CallTask[c]) /\ phase[c] = "pending"
            /\ \A d \in Of(CallTask[c]) : phase[d] # "running"
            /\ c \in Writers => \A d \in Writers : phase[d] \notin {"running", "uncertain"}
            /\ Move({c}, "running")
            /\ UNCHANGED <<life, active, archived>>
Lose(c) == /\ phase[c] = "running" /\ Move({c}, "uncertain")
           /\ UNCHANGED <<life, active, archived>>
Answer(t) == /\ life[t] = "open"
             /\ \E S \in SUBSET Of(t) :
                  /\ \A c \in S : phase[c] \in {"pending", "running", "uncertain"}
                  /\ Move(S, "answered")
             /\ UNCHANGED <<life, active, archived>>
Deliver(c) == /\ Holds(CallTask[c]) /\ phase[c] = "answered"
              /\ \A d \in Of(CallTask[c]) : d < c => phase[d] = "delivered"
              /\ Move({c}, "delivered")
              /\ UNCHANGED <<life, active, archived>>

Next == \/ Archive
        \/ \E t \in Tasks : Create(t) \/ Delegate(t) \/ Activate(t) \/ Finish(t)
                              \/ Request(t) \/ Answer(t)
        \/ \E c \in Calls : Start(c) \/ Lose(c) \/ Deliver(c)

Spec == Init /\ [][Next]_vars
=============================================================================
