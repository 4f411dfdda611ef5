----------------------------- MODULE MCPlatform -----------------------------
(***************************************************************************)
(* The services whose promises are about what happens in the end, and the  *)
(* idempotent requests. They share no state: a behavior is one of the      *)
(* component that `focus` names, the others stay in their initial state,   *)
(* the listener stopped.                                                   *)
(***************************************************************************)
EXTENDS Webhooks, Receipts, EventStream, Telemetry, AuthCache, Listener, TLC

CONSTANTS c1, c2, c3, k1, p1, p2, l1, l2, l3

(* Two clients use one key, for different bodies, and a third none. *)
MCKeyOf == c1 :> k1 @@ c2 :> k1 @@ c3 :> NoKey
MCBodyOf == c1 :> "a" @@ c2 :> "b" @@ c3 :> "a"
(* Bucket 3 stands for the hour of all samples, 1 and 2 for two minutes. *)
MCBucketsOf == <<{1, 3}, {2, 3}, {1, 3}, {2, 3}>>
(* Two of the three callers meet in one process.                         *)
MCServedBy == c1 :> p1 @@ c2 :> p1 @@ c3 :> p2
(* Two receivers of one channel and one of another.                      *)
MCSubs == {l1, l2, l3}
MCChan == l1 :> "session_event" @@ l2 :> "session_event" @@ l3 :> "task_queued"

VARIABLE focus
platformVars == <<focus, hookVars, recVars, streamVars, telemetryVars, authVars, vars>>

(* A listener that was closed without a receiver: its loop has ended.       *)
ListenerStopped ==
  /\ opened = {} /\ receivers = {} /\ listen = {} /\ unlisten = {}
  /\ conn = "none" /\ batch = NoBatch /\ got = NoChannel /\ pc = "stopped"
  /\ interrupted = FALSE /\ closed = TRUE /\ canceled = TRUE
  /\ listening = {} /\ inflight = <<>>
  /\ queue = [s \in Subs |-> 0]

PlatformInit ==
  /\ focus \in {"webhooks", "receipts", "stream", "telemetry", "auth", "listener"}
  /\ HooksInit /\ RecInit /\ StreamInit /\ TelemetryInit /\ AuthInit
  /\ IF focus = "listener" THEN Init ELSE ListenerStopped

(* Bound: one of the disturbances of a delivery is left undone.             *)
OneSpared ==
  0 < hookBudget'.stalls + hookBudget'.crashes + hookBudget'.toggles + hookBudget'.retries
(* The call without a key shares nothing with the others: it is made alone. *)
OneWithoutKey == call'[c3].pc = "idle" \/ \A c \in {c1, c2} : call'[c].pc = "idle"
(* Bound: two subscriptions in a behavior, any two of the three.            *)
TwoReceivers == Cardinality(opened') <= 2

PlatformNext ==
  \/ /\ focus = "webhooks" /\ (HooksNext \/ \E e \in Announcements : Enqueue(e))
     /\ OneSpared
     /\ UNCHANGED <<focus, recVars, streamVars, telemetryVars, authVars, vars>>
  \/ /\ focus = "receipts" /\ (RecNext \/ \E r \in Requests : AdmitRuns(r, Fresh) \/ RunsBare(r, Fresh))
     /\ OneWithoutKey
     /\ UNCHANGED <<focus, hookVars, streamVars, telemetryVars, authVars, vars>>
  \/ /\ focus = "stream" /\ StreamNext
     /\ UNCHANGED <<focus, hookVars, recVars, telemetryVars, authVars, vars>>
  \/ /\ focus = "telemetry" /\ TelemetryNext
     /\ UNCHANGED <<focus, hookVars, recVars, streamVars, authVars, vars>>
  \/ /\ focus = "auth" /\ AuthNext
     /\ UNCHANGED <<focus, hookVars, recVars, streamVars, telemetryVars, vars>>
  \/ /\ focus = "listener" /\ Next /\ TwoReceivers
     /\ UNCHANGED <<focus, hookVars, recVars, streamVars, telemetryVars, authVars>>

(* No fair action of a component that stays as it is is enabled there, and  *)
(* the bounds disable none.                                                 *)
PlatformSpec ==
  PlatformInit /\ [][PlatformNext]_platformVars
  /\ HooksFairness /\ StreamFairness /\ TelemetryFairness /\ AuthFairness /\ Fairness

(* Type correctness of every component; of the multiplexer in particular,   *)
(* that queues and signals under way stay within their buffers (dispatch).  *)
PlatformTypeOK ==
  /\ HooksTypeOK /\ RecTypeOK /\ StreamTypeOK /\ TelemetryTypeOK /\ AuthTypeOK /\ TypeOK
=============================================================================
