------------------------------ MODULE Listener ------------------------------
(***************************************************************************)
(* The LISTEN/NOTIFY multiplexer of one process (internal/platform/        *)
(* database/notify.go): one dispatch loop owns one connection, subscribers *)
(* come and go and queue LISTEN and UNLISTEN statements for it, a running  *)
(* wait is interrupted to apply them, and lost connections are replaced.   *)
(* Notifications are hints: they may be lost, and consumers also poll.     *)
(*                                                                         *)
(* `l.mu` is held for one action here; `pc` names the part of run, serve   *)
(* or applyControl the loop's goroutine executes next.                     *)
(***************************************************************************)
EXTENDS Naturals, Sequences

CONSTANTS
  Channels,
  Subs,          (* subscriptions that may be made                          *)
  NoChannel,
  Chan,          (* Chan[s]: the channel subscription s is for              *)
  SubBuffer,     (* capacity of a receiver's queue (16 in the code)         *)
  MaxInFlight,   (* bound of the model: signals under way at once           *)
  Faults         (* "die": a connection breaks; "connect": a dial fails     *)

ASSUME ListenerAssumption ==
  /\ Chan \in [Subs -> Channels] /\ NoChannel \notin Channels
  /\ SubBuffer \in Nat \ {0}
  /\ MaxInFlight \in Nat

VARIABLES
  opened,        (* subscriptions ever made: ids are not reused (l.nextSub)  *)
  receivers,    (* the subscriptions in l.subs                             *)
  listen,        (* l.listen: channels waiting for a LISTEN                 *)
  unlisten,      (* l.unlisten                                              *)
  conn,          (* l.conn: none, up, or dead and not yet noticed           *)
  batch,         (* the statements applyControl took from the two lists     *)
  got,           (* the signal WaitForNotification returned                 *)
  pc,
  interrupted,   (* the context of the current wait is canceled             *)
  closed,        (* l.closed                                                *)
  canceled,      (* l.loopCtx is canceled                                   *)
  listening,     (* server: channels this connection listens to             *)
  inflight,      (* server: signals on their way to this connection          *)
  queue          (* how many signals a receiver's channel holds             *)

lists == <<opened, receivers, listen, unlisten>>
closing == <<closed, canceled>>
loop == <<conn, batch, got, pc>>
server == <<listening, inflight>>
vars == <<opened, receivers, listen, unlisten, conn, batch, got, pc, interrupted,
          closed, canceled, listening, inflight, queue>>

PCs == {"drain", "exec", "register", "wait", "dispatch", "close", "backoff",
        "reconnect", "stopped"}
NoBatch == [un |-> {}, li |-> {}]
Wanted == {Chan[s] : s \in receivers}

Init ==
  /\ opened = {} /\ receivers = {} /\ listen = {} /\ unlisten = {}
  /\ conn = "up" /\ batch = NoBatch /\ got = NoChannel /\ pc = "drain"
  /\ interrupted = FALSE /\ closed = FALSE /\ canceled = FALSE
  /\ listening = {} /\ inflight = <<>>
  /\ queue = [s \in Subs |-> 0]

-----------------------------------------------------------------------------
(* Subscribers. A statement queued while the loop waits interrupts it.      *)

Interrupt == interrupted' = (interrupted \/ pc = "wait")

Subscribe(s) ==
  /\ s \notin opened /\ ~closed
  /\ opened' = opened \cup {s} /\ receivers' = receivers \cup {s}
  /\ listen' = IF Chan[s] \in Wanted THEN listen ELSE listen \cup {Chan[s]}
  /\ Interrupt
  /\ UNCHANGED <<unlisten, loop, closing, server, queue>>

Unsubscribe(s) ==
  /\ s \in receivers
  /\ receivers' = receivers \ {s}
  /\ IF Chan[s] \in {Chan[r] : r \in receivers \ {s}}
       THEN UNCHANGED <<listen, unlisten, interrupted>>
       ELSE /\ listen' = listen \ {Chan[s]}
            /\ unlisten' = unlisten \cup {Chan[s]}
            /\ Interrupt
  /\ UNCHANGED <<opened, loop, closing, server, queue>>

(* The goroutine behind a stream or a worker takes its signal               *)
(* (TaskQueueWake, listenerSignaler).                                       *)
TakeSignal(s) ==
  /\ s \in receivers /\ queue[s] > 0
  /\ queue' = [queue EXCEPT ![s] = @ - 1]
  /\ UNCHANGED <<lists, loop, interrupted, closing, server>>

(* Close marks the listener, then cancels the loop's context.               *)
Close ==
  /\ ~closed /\ closed' = TRUE
  /\ UNCHANGED <<lists, loop, interrupted, canceled, server, queue>>
(* Mutant: Close only marks the listener.                                   *)
CancelNothing == FALSE /\ UNCHANGED vars
CancelLoop ==
  /\ closed /\ ~canceled /\ canceled' = TRUE
  /\ UNCHANGED <<lists, loop, interrupted, closed, server, queue>>

-----------------------------------------------------------------------------
(* The database. A committed pg_notify reaches the sessions that listen.    *)

Publish(c) ==
  /\ conn = "up" /\ c \in listening /\ Len(inflight) < MaxInFlight
  /\ inflight' = Append(inflight, c)
  /\ UNCHANGED <<lists, loop, interrupted, closing, listening, queue>>

ConnectionDies ==
  /\ "die" \in Faults /\ conn = "up"
  /\ conn' = "dead" /\ listening' = {} /\ inflight' = <<>>
  /\ UNCHANGED <<lists, batch, got, pc, interrupted, closing, queue>>

-----------------------------------------------------------------------------
(* The dispatch loop.                                                       *)

(* applyControl takes both lists; without a connection it drops them.       *)
Drain ==
  /\ pc = "drain"
  /\ listen' = {} /\ unlisten' = {}
  /\ IF conn = "none" \/ (listen = {} /\ unlisten = {})
       THEN pc' = "register" /\ UNCHANGED batch
       ELSE pc' = "exec" /\ batch' = [un |-> unlisten, li |-> listen]
  /\ UNCHANGED <<opened, receivers, conn, got, interrupted, closing, server, queue>>

(* Its statements: every UNLISTEN, then every LISTEN. An error ends serve.  *)
ExecUnlisten(c) ==
  /\ pc = "exec" /\ c \in batch.un /\ conn = "up" /\ ~canceled
  /\ listening' = listening \ {c}
  /\ batch' = [batch EXCEPT !.un = @ \ {c}]
  /\ UNCHANGED <<lists, conn, pc, got, interrupted, closing, inflight, queue>>
ExecListen(c) ==
  /\ pc = "exec" /\ batch.un = {} /\ c \in batch.li /\ conn = "up" /\ ~canceled
  /\ listening' = listening \cup {c}
  /\ batch' = [batch EXCEPT !.li = @ \ {c}]
  /\ UNCHANGED <<lists, conn, pc, got, interrupted, closing, inflight, queue>>
ExecEnds ==
  /\ pc = "exec"
  /\ \/ batch = NoBatch /\ pc' = "drain"
     \/ /\ batch # NoBatch /\ (conn = "dead" \/ canceled)
        /\ pc' = "close"
  /\ UNCHANGED <<lists, conn, batch, got, interrupted, closing, server, queue>>

(* Mutant: statements queued since applyControl are not looked for.         *)
RegisterOnly ==
  /\ pc = "register" /\ pc' = "wait"
  /\ interrupted' = FALSE
  /\ UNCHANGED <<lists, conn, batch, got, closing, server, queue>>
(* The wait is registered for interrupts, and interrupts itself when a      *)
(* statement was queued in between.                                         *)
Register ==
  /\ pc = "register" /\ pc' = "wait"
  /\ interrupted' = (listen # {} \/ unlisten # {})
  /\ UNCHANGED <<lists, conn, batch, got, closing, server, queue>>

(* How the wait ends: with a signal, interrupted (at once when there is no  *)
(* connection), or with the connection's error.                             *)
WaitSignal ==
  /\ pc = "wait" /\ conn = "up" /\ inflight # <<>>
  /\ inflight' = Tail(inflight) /\ got' = Head(inflight)
  /\ pc' = "dispatch" /\ interrupted' = FALSE
  /\ UNCHANGED <<lists, conn, batch, closing, listening, queue>>
WaitInterrupted ==
  /\ pc = "wait" /\ (interrupted \/ canceled \/ conn = "none")
  /\ pc' = IF closed THEN "close" ELSE "drain"
  /\ interrupted' = FALSE
  /\ UNCHANGED <<lists, conn, batch, got, closing, server, queue>>
WaitFails ==
  /\ pc = "wait" /\ conn = "dead"
  /\ pc' = "close" /\ interrupted' = FALSE
  /\ UNCHANGED <<lists, conn, batch, got, closing, server, queue>>

(* Mutant: a signal is queued for a receiver whose queue is full.           *)
DispatchAlways ==
  /\ pc = "dispatch" /\ pc' = "drain" /\ got' = NoChannel
  /\ queue' = [s \in Subs |-> IF s \in receivers /\ Chan[s] = got
                                THEN queue[s] + 1 ELSE queue[s]]
  /\ UNCHANGED <<lists, conn, batch, interrupted, closing, server>>
(* Mutant: a signal goes to one of the channel's receivers.                 *)
DispatchOne ==
  /\ pc = "dispatch" /\ pc' = "drain" /\ got' = NoChannel
  /\ \/ \E s \in receivers : /\ Chan[s] = got /\ queue[s] < SubBuffer
                              /\ queue' = [queue EXCEPT ![s] = @ + 1]
     \/ got \notin Wanted /\ UNCHANGED queue
  /\ UNCHANGED <<lists, conn, batch, interrupted, closing, server>>
(* The signal goes to every receiver with room for it.                      *)
Dispatch ==
  /\ pc = "dispatch" /\ pc' = "drain" /\ got' = NoChannel
  /\ queue' = [s \in Subs |-> IF s \in receivers /\ Chan[s] = got /\ queue[s] < SubBuffer
                                THEN queue[s] + 1 ELSE queue[s]]
  /\ UNCHANGED <<lists, conn, batch, interrupted, closing, server>>

CloseConn ==
  /\ pc = "close"
  /\ conn' = "none" /\ listening' = {} /\ inflight' = <<>> /\ batch' = NoBatch
  /\ pc' = IF closed THEN "stopped" ELSE "backoff"
  /\ UNCHANGED <<lists, got, interrupted, closing, queue>>

Backoff ==
  /\ pc = "backoff"
  /\ \/ canceled /\ pc' = "stopped"
     \/ pc' = "reconnect"
  /\ UNCHANGED <<lists, conn, batch, got, interrupted, closing, server, queue>>

(* Mutant: a new connection listens to what is queued, not to what is wanted.*)
ReconnectOnly ==
  /\ pc = "reconnect" /\ ~canceled
  /\ conn' = "up" /\ pc' = "drain"
  /\ UNCHANGED <<lists, batch, got, interrupted, closing, server, queue>>
Reconnect ==
  /\ pc = "reconnect" /\ ~canceled
  /\ conn' = "up" /\ listen' = Wanted
  /\ pc' = "drain"
  /\ UNCHANGED <<opened, receivers, unlisten, batch, got, interrupted, closing, server, queue>>
(* A failed dial is logged; serve runs again, without a connection.         *)
ReconnectFails ==
  /\ pc = "reconnect" /\ ("connect" \in Faults \/ canceled)
  /\ pc' = "drain"
  /\ UNCHANGED <<lists, conn, batch, got, interrupted, closing, server, queue>>

-----------------------------------------------------------------------------
Run == \/ Drain \/ ExecEnds \/ Register \/ WaitSignal \/ WaitInterrupted \/ WaitFails
       \/ Dispatch \/ CloseConn \/ Backoff \/ Reconnect \/ ReconnectFails
       \/ \E c \in Channels : ExecUnlisten(c) \/ ExecListen(c)
Subscribers == \E s \in Subs : Subscribe(s) \/ Unsubscribe(s)
Next == \/ Run \/ Subscribers \/ Close \/ CancelLoop \/ ConnectionDies
        \/ \E s \in Subs : TakeSignal(s)
        \/ \E c \in Channels : Publish(c)

(* The goroutines of the process are scheduled and a Close that began ends; *)
(* nobody has to subscribe, consume, publish or close. The driver looks at  *)
(* the context of a wait before it reads the connection, so traffic does    *)
(* not hide an interrupt forever.                                           *)
Fairness == /\ WF_vars(Run) /\ WF_vars(CancelLoop) /\ SF_vars(WaitInterrupted)
            /\ \A s \in Subs : WF_vars(TakeSignal(s))
Spec == Init /\ [][Next]_vars /\ Fairness

TypeOK ==
  /\ receivers \subseteq opened /\ opened \subseteq Subs
  /\ {listen, unlisten, listening, batch.un, batch.li} \subseteq SUBSET Channels
  /\ batch = [un |-> batch.un, li |-> batch.li]
  /\ got \in Channels \cup {NoChannel}
  /\ conn \in {"none", "up", "dead"} /\ pc \in PCs
  /\ {interrupted, closed, canceled} \subseteq BOOLEAN
  /\ inflight \in Seq(Channels) /\ Len(inflight) <= MaxInFlight
  /\ queue \in [Subs -> 0 .. SubBuffer]

-----------------------------------------------------------------------------
(* Properties.                                                              *)

(* No statement is forgotten and no wake-up is missed: while the loop       *)
(* sleeps on a live connection, that connection listens to exactly the      *)
(* channels that have receivers (Subscribe, unsubscribe, serve's re-check). *)
SleepsListening ==
  pc = "wait" /\ conn = "up" /\ ~interrupted => listening = Wanted

(* A signal that reached the connection reaches every receiver that is      *)
(* subscribed when it arrives, unless the connection breaks (dispatch).     *)
SignalArrives == \A s \in Subs :
  s \in receivers /\ (\E i \in 1 .. Len(inflight) : inflight[i] = Chan[s])
    ~> queue[s] > 0 \/ s \notin receivers \/ conn # "up" \/ closed

(* Close always ends the loop, whatever it is doing (Close, run).           *)
CloseStops == closed ~> pc = "stopped"

(* When connections stop breaking and dials succeed, every receiver's       *)
(* channel is listened to in the end, whatever was queued, half applied or  *)
(* lost with the connections that broke (applyControl, reconnect).          *)
ListensAgain == <>[](conn # "dead") => \A s \in Subs :
  s \in receivers ~> Chan[s] \in listening \/ s \notin receivers \/ closed

(* What the statements still queued make of the connection is what the      *)
(* receivers want; an invariant that is inductive (Listener_proofs).        *)
Final(c) == c \in listen \/ (c \notin unlisten /\
              (c \in batch.li \/ (c \notin batch.un /\ c \in listening)))
IInv ==
  /\ TypeOK
  /\ conn = "up" => \A c \in Channels : Final(c) <=> c \in Wanted
  /\ conn # "up" => listening = {}
  /\ pc \in {"backoff", "reconnect"} => conn = "none"
  /\ pc \notin {"exec", "close"} => batch = NoBatch
  /\ pc = "wait" /\ ~interrupted => listen = {} /\ unlisten = {}

(* "The loop reconnects with backoff on connection loss" (Listen).          *)
Reconnects == conn = "none" ~> conn = "up" \/ closed
=============================================================================
