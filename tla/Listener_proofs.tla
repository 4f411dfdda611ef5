--------------------------- MODULE Listener_proofs ---------------------------
(***************************************************************************)
(* For any channels and subscriptions and any broken connections: a loop   *)
(* that sleeps listens to what its receivers want.                         *)
(***************************************************************************)
EXTENDS Listener, TLAPS

(* A new listener wants nothing and has nothing queued.                     *)
LEMMA InitIInv == Init => IInv
<1> SUFFICES ASSUME Init PROVE IInv
  OBVIOUS
<1>1. inflight \in Seq(Channels) /\ Len(inflight) = 0
  BY DEF Init
<1>2. queue \in [Subs -> 0 .. SubBuffer]
  BY ListenerAssumption DEF Init
<1>3. TypeOK
  <2>1. batch = [un |-> batch.un, li |-> batch.li]
        /\ {listen, unlisten, listening, batch.un, batch.li} \subseteq SUBSET Channels
    BY DEF Init, NoBatch
  <2>2. Len(inflight) <= MaxInFlight
    BY <1>1, ListenerAssumption
  <2> QED
    BY <1>1, <1>2, <2>1, <2>2 DEF Init, TypeOK, PCs
<1>4. Wanted = {}
  BY DEF Init, Wanted
<1> QED
  BY <1>3, <1>4 DEF Init, IInv, Final, NoBatch

(* A subscription or its end is queued as the statement it needs, and a     *)
(* sleeping loop is interrupted for it (Subscribe, unsubscribe).            *)
LEMMA KeepsSubscribers ==
  ASSUME IInv, NEW s \in Subs, Subscribe(s) \/ Unsubscribe(s)
  PROVE  IInv'
<1>1. CASE Subscribe(s)
  <2>1. Wanted' = Wanted \cup {Chan[s]}
    BY <1>1 DEF Subscribe, Wanted
  <2>2. Chan[s] \in Channels
    BY ListenerAssumption
  <2>3. TypeOK'
    BY <1>1, <2>2 DEF Subscribe, IInv, TypeOK, Interrupt, loop, closing, server
  <2>4. conn' = "up" => \A c \in Channels : Final(c)' <=> c \in Wanted'
    BY <1>1, <2>1 DEF Subscribe, IInv, Final, loop, server
  <2> QED
    BY <1>1, <2>3, <2>4 DEF Subscribe, IInv, Interrupt, loop, server, TypeOK
<1>2. CASE Unsubscribe(s)
  <2> DEFINE rest == {Chan[r] : r \in receivers \ {s}}
  <2>1. Wanted' = rest /\ Wanted = rest \cup {Chan[s]} /\ s \in receivers
    BY <1>2 DEF Unsubscribe, Wanted
  <2>2. Chan[s] \in Channels
    BY ListenerAssumption
  <2>3. TypeOK'
    <3>1. receivers' \subseteq opened /\ interrupted' \in BOOLEAN
          /\ listen' \subseteq Channels /\ unlisten' \subseteq Channels
      BY <1>2, <2>2 DEF Unsubscribe, IInv, TypeOK, Interrupt
    <3>2. UNCHANGED <<opened, loop, closing, server, queue>>
      BY <1>2 DEF Unsubscribe
    <3> QED
      BY <3>1, <3>2 DEF IInv, TypeOK, loop, closing, server
  <2>4. conn' = "up" => \A c \in Channels : Final(c)' <=> c \in Wanted'
    BY <1>2, <2>1 DEF Unsubscribe, IInv, Final, loop, server
  <2> QED
    BY <1>2, <2>3, <2>4 DEF Unsubscribe, IInv, Interrupt, loop, server, TypeOK
<1> QED
  BY <1>1, <1>2

(* What receivers, publishers, Close and the network do queues nothing.     *)
LEMMA KeepsOthers ==
  ASSUME IInv, \/ \E s \in Subs : TakeSignal(s)
               \/ \E c \in Channels : Publish(c)
               \/ Close \/ CancelLoop \/ ConnectionDies
  PROVE  IInv'
<1>1. CASE \E s \in Subs : TakeSignal(s)
  <2>1. UNCHANGED <<lists, loop, interrupted, closing, server>>
    BY <1>1 DEF TakeSignal
  <2>2. queue' \in [Subs -> 0 .. SubBuffer]
    BY <1>1, ListenerAssumption DEF TakeSignal, IInv, TypeOK
  <2> QED
    BY <2>1, <2>2
    DEF IInv, TypeOK, Final, Wanted, lists, loop, closing, server
<1>2. CASE \E c \in Channels : Publish(c)
  <2>1. UNCHANGED <<lists, loop, interrupted, closing, listening, queue>>
    BY <1>2 DEF Publish
  <2>2. inflight' \in Seq(Channels) /\ Len(inflight') <= MaxInFlight
    BY <1>2, ListenerAssumption DEF Publish, IInv, TypeOK
  <2> QED
    BY <2>1, <2>2 DEF IInv, TypeOK, Final, Wanted, lists, loop, closing
<1>3. CASE Close \/ CancelLoop
  BY <1>3
  DEF Close, CancelLoop, IInv, TypeOK, Final, Wanted, lists, loop, server
<1>4. CASE ConnectionDies
  BY <1>4, ListenerAssumption
  DEF ConnectionDies, IInv, TypeOK, Final, Wanted, lists, closing
<1> QED
  BY <1>1, <1>2, <1>3, <1>4

(* Statements move from the queue to the batch to the connection; a broken  *)
(* connection takes them with it, and a new one starts from the receivers.  *)
LEMMA KeepsRun ==
  ASSUME IInv, Run
  PROVE  IInv'
<1>1. CASE Drain
  BY <1>1 DEF Drain, IInv, TypeOK, Final, Wanted, NoBatch, PCs, closing, server
<1>2. CASE ExecEnds
  BY <1>2 DEF ExecEnds, IInv, TypeOK, Final, Wanted, PCs, lists, closing, server
<1>3. CASE Register
  BY <1>3 DEF Register, IInv, TypeOK, Final, Wanted, PCs, lists, closing, server
<1>4. CASE WaitSignal
  <2>1. /\ inflight' \in Seq(Channels) /\ Len(inflight') <= MaxInFlight
        /\ got' \in Channels
    BY <1>4, ListenerAssumption DEF WaitSignal, IInv, TypeOK
  <2> QED
    BY <1>4, <2>1 DEF WaitSignal, IInv, TypeOK, Final, Wanted, PCs, lists, closing
<1>5. CASE WaitInterrupted \/ WaitFails
  BY <1>5
  DEF WaitInterrupted, WaitFails, IInv, TypeOK, Final, Wanted, PCs, lists, closing, server
<1>6. CASE Dispatch
  <2>1. queue' \in [Subs -> 0 .. SubBuffer]
    BY <1>6, ListenerAssumption DEF Dispatch, IInv, TypeOK
  <2> QED
    BY <1>6, <2>1 DEF Dispatch, IInv, TypeOK, Final, Wanted, PCs, lists, closing, server
<1>7. CASE CloseConn
  BY <1>7, ListenerAssumption
  DEF CloseConn, IInv, TypeOK, Final, Wanted, NoBatch, PCs, lists, closing
<1>8. CASE Backoff \/ ReconnectFails
  BY <1>8
  DEF Backoff, ReconnectFails, IInv, TypeOK, Final, Wanted, PCs, lists, closing, server
<1>9. CASE Reconnect
  <2>1. Wanted \subseteq Channels
    BY ListenerAssumption DEF Wanted, IInv, TypeOK
  <2> QED
    BY <1>9, <2>1
    DEF Reconnect, IInv, TypeOK, Final, Wanted, NoBatch, PCs, lists, closing, server
<1>10. ASSUME NEW c \in Channels, ExecUnlisten(c) \/ ExecListen(c)
       PROVE  IInv'
  BY <1>10
  DEF ExecUnlisten, ExecListen, IInv, TypeOK, Final, Wanted, PCs, lists, closing
<1> QED
  BY <1>1, <1>2, <1>3, <1>4, <1>5, <1>6, <1>7, <1>8, <1>9, <1>10 DEF Run

(* IInv holds in every state the listener can reach.                        *)
THEOREM Invariance == Spec => []IInv
<1>1. IInv /\ [Next]_vars => IInv'
  <2> SUFFICES ASSUME IInv, [Next]_vars PROVE IInv'
    OBVIOUS
  <2>1. CASE UNCHANGED vars
    BY <2>1 DEF vars, IInv, TypeOK, Final, Wanted
  <2> QED
    BY <2>1, KeepsSubscribers, KeepsOthers, KeepsRun DEF Next, Subscribers
<1> QED
  BY <1>1, InitIInv, PTL DEF Spec

(* Every variable keeps its type, and a receiver's queue never holds more   *)
(* than its buffer (dispatch, Subscribe).                                   *)
THEOREM BuffersSuffice == Spec => []TypeOK
<1>1. IInv => TypeOK
  BY DEF IInv
<1> QED
  BY <1>1, Invariance, PTL

(* A loop that sleeps on a live connection listens to exactly the channels  *)
(* that have receivers, whatever subscribes, unsubscribes and breaks while  *)
(* it runs: no LISTEN is forgotten.                                         *)
THEOREM NoForgottenListen == Spec => []SleepsListening
<1>1. IInv => SleepsListening
  <2> SUFFICES ASSUME IInv, pc = "wait", conn = "up", ~interrupted
               PROVE  listening = Wanted
    BY DEF SleepsListening
  <2>1. listen = {} /\ unlisten = {} /\ batch = NoBatch
    BY DEF IInv
  <2>2. \A c \in Channels : c \in listening <=> c \in Wanted
    BY <2>1 DEF IInv, Final, NoBatch
  <2>3. listening \subseteq Channels /\ Wanted \subseteq Channels
    BY ListenerAssumption DEF IInv, TypeOK, Wanted
  <2> QED
    BY <2>2, <2>3
<1> QED
  BY <1>1, Invariance, PTL
=============================================================================
