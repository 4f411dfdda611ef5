------------------------------- MODULE SpanLog -------------------------------
(***************************************************************************)
(* The span log of one worker (internal/modules/execution/trace.go): the   *)
(* goroutines of its tasks record spans in a bounded buffer, a recorder    *)
(* writes batches of them, each claim's group in a fenced transaction, and *)
(* the paths that give up a claim (park, finish, parkUnknown) take their   *)
(* task's spans out of the buffer and write them in the transaction they   *)
(* run anyway.                                                             *)
(*                                                                         *)
(* A span is a number, its place among the spans in the order of arrival;  *)
(* buffers and groups are the sets of them. `l.mu` is held for one action; *)
(* every task has a session of its own.                                    *)
(***************************************************************************)
EXTENDS Naturals, Sequences, FiniteSets

CONSTANTS
  Traced,        (* tasks of the worker                                     *)
  Capacity,      (* spanBufferCapacity                                      *)
  Batch,         (* spanFlushBatch                                          *)
  MaxSpans,      (* bound: spans recorded                                   *)
  MaxClaims      (* bound: claims of a task, by this worker or another      *)

ASSUME SpanLogAssumption ==
  {Capacity, Batch, MaxClaims} \subseteq Nat \ {0} /\ MaxSpans \in Nat

VARIABLES
  epoch,         (* the row's claim number                                  *)
  owned,         (* the row is claimed by this worker, the lease valid      *)
  turn,          (* turn[t]: where the worker's goroutine of t is, its claim *)
  held,          (* held[t]: spans it took from the buffer                  *)
  buffer,        (* l.pending                                               *)
  batches,       (* groups the recorder took and has not written            *)
  recorded,      (* recorded[n]: the task and the claim of span n           *)
  dropped,       (* history: spans given up with a warning                  *)
  trace,         (* trace[t]: the groups written as trace.span events of t  *)
  finishedBy     (* the claim that finished t, 0 while it is not             *)

spanVars == <<epoch, owned, turn, held, buffer, batches, recorded, dropped, trace, finishedBy>>

Between == [pc |-> "idle", claim |-> 0]
Mine(t) == {n \in buffer : recorded[n].task = t}
Fenced(t) == owned[t] /\ epoch[t] = turn[t].claim

SpanInit ==
  /\ epoch = [t \in Traced |-> 0] /\ owned = [t \in Traced |-> FALSE]
  /\ turn = [t \in Traced |-> Between] /\ held = [t \in Traced |-> {}]
  /\ buffer = {} /\ batches = {} /\ recorded = <<>> /\ dropped = {}
  /\ trace = [t \in Traced |-> <<>>] /\ finishedBy = [t \in Traced |-> 0]

(* Run claims one task at a time and runs it inline.                       *)
ClaimTask(t) ==
  /\ \A u \in Traced : turn[u] = Between
  /\ ~owned[t] /\ finishedBy[t] = 0 /\ epoch[t] < MaxClaims
  /\ epoch' = [epoch EXCEPT ![t] = epoch[t] + 1] /\ owned' = [owned EXCEPT ![t] = TRUE]
  /\ turn' = [turn EXCEPT ![t] = [pc |-> "run", claim |-> epoch[t] + 1]]
  /\ UNCHANGED <<held, buffer, batches, recorded, dropped, trace, finishedBy>>

(* The lease lapses and recovery ends the claim; the goroutine goes on.    *)
LoseClaim(t) ==
  /\ owned[t] /\ owned' = [owned EXCEPT ![t] = FALSE]
  /\ UNCHANGED <<epoch, turn, held, buffer, batches, recorded, dropped, trace, finishedBy>>

(* record: a full buffer drops the span and says so.                       *)
Record(t) ==
  LET n == Len(recorded) + 1 IN
  /\ turn[t].pc \in {"run", "hook"} /\ Len(recorded) < MaxSpans
  /\ recorded' = Append(recorded, [task |-> t, claim |-> turn[t].claim])
  /\ IF Cardinality(buffer) < Capacity THEN buffer' = buffer \union {n} /\ UNCHANGED dropped
     ELSE dropped' = dropped \union {n} /\ UNCHANGED buffer
  /\ UNCHANGED <<epoch, owned, turn, held, batches, trace, finishedBy>>

(* take: the first spans, up to one batch, grouped by task.                *)
Taken == {n \in buffer : Cardinality({m \in buffer : m <= n}) <= Batch}
RecorderTakes ==
  /\ batches = {} /\ buffer # {}
  /\ batches' = {{n \in Taken : recorded[n].task = t} : t \in {recorded[n].task : n \in Taken}}
  /\ buffer' = buffer \ Taken
  /\ UNCHANGED <<epoch, owned, turn, held, recorded, dropped, trace, finishedBy>>

(* A transaction's trace.span events.                                      *)
EmitSpans(t, spans) ==
  trace' = IF spans = {} THEN trace ELSE [trace EXCEPT ![t] = Append(trace[t], spans)]

(* write: the groups in the order of their first spans, each in a          *)
(* transaction that carries the fence of its last span's claim; a lost     *)
(* fence, or the write's time-out, drops the group. release follows.       *)
RecorderWrites ==
  \E group \in batches : \E first, last \in group :
    LET t == recorded[first].task IN
    /\ \A n \in UNION batches : first <= n
    /\ \A n \in group : n <= last
    /\ batches' = batches \ {group}
    /\ \/ owned[t] /\ epoch[t] = recorded[last].claim /\ EmitSpans(t, group) /\ UNCHANGED dropped
       \/ dropped' = dropped \union group /\ UNCHANGED trace
    /\ UNCHANGED <<epoch, owned, turn, held, buffer, recorded, finishedBy>>

(* takeTask: waits for a recorder batch of the task in flight.             *)
InFlight(t) == \E group \in batches : \E n \in group : recorded[n].task = t
(* Mutant: a batch in flight is not waited for.                            *)
TakeAtOnce(t, from, to, kept) ==
  /\ turn[t].pc = from
  /\ held' = [held EXCEPT ![t] = kept \union Mine(t)] /\ buffer' = buffer \ Mine(t)
  /\ turn' = [turn EXCEPT ![t].pc = to]
  /\ UNCHANGED <<epoch, owned, batches, recorded, dropped, trace, finishedBy>>
Take(t, from, to, kept) ==
  /\ turn[t].pc = from /\ ~InFlight(t)
  /\ held' = [held EXCEPT ![t] = kept \union Mine(t)] /\ buffer' = buffer \ Mine(t)
  /\ turn' = [turn EXCEPT ![t].pc = to]
  /\ UNCHANGED <<epoch, owned, batches, recorded, dropped, trace, finishedBy>>

(* What park, the requeue of a failed generation, the cleanup of run and   *)
(* finish take before their transaction; parkUnknown, after a failed       *)
(* finish hook, replaces what finish held; the second transaction of       *)
(* finish adds to it.                                                      *)
TakeToPark(t) == Take(t, "run", "park", {})
TakeToFinish(t) == Take(t, "run", "settle", {})
HookFails(t) == Take(t, "hook", "park", {})
HookEnds(t) == Take(t, "hook", "close", held[t])

(* A fenced transaction that writes what is held and releases the claim;   *)
(* the goroutine ends its run in either case, since the cleanup of a run   *)
(* that lost its claim fails the fence as well.                            *)
Release(t, closes) ==
  /\ turn' = [turn EXCEPT ![t] = Between] /\ held' = [held EXCEPT ![t] = {}]
  /\ IF Fenced(t) THEN
       /\ EmitSpans(t, held[t]) /\ owned' = [owned EXCEPT ![t] = FALSE]
       /\ finishedBy' = [finishedBy EXCEPT ![t] = IF closes THEN turn[t].claim ELSE 0]
     ELSE UNCHANGED <<trace, owned, finishedBy>>
  /\ UNCHANGED <<epoch, buffer, batches, recorded, dropped>>
ParkCommits(t) == turn[t].pc = "park" /\ Release(t, FALSE)

(* The first transaction of finish waits for children or calls, releasing, *)
(* or marks the task finalizing and keeps the spans for the second.        *)
SettleWaits(t) == turn[t].pc = "settle" /\ Release(t, FALSE)
SettleFinalizes(t) ==
  /\ turn[t].pc = "settle" /\ Fenced(t) /\ turn' = [turn EXCEPT ![t].pc = "hook"]
  /\ UNCHANGED <<epoch, owned, held, buffer, batches, recorded, dropped, trace, finishedBy>>
FinishCommits(t) == turn[t].pc = "close" /\ Release(t, TRUE)

SpanNext ==
  \/ \E t \in Traced : \/ ClaimTask(t) \/ LoseClaim(t) \/ Record(t)
                       \/ TakeToPark(t) \/ ParkCommits(t) \/ TakeToFinish(t)
                       \/ SettleWaits(t) \/ SettleFinalizes(t) \/ HookFails(t) \/ HookEnds(t) \/ FinishCommits(t)
  \/ RecorderTakes \/ RecorderWrites
SpanSpec == SpanInit /\ [][SpanNext]_spanVars

-----------------------------------------------------------------------------
(* A worker runs at most one task; a span is of a task and its claim, and  *)
(* the groups kept or written for a task are of its spans.                 *)
SpanTypeOK ==
  LET SpansOf(t) == {n \in DOMAIN recorded : recorded[n].task = t} IN
  /\ epoch \in [Traced -> 0..MaxClaims] /\ owned \in [Traced -> BOOLEAN]
  /\ finishedBy \in [Traced -> 0..MaxClaims]
  /\ turn \in [Traced -> [pc : {"idle", "run", "park", "settle", "hook", "close"}, claim : 0..MaxClaims]]
  /\ \A t, u \in Traced : turn[t] # Between /\ turn[u] # Between => t = u
  /\ recorded \in Seq([task : Traced, claim : 1..MaxClaims]) /\ Len(recorded) <= MaxSpans
  /\ buffer \subseteq DOMAIN recorded /\ Cardinality(buffer) <= Capacity /\ dropped \subseteq DOMAIN recorded
  /\ \A group \in batches : group # {} /\ \E t \in Traced : group \subseteq SpansOf(t)
  /\ \A t \in Traced : held[t] \subseteq SpansOf(t) /\ trace[t] \in Seq(SUBSET SpansOf(t))

(* The finished task's trace is complete the moment the transaction that   *)
(* finishes it commits: no span of the finishing claim is still buffered,  *)
(* held or in a batch of the recorder, each is in the trace or was given   *)
(* up with a warning, and none is there twice (finish.go 78, 159-165,      *)
(* trace.go takeTask).                                                     *)
TraceComplete ==
  \A t \in Traced :
    /\ \A i, j \in DOMAIN trace[t] : i # j => trace[t][i] \intersect trace[t][j] = {}
    /\ finishedBy[t] # 0 => \A n \in DOMAIN recorded :
         recorded[n] = [task |-> t, claim |-> finishedBy[t]] =>
           n \in dropped \/ \E i \in DOMAIN trace[t] : n \in trace[t][i]
=============================================================================
