-------------------------- MODULE Telemetry_proofs --------------------------
(***************************************************************************)
(* For any samples, buckets and competing reducers, and any batch size:    *)
(* what left the outbox is counted exactly once. For any tasks, claims and *)
(* span buffer: the trace of a finished task is complete.                  *)
(***************************************************************************)
EXTENDS Telemetry, SpanLog, TLAPS

(* What bucket b counts of sample s when the samples in S are not counted. *)
Counts(b, s, S) == IF s \notin S /\ b \in BucketsOf[s] THEN 1 ELSE 0

(* A reducer's transaction: the samples it locked leave the outbox with    *)
(* it, all their buckets are merged or to be, and what it merged counts    *)
(* its batch on top of what was committed.                                 *)
ReductionCounts(r) ==
  /\ reducer[r] = [samples |-> reducer[r].samples, todo |-> reducer[r].todo, merged |-> reducer[r].merged]
  /\ reducer[r].samples \subseteq outbox
  /\ \A s \in reducer[r].samples : BucketsOf[s] \subseteq reducer[r].todo \union DOMAIN reducer[r].merged
  /\ \A b \in Buckets \intersect DOMAIN reducer[r].merged :
       /\ reducer[r].merged[b] \in [Samples -> Nat]
       /\ \A s \in Samples : reducer[r].merged[b][s] =
            IF s \in enqueued THEN Counts(b, s, outbox \ reducer[r].samples) ELSE 0

(* The inductive invariant.                                                *)
CountIInv ==
  /\ enqueued \subseteq Samples /\ outbox \subseteq enqueued
  /\ DOMAIN reducer = Reducers /\ \A r \in Reducers : ReductionCounts(r)
  /\ \A q, r \in Reducers : q # r =>
       /\ reducer[q].samples \intersect reducer[r].samples = {}
       /\ DOMAIN reducer[q].merged \intersect DOMAIN reducer[r].merged = {}
  /\ bucket \in [Buckets -> [Samples -> Nat]]
  /\ \A b \in Buckets, s \in Samples : bucket[b][s] = IF s \in enqueued THEN Counts(b, s, outbox) ELSE 0

(* Nothing is enqueued or counted.                                         *)
LEMMA InitIInv == TelemetryInit => CountIInv
<1> SUFFICES ASSUME TelemetryInit PROVE CountIInv
  OBVIOUS
<1>1. NotReducing.samples = {} /\ NotReducing.todo = {} /\ DOMAIN NotReducing.merged = {}
      /\ NotReducing = [samples |-> NotReducing.samples, todo |-> NotReducing.todo, merged |-> NotReducing.merged]
  BY DEF NotReducing
<1>2. ASSUME NEW r \in Reducers PROVE ReductionCounts(r) /\ reducer[r] = NotReducing
  BY <1>1 DEF TelemetryInit, ReductionCounts
<1> QED BY <1>1, <1>2 DEF TelemetryInit, CountIInv, NotReducing

(* A sample joins the outbox in its transaction (Enqueue).                 *)
LEMMA KeepsEnqueue ==
  ASSUME CountIInv, NEW s \in Samples, EnqueueSample(s)
  PROVE  CountIInv'
<1>1. /\ s \notin enqueued /\ enqueued' = enqueued \union {s} /\ outbox' = outbox \union {s}
      /\ bucket' = bucket /\ reducer' = reducer
  BY DEF EnqueueSample
<1>2. ASSUME NEW r \in Reducers PROVE ReductionCounts(r)'
  <2>1. ReductionCounts(r) /\ s \notin reducer[r].samples
    BY <1>1 DEF CountIInv, ReductionCounts
  <2> QED BY <1>1, <2>1 DEF ReductionCounts, Counts, Buckets
<1>3. \A b \in Buckets, t \in Samples : bucket'[b][t] = IF t \in enqueued' THEN Counts(b, t, outbox') ELSE 0
  BY <1>1 DEF CountIInv, Counts
<1>4. Buckets' = Buckets
  BY DEF Buckets
<1> QED BY <1>1, <1>2, <1>3, <1>4 DEF CountIInv, Counts

(* A reducer locks samples no other has locked, or gives up what it holds.  *)
LEMMA KeepsTakes ==
  ASSUME CountIInv, NEW r \in Reducers, TakeSamples(r) \/ AbortReduction(r)
  PROVE  CountIInv'
<1>1. UNCHANGED <<enqueued, outbox, bucket>>
  BY DEF TakeSamples, AbortReduction
<1>2. PICK batch \in SUBSET (outbox \ LockedSamples) : \E todo :
        /\ reducer' = [reducer EXCEPT ![r] = [samples |-> batch, todo |-> todo, merged |-> <<>>]]
        /\ \A s \in batch : BucketsOf[s] \subseteq todo
  <2>1. CASE TakeSamples(r)
    <3> PICK batch \in SUBSET (outbox \ LockedSamples) : reducer' = [reducer EXCEPT ![r] =
               [samples |-> batch, todo |-> UNION {BucketsOf[s] : s \in batch}, merged |-> <<>>]]
      BY <2>1 DEF TakeSamples
    <3>1. \A s \in batch : BucketsOf[s] \subseteq UNION {BucketsOf[t] : t \in batch}
      OBVIOUS
    <3> QED BY <3>1
  <2>2. CASE AbortReduction(r)
    <3>1. reducer' = [reducer EXCEPT ![r] = [samples |-> {}, todo |-> {}, merged |-> <<>>]]
      BY <2>2 DEF AbortReduction, NotReducing
    <3>2. {} \in SUBSET (outbox \ LockedSamples) /\ \A s \in {} : BucketsOf[s] \subseteq {}
      OBVIOUS
    <3> QED BY <3>1, <3>2
  <2> QED BY <2>1, <2>2
<1>3. PICK todo : /\ reducer' = [reducer EXCEPT ![r] = [samples |-> batch, todo |-> todo, merged |-> <<>>]]
                  /\ \A s \in batch : BucketsOf[s] \subseteq todo
  BY <1>2
<1>4. /\ DOMAIN reducer' = Reducers /\ \A q \in Reducers : q # r => reducer'[q] = reducer[q]
      /\ reducer'[r].samples = batch /\ reducer'[r].todo = todo /\ DOMAIN reducer'[r].merged = {}
      /\ reducer'[r] = [samples |-> batch, todo |-> todo, merged |-> <<>>]
  BY <1>3 DEF CountIInv
<1>5. ASSUME NEW q \in Reducers PROVE ReductionCounts(q)'
  <2>1. CASE q = r
    BY <1>1, <1>3, <1>4, <2>1 DEF ReductionCounts, LockedSamples
  <2>2. CASE q # r
    <3>1. ReductionCounts(q) /\ reducer'[q] = reducer[q]
      BY <1>4, <2>2 DEF CountIInv
    <3> QED BY <1>1, <3>1 DEF ReductionCounts, Counts, Buckets
  <2> QED BY <2>1, <2>2
<1>6. ASSUME NEW p \in Reducers, NEW q \in Reducers, p # q
      PROVE  /\ reducer'[p].samples \intersect reducer'[q].samples = {}
             /\ DOMAIN reducer'[p].merged \intersect DOMAIN reducer'[q].merged = {}
  <2>1. \A t \in Reducers : t # r => batch \intersect reducer[t].samples = {}
    BY <1>2 DEF LockedSamples
  <2> QED BY <1>4, <1>6, <2>1 DEF CountIInv
<1> QED BY <1>1, <1>4, <1>5, <1>6 DEF CountIInv, Counts, Buckets

(* A bucket is merged under its lock: the row that was read is the one the  *)
(* commit replaces (Reduce's FOR UPDATE).                                  *)
LEMMA KeepsMerge ==
  ASSUME CountIInv, NEW r \in Reducers, MergeBucket(r)
  PROVE  CountIInv'
<1>1. UNCHANGED <<enqueued, outbox, bucket>>
  BY DEF MergeBucket
<1> DEFINE old == reducer[r]
           batch(b, s) == IF s \in old.samples /\ b \in BucketsOf[s] THEN 1 ELSE 0
           sum(b) == [s \in Samples |-> bucket[b][s] + batch(b, s)]
           merge(b) == [c \in DOMAIN old.merged \union {b} |-> IF c # b THEN old.merged[c] ELSE sum(b)]
<1>2. PICK b : /\ \A q \in Reducers : b \notin DOMAIN reducer[q].merged
               /\ reducer' = [reducer EXCEPT ![r].todo = old.todo \ {b}, ![r].merged = merge(b)]
  BY DEF MergeBucket, HoldsBucket
<1>3. ReductionCounts(r)
  BY DEF CountIInv
<1>4. /\ DOMAIN reducer' = Reducers /\ \A q \in Reducers : q # r => reducer'[q] = reducer[q]
      /\ reducer'[r] = [samples |-> old.samples, todo |-> old.todo \ {b}, merged |-> merge(b)]
  <2>1. DOMAIN reducer' = Reducers /\ \A q \in Reducers : q # r => reducer'[q] = reducer[q]
    BY <1>2 DEF CountIInv
  <2>2. reducer'[r] = [old EXCEPT !.todo = old.todo \ {b}, !.merged = merge(b)]
    BY <1>2 DEF CountIInv
  <2>3. old = [samples |-> old.samples, todo |-> old.todo, merged |-> old.merged]
    BY <1>3 DEF ReductionCounts
  <2> HIDE DEF old, merge
  <2> QED BY <2>1, <2>2, <2>3
<1>5. DOMAIN merge(b) = DOMAIN old.merged \union {b} /\ \A c \in DOMAIN old.merged : c # b /\ merge(b)[c] = old.merged[c]
      /\ merge(b)[b] = sum(b)
  BY <1>2
<1>6. ReductionCounts(r)'
  <2>1. \A s \in old.samples : BucketsOf[s] \subseteq (old.todo \ {b}) \union DOMAIN merge(b)
    BY <1>3, <1>5 DEF ReductionCounts
  <2>2. ASSUME NEW c \in Buckets \intersect DOMAIN merge(b)
        PROVE  /\ merge(b)[c] \in [Samples -> Nat]
               /\ \A s \in Samples : merge(b)[c][s] = IF s \in enqueued THEN Counts(c, s, outbox \ old.samples) ELSE 0
    <3>1. CASE c # b
      BY <1>3, <1>5, <3>1 DEF ReductionCounts
    <3>2. CASE c = b
      <4>1. merge(b)[c] = sum(b) /\ b \in Buckets
        BY <1>5, <3>2
      <4>2. ASSUME NEW s \in Samples
            PROVE  /\ bucket[b][s] + batch(b, s) \in Nat
                   /\ bucket[b][s] + batch(b, s) = IF s \in enqueued THEN Counts(b, s, outbox \ old.samples) ELSE 0
        <5>1. bucket[b][s] = IF s \in enqueued THEN Counts(b, s, outbox) ELSE 0
          BY <4>1 DEF CountIInv
        <5>2. old.samples \subseteq outbox /\ outbox \subseteq enqueued
          BY <1>3 DEF ReductionCounts, CountIInv
        <5> QED BY <5>1, <5>2 DEF Counts
      <4> QED BY <3>2, <4>1, <4>2
    <3> QED BY <3>1, <3>2
  <2>3. /\ reducer'[r].samples = old.samples /\ reducer'[r].todo = old.todo \ {b} /\ reducer'[r].merged = merge(b)
        /\ old.samples \subseteq outbox
    BY <1>3, <1>4 DEF ReductionCounts
  <2> HIDE DEF merge
  <2> QED BY <1>1, <1>4, <2>1, <2>2, <2>3 DEF ReductionCounts, Counts, Buckets
<1>7. ASSUME NEW q \in Reducers PROVE ReductionCounts(q)'
  <2>1. CASE q # r
    <3>1. ReductionCounts(q) /\ reducer'[q] = reducer[q]
      BY <1>4, <2>1 DEF CountIInv
    <3> QED BY <1>1, <3>1 DEF ReductionCounts, Counts, Buckets
  <2> QED BY <1>6, <2>1
<1>8. ASSUME NEW p \in Reducers, NEW q \in Reducers, p # q
      PROVE  /\ reducer'[p].samples \intersect reducer'[q].samples = {}
             /\ DOMAIN reducer'[p].merged \intersect DOMAIN reducer'[q].merged = {}
  <2>1. /\ reducer'[r].samples = old.samples /\ DOMAIN reducer'[r].merged = DOMAIN old.merged \union {b}
    BY <1>4, <1>5
  <2> QED BY <1>2, <1>4, <1>8, <2>1 DEF CountIInv
<1> QED BY <1>1, <1>4, <1>7, <1>8 DEF CountIInv, Counts, Buckets

(* The merged buckets and the deletion of the batch commit together.       *)
LEMMA KeepsCommit ==
  ASSUME CountIInv, NEW r \in Reducers, CommitReduction(r)
  PROVE  CountIInv'
<1> DEFINE old == reducer[r]
<1>1. /\ old.todo = {} /\ enqueued' = enqueued /\ outbox' = outbox \ old.samples
      /\ bucket' = [b \in Buckets |-> IF b \in DOMAIN old.merged THEN old.merged[b] ELSE bucket[b]]
      /\ reducer' = [reducer EXCEPT ![r] = NotReducing]
  BY DEF CommitReduction, HoldsBucket
<1>2. ReductionCounts(r)
  BY DEF CountIInv
<1>3. /\ DOMAIN reducer' = Reducers /\ \A q \in Reducers : q # r => reducer'[q] = reducer[q]
      /\ reducer'[r] = [samples |-> {}, todo |-> {}, merged |-> <<>>] /\ DOMAIN reducer'[r].merged = {}
  BY <1>1 DEF CountIInv, NotReducing
<1>4. \A s \in old.samples : BucketsOf[s] \subseteq DOMAIN old.merged
  BY <1>1, <1>2 DEF ReductionCounts
<1>5. ASSUME NEW q \in Reducers PROVE ReductionCounts(q)'
  <2>1. CASE q = r
    BY <1>3, <2>1 DEF ReductionCounts
  <2>2. CASE q # r
    <3>1. /\ ReductionCounts(q) /\ reducer'[q] = reducer[q] /\ reducer[q].samples \intersect old.samples = {}
          /\ DOMAIN reducer[q].merged \intersect DOMAIN old.merged = {}
      BY <1>3, <2>2 DEF CountIInv
    <3>2. ASSUME NEW b \in Buckets \intersect DOMAIN reducer[q].merged, NEW s \in Samples
          PROVE  Counts(b, s, outbox' \ reducer[q].samples) = Counts(b, s, outbox \ reducer[q].samples)
      BY <1>1, <1>4, <3>1 DEF Counts
    <3> QED BY <1>1, <3>1, <3>2 DEF ReductionCounts, Counts, Buckets
  <2> QED BY <2>1, <2>2
<1>6. bucket' \in [Buckets -> [Samples -> Nat]]
  <2>1. \A b \in Buckets \intersect DOMAIN old.merged : old.merged[b] \in [Samples -> Nat]
    BY <1>2 DEF ReductionCounts
  <2> QED BY <1>1, <2>1 DEF CountIInv
<1>7. ASSUME NEW b \in Buckets, NEW s \in Samples
      PROVE  bucket'[b][s] = IF s \in enqueued THEN Counts(b, s, outbox') ELSE 0
  <2>1. CASE b \in DOMAIN old.merged
    BY <1>1, <1>2, <2>1 DEF ReductionCounts
  <2>2. CASE b \notin DOMAIN old.merged
    <3>1. s \in old.samples => b \notin BucketsOf[s]
      BY <1>4, <2>2
    <3>2. bucket'[b][s] = bucket[b][s]
      BY <1>1, <2>2
    <3> QED BY <1>1, <3>1, <3>2 DEF CountIInv, Counts
  <2> QED BY <2>1, <2>2
<1>8. ASSUME NEW p \in Reducers, NEW q \in Reducers, p # q
      PROVE  /\ reducer'[p].samples \intersect reducer'[q].samples = {}
             /\ DOMAIN reducer'[p].merged \intersect DOMAIN reducer'[q].merged = {}
  BY <1>3, <1>8 DEF CountIInv
<1> QED BY <1>1, <1>3, <1>5, <1>6, <1>7, <1>8 DEF CountIInv, Counts, Buckets

(* Every step of the component keeps the invariant.                        *)
LEMMA NextIInv == CountIInv /\ [TelemetryNext]_telemetryVars => CountIInv'
<1> SUFFICES ASSUME CountIInv, [TelemetryNext]_telemetryVars PROVE CountIInv'
  OBVIOUS
<1>1. CASE UNCHANGED telemetryVars
  BY <1>1 DEF telemetryVars, CountIInv, ReductionCounts, Counts, Buckets
<1>2. CASE TelemetryNext
  BY <1>2, KeepsEnqueue, KeepsTakes, KeepsMerge, KeepsCommit DEF TelemetryNext
<1> QED BY <1>1, <1>2

(* Whatever batches compete, time out or crash, a sample is counted once by *)
(* each of its buckets when it leaves the outbox, and by none before.      *)
THEOREM SamplesCountedOnce == TelemetrySpec => []CountedOnce
<1>1. TelemetryInit => CountIInv
  BY InitIInv
<1>2. CountIInv /\ [TelemetryNext]_telemetryVars => CountIInv'
  BY NextIInv
<1>3. CountIInv => CountedOnce
  BY DEF CountIInv, CountedOnce, Counts
<1> QED BY <1>1, <1>2, <1>3, PTL DEF TelemetrySpec
-----------------------------------------------------------------------------
(* The span log. The spans of a task, and those its trace has.             *)
Of(t) == {n \in DOMAIN recorded : recorded[n].task = t}
Written(t) == UNION {trace[t][i] : i \in DOMAIN trace[t]}
InBatches == UNION batches

(* A span is in one place: in the buffer, in one group of the recorder,    *)
(* with the goroutine of its task, or once in its task's trace.            *)
SpanTypes ==
  /\ recorded \in Seq([task : Traced, claim : Nat])
  /\ turn \in [Traced -> [pc : {"idle", "run", "park", "settle", "hook", "close"}, claim : Nat]]
  /\ epoch \in [Traced -> Nat] /\ finishedBy \in [Traced -> Nat]
  /\ DOMAIN owned = Traced /\ DOMAIN held = Traced /\ DOMAIN trace = Traced
OnePlace ==
  /\ buffer \subseteq DOMAIN recorded /\ dropped \subseteq DOMAIN recorded
  /\ InBatches \subseteq DOMAIN recorded /\ InBatches \intersect buffer = {}
  /\ \A g, h \in batches : g # h => g \intersect h = {}
  /\ \A g \in batches : \A m, n \in g : recorded[m].task = recorded[n].task
Apart(t) ==
  /\ held[t] \subseteq Of(t) /\ held[t] \intersect (buffer \union InBatches) = {}
  /\ Written(t) \subseteq Of(t) /\ Written(t) \intersect (buffer \union InBatches \union held[t]) = {}
Once(t) ==
  /\ trace[t] \in Seq(SUBSET Nat)
  /\ \A i, j \in DOMAIN trace[t] : i # j => trace[t][i] \intersect trace[t][j] = {}

(* What a claim knows of its spans: none is lost on the way to the         *)
(* transaction that finishes the task, and once they are taken to finish   *)
(* it none is behind.                                                      *)
Claims(t) ==
  /\ turn[t].claim <= epoch[t] /\ \A n \in Of(t) : recorded[n].claim <= epoch[t]
  /\ turn[t].pc \in {"idle", "run"} => held[t] = {}
Accounted(t) ==
  turn[t].pc \in {"run", "settle", "hook", "close"} =>
    \A n \in Of(t) : recorded[n].claim = turn[t].claim =>
      n \in buffer \union InBatches \union held[t] \union dropped \union Written(t)
NoneBehind(t) ==
  turn[t].pc \in {"settle", "close"} => Of(t) \intersect (buffer \union InBatches) = {}
Complete(t) ==
  finishedBy[t] # 0 =>
    /\ turn[t].pc = "idle"
    /\ \A n \in Of(t) : recorded[n].claim = finishedBy[t] => n \in dropped \union Written(t)
SpanTask(t) == Apart(t) /\ Once(t) /\ Claims(t) /\ Accounted(t) /\ NoneBehind(t) /\ Complete(t)
SpanInv == SpanTypes /\ OnePlace /\ \A t \in Traced : SpanTask(t)

(* Nothing is recorded.                                                    *)
LEMMA SpanInitInv == SpanInit => SpanInv
<1> SUFFICES ASSUME SpanInit PROVE SpanInv
  OBVIOUS
<1>1. SpanTypes
  BY DEF SpanInit, SpanTypes, Between
<1>2. OnePlace
  BY DEF SpanInit, OnePlace, InBatches
<1>3. ASSUME NEW t \in Traced PROVE SpanTask(t)
  <2>1. Of(t) = {} /\ Written(t) = {} /\ held[t] = {} /\ trace[t] = <<>> /\ finishedBy[t] = 0
    BY DEF SpanInit, Of, Written
  <2>2. turn[t].pc = "idle" /\ turn[t].claim = 0 /\ epoch[t] = 0
    BY DEF SpanInit, Between
  <2> QED BY <2>1, <2>2 DEF SpanTask, Apart, Once, Claims, Accounted, NoneBehind, Complete
<1> QED BY <1>1, <1>2, <1>3 DEF SpanInv

(* A span has a task and a claim.                                          *)
LEMMA SpanFields ==
  ASSUME SpanTypes
  PROVE  /\ DOMAIN recorded \subseteq Nat
         /\ \A n \in DOMAIN recorded : recorded[n].task \in Traced /\ recorded[n].claim \in Nat
<1> DEFINE Span == [task : Traced, claim : Nat]
<1>1. recorded \in Seq(Span)
  BY DEF SpanTypes
<1>2. \A x \in Span : x.task \in Traced /\ x.claim \in Nat
  OBVIOUS
<1> HIDE DEF Span
<1>3. DOMAIN recorded = 1..Len(recorded) /\ Len(recorded) \in Nat
  BY <1>1
<1>4. \A n \in 1..Len(recorded) : recorded[n] \in Span
  BY <1>1
<1>5. 1..Len(recorded) \subseteq Nat
  BY <1>3
<1> QED BY <1>2, <1>3, <1>4, <1>5

(* What a transaction writes joins its task's trace and no other.          *)
LEMMA EmitsOnce ==
  ASSUME NEW t \in Traced, NEW spans \in SUBSET Nat, DOMAIN trace = Traced, EmitSpans(t, spans),
         Once(t), spans \intersect Written(t) = {}
  PROVE  /\ DOMAIN trace' = Traced /\ \A u \in Traced : u # t => trace'[u] = trace[u]
         /\ Written(t)' = Written(t) \union spans /\ Once(t)'
<1>1. CASE spans = {}
  BY <1>1 DEF EmitSpans, Once, Written
<1>2. CASE spans # {}
  <2>1. trace' = [trace EXCEPT ![t] = Append(trace[t], spans)]
    BY <1>2 DEF EmitSpans
  <2>2. trace[t] \in Seq(SUBSET Nat) /\ trace'[t] = Append(trace[t], spans)
    BY <2>1 DEF Once
  <2> DEFINE s == trace[t]
  <2> HIDE DEF s
  <2>3. /\ Append(s, spans) \in Seq(SUBSET Nat) /\ Len(Append(s, spans)) = Len(s) + 1 /\ Len(s) \in Nat
        /\ Append(s, spans)[Len(s) + 1] = spans
        /\ \A i \in 1..Len(s) : Append(s, spans)[i] = s[i]
        /\ DOMAIN s = 1..Len(s) /\ DOMAIN Append(s, spans) = 1..Len(s) + 1
    BY <2>2 DEF s
  <2>4. /\ DOMAIN trace[t] = 1..Len(s) /\ DOMAIN trace'[t] = 1..Len(s) + 1 /\ trace'[t][Len(s) + 1] = spans
        /\ \A i \in 1..Len(s) : trace'[t][i] = trace[t][i]
    BY <2>2, <2>3 DEF s
  <2>5. Written(t)' = Written(t) \union spans
    BY <2>3, <2>4 DEF Written
  <2>6. \A i \in DOMAIN trace[t] : trace[t][i] \intersect spans = {}
    BY DEF Written
  <2>7. ASSUME NEW i \in DOMAIN trace'[t], NEW j \in DOMAIN trace'[t], i # j
        PROVE  trace'[t][i] \intersect trace'[t][j] = {}
    BY <2>3, <2>4, <2>6, <2>7 DEF Once
  <2> QED BY <2>1, <2>2, <2>3, <2>5, <2>7 DEF Once, s
<1> QED BY <1>1, <1>2

(* A task whose goroutine, row, spans and trace a step leaves alone keeps  *)
(* its part, when its spans do not leave the places a step moves them in.  *)
LEMMA OthersKeep ==
  ASSUME NEW u \in Traced, SpanTask(u), epoch'[u] = epoch[u], turn'[u] = turn[u], held'[u] = held[u],
         trace'[u] = trace[u], finishedBy'[u] = finishedBy[u], Of(u)' = Of(u),
         \A n \in Of(u) : recorded'[n] = recorded[n], dropped \subseteq dropped',
         \A n \in Of(u) : n \in buffer' \union InBatches' <=> n \in buffer \union InBatches
  PROVE  SpanTask(u)'
<1>1. Written(u)' = Written(u)
  BY DEF Written
<1>2. Apart(u)'
  BY <1>1 DEF SpanTask, Apart
<1>3. Once(u)'
  BY DEF SpanTask, Once
<1>4. Claims(u)' /\ Accounted(u)' /\ NoneBehind(u)'
  BY <1>1 DEF SpanTask, Claims, Accounted, NoneBehind
<1>5. Complete(u)'
  BY <1>1 DEF SpanTask, Complete
<1> QED BY <1>2, <1>3, <1>4, <1>5 DEF SpanTask

(* A claim starts with no span of its own (the claim of worker.go).        *)
LEMMA KeepsClaim ==
  ASSUME SpanInv, NEW t \in Traced, ClaimTask(t) \/ LoseClaim(t)
  PROVE  SpanInv'
<1>1. UNCHANGED <<held, buffer, batches, recorded, dropped, trace, finishedBy>>
  BY DEF ClaimTask, LoseClaim
<1>2. OnePlace' /\ \A u \in Traced : Of(u)' = Of(u)
  BY <1>1 DEF SpanInv, OnePlace, InBatches, Of
<1>3. CASE ClaimTask(t)
  <2>1. /\ turn[t].pc = "idle" /\ finishedBy[t] = 0 /\ owned' = [owned EXCEPT ![t] = TRUE]
        /\ epoch' = [epoch EXCEPT ![t] = epoch[t] + 1]
        /\ turn' = [turn EXCEPT ![t] = [pc |-> "run", claim |-> epoch[t] + 1]]
    BY <1>3 DEF ClaimTask, Between
  <2>2. SpanTypes'
    BY <1>1, <2>1 DEF SpanInv, SpanTypes
  <2>3. epoch[t] \in Nat /\ epoch'[t] = epoch[t] + 1 /\ turn'[t] = [pc |-> "run", claim |-> epoch[t] + 1]
    BY <2>1 DEF SpanInv, SpanTypes
  <2>4. \A n \in Of(t) : recorded[n].claim \in Nat
    BY SpanFields DEF SpanInv, Of
  <2>5. SpanTask(t)
    BY DEF SpanInv
  <2>6. Written(t)' = Written(t)
    BY <1>1 DEF Written
  <2>7. Apart(t)' /\ Once(t)'
    BY <1>1, <1>2, <2>5, <2>6 DEF SpanTask, Apart, Once, InBatches
  <2>8. Claims(t)'
    BY <1>1, <1>2, <2>1, <2>3, <2>4, <2>5 DEF SpanTask, Claims
  <2>9. \A n \in Of(t) : recorded[n].claim # epoch[t] + 1
    BY <2>3, <2>4, <2>5 DEF SpanTask, Claims
  <2>10. Accounted(t)' /\ NoneBehind(t)' /\ Complete(t)'
    BY <1>1, <1>2, <2>1, <2>3, <2>9 DEF Accounted, NoneBehind, Complete
  <2>11. SpanTask(t)'
    BY <2>7, <2>8, <2>10 DEF SpanTask
  <2>12. ASSUME NEW u \in Traced, u # t PROVE SpanTask(u)'
    <3>1. epoch'[u] = epoch[u] /\ turn'[u] = turn[u]
      BY <2>1, <2>12 DEF SpanInv, SpanTypes
    <3> QED BY <1>1, <1>2, <3>1, OthersKeep DEF SpanInv, InBatches
  <2> QED BY <1>2, <2>2, <2>11, <2>12 DEF SpanInv
<1>4. CASE LoseClaim(t)
  <2>1. UNCHANGED <<epoch, turn>> /\ owned' = [owned EXCEPT ![t] = FALSE]
    BY <1>4 DEF LoseClaim
  <2>2. SpanTypes'
    BY <1>1, <2>1 DEF SpanInv, SpanTypes
  <2>3. ASSUME NEW u \in Traced PROVE SpanTask(u)'
    BY <1>1, <1>2, <2>1, OthersKeep DEF SpanInv, InBatches
  <2> QED BY <1>2, <2>2, <2>3 DEF SpanInv
<1> QED BY <1>3, <1>4

(* A new span is in the buffer or given up (record).                       *)
LEMMA KeepsRecord ==
  ASSUME SpanInv, NEW t \in Traced, Record(t)
  PROVE  SpanInv'
<1> DEFINE n == Len(recorded) + 1
           span == [task |-> t, claim |-> turn[t].claim]
<1>1. /\ turn[t].pc \in {"run", "hook"} /\ recorded' = Append(recorded, span)
      /\ \/ buffer' = buffer \union {n} /\ dropped' = dropped
         \/ dropped' = dropped \union {n} /\ buffer' = buffer
      /\ UNCHANGED <<epoch, owned, turn, held, batches, trace, finishedBy>>
  BY DEF Record
<1>2. recorded \in Seq([task : Traced, claim : Nat]) /\ span \in [task : Traced, claim : Nat]
  BY DEF SpanInv, SpanTypes
<1> HIDE DEF span
<1>3. /\ recorded' \in Seq([task : Traced, claim : Nat]) /\ Len(recorded) \in Nat
      /\ DOMAIN recorded = 1..Len(recorded) /\ DOMAIN recorded' = 1..n
      /\ recorded'[n] = span /\ \A m \in DOMAIN recorded : recorded'[m] = recorded[m]
  BY <1>1, <1>2
<1>4. n \notin DOMAIN recorded /\ DOMAIN recorded' = DOMAIN recorded \union {n}
  BY <1>3
<1> HIDE DEF n
<1>5. span.task = t /\ span.claim = turn[t].claim
  BY DEF span
<1>6. Of(t)' = Of(t) \union {n} /\ \A u \in Traced : u # t => Of(u)' = Of(u)
  BY <1>3, <1>4, <1>5 DEF Of
<1>7. SpanTypes'
  BY <1>1, <1>3 DEF SpanInv, SpanTypes
<1>8. OnePlace'
  BY <1>1, <1>3, <1>4 DEF SpanInv, OnePlace, InBatches
<1>9. ASSUME NEW u \in Traced, u # t PROVE SpanTask(u)'
  <2>1. n \notin Of(u)
    BY <1>4 DEF Of
  <2>2. \A m \in Of(u) : recorded'[m] = recorded[m]
    BY <1>3 DEF Of
  <2>3. \A m \in Of(u) : m \in buffer' \union InBatches' <=> m \in buffer \union InBatches
    BY <1>1, <2>1 DEF InBatches
  <2> QED BY <1>1, <1>6, <1>9, <2>2, <2>3, OthersKeep DEF SpanInv
<1>10. SpanTask(t)'
  <2>1. SpanTask(t) /\ OnePlace
    BY DEF SpanInv
  <2>2. Written(t)' = Written(t) /\ InBatches' = InBatches
    BY <1>1 DEF Written, InBatches
  <2>3. n \notin Of(t) /\ \A m \in Of(t) : recorded'[m] = recorded[m]
    BY <1>3, <1>4 DEF Of
  <2>4. Apart(t)'
    BY <1>1, <1>6, <2>1, <2>2, <2>3 DEF SpanTask, Apart
  <2>5. Once(t)' /\ NoneBehind(t)'
    BY <1>1, <2>1 DEF SpanTask, Once, NoneBehind
  <2>6. Claims(t)'
    BY <1>1, <1>3, <1>5, <1>6, <2>1, <2>3 DEF SpanTask, Claims
  <2>7. Accounted(t)'
    <3> SUFFICES ASSUME NEW m \in Of(t)', recorded'[m].claim = turn[t].claim
                 PROVE  m \in buffer' \union InBatches' \union held'[t] \union dropped' \union Written(t)'
      BY <1>1 DEF Accounted
    <3>1. CASE m \in Of(t)
      BY <1>1, <2>1, <2>2, <2>3, <3>1 DEF SpanTask, Accounted
    <3>2. CASE m = n
      BY <1>1, <3>2
    <3> QED BY <1>6, <3>1, <3>2
  <2>8. finishedBy[t] = 0
    BY <1>1, <2>1 DEF SpanTask, Complete
  <2> QED BY <1>1, <2>4, <2>5, <2>6, <2>7, <2>8 DEF SpanTask, Complete
<1> QED BY <1>7, <1>8, <1>9, <1>10 DEF SpanInv

(* The groups of a batch are of one task each and have what left the       *)
(* buffer (take).                                                          *)
LEMMA KeepsRecorderTakes ==
  ASSUME SpanInv, RecorderTakes
  PROVE  SpanInv'
<1>1. /\ batches = {} /\ buffer' = buffer \ Taken /\ Taken \subseteq buffer
      /\ batches' = {{n \in Taken : recorded[n].task = t} : t \in {recorded[n].task : n \in Taken}}
      /\ UNCHANGED <<epoch, owned, turn, held, recorded, dropped, trace, finishedBy>>
  BY DEF RecorderTakes, Taken
<1> HIDE DEF Taken
<1>2. \A g \in batches' : \E u : g = {n \in Taken : recorded[n].task = u}
  BY <1>1
<1>3. \A n \in Taken : \E g \in batches' : n \in g
  <2> SUFFICES ASSUME NEW n \in Taken PROVE \E g \in batches' : n \in g
    OBVIOUS
  <2>1. {m \in Taken : recorded[m].task = recorded[n].task} \in batches'
    BY <1>1
  <2> QED BY <2>1
<1>4. InBatches' = Taken /\ InBatches = {}
  BY <1>1, <1>2, <1>3 DEF InBatches
<1>5. SpanTypes'
  BY <1>1 DEF SpanInv, SpanTypes
<1>6. \A g, h \in batches' : g # h => g \intersect h = {}
  BY <1>2
<1>7. \A g \in batches' : \A m, n \in g : recorded[m].task = recorded[n].task
  BY <1>2
<1>8. OnePlace'
  BY <1>1, <1>4, <1>6, <1>7 DEF SpanInv, OnePlace
<1>9. ASSUME NEW u \in Traced PROVE SpanTask(u)'
  <2>1. Of(u)' = Of(u)
    BY <1>1 DEF Of
  <2>2. buffer' \union InBatches' = buffer \union InBatches
    BY <1>1, <1>4
  <2> QED BY <1>1, <2>1, <2>2, OthersKeep DEF SpanInv
<1> QED BY <1>5, <1>8, <1>9 DEF SpanInv

(* A group is written to its task's trace or given up as a whole (write).  *)
LEMMA KeepsRecorderWrites ==
  ASSUME SpanInv, RecorderWrites
  PROVE  SpanInv'
<1>1. PICK group \in batches : \E first \in group :
        /\ batches' = batches \ {group}
        /\ \/ EmitSpans(recorded[first].task, group) /\ dropped' = dropped
           \/ dropped' = dropped \union group /\ trace' = trace
        /\ UNCHANGED <<epoch, owned, turn, held, buffer, recorded, finishedBy>>
  BY DEF RecorderWrites
<1>2. PICK first \in group :
        /\ batches' = batches \ {group}
        /\ \/ EmitSpans(recorded[first].task, group) /\ dropped' = dropped
           \/ dropped' = dropped \union group /\ trace' = trace
        /\ UNCHANGED <<epoch, owned, turn, held, buffer, recorded, finishedBy>>
  BY <1>1
<1>3. SpanTypes /\ OnePlace /\ group \subseteq InBatches /\ group \subseteq DOMAIN recorded
  BY DEF SpanInv, OnePlace, InBatches
<1>4. PICK t \in Traced : t = recorded[first].task
  BY <1>3, SpanFields
<1>5. group \subseteq Of(t)
  BY <1>3, <1>4 DEF OnePlace, Of
<1>6. InBatches' = InBatches \ group
  BY <1>2, <1>3 DEF OnePlace, InBatches
<1>7. \A u \in Traced : Of(u)' = Of(u)
  BY <1>2 DEF Of
<1>8. SpanTask(t) /\ t \in Traced
  BY <1>4 DEF SpanInv
<1>9. \/ EmitSpans(t, group) /\ dropped' = dropped
      \/ dropped' = dropped \union group /\ trace' = trace
  BY <1>2, <1>4
<1>10. /\ DOMAIN trace' = Traced /\ \A u \in Traced : u # t => trace'[u] = trace[u]
       /\ Once(t)' /\ \/ Written(t)' = Written(t) \union group /\ dropped' = dropped
                      \/ Written(t)' = Written(t) /\ dropped' = dropped \union group
  <2>1. CASE EmitSpans(t, group) /\ dropped' = dropped
    <3>1. group \in SUBSET Nat /\ DOMAIN trace = Traced
      BY <1>3, SpanFields DEF SpanTypes
    <3>2. Once(t) /\ group \intersect Written(t) = {}
      BY <1>3, <1>8 DEF SpanTask, Apart
    <3> QED BY <1>8, <2>1, <3>1, <3>2, EmitsOnce
  <2>2. CASE dropped' = dropped \union group /\ trace' = trace
    <3> QED BY <1>3, <1>8, <2>2 DEF SpanTypes, SpanTask, Once, Written
  <2> QED BY <1>9, <2>1, <2>2
<1>11. SpanTypes'
  BY <1>2, <1>3, <1>10 DEF SpanTypes
<1>12. OnePlace'
  <2>1. dropped' \subseteq DOMAIN recorded
    BY <1>2, <1>3 DEF OnePlace
  <2> QED BY <1>2, <1>3, <1>6, <2>1 DEF OnePlace
<1>13. SpanTask(t)'
  <2>1. Of(t)' = Of(t) /\ InBatches' \union group = InBatches \union group /\ group \intersect (InBatches' \union buffer) = {}
    BY <1>3, <1>6, <1>7, <1>8 DEF OnePlace
  <2>2. Apart(t)'
    BY <1>2, <1>3, <1>5, <1>6, <1>8, <1>10, <2>1 DEF SpanTask, Apart
  <2>3. Claims(t)'
    BY <1>2, <1>8, <2>1 DEF SpanTask, Claims
  <2>4. Accounted(t)'
    BY <1>2, <1>6, <1>8, <1>10, <2>1 DEF SpanTask, Accounted
  <2>5. NoneBehind(t)'
    BY <1>2, <1>6, <1>8, <2>1 DEF SpanTask, NoneBehind
  <2>6. Complete(t)'
    BY <1>2, <1>8, <1>10, <2>1 DEF SpanTask, Complete
  <2> QED BY <1>10, <2>2, <2>3, <2>4, <2>5, <2>6 DEF SpanTask
<1>14. ASSUME NEW u \in Traced, u # t PROVE SpanTask(u)'
  <2>1. \A n \in Of(u) : n \notin group
    BY <1>5, <1>14 DEF Of
  <2>2. dropped \subseteq dropped'
    BY <1>2
  <2>3. \A n \in Of(u) : n \in buffer' \union InBatches' <=> n \in buffer \union InBatches
    BY <1>2, <1>6, <2>1
  <2> QED BY <1>2, <1>7, <1>10, <1>14, <2>2, <2>3, OthersKeep DEF SpanInv
<1> QED BY <1>11, <1>12, <1>13, <1>14 DEF SpanInv

(* What a path takes was in the buffer, and it leaves none of its task     *)
(* there or in a batch (takeTask).                                         *)
LEMMA KeepsTake ==
  ASSUME SpanInv, NEW t \in Traced, NEW from, NEW to, NEW kept, Take(t, from, to, kept),
         \/ from = "run" /\ to \in {"park", "settle"} /\ kept = {}
         \/ from = "hook" /\ to = "park" /\ kept = {}
         \/ from = "hook" /\ to = "close" /\ kept = held[t]
  PROVE  SpanInv'
<1>1. /\ turn[t].pc = from /\ ~InFlight(t) /\ buffer' = buffer \ Mine(t)
      /\ held' = [held EXCEPT ![t] = kept \union Mine(t)]
      /\ turn' = [turn EXCEPT ![t].pc = to]
      /\ UNCHANGED <<epoch, owned, batches, recorded, dropped, trace, finishedBy>>
  BY DEF Take
<1>2. SpanTypes /\ OnePlace /\ SpanTask(t)
  BY DEF SpanInv
<1>3. /\ DOMAIN held' = Traced /\ held'[t] = kept \union Mine(t)
      /\ \A u \in Traced : u # t => held'[u] = held[u] /\ turn'[u] = turn[u]
  BY <1>1, <1>2 DEF SpanTypes
<1>4. turn'[t].pc = to /\ turn'[t].claim = turn[t].claim
  BY <1>1, <1>2 DEF SpanTypes
<1>5. SpanTypes'
  <2>1. turn[t] \in [pc : {"idle", "run", "park", "settle", "hook", "close"}, claim : Nat] /\ to \in {"park", "settle", "close"}
    BY <1>2 DEF SpanTypes
  <2>2. [turn[t] EXCEPT !.pc = to] \in [pc : {"idle", "run", "park", "settle", "hook", "close"}, claim : Nat]
    BY <2>1
  <2>3. turn' \in [Traced -> [pc : {"idle", "run", "park", "settle", "hook", "close"}, claim : Nat]]
    BY <1>1, <1>2, <2>2 DEF SpanTypes
  <2> QED BY <1>1, <1>2, <1>3, <2>3 DEF SpanTypes
<1>6. /\ InBatches' = InBatches /\ Written(t)' = Written(t) /\ \A u \in Traced : Of(u)' = Of(u)
  BY <1>1 DEF InBatches, Written, Of
<1>7. Mine(t) = Of(t) \intersect buffer /\ Of(t) \intersect InBatches = {}
  BY <1>1, <1>2 DEF OnePlace, InFlight, Mine, Of, InBatches
<1>8. OnePlace'
  BY <1>1, <1>2, <1>6 DEF OnePlace
<1>9. SpanTask(t)'
  <2>1. kept \subseteq held[t]
    OBVIOUS
  <2>2. Apart(t)'
    BY <1>1, <1>2, <1>3, <1>6, <1>7, <2>1 DEF SpanTask, Apart, OnePlace
  <2>3. Once(t)'
    BY <1>1, <1>2 DEF SpanTask, Once
  <2>4. Claims(t)'
    BY <1>1, <1>2, <1>4, <1>6 DEF SpanTask, Claims
  <2>5. to \in {"settle", "close"} => kept = held[t]
    BY <1>1, <1>2 DEF SpanTask, Claims
  <2>6. Accounted(t)'
    BY <1>1, <1>2, <1>3, <1>4, <1>6, <1>7, <2>5 DEF SpanTask, Accounted
  <2>7. NoneBehind(t)'
    BY <1>1, <1>6, <1>7 DEF NoneBehind
  <2>8. finishedBy'[t] = 0
    BY <1>1, <1>2 DEF SpanTask, Complete
  <2> QED BY <2>2, <2>3, <2>4, <2>6, <2>7, <2>8 DEF SpanTask, Complete
<1>10. ASSUME NEW u \in Traced, u # t PROVE SpanTask(u)'
  <2>1. \A n \in Of(u) : n \notin Mine(t)
    BY <1>7, <1>10 DEF Of
  <2>2. \A n \in Of(u) : n \in buffer' \union InBatches' <=> n \in buffer \union InBatches
    BY <1>1, <1>6, <2>1
  <2> QED BY <1>1, <1>3, <1>6, <1>10, <2>2, OthersKeep DEF SpanInv
<1> QED BY <1>5, <1>8, <1>9, <1>10 DEF SpanInv

(* The fenced transaction of a path that gives up the claim: when it       *)
(* finishes the task, what the goroutine holds is all that is missing.     *)
LEMMA KeepsRelease ==
  ASSUME SpanInv, NEW t \in Traced, NEW closes \in BOOLEAN, Release(t, closes),
         turn[t].pc # "idle", closes => turn[t].pc = "close"
  PROVE  SpanInv'
<1>1. /\ turn' = [turn EXCEPT ![t] = Between] /\ held' = [held EXCEPT ![t] = {}]
      /\ UNCHANGED <<epoch, buffer, batches, recorded, dropped>>
      /\ \/ /\ EmitSpans(t, held[t]) /\ owned' = [owned EXCEPT ![t] = FALSE]
            /\ finishedBy' = [finishedBy EXCEPT ![t] = IF closes THEN turn[t].claim ELSE 0]
         \/ UNCHANGED <<trace, owned, finishedBy>>
  BY DEF Release
<1>2. SpanTypes /\ OnePlace /\ SpanTask(t)
  BY DEF SpanInv
<1>3. /\ DOMAIN held' = Traced /\ held'[t] = {} /\ turn'[t] = Between
      /\ \A u \in Traced : u # t => held'[u] = held[u] /\ turn'[u] = turn[u]
  BY <1>1, <1>2 DEF SpanTypes
<1>4. /\ InBatches' = InBatches /\ \A u \in Traced : Of(u)' = Of(u)
  BY <1>1 DEF InBatches, Of
<1>5. /\ DOMAIN trace' = Traced /\ \A u \in Traced : u # t => trace'[u] = trace[u]
      /\ Once(t)' /\ \/ Written(t)' = Written(t) \union held[t]
                     \/ Written(t)' = Written(t) /\ finishedBy' = finishedBy
  <2>1. CASE EmitSpans(t, held[t])
    <3>1. held[t] \subseteq Nat
      BY <1>2 DEF SpanTypes, SpanTask, Apart, Of
    <3>2. Once(t) /\ held[t] \intersect Written(t) = {} /\ DOMAIN trace = Traced
      BY <1>2 DEF SpanTypes, SpanTask, Apart
    <3> QED BY <2>1, <3>1, <3>2, EmitsOnce
  <2>2. CASE UNCHANGED <<trace, owned, finishedBy>>
    BY <1>2, <2>2 DEF SpanTypes, SpanTask, Once, Written
  <2> QED BY <1>1, <2>1, <2>2
<1>6. /\ finishedBy' \in [Traced -> Nat] /\ DOMAIN owned' = Traced
      /\ \A u \in Traced : u # t => finishedBy'[u] = finishedBy[u]
      /\ \/ finishedBy'[t] \in {0, finishedBy[t]}
         \/ closes /\ finishedBy'[t] = turn[t].claim /\ Written(t)' = Written(t) \union held[t]
  <2>1. CASE UNCHANGED <<trace, owned, finishedBy>>
    <3>1. finishedBy' = finishedBy /\ owned' = owned
      BY <2>1
    <3> QED BY <1>2, <3>1 DEF SpanTypes
  <2>2. CASE /\ EmitSpans(t, held[t]) /\ owned' = [owned EXCEPT ![t] = FALSE]
             /\ finishedBy' = [finishedBy EXCEPT ![t] = IF closes THEN turn[t].claim ELSE 0]
    <3>1. turn[t].claim \in Nat
      BY <1>2 DEF SpanTypes
    <3>2. Written(t)' = Written(t) \union held[t]
      <4>1. held[t] \subseteq Nat
        BY <1>2 DEF SpanTypes, SpanTask, Apart, Of
      <4>2. Once(t) /\ held[t] \intersect Written(t) = {} /\ DOMAIN trace = Traced
        BY <1>2 DEF SpanTypes, SpanTask, Apart
      <4> QED BY <2>2, <4>1, <4>2, EmitsOnce
    <3>3. finishedBy'[t] = (IF closes THEN turn[t].claim ELSE 0) /\ (IF closes THEN turn[t].claim ELSE 0) \in Nat
      BY <1>2, <2>2, <3>1 DEF SpanTypes
    <3>4. /\ finishedBy' \in [Traced -> Nat] /\ DOMAIN owned' = Traced
          /\ \A u \in Traced : u # t => finishedBy'[u] = finishedBy[u]
      BY <1>2, <2>2, <3>3 DEF SpanTypes
    <3> QED BY <3>2, <3>3, <3>4
  <2> QED BY <1>1, <2>1, <2>2
<1>7. SpanTypes'
  <2>1. turn' \in [Traced -> [pc : {"idle", "run", "park", "settle", "hook", "close"}, claim : Nat]]
    BY <1>1, <1>2 DEF SpanTypes, Between
  <2> QED BY <1>1, <1>2, <1>3, <1>5, <1>6, <2>1 DEF SpanTypes
<1>8. OnePlace'
  BY <1>1, <1>2, <1>4 DEF OnePlace
<1>9. SpanTask(t)'
  <2>1. turn'[t].pc = "idle" /\ turn'[t].claim = 0
    BY <1>3 DEF Between
  <2>2. Apart(t)'
    BY <1>1, <1>2, <1>3, <1>4, <1>5 DEF SpanTask, Apart
  <2>3. Claims(t)' /\ Accounted(t)' /\ NoneBehind(t)'
    <3>1. epoch[t] \in Nat
      BY <1>2 DEF SpanTypes
    <3> QED BY <1>1, <1>2, <1>3, <1>4, <2>1, <3>1 DEF SpanTask, Claims, Accounted, NoneBehind
  <2>4. Complete(t)'
    <3>1. finishedBy[t] = 0
      BY <1>2 DEF SpanTask, Complete
    <3>2. CASE finishedBy'[t] = 0
      BY <3>2 DEF Complete
    <3>3. CASE closes /\ finishedBy'[t] = turn[t].claim /\ Written(t)' = Written(t) \union held[t]
      BY <1>1, <1>2, <1>4, <2>1, <3>3 DEF SpanTask, Complete, Accounted, NoneBehind
    <3> QED BY <1>6, <3>1, <3>2, <3>3
  <2> QED BY <1>5, <2>2, <2>3, <2>4 DEF SpanTask
<1>10. ASSUME NEW u \in Traced, u # t PROVE SpanTask(u)'
  BY <1>1, <1>3, <1>4, <1>5, <1>6, <1>10, OthersKeep DEF SpanInv
<1> QED BY <1>7, <1>8, <1>9, <1>10 DEF SpanInv

(* The first transaction of finish keeps the spans for the second.         *)
LEMMA KeepsFinalizes ==
  ASSUME SpanInv, NEW t \in Traced, SettleFinalizes(t)
  PROVE  SpanInv'
<1>1. /\ turn[t].pc = "settle" /\ turn' = [turn EXCEPT ![t].pc = "hook"]
      /\ UNCHANGED <<epoch, owned, held, buffer, batches, recorded, dropped, trace, finishedBy>>
  BY DEF SettleFinalizes
<1>2. SpanTypes /\ OnePlace /\ SpanTask(t)
  BY DEF SpanInv
<1>3. turn'[t].pc = "hook" /\ turn'[t].claim = turn[t].claim /\ \A u \in Traced : u # t => turn'[u] = turn[u]
  BY <1>1, <1>2 DEF SpanTypes
<1>4. SpanTypes'
  <2>1. [turn[t] EXCEPT !.pc = "hook"] \in [pc : {"idle", "run", "park", "settle", "hook", "close"}, claim : Nat]
    BY <1>2 DEF SpanTypes
  <2>2. turn' \in [Traced -> [pc : {"idle", "run", "park", "settle", "hook", "close"}, claim : Nat]]
    BY <1>1, <1>2, <2>1 DEF SpanTypes
  <2> QED BY <1>1, <1>2, <2>2 DEF SpanTypes
<1>5. /\ InBatches' = InBatches /\ \A u \in Traced : Of(u)' = Of(u) /\ Written(u)' = Written(u)
  BY <1>1 DEF InBatches, Of, Written
<1>6. OnePlace'
  BY <1>1, <1>2, <1>5 DEF OnePlace
<1>7. SpanTask(t)'
  <2>1. Apart(t)' /\ Once(t)'
    BY <1>1, <1>2, <1>5 DEF SpanTask, Apart, Once
  <2>2. Claims(t)' /\ Accounted(t)' /\ NoneBehind(t)'
    BY <1>1, <1>2, <1>3, <1>5 DEF SpanTask, Claims, Accounted, NoneBehind
  <2>3. finishedBy[t] = 0
    BY <1>1, <1>2 DEF SpanTask, Complete
  <2> QED BY <1>1, <2>1, <2>2, <2>3 DEF SpanTask, Complete
<1>8. ASSUME NEW u \in Traced, u # t PROVE SpanTask(u)'
  BY <1>1, <1>3, <1>5, <1>8, OthersKeep DEF SpanInv
<1> QED BY <1>4, <1>6, <1>7, <1>8 DEF SpanInv

(* Every step of the span log keeps the invariant.                         *)
LEMMA NextSpanInv == SpanInv /\ [SpanNext]_spanVars => SpanInv'
<1> SUFFICES ASSUME SpanInv, [SpanNext]_spanVars PROVE SpanInv'
  OBVIOUS
<1>1. CASE UNCHANGED spanVars
  <2>1. UNCHANGED <<epoch, owned, turn, held, buffer, batches, recorded, dropped, trace, finishedBy>>
    BY <1>1 DEF spanVars
  <2>2. InBatches' = InBatches /\ SpanTypes' /\ \A u \in Traced : Of(u)' = Of(u)
    BY <2>1 DEF SpanInv, InBatches, SpanTypes, Of
  <2>3. OnePlace'
    BY <2>1, <2>2 DEF SpanInv, OnePlace
  <2>4. \A u \in Traced : SpanTask(u)'
    BY <2>1, <2>2, OthersKeep DEF SpanInv
  <2> QED BY <2>2, <2>3, <2>4 DEF SpanInv
<1>2. CASE RecorderTakes \/ RecorderWrites
  BY <1>2, KeepsRecorderTakes, KeepsRecorderWrites
<1>3. ASSUME NEW t \in Traced, \/ ClaimTask(t) \/ LoseClaim(t) \/ Record(t) \/ TakeToPark(t) \/ ParkCommits(t)
                               \/ TakeToFinish(t) \/ SettleWaits(t) \/ SettleFinalizes(t) \/ HookFails(t)
                               \/ HookEnds(t) \/ FinishCommits(t)
      PROVE  SpanInv'
  <2>1. CASE ClaimTask(t) \/ LoseClaim(t)
    BY <2>1, KeepsClaim
  <2>2. CASE Record(t)
    BY <2>2, KeepsRecord
  <2>3. CASE TakeToPark(t)
    BY <2>3, KeepsTake DEF TakeToPark
  <2>4. CASE TakeToFinish(t)
    BY <2>4, KeepsTake DEF TakeToFinish
  <2>5. CASE HookFails(t)
    BY <2>5, KeepsTake DEF HookFails
  <2>6. CASE HookEnds(t)
    BY <2>6, KeepsTake DEF HookEnds
  <2>7. CASE ParkCommits(t) \/ SettleWaits(t)
    BY <2>7, KeepsRelease DEF ParkCommits, SettleWaits
  <2>8. CASE FinishCommits(t)
    BY <2>8, KeepsRelease DEF FinishCommits
  <2>9. CASE SettleFinalizes(t)
    BY <2>9, KeepsFinalizes
  <2> QED BY <1>3, <2>1, <2>2, <2>3, <2>4, <2>5, <2>6, <2>7, <2>8, <2>9
<1> QED BY <1>1, <1>2, <1>3 DEF SpanNext

(* Whatever tasks, buffer and batches: once the transaction that finishes  *)
(* a task commits, its trace has each span of the finishing claim that was *)
(* not given up with a warning, and no span twice.                         *)
THEOREM TracesAreWhole == SpanSpec => []TraceComplete
<1>1. SpanInit => SpanInv
  BY SpanInitInv
<1>2. SpanInv /\ [SpanNext]_spanVars => SpanInv'
  BY NextSpanInv
<1>3. SpanInv => TraceComplete
  <2> SUFFICES ASSUME SpanInv, NEW t \in Traced
               PROVE  /\ \A i, j \in DOMAIN trace[t] : i # j => trace[t][i] \intersect trace[t][j] = {}
                      /\ finishedBy[t] # 0 => \A n \in DOMAIN recorded :
                           recorded[n] = [task |-> t, claim |-> finishedBy[t]] =>
                             n \in dropped \/ \E i \in DOMAIN trace[t] : n \in trace[t][i]
    BY DEF TraceComplete
  <2>1. SpanTask(t)
    BY DEF SpanInv
  <2>2. ASSUME finishedBy[t] # 0, NEW n \in DOMAIN recorded, recorded[n] = [task |-> t, claim |-> finishedBy[t]]
        PROVE  n \in dropped \/ \E i \in DOMAIN trace[t] : n \in trace[t][i]
    <3>1. recorded[n].task = t /\ recorded[n].claim = finishedBy[t]
      BY <2>2
    <3> QED BY <2>1, <2>2, <3>1 DEF SpanTask, Complete, Of, Written
  <2> QED BY <2>1, <2>2 DEF SpanTask, Once
<1> QED BY <1>1, <1>2, <1>3, PTL DEF SpanSpec
=============================================================================
