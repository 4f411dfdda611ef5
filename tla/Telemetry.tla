------------------------------ MODULE Telemetry ------------------------------
(***************************************************************************)
(* The metrics outbox and its reduction into buckets (internal/platform/   *)
(* telemetry/metrics.go, and the loop of runtime.go): transactions of the  *)
(* execution enqueue samples, and the reducers of several processes take   *)
(* batches of unlocked samples, merge them bucket by bucket, and delete    *)
(* them in the same transaction.                                           *)
(*                                                                         *)
(* A bucket holds the samples it counted, with multiplicity: its counts,   *)
(* sums and histograms are functions of those. BucketsOf(s) are the minute *)
(* and the hour of sample s; the numbers order buckets as their ids do.    *)
(***************************************************************************)
EXTENDS Naturals, FiniteSets, FiniteSetsExt

CONSTANTS
  Samples,        (* samples that may be enqueued                          *)
  BucketsOf,      (* BucketsOf[s]: the two buckets of s                    *)
  Reducers,       (* processes that reduce                                 *)
  ReduceBatch,    (* samples a transaction takes (256)                     *)
  MaxAborts       (* bound: reductions that time out or crash              *)

Buckets == UNION {BucketsOf[s] : s \in Samples}
ASSUME TelemetryAssumption ==
  /\ BucketsOf \in [Samples -> SUBSET Nat] /\ ReduceBatch \in Nat \ {0} /\ MaxAborts \in Nat

VARIABLES
  enqueued,    (* samples whose transaction has committed                  *)
  outbox,      (* rows of monitor_samples                                  *)
  bucket,      (* bucket[b][s]: how often b counts s, committed            *)
  reducer,     (* reducer[r]: its transaction: the samples it locked, the  *)
               (* buckets it has yet to lock, and what it merged           *)
  aborts

telemetryVars == <<enqueued, outbox, bucket, reducer, aborts>>

NotReducing == [samples |-> {}, todo |-> {}, merged |-> <<>>]
TelemetryInit ==
  /\ enqueued = {} /\ outbox = {} /\ aborts = 0
  /\ bucket = [b \in Buckets |-> [s \in Samples |-> 0]]
  /\ reducer = [r \in Reducers |-> NotReducing]

EnqueueSample(s) ==
  /\ s \notin enqueued /\ enqueued' = enqueued \union {s} /\ outbox' = outbox \union {s}
  /\ UNCHANGED <<bucket, reducer, aborts>>

(* The batch, past the rows another transaction has locked.                *)
LockedSamples == UNION {reducer[r].samples : r \in Reducers}
TakeSamples(r) ==
  /\ reducer[r] = NotReducing
  /\ \E batch \in SUBSET (outbox \ LockedSamples) :
       /\ Cardinality(batch) = IF Cardinality(outbox \ LockedSamples) < ReduceBatch
                               THEN Cardinality(outbox \ LockedSamples) ELSE ReduceBatch
       /\ batch # {}
       /\ reducer' = [reducer EXCEPT ![r] =
            [samples |-> batch, todo |-> UNION {BucketsOf[s] : s \in batch}, merged |-> <<>>]]
  /\ UNCHANGED <<enqueued, outbox, bucket, aborts>>

(* Mutant: the grouped buckets are merged in the order of the map.         *)
UnsortedBuckets(r) == reducer[r].todo
(* Buckets are locked in the order of their ids, each held to the commit;  *)
(* the row is read under its lock and the batch merged into it.            *)
NextBuckets(r) == IF reducer[r].todo = {} THEN {} ELSE {Min(reducer[r].todo)}
HoldsBucket(r, b) == b \in DOMAIN reducer[r].merged
(* Mutant: the row is read without its lock.                               *)
MergeUnlocked(r) ==
  /\ \E b \in NextBuckets(r) : reducer' = [reducer EXCEPT
       ![r].todo = reducer[r].todo \ {b},
       ![r].merged = [c \in DOMAIN reducer[r].merged \union {b} |->
          IF c # b THEN reducer[r].merged[c] ELSE [s \in Samples |->
            bucket[b][s] + IF s \in reducer[r].samples /\ b \in BucketsOf[s] THEN 1 ELSE 0]]]
  /\ UNCHANGED <<enqueued, outbox, bucket, aborts>>
MergeBucket(r) ==
  /\ \E b \in NextBuckets(r) :
       /\ \A q \in Reducers : ~HoldsBucket(q, b)
       /\ reducer' = [reducer EXCEPT
            ![r].todo = reducer[r].todo \ {b},
            ![r].merged = [c \in DOMAIN reducer[r].merged \union {b} |->
               IF c # b THEN reducer[r].merged[c] ELSE [s \in Samples |->
                 bucket[b][s] + IF s \in reducer[r].samples /\ b \in BucketsOf[s] THEN 1 ELSE 0]]]
  /\ UNCHANGED <<enqueued, outbox, bucket, aborts>>

CommitReduction(r) ==
  /\ reducer[r].samples # {} /\ reducer[r].todo = {}
  /\ bucket' = [b \in Buckets |-> IF HoldsBucket(r, b) THEN reducer[r].merged[b] ELSE bucket[b]]
  /\ outbox' = outbox \ reducer[r].samples
  /\ reducer' = [reducer EXCEPT ![r] = NotReducing]
  /\ UNCHANGED <<enqueued, aborts>>

AbortReduction(r) ==
  /\ reducer[r] # NotReducing /\ aborts < MaxAborts /\ aborts' = aborts + 1
  /\ reducer' = [reducer EXCEPT ![r] = NotReducing]
  /\ UNCHANGED <<enqueued, outbox, bucket>>

TelemetryNext ==
  \/ \E s \in Samples : EnqueueSample(s)
  \/ \E r \in Reducers : TakeSamples(r) \/ MergeBucket(r) \/ CommitReduction(r) \/ AbortReduction(r)
(* Every process reduces on a tick of its timer; a row lock that is free   *)
(* is granted.                                                             *)
TelemetryFairness == \A r \in Reducers :
  WF_telemetryVars(TakeSamples(r)) /\ SF_telemetryVars(MergeBucket(r)) /\ WF_telemetryVars(CommitReduction(r))
TelemetrySpec == TelemetryInit /\ [][TelemetryNext]_telemetryVars /\ TelemetryFairness

-----------------------------------------------------------------------------
(* What is locked is there to be reduced, by one reducer at a time.        *)
TelemetryTypeOK ==
  /\ outbox \subseteq enqueued /\ LockedSamples \subseteq outbox
  /\ \A q, r \in Reducers : q # r => reducer[q].samples \intersect reducer[r].samples = {}
                                  /\ DOMAIN reducer[q].merged \intersect DOMAIN reducer[r].merged = {}

(* "restarts/competing reducers cannot double count" (metrics.go 19-20): a *)
(* sample that left the outbox is counted once by each of its buckets, and *)
(* one that is still there by none.                                        *)
CountedOnce ==
  \A s \in enqueued, b \in Buckets :
    bucket[b][s] = IF s \notin outbox /\ b \in BucketsOf[s] THEN 1 ELSE 0

(* The outbox is drained, however the reducers' batches share buckets:     *)
(* none waits for another forever (the sorted keys of Reduce).             *)
SamplesReduced == outbox # {} ~> outbox = {}
=============================================================================
