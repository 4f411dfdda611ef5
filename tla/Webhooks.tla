------------------------------ MODULE Webhooks ------------------------------
(***************************************************************************)
(* Outgoing webhooks (internal/modules/webhooks): a delivery row per       *)
(* subscription and event is written in the transaction that makes the     *)
(* event, and the processes' Run loops post it, each attempt between a     *)
(* transaction that claims the row and an update that is fenced by the     *)
(* claim. Requests pause subscriptions and re-arm deliveries meanwhile.    *)
(*                                                                         *)
(* An action is one transaction, one unlocked read or one POST. Backoff    *)
(* is the time before Claim happens. A claim id is the deliverer's name:   *)
(* Run makes one attempt at a time and a restarted one has forgotten its   *)
(* last.                                                                   *)
(***************************************************************************)
EXTENDS Naturals, FiniteSets

CONSTANTS
  Subscriptions,
  MaxSubscriptions,  (* subscriptions of an identity (20 in the code)        *)
  Announcements,     (* event ids                                           *)
  Deliverers,        (* processes that run Run                              *)
  Nobody,
  MaxAttempts,       (* attempts before a delivery fails (8 in the code)     *)
  MaxStalls,         (* bound: leases that lapse under a live attempt        *)
  MaxHookCrashes,    (* bound: attempts that end without their update        *)
  MaxToggles,        (* bound: pause and resume requests                     *)
  MaxRetries         (* bound: retry requests                               *)

ASSUME WebhooksAssumption ==
  /\ IsFiniteSet(Deliverers) /\ Nobody \notin Deliverers
  /\ MaxAttempts \in Nat \ {0} /\ MaxSubscriptions \in Nat
  /\ {MaxStalls, MaxHookCrashes, MaxToggles, MaxRetries} \subseteq Nat

VARIABLES
  subscribed,    (* subscriptions that exist                                *)
  hookPaused,    (* those that are paused                                   *)
  delivery,      (* webhook_deliveries, by subscription and event           *)
  attempt,       (* attempt[p]: what process p's DeliverOne holds           *)
  retrying,      (* deliveries whose retry request read an active subscription *)
  posts,         (* history: posts a receiver got, by delivery              *)
  lapses,        (* history: claims that were taken over, by delivery       *)
  forgiven,      (* history: attempts a retry request set back to zero      *)
  hookBudget     (* what is left of the bounds                              *)

hookVars == <<subscribed, hookPaused, delivery, attempt, retrying, posts, lapses,
              forgiven, hookBudget>>

Deliveries == Subscriptions \X Announcements
Active == subscribed \ hookPaused
NoDelivery == [status |-> "none", attempts |-> 0, claim |-> Nobody, lapsed |-> FALSE]
Waiting == [pc |-> "idle", on |-> Nobody, tries |-> 0, result |-> "unknown"]

HooksInit ==
  /\ subscribed = {} /\ hookPaused = {} /\ retrying = {}
  /\ delivery = [k \in Deliveries |-> NoDelivery]
  /\ attempt = [p \in Deliverers |-> Waiting]
  /\ posts = [k \in Deliveries |-> 0]
  /\ lapses = [k \in Deliveries |-> 0]
  /\ forgiven = [k \in Deliveries |-> 0]
  /\ hookBudget = [stalls |-> MaxStalls, crashes |-> MaxHookCrashes,
                   toggles |-> MaxToggles, retries |-> MaxRetries]

Spend(kind) ==
  /\ hookBudget[kind] > 0
  /\ hookBudget' = [hookBudget EXCEPT ![kind] = @ - 1]

-----------------------------------------------------------------------------
(* Requests.                                                                *)

SubscribeHook(s) ==
  /\ s \notin subscribed /\ Cardinality(subscribed) < MaxSubscriptions
  /\ subscribed' = subscribed \cup {s}
  /\ UNCHANGED <<hookPaused, delivery, attempt, retrying, posts, lapses, forgiven, hookBudget>>

(* One UPDATE re-arms the rows that are paused when it runs.                *)
PauseHook(s) ==
  /\ s \in Active /\ Spend("toggles")
  /\ hookPaused' = hookPaused \cup {s}
  /\ UNCHANGED <<subscribed, delivery, attempt, retrying, posts, lapses, forgiven>>

ResumeHook(s) ==
  /\ s \in hookPaused /\ Spend("toggles")
  /\ hookPaused' = hookPaused \ {s}
  /\ delivery' = [k \in Deliveries |->
       IF k[1] = s /\ delivery[k].status = "paused"
         THEN [delivery[k] EXCEPT !.status = "pending"] ELSE delivery[k]]
  /\ UNCHANGED <<subscribed, attempt, retrying, posts, lapses, forgiven>>

(* The subscription is read before the transaction that re-arms the row.    *)
RetryReads(k) ==
  /\ k[1] \in Active /\ k \notin retrying /\ delivery[k].status # "none"
  /\ Spend("retries")
  /\ retrying' = retrying \cup {k}
  /\ UNCHANGED <<subscribed, hookPaused, delivery, attempt, posts, lapses, forgiven>>

RetryWrites(k) ==
  /\ k \in retrying /\ retrying' = retrying \ {k}
  /\ IF delivery[k].status \in {"failed", "paused"}
       THEN /\ delivery' = [delivery EXCEPT ![k].status = "pending", ![k].attempts = 0]
            /\ forgiven' = [forgiven EXCEPT ![k] = @ + delivery[k].attempts]
       ELSE UNCHANGED <<delivery, forgiven>>
  /\ UNCHANGED <<subscribed, hookPaused, attempt, posts, lapses, hookBudget>>

-----------------------------------------------------------------------------
(* Enqueue, inside the transaction that makes event e.                      *)

Enqueue(e) ==
  /\ delivery' = [k \in Deliveries |->
       IF k[2] = e /\ k[1] \in Active /\ delivery[k].status = "none"
         THEN [NoDelivery EXCEPT !.status = "pending"] ELSE delivery[k]]
  /\ UNCHANGED <<subscribed, hookPaused, attempt, retrying, posts, lapses, forgiven,
                 hookBudget>>

-----------------------------------------------------------------------------
(* DeliverOne.                                                              *)

(* Mutant: lapsed leases are not looked for.                                *)
DuePending(k) == delivery[k].status = "pending"
Due(k) == \/ delivery[k].status = "pending"
          \/ delivery[k].status = "sending" /\ delivery[k].lapsed

ClaimDelivery(p, k) ==
  /\ attempt[p].pc = "idle" /\ Due(k)
  /\ delivery' = [delivery EXCEPT ![k] =
       [status |-> "sending", attempts |-> @.attempts + 1, claim |-> p, lapsed |-> FALSE]]
  /\ attempt' = [attempt EXCEPT ![p] =
       [pc |-> "read", on |-> k, tries |-> delivery[k].attempts + 1, result |-> "unknown"]]
  /\ lapses' = IF delivery[k].lapsed THEN [lapses EXCEPT ![k] = @ + 1] ELSE lapses
  /\ UNCHANGED <<subscribed, hookPaused, retrying, posts, forgiven, hookBudget>>

(* The read may fail, as may the opening of the secret or the request.      *)
ReadSubscription(p) ==
  /\ attempt[p].pc = "read"
  /\ \/ \E result \in {"failure", "paused"} :
          /\ result = "paused" => attempt[p].on[1] \in hookPaused
          /\ attempt' = [attempt EXCEPT ![p].pc = "update", ![p].result = result]
     \/ /\ attempt[p].on[1] \notin hookPaused
        /\ attempt' = [attempt EXCEPT ![p].pc = "post"]
  /\ UNCHANGED <<subscribed, hookPaused, delivery, retrying, posts, lapses, forgiven,
                 hookBudget>>

(* The receiver may get a post whose answer is lost, and may refuse it.      *)
Post(p) ==
  /\ attempt[p].pc = "post"
  /\ \E received \in BOOLEAN, result \in {"success", "failure"} :
       /\ result = "success" => received
       /\ posts' = IF received THEN [posts EXCEPT ![attempt[p].on] = @ + 1] ELSE posts
       /\ attempt' = [attempt EXCEPT ![p].pc = "update", ![p].result = result]
  /\ UNCHANGED <<subscribed, hookPaused, delivery, retrying, lapses, forgiven, hookBudget>>

(* Mutant: the last attempt is compared with >.                             *)
OutcomeOneMore(a) ==
  [status |-> CASE a.result = "success" -> "delivered"
                [] a.result = "paused" -> "paused"
                [] a.result = "failure" /\ a.tries > MaxAttempts -> "failed"
                [] OTHER -> "pending",
   attempts |-> IF a.result = "paused" THEN a.tries - 1 ELSE a.tries,
   claim |-> Nobody, lapsed |-> FALSE]
Outcome(a) ==
  [status |-> CASE a.result = "success" -> "delivered"
                [] a.result = "paused" -> "paused"
                [] a.result = "failure" /\ a.tries >= MaxAttempts -> "failed"
                [] OTHER -> "pending",
   attempts |-> IF a.result = "paused" THEN a.tries - 1 ELSE a.tries,
   claim |-> Nobody, lapsed |-> FALSE]

(* Mutant: the update is not fenced by the claim.                           *)
UpdateUnfenced(p) ==
  /\ attempt[p].pc = "update"
  /\ delivery' = [delivery EXCEPT ![attempt[p].on] = Outcome(attempt[p])]
  /\ attempt' = [attempt EXCEPT ![p] = Waiting]
  /\ UNCHANGED <<subscribed, hookPaused, retrying, posts, lapses, forgiven, hookBudget>>
(* WHERE id and claim: a row another attempt took over is left alone.       *)
UpdateDelivery(p) ==
  /\ attempt[p].pc = "update"
  /\ delivery' = IF delivery[attempt[p].on].claim = p
                   THEN [delivery EXCEPT ![attempt[p].on] = Outcome(attempt[p])]
                   ELSE delivery
  /\ attempt' = [attempt EXCEPT ![p] = Waiting]
  /\ UNCHANGED <<subscribed, hookPaused, retrying, posts, lapses, forgiven, hookBudget>>

(* The process stops, or its update fails: the row waits for its lease.     *)
AttemptDies(p) ==
  /\ attempt[p].pc # "idle" /\ Spend("crashes")
  /\ attempt' = [attempt EXCEPT ![p] = Waiting]
  /\ UNCHANGED <<subscribed, hookPaused, delivery, retrying, posts, lapses, forgiven>>

Abandoned(k) == \A p \in Deliverers : attempt[p].pc # "idle" => attempt[p].on # k

(* An abandoned claim's minute always runs out; a live attempt is slower    *)
(* than its lease only if the process stalls.                               *)
LeaseLapses(k) ==
  /\ delivery[k].status = "sending" /\ ~delivery[k].lapsed
  /\ delivery' = [delivery EXCEPT ![k].lapsed = TRUE]
  /\ \/ Abandoned(k) /\ UNCHANGED hookBudget
     \/ ~Abandoned(k) /\ Spend("stalls")
  /\ UNCHANGED <<subscribed, hookPaused, attempt, retrying, posts, lapses, forgiven>>

-----------------------------------------------------------------------------
(* All but Enqueue, which is part of another component's transaction.       *)

Deliver(p) == (\E k \in Deliveries : ClaimDelivery(p, k)) \/ ReadSubscription(p)
              \/ Post(p) \/ UpdateDelivery(p)

HooksNext ==
  \/ \E s \in Subscriptions : SubscribeHook(s) \/ PauseHook(s) \/ ResumeHook(s)
  \/ \E k \in Deliveries : RetryReads(k) \/ RetryWrites(k) \/ LeaseLapses(k)
  \/ \E p \in Deliverers : Deliver(p) \/ AttemptDies(p)

(* The loop of a process that stays up runs on, and the lease of an attempt *)
(* that died runs out.                                                      *)
HooksFairness ==
  /\ \A p \in Deliverers : WF_hookVars(Deliver(p))
  /\ \A k \in Deliveries : WF_hookVars(Abandoned(k) /\ LeaseLapses(k))

HooksSpec ==
  HooksInit /\ [][HooksNext \/ \E e \in Announcements : Enqueue(e)]_hookVars /\ HooksFairness

-----------------------------------------------------------------------------

HooksTypeOK ==
  /\ subscribed \subseteq Subscriptions /\ hookPaused \subseteq subscribed
  /\ delivery \in [Deliveries ->
       [status : {"none", "pending", "sending", "delivered", "failed", "paused"},
        attempts : Nat, claim : Deliverers \cup {Nobody}, lapsed : BOOLEAN]]
  /\ attempt \in [Deliverers ->
       [pc : {"idle", "read", "post", "update"}, on : Deliveries \cup {Nobody},
        tries : Nat, result : {"unknown", "success", "failure", "paused"}]]
  /\ \A p \in Deliverers : attempt[p].pc # "idle" => attempt[p].on \in Deliveries
  /\ retrying \subseteq Deliveries
  /\ posts \in [Deliveries -> Nat] /\ lapses \in [Deliveries -> Nat]
  /\ forgiven \in [Deliveries -> Nat]
  /\ hookBudget \in [{"stalls", "crashes", "toggles", "retries"} -> Nat]

(* A receiver sees a delivery at most MaxAttempts times each time it is      *)
(* armed, and once more for each claim that was taken over: an attempt is    *)
(* counted when it is claimed, and no late one sets the count back.          *)
PostsBounded ==
  \A k \in Deliveries : posts[k] <= MaxAttempts + lapses[k] + forgiven[k]

(* A delivery the receiver acknowledged is never sent again or overwritten, *)
(* whatever slower attempts of it end later (DeliverOne's fenced update).   *)
DeliveredStays ==
  [][\A k \in Deliveries : delivery[k].status = "delivered" => delivery'[k] = delivery[k]]_hookVars

(* An announced event reaches an end its subscriber can see, through        *)
(* crashes, refused posts and lapsed leases.                                *)
DeliveryEnds ==
  \A k \in Deliveries :
    delivery[k].status \in {"pending", "sending"}
      ~> delivery[k].status \in {"delivered", "failed", "paused"}

(* Deliveries that were paused continue once the subscription is resumed.   *)
PausedResumes ==
  \A k \in Deliveries :
    delivery[k].status = "paused" /\ k[1] \in Active
      ~> (delivery[k].status # "paused" \/ k[1] \in hookPaused)
=============================================================================
