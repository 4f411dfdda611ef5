--------------------------- MODULE Webhooks_proofs ---------------------------
(***************************************************************************)
(* For any subscriptions, events and deliverers, and any number of stalls, *)
(* crashes and requests: posts are bounded, and what was delivered stays.  *)
(***************************************************************************)
EXTENDS Webhooks, FiniteSetTheorems, TLAPS

DeliveryRow == [status : {"none", "pending", "sending", "delivered", "failed", "paused"},
                attempts : Nat, claim : Deliverers \cup {Nobody}, lapsed : BOOLEAN]
AttemptRow == [pc : {"idle", "read", "post", "update"}, on : Deliveries \cup {Nobody},
               tries : Nat, result : {"unknown", "success", "failure", "paused"}]

(* Attempts of k that are counted in its row and have not been posted; a   *)
(* paused one is taken off the count by its update.                        *)
Pays(a) == a.pc \in {"read", "post"} \/ (a.pc = "update" /\ a.result = "paused")
Unposted(k) == {p \in Deliverers : attempt[p].on = k /\ Pays(attempt[p])}

(* A claim's holder knows the count of its row.                            *)
ClaimCounts(p) ==
  attempt[p].pc # "idle" =>
    /\ attempt[p].tries >= 1
    /\ attempt[p].pc = "update" => attempt[p].result # "unknown"
    /\ delivery[attempt[p].on].claim = p => delivery[attempt[p].on].attempts = attempt[p].tries

(* A row that may be claimed without a lapse has an attempt left.          *)
RowCounts(k) ==
  /\ delivery[k].lapsed \/ delivery[k].claim # Nobody => delivery[k].status = "sending"
  /\ delivery[k].status = "none" => delivery[k].attempts = 0
  /\ delivery[k].attempts <= MaxAttempts + lapses[k]
  /\ delivery[k].status \in {"none", "pending", "paused"} => delivery[k].attempts < MaxAttempts + lapses[k]
  /\ posts[k] + Cardinality(Unposted(k)) <= delivery[k].attempts + forgiven[k]

(* The inductive invariant: a post is paid for by the attempt it counted   *)
(* as.                                                                     *)
HooksIInv ==
  /\ HooksTypeOK
  /\ \A p \in Deliverers : ClaimCounts(p)
  /\ \A k \in Deliveries : RowCounts(k)

(* Each set of attempts is finite, with the arithmetic the counts need.    *)
LEMMA UnpostedFinite ==
  ASSUME NEW k PROVE IsFiniteSet(Unposted(k)) /\ Cardinality(Unposted(k)) \in Nat
<1>1. Unposted(k) \subseteq Deliverers
  BY DEF Unposted
<1> QED BY <1>1, WebhooksAssumption, FS_Subset, FS_CardinalityType

(* The types of the rows, as the steps below use them.                     *)
LEMMA HooksTypes ==
  ASSUME HooksIInv
  PROVE  /\ delivery \in [Deliveries -> DeliveryRow] /\ attempt \in [Deliverers -> AttemptRow]
         /\ {posts, lapses, forgiven} \subseteq [Deliveries -> Nat]
         /\ \A p \in Deliverers : attempt[p].pc # "idle" => attempt[p].on \in Deliveries
         /\ MaxAttempts \in Nat \ {0} /\ Nobody \notin Deliverers
BY WebhooksAssumption DEF HooksIInv, HooksTypeOK, DeliveryRow, AttemptRow

(* What is left of the bounds stays a number.                              *)
LEMMA SpendsOne ==
  ASSUME HooksIInv, UNCHANGED hookBudget \/ \E kind \in {"stalls", "crashes", "toggles", "retries"} : Spend(kind)
  PROVE  hookBudget' \in [{"stalls", "crashes", "toggles", "retries"} -> Nat]
<1>1. hookBudget \in [{"stalls", "crashes", "toggles", "retries"} -> Nat]
  BY DEF HooksIInv, HooksTypeOK
<1> QED BY <1>1 DEF Spend

(* The bound TLC checks follows from the counts.                           *)
LEMMA CountsBound == HooksIInv => PostsBounded
<1> SUFFICES ASSUME HooksIInv, NEW k \in Deliveries
             PROVE  posts[k] <= MaxAttempts + lapses[k] + forgiven[k]
  BY DEF PostsBounded
<1>1. RowCounts(k)
  BY DEF HooksIInv
<1>2. {posts[k], lapses[k], forgiven[k], delivery[k].attempts, MaxAttempts} \subseteq Nat
  BY HooksTypes DEF DeliveryRow
<1> QED BY <1>1, <1>2, UnpostedFinite DEF RowCounts

(* No delivery and no attempt exists.                                      *)
LEMMA InitIInv == HooksInit => HooksIInv
<1> SUFFICES ASSUME HooksInit PROVE HooksIInv
  OBVIOUS
<1>1. HooksTypeOK
  BY WebhooksAssumption DEF HooksInit, HooksTypeOK, NoDelivery, Waiting
<1>2. \A k \in Deliveries : RowCounts(k)
  <2> TAKE k \in Deliveries
  <2>1. Unposted(k) = {}
    BY DEF HooksInit, Waiting, Unposted, Pays
  <2> QED BY <2>1, WebhooksAssumption, FS_EmptySet DEF HooksInit, NoDelivery, RowCounts
<1>3. \A p \in Deliverers : ClaimCounts(p)
  BY DEF HooksInit, ClaimCounts, Waiting
<1> QED BY <1>1, <1>2, <1>3 DEF HooksIInv

(* Requests and announcements move rows nobody has claimed.                *)
LEMMA KeepsRequests ==
  ASSUME HooksIInv,
         \/ \E s \in Subscriptions : SubscribeHook(s) \/ PauseHook(s) \/ ResumeHook(s)
         \/ \E k \in Deliveries : RetryReads(k) \/ RetryWrites(k)
         \/ \E e \in Announcements : Enqueue(e)
  PROVE  HooksIInv'
<1>0. UNCHANGED <<attempt, posts, lapses>> /\ hookPaused' \subseteq subscribed'
      /\ subscribed' \subseteq Subscriptions /\ retrying' \subseteq Deliveries
  BY DEF SubscribeHook, PauseHook, ResumeHook, RetryReads, RetryWrites, Enqueue, Active, HooksIInv, HooksTypeOK
<1>1. hookBudget' \in [{"stalls", "crashes", "toggles", "retries"} -> Nat]
  <2>1. UNCHANGED hookBudget \/ Spend("toggles") \/ Spend("retries")
    BY DEF SubscribeHook, PauseHook, ResumeHook, RetryReads, RetryWrites, Enqueue
  <2> QED BY <2>1, SpendsOne
<1>2. \/ UNCHANGED <<delivery, forgiven>>
      \/ /\ UNCHANGED forgiven
         /\ \E S \in SUBSET Deliveries :
              /\ delivery' = [k \in Deliveries |->
                   IF k \in S THEN [delivery[k] EXCEPT !.status = "pending"] ELSE delivery[k]]
              /\ \A k \in S : delivery[k].status = "paused"
      \/ /\ UNCHANGED forgiven
         /\ \E S \in SUBSET Deliveries :
              /\ delivery' = [k \in Deliveries |->
                   IF k \in S THEN [NoDelivery EXCEPT !.status = "pending"] ELSE delivery[k]]
              /\ \A k \in S : delivery[k].status = "none"
      \/ \E j \in Deliveries :
           /\ delivery' = [delivery EXCEPT ![j].status = "pending", ![j].attempts = 0]
           /\ forgiven' = [forgiven EXCEPT ![j] = forgiven[j] + delivery[j].attempts]
           /\ delivery[j].status \in {"failed", "paused"}
  <2>1. CASE \E s \in Subscriptions : SubscribeHook(s) \/ PauseHook(s)
    BY <2>1 DEF SubscribeHook, PauseHook
  <2>2. ASSUME NEW s \in Subscriptions, ResumeHook(s)
        PROVE UNCHANGED forgiven /\ \E S \in SUBSET Deliveries :
              /\ delivery' = [k \in Deliveries |->
                   IF k \in S THEN [delivery[k] EXCEPT !.status = "pending"] ELSE delivery[k]]
              /\ \A k \in S : delivery[k].status = "paused"
    <3> DEFINE S == {k \in Deliveries : k[1] = s /\ delivery[k].status = "paused"}
    <3>1. delivery' = [k \in Deliveries |->
                   IF k \in S THEN [delivery[k] EXCEPT !.status = "pending"] ELSE delivery[k]]
      BY <2>2 DEF ResumeHook
    <3>2. S \in SUBSET Deliveries /\ \A k \in S : delivery[k].status = "paused"
      OBVIOUS
    <3> HIDE DEF S
    <3> QED BY <2>2, <3>1, <3>2 DEF ResumeHook
  <2>3. ASSUME NEW e \in Announcements, Enqueue(e)
        PROVE UNCHANGED forgiven /\ \E S \in SUBSET Deliveries :
              /\ delivery' = [k \in Deliveries |->
                   IF k \in S THEN [NoDelivery EXCEPT !.status = "pending"] ELSE delivery[k]]
              /\ \A k \in S : delivery[k].status = "none"
    <3> DEFINE S == {k \in Deliveries : k[2] = e /\ k[1] \in Active /\ delivery[k].status = "none"}
    <3>1. delivery' = [k \in Deliveries |->
                   IF k \in S THEN [NoDelivery EXCEPT !.status = "pending"] ELSE delivery[k]]
      BY <2>3 DEF Enqueue
    <3>2. S \in SUBSET Deliveries /\ \A k \in S : delivery[k].status = "none"
      OBVIOUS
    <3> HIDE DEF S
    <3> QED BY <2>3, <3>1, <3>2 DEF Enqueue
  <2>4. CASE \E k \in Deliveries : RetryReads(k)
    BY <2>4 DEF RetryReads
  <2>5. CASE \E k \in Deliveries : RetryWrites(k)
    BY <2>5 DEF RetryWrites, HooksIInv, HooksTypeOK
  <2> QED BY <2>1, <2>2, <2>3, <2>4, <2>5
<1>3. ASSUME NEW k \in Deliveries
      PROVE  \/ delivery'[k] = delivery[k] /\ forgiven'[k] = forgiven[k]
             \/ /\ delivery[k].status = "paused" /\ forgiven'[k] = forgiven[k]
                /\ delivery'[k] = [delivery[k] EXCEPT !.status = "pending"]
             \/ /\ delivery[k].status = "none" /\ forgiven'[k] = forgiven[k]
                /\ delivery'[k] = [NoDelivery EXCEPT !.status = "pending"]
             \/ /\ delivery[k].status \in {"failed", "paused"}
                /\ forgiven'[k] = forgiven[k] + delivery[k].attempts
                /\ delivery'[k] = [delivery[k] EXCEPT !.status = "pending", !.attempts = 0]
  BY <1>2, HooksTypes DEF DeliveryRow
<1>4. delivery' \in [Deliveries -> DeliveryRow] /\ forgiven' \in [Deliveries -> Nat]
  <2>1. DOMAIN delivery' = Deliveries /\ DOMAIN forgiven' = Deliveries
        /\ delivery' = [k \in Deliveries |-> delivery'[k]] /\ forgiven' = [k \in Deliveries |-> forgiven'[k]]
    BY <1>2, HooksTypes
  <2>2. ASSUME NEW k \in Deliveries PROVE delivery'[k] \in DeliveryRow /\ forgiven'[k] \in Nat
    <3>1. delivery[k] \in DeliveryRow /\ forgiven[k] \in Nat
      BY HooksTypes
    <3>2. CASE delivery'[k] = delivery[k] /\ forgiven'[k] = forgiven[k]
      BY <3>1, <3>2
    <3>3. CASE delivery'[k] = [delivery[k] EXCEPT !.status = "pending"] /\ forgiven'[k] = forgiven[k]
      BY <3>1, <3>3 DEF DeliveryRow
    <3>4. CASE delivery'[k] = [NoDelivery EXCEPT !.status = "pending"] /\ forgiven'[k] = forgiven[k]
      <4>1. delivery'[k] = [status |-> "pending", attempts |-> 0, claim |-> Nobody, lapsed |-> FALSE]
        BY <3>4 DEF NoDelivery
      <4>2. forgiven'[k] \in Nat
        BY <3>1, <3>4
      <4> QED BY <4>1, <4>2 DEF DeliveryRow
    <3>5. CASE /\ delivery'[k] = [delivery[k] EXCEPT !.status = "pending", !.attempts = 0]
               /\ forgiven'[k] = forgiven[k] + delivery[k].attempts
      <4>1. delivery'[k] \in DeliveryRow
        <5>1. delivery'[k] = [status |-> "pending", attempts |-> 0,
                              claim |-> delivery[k].claim, lapsed |-> delivery[k].lapsed]
          BY <3>1, <3>5 DEF DeliveryRow
        <5> QED BY <3>1, <5>1 DEF DeliveryRow
      <4>2. delivery[k].attempts \in Nat
        BY <3>1 DEF DeliveryRow
      <4> QED BY <3>1, <3>5, <4>1, <4>2
    <3> QED BY <1>3, <3>2, <3>3, <3>4, <3>5
  <2> QED BY <2>1, <2>2
<1>5. HooksTypeOK'
  BY <1>0, <1>1, <1>4 DEF HooksIInv, HooksTypeOK, DeliveryRow
<1>6. ASSUME NEW p \in Deliverers PROVE ClaimCounts(p)'
  <2>1. attempt[p].pc # "idle" => attempt[p].on \in Deliveries
    BY HooksTypes
  <2>2. ClaimCounts(p)
    BY DEF HooksIInv
  <2>3. ASSUME attempt[p].on \in Deliveries, delivery'[attempt[p].on].claim = p
        PROVE  delivery'[attempt[p].on] = delivery[attempt[p].on]
    <3> DEFINE k == attempt[p].on
    <3>1. RowCounts(k) /\ delivery[k] \in DeliveryRow /\ p # Nobody
      BY <2>3, HooksTypes DEF HooksIInv
    <3>2. delivery[k].claim = p \/ delivery'[k].claim = Nobody
      BY <1>3, <2>3, <3>1 DEF DeliveryRow, NoDelivery
    <3> QED BY <1>3, <2>3, <3>1, <3>2 DEF RowCounts, DeliveryRow
  <2> QED BY <1>0, <2>1, <2>2, <2>3 DEF ClaimCounts
<1>7. ASSUME NEW k \in Deliveries PROVE RowCounts(k)'
  <2>1. Unposted(k)' = Unposted(k)
    BY <1>0 DEF Unposted
  <2>2. RowCounts(k) /\ delivery[k] \in DeliveryRow /\ {posts[k], lapses[k], forgiven[k]} \subseteq Nat
    BY HooksTypes DEF HooksIInv
  <2>3. MaxAttempts \in Nat \ {0}
    BY HooksTypes
  <2>4. posts'[k] = posts[k] /\ lapses'[k] = lapses[k]
    BY <1>0
  <2>5. Cardinality(Unposted(k)) \in Nat /\ Cardinality(Unposted(k))' = Cardinality(Unposted(k))
    BY <2>1, UnpostedFinite
  <2>6. CASE delivery'[k] = delivery[k] /\ forgiven'[k] = forgiven[k]
    BY <2>2, <2>4, <2>5, <2>6 DEF RowCounts
  <2>7. CASE /\ delivery[k].status = "paused" /\ forgiven'[k] = forgiven[k]
             /\ delivery'[k] = [delivery[k] EXCEPT !.status = "pending"]
    BY <2>2, <2>4, <2>5, <2>7 DEF RowCounts, DeliveryRow
  <2>8. CASE /\ delivery[k].status = "none" /\ forgiven'[k] = forgiven[k]
             /\ delivery'[k] = [NoDelivery EXCEPT !.status = "pending"]
    <3>1. delivery'[k] = [status |-> "pending", attempts |-> 0, claim |-> Nobody, lapsed |-> FALSE]
      BY <2>8 DEF NoDelivery
    <3> QED BY <2>2, <2>3, <2>4, <2>5, <2>8, <3>1 DEF RowCounts, DeliveryRow
  <2>9. CASE /\ delivery[k].status \in {"failed", "paused"}
             /\ forgiven'[k] = forgiven[k] + delivery[k].attempts
             /\ delivery'[k] = [delivery[k] EXCEPT !.status = "pending", !.attempts = 0]
    <3>1. /\ delivery'[k].status = "pending" /\ delivery'[k].attempts = 0
          /\ delivery'[k].claim = delivery[k].claim /\ delivery'[k].lapsed = delivery[k].lapsed
      BY <2>2, <2>9 DEF DeliveryRow
    <3> QED BY <2>2, <2>3, <2>4, <2>5, <2>9, <3>1 DEF RowCounts, DeliveryRow
  <2> QED BY <1>3, <2>6, <2>7, <2>8, <2>9
<1> QED BY <1>5, <1>6, <1>7 DEF HooksIInv

(* What an attempt of p changes besides its own record: the sets of other   *)
(* rows' attempts stay, and the one of its row gains or loses only p.       *)
LEMMA UnpostedOf ==
  ASSUME HooksIInv, NEW p \in Deliverers, NEW k \in Deliveries, NEW row \in AttemptRow,
         attempt' = [attempt EXCEPT ![p] = row],
         attempt[p].pc = "idle" \/ attempt[p].on = k, row.on = k \/ row.pc = "idle"
  PROVE  \A j \in Deliveries :
           Unposted(j)' = IF j # k THEN Unposted(j)
                          ELSE IF Pays(row) THEN Unposted(k) \cup {p} ELSE Unposted(k) \ {p}
<1>2. \A q \in Deliverers : attempt'[q] = IF q = p THEN row ELSE attempt[q]
  BY HooksTypes
<1>3. \A a \in AttemptRow : a.pc = "idle" => ~Pays(a)
  BY DEF Pays
<1>4. \A j \in Deliveries : Unposted(j)' = {q \in Deliverers : attempt'[q].on = j /\ Pays(attempt'[q])}
  BY DEF Unposted, Pays
<1>5. attempt[p] \in AttemptRow
  BY HooksTypes
<1> QED BY <1>2, <1>3, <1>4, <1>5 DEF Unposted

(* The claims that end or begin keep what the others know.                 *)
LEMMA KeepsAttempt ==
  ASSUME HooksIInv, NEW p \in Deliverers, Deliver(p) \/ AttemptDies(p)
  PROVE  HooksIInv'
<1>0. attempt[p] \in AttemptRow /\ ClaimCounts(p) /\ (attempt[p].pc # "idle" => attempt[p].on \in Deliveries)
  BY HooksTypes DEF HooksIInv
<1>1. UNCHANGED <<subscribed, hookPaused, retrying, forgiven>>
  BY DEF Deliver, ClaimDelivery, ReadSubscription, Post, UpdateDelivery, AttemptDies
<1>2. ASSUME NEW k \in Deliveries, ClaimDelivery(p, k) PROVE HooksIInv'
  <2> DEFINE n == delivery[k].attempts
             row == [pc |-> "read", on |-> k, tries |-> n + 1, result |-> "unknown"]
             claimed == [status |-> "sending", attempts |-> n + 1, claim |-> p, lapsed |-> FALSE]
  <2>1. /\ attempt' = [attempt EXCEPT ![p] = row] /\ delivery' = [delivery EXCEPT ![k] = claimed]
        /\ lapses' = IF delivery[k].lapsed THEN [lapses EXCEPT ![k] = lapses[k] + 1] ELSE lapses
        /\ UNCHANGED <<posts, hookBudget>> /\ attempt[p].pc = "idle" /\ Due(k)
    BY <1>2, HooksTypes DEF ClaimDelivery
  <2>2. delivery[k] \in DeliveryRow /\ RowCounts(k) /\ {posts[k], lapses[k], forgiven[k]} \subseteq Nat
    BY HooksTypes DEF HooksIInv
  <2>3. row \in AttemptRow /\ claimed \in DeliveryRow
    BY <2>2 DEF AttemptRow, DeliveryRow
  <2>31. row.on = k /\ Pays(row) /\ row.pc # "idle" /\ row.tries = n + 1 /\ row.result = "unknown" /\ row.pc = "read"
    BY DEF Pays
  <2>32. claimed.status = "sending" /\ claimed.attempts = n + 1 /\ claimed.claim = p /\ claimed.lapsed = FALSE
    OBVIOUS
  <2> HIDE DEF row, claimed
  <2>4. HooksTypeOK'
    <3>1. delivery' \in [Deliveries -> DeliveryRow] /\ attempt' \in [Deliverers -> AttemptRow]
      BY <2>1, <2>3, HooksTypes
    <3>2. lapses' \in [Deliveries -> Nat]
      BY <2>1, <2>2, HooksTypes
    <3>3. \A q \in Deliverers : attempt'[q].pc # "idle" => attempt'[q].on \in Deliveries
      BY <2>1, <2>31, HooksTypes
    <3> QED BY <1>1, <2>1, <3>1, <3>2, <3>3 DEF HooksIInv, HooksTypeOK, DeliveryRow, AttemptRow
  <2>5. ASSUME NEW q \in Deliverers PROVE ClaimCounts(q)'
    <3>1. ClaimCounts(q) /\ attempt[q] \in AttemptRow /\ n \in Nat
      BY <2>2, HooksTypes DEF HooksIInv, DeliveryRow
    <3>2. q # p => attempt'[q] = attempt[q] /\ (attempt[q].pc # "idle" => attempt[q].on \in Deliveries)
      BY <2>1, HooksTypes
    <3>3. \A j \in Deliveries : delivery'[j] = IF j = k THEN claimed ELSE delivery[j]
      BY <2>1, HooksTypes
    <3>4. q = p => attempt'[q] = row
      BY <2>1, HooksTypes
    <3> QED BY <2>31, <2>32, <3>1, <3>2, <3>3, <3>4 DEF ClaimCounts
  <2>6. ASSUME NEW j \in Deliveries PROVE RowCounts(j)'
    <3>1. Unposted(j)' = IF j = k THEN Unposted(k) \cup {p} ELSE Unposted(j)
      BY <2>1, <2>3, <2>31, UnpostedOf
    <3>2. RowCounts(j)
      BY DEF HooksIInv
    <3>3. CASE j # k
      BY <1>1, <2>1, <3>1, <3>2, <3>3, HooksTypes DEF RowCounts
    <3>4. CASE j = k
      <4>1. Cardinality(Unposted(k) \cup {p}) \in Nat /\ Cardinality(Unposted(k) \cup {p}) <= Cardinality(Unposted(k)) + 1
        <5>1. IsFiniteSet(Unposted(k)) /\ Cardinality(Unposted(k)) \in Nat
          BY UnpostedFinite
        <5>2. Cardinality(Unposted(k) \cup {p}) = IF p \in Unposted(k) THEN Cardinality(Unposted(k)) ELSE Cardinality(Unposted(k)) + 1
          BY <5>1, FS_AddElement, Zenon
        <5> QED BY <5>1, <5>2
      <4>2. delivery'[k] = claimed /\ posts'[k] = posts[k] /\ forgiven'[k] = forgiven[k]
            /\ lapses'[k] = IF delivery[k].lapsed THEN lapses[k] + 1 ELSE lapses[k]
        BY <1>1, <2>1, HooksTypes
      <4>3. MaxAttempts \in Nat /\ n \in Nat /\ Cardinality(Unposted(k)) \in Nat
        BY <2>2, UnpostedFinite, HooksTypes DEF DeliveryRow
      <4>4. delivery[k].lapsed \/ n < MaxAttempts + lapses[k]
        BY <2>1, <2>2 DEF Due, RowCounts
      <4>5. Cardinality(Unposted(k))' <= Cardinality(Unposted(k)) + 1 /\ Cardinality(Unposted(k))' \in Nat
        BY <3>1, <3>4, <4>1
      <4>6. claimed.attempts <= MaxAttempts + lapses'[k]
        BY <2>2, <2>32, <4>2, <4>3, <4>4 DEF RowCounts
      <4>7. posts'[k] + Cardinality(Unposted(k))' <= claimed.attempts + forgiven'[k]
        BY <2>2, <2>32, <4>2, <4>3, <4>5 DEF RowCounts
      <4> QED BY <2>32, <3>4, <4>2, <4>6, <4>7 DEF RowCounts
    <3> QED BY <3>3, <3>4
  <2> QED BY <2>4, <2>5, <2>6 DEF HooksIInv
<1>3. ASSUME ReadSubscription(p) \/ Post(p) \/ AttemptDies(p) PROVE HooksIInv'
  <2> DEFINE k == attempt[p].on
  <2>1. attempt[p].pc # "idle" /\ k \in Deliveries /\ UNCHANGED <<delivery, lapses>>
    BY <1>0, <1>3 DEF ReadSubscription, Post, AttemptDies
  <2>2. PICK row \in AttemptRow :
          /\ attempt' = [attempt EXCEPT ![p] = row]
          /\ \/ row.on = k /\ row.tries = attempt[p].tries /\ (row.pc = "update" => row.result # "unknown")
             \/ row.pc = "idle"
          /\ Pays(row) => p \in Unposted(k)
          /\ posts' = posts \/ (posts' = [posts EXCEPT ![k] = posts[k] + 1] /\ p \in Unposted(k) /\ ~Pays(row))
    <3>1. CASE ReadSubscription(p)
      <4>1. PICK row \in {[attempt[p] EXCEPT !.pc = "update", !.result = "failure"],
                          [attempt[p] EXCEPT !.pc = "update", !.result = "paused"],
                          [attempt[p] EXCEPT !.pc = "post"]} : attempt' = [attempt EXCEPT ![p] = row]
        BY <3>1, HooksTypes DEF ReadSubscription
      <4>2. row \in AttemptRow /\ row.on = k /\ row.tries = attempt[p].tries /\ (row.pc = "update" => row.result # "unknown")
        BY <1>0, <4>1 DEF AttemptRow
      <4>3. UNCHANGED posts /\ p \in Unposted(k)
        BY <3>1 DEF ReadSubscription, Unposted, Pays
      <4> QED BY <4>1, <4>2, <4>3
    <3>2. CASE Post(p)
      <4>1. PICK row \in {[attempt[p] EXCEPT !.pc = "update", !.result = "failure"],
                          [attempt[p] EXCEPT !.pc = "update", !.result = "success"]} :
               attempt' = [attempt EXCEPT ![p] = row] /\ (posts' = posts \/ posts' = [posts EXCEPT ![k] = posts[k] + 1])
        BY <3>2, HooksTypes DEF Post
      <4>2. row \in AttemptRow /\ row.on = k /\ row.tries = attempt[p].tries /\ row.pc = "update" /\ row.result \in {"failure", "success"}
        BY <1>0, <4>1 DEF AttemptRow
      <4>3. p \in Unposted(k)
        BY <3>2 DEF Post, Unposted, Pays
      <4> QED BY <4>1, <4>2, <4>3 DEF Pays
    <3>3. CASE AttemptDies(p)
      <4>1. Waiting \in AttemptRow /\ Waiting.pc = "idle"
        BY DEF Waiting, AttemptRow
      <4>2. attempt' = [attempt EXCEPT ![p] = Waiting] /\ UNCHANGED posts
        BY <3>3 DEF AttemptDies
      <4>3. ~Pays(Waiting)
        BY DEF Pays, Waiting
      <4> QED BY <4>1, <4>2, <4>3
    <3> QED BY <1>3, <3>1, <3>2, <3>3
  <2>3. hookBudget' \in [{"stalls", "crashes", "toggles", "retries"} -> Nat]
    <3>1. UNCHANGED hookBudget \/ Spend("crashes")
      BY <1>3 DEF ReadSubscription, Post, AttemptDies
    <3> QED BY <3>1, SpendsOne
  <2>4. \A j \in Deliveries : posts'[j] = posts[j] \/ (j = k /\ posts'[j] = posts[j] + 1)
    BY <2>1, <2>2, HooksTypes
  <2>5. HooksTypeOK'
    <3>1. attempt' \in [Deliverers -> AttemptRow]
      BY <2>2, HooksTypes
    <3>2. posts' \in [Deliveries -> Nat]
      <4>1. posts \in [Deliveries -> Nat] /\ posts[k] + 1 \in Nat
        BY <2>1, HooksTypes
      <4> QED BY <2>2, <4>1
    <3>3. \A q \in Deliverers : attempt'[q].pc # "idle" => attempt'[q].on \in Deliveries
      BY <2>1, <2>2, HooksTypes
    <3> QED BY <1>1, <2>1, <2>3, <3>1, <3>2, <3>3 DEF HooksIInv, HooksTypeOK, AttemptRow
  <2>6. ASSUME NEW q \in Deliverers PROVE ClaimCounts(q)'
    <3>1. ClaimCounts(q) /\ (q # p => attempt'[q] = attempt[q]) /\ attempt'[p] = row
      BY <2>2, HooksTypes DEF HooksIInv
    <3> QED BY <1>0, <2>1, <2>2, <3>1 DEF ClaimCounts
  <2>7. ASSUME NEW j \in Deliveries PROVE RowCounts(j)'
    <3>1. /\ RowCounts(j) /\ delivery'[j] = delivery[j] /\ lapses'[j] = lapses[j] /\ forgiven'[j] = forgiven[j]
          /\ {posts[j], forgiven[j], delivery[j].attempts} \subseteq Nat
      BY <1>1, <2>1, HooksTypes DEF HooksIInv, DeliveryRow
    <3>2. posts'[j] + Cardinality(Unposted(j))' <= posts[j] + Cardinality(Unposted(j))
      <4>1. IsFiniteSet(Unposted(j)) /\ Cardinality(Unposted(j)) \in Nat
        BY UnpostedFinite
      <4>2. /\ Cardinality(Unposted(j) \ {p}) \in Nat
            /\ Cardinality(Unposted(j) \ {p}) = IF p \in Unposted(j) THEN Cardinality(Unposted(j)) - 1 ELSE Cardinality(Unposted(j))
        BY <4>1, FS_RemoveElement, FS_CardinalityType, Zenon
      <4>3. Unposted(j)' = IF j # k THEN Unposted(j)
                           ELSE IF Pays(row) THEN Unposted(k) \cup {p} ELSE Unposted(k) \ {p}
        BY <2>1, <2>2, UnpostedOf
      <4>4. CASE j # k
        BY <2>4, <3>1, <4>1, <4>3, <4>4
      <4>5. CASE j = k /\ Pays(row)
        <5>1. Unposted(j)' = Unposted(j)
          BY <2>2, <4>3, <4>5
        <5>2. posts'[j] = posts[j]
          BY <2>2, <4>5
        <5> QED BY <3>1, <4>1, <5>1, <5>2
      <4>6. CASE j = k /\ ~Pays(row)
        <5>1. Unposted(j)' = Unposted(j) \ {p}
          BY <4>3, <4>6
        <5>2. posts'[j] = posts[j] \/ (posts'[j] = posts[j] + 1 /\ p \in Unposted(j))
          BY <2>2, <2>4, <4>6, HooksTypes
        <5> QED BY <3>1, <4>1, <4>2, <5>1, <5>2
      <4> QED BY <4>4, <4>5, <4>6
    <3>3. Cardinality(Unposted(j))' \in Nat /\ posts'[j] \in Nat /\ Cardinality(Unposted(j)) \in Nat
      <4>1. IsFiniteSet(Unposted(j)') /\ Cardinality(Unposted(j)') \in Nat
        <5>1. Unposted(j)' \subseteq Deliverers
          BY DEF Unposted
        <5> QED BY <5>1, WebhooksAssumption, FS_Subset, FS_CardinalityType
      <4> QED BY <2>4, <3>1, <4>1, UnpostedFinite
    <3>4. posts'[j] + Cardinality(Unposted(j))' <= delivery[j].attempts + forgiven[j]
      BY <3>1, <3>2, <3>3 DEF RowCounts
    <3> QED BY <3>1, <3>4 DEF RowCounts
  <2> QED BY <2>5, <2>6, <2>7 DEF HooksIInv
<1>4. ASSUME UpdateDelivery(p) PROVE HooksIInv'
  <2> DEFINE k == attempt[p].on
             a == attempt[p]
  <2>1. /\ a.pc = "update" /\ k \in Deliveries /\ a.tries \in Nat /\ a.tries >= 1
        /\ a.result \in {"success", "failure", "paused"}
        /\ attempt' = [attempt EXCEPT ![p] = Waiting] /\ UNCHANGED <<posts, lapses, hookBudget>>
        /\ delivery' = IF delivery[k].claim = p THEN [delivery EXCEPT ![k] = Outcome(a)] ELSE delivery
    BY <1>0, <1>4 DEF UpdateDelivery, ClaimCounts, AttemptRow
  <2>2. Waiting \in AttemptRow /\ Waiting.pc = "idle" /\ ~Pays(Waiting)
    BY DEF Waiting, AttemptRow, Pays
  <2>3. /\ Outcome(a) \in DeliveryRow /\ Outcome(a).claim = Nobody /\ ~Outcome(a).lapsed
        /\ Outcome(a).status \in {"delivered", "paused", "failed", "pending"}
        /\ Outcome(a).attempts = IF a.result = "paused" THEN a.tries - 1 ELSE a.tries
        /\ Outcome(a).status = "pending" => a.tries < MaxAttempts
        /\ Outcome(a).status = "paused" => a.result = "paused"
    BY <2>1, HooksTypes DEF Outcome, DeliveryRow
  <2>4. /\ delivery' \in [Deliveries -> DeliveryRow] /\ attempt' \in [Deliverers -> AttemptRow]
        /\ \A q \in Deliverers : attempt'[q] = IF q = p THEN Waiting ELSE attempt[q]
        /\ \A j \in Deliveries : delivery'[j] = IF j = k /\ delivery[k].claim = p THEN Outcome(a) ELSE delivery[j]
    BY <2>1, <2>2, <2>3, HooksTypes
  <2>5. HooksTypeOK'
    <3>1. \A q \in Deliverers : attempt'[q].pc # "idle" => attempt'[q].on \in Deliveries
      BY <2>2, <2>4, HooksTypes
    <3> QED BY <1>1, <2>1, <2>4, <3>1 DEF HooksIInv, HooksTypeOK, DeliveryRow, AttemptRow
  <2>6. ASSUME NEW q \in Deliverers PROVE ClaimCounts(q)'
    <3>1. ClaimCounts(q) /\ q # Nobody /\ (attempt[q].pc # "idle" => attempt[q].on \in Deliveries)
      BY HooksTypes DEF HooksIInv
    <3> QED BY <2>2, <2>3, <2>4, <3>1 DEF ClaimCounts
  <2>7. ASSUME NEW j \in Deliveries PROVE RowCounts(j)'
    <3>1. /\ RowCounts(j) /\ posts'[j] = posts[j] /\ lapses'[j] = lapses[j] /\ forgiven'[j] = forgiven[j]
          /\ {posts[j], lapses[j], forgiven[j], delivery[j].attempts, MaxAttempts} \subseteq Nat
      BY <1>1, <2>1, HooksTypes DEF HooksIInv, DeliveryRow
    <3>2. Unposted(j)' = IF j # k THEN Unposted(j) ELSE Unposted(k) \ {p}
      BY <2>1, <2>2, UnpostedOf
    <3>3. IsFiniteSet(Unposted(j)) /\ Cardinality(Unposted(j)) \in Nat
      BY UnpostedFinite
    <3>4. /\ Cardinality(Unposted(j) \ {p}) \in Nat
          /\ Cardinality(Unposted(j) \ {p}) = IF p \in Unposted(j) THEN Cardinality(Unposted(j)) - 1 ELSE Cardinality(Unposted(j))
      BY <3>3, FS_RemoveElement, FS_CardinalityType, Zenon
    <3>5. Cardinality(Unposted(j))' \in Nat /\ Cardinality(Unposted(j))' <= Cardinality(Unposted(j))
      BY <3>2, <3>3, <3>4
    <3>6. CASE ~(j = k /\ delivery[k].claim = p)
      <4>1. delivery'[j] = delivery[j]
        BY <2>4, <3>6
      <4> QED BY <3>1, <3>3, <3>5, <4>1 DEF RowCounts
    <3>7. CASE j = k /\ delivery[k].claim = p
      <4>1. delivery'[j] = Outcome(a)
        BY <2>4, <3>7
      <4>2. a.tries = delivery[j].attempts
        BY <1>0, <2>1, <3>7 DEF ClaimCounts
      <4>3. CASE a.result = "paused"
        <5>1. p \in Unposted(j)
          BY <2>1, <3>7, <4>3 DEF Unposted, Pays
        <5>2. Outcome(a).attempts = delivery[j].attempts - 1
          BY <2>3, <4>2, <4>3
        <5>3. Cardinality(Unposted(j))' = Cardinality(Unposted(j)) - 1
          BY <3>2, <3>4, <3>7, <5>1
        <5>4. Outcome(a).attempts < MaxAttempts + lapses'[j]
          BY <2>1, <3>1, <4>2, <5>2 DEF RowCounts
        <5>5. posts'[j] + Cardinality(Unposted(j))' <= Outcome(a).attempts + forgiven'[j]
          BY <3>1, <3>3, <5>2, <5>3 DEF RowCounts
        <5>6. Outcome(a).attempts <= MaxAttempts + lapses'[j]
          BY <2>1, <3>1, <4>2, <5>2 DEF RowCounts
        <5> QED BY <2>3, <4>1, <5>4, <5>5, <5>6 DEF RowCounts
      <4>4. CASE a.result # "paused"
        <5>1. Outcome(a).attempts = delivery[j].attempts
          BY <2>3, <4>2, <4>4
        <5>2. Outcome(a).status = "pending" => Outcome(a).attempts < MaxAttempts + lapses'[j]
          BY <2>3, <3>1, <4>2, <5>1
        <5>3. posts'[j] + Cardinality(Unposted(j))' <= Outcome(a).attempts + forgiven'[j]
          BY <3>1, <3>3, <3>5, <5>1 DEF RowCounts
        <5> QED BY <2>3, <3>1, <4>1, <4>4, <5>1, <5>2, <5>3 DEF RowCounts
      <4> QED BY <4>3, <4>4
    <3> QED BY <3>6, <3>7
  <2> QED BY <2>5, <2>6, <2>7 DEF HooksIInv
<1> QED BY <1>2, <1>3, <1>4 DEF Deliver

(* A lapse only marks the row.                                             *)
LEMMA KeepsLapse ==
  ASSUME HooksIInv, NEW k \in Deliveries, LeaseLapses(k)
  PROVE  HooksIInv'
<1>1. /\ delivery[k].status = "sending" /\ delivery' = [delivery EXCEPT ![k].lapsed = TRUE]
      /\ UNCHANGED <<subscribed, hookPaused, attempt, retrying, posts, lapses, forgiven>>
  BY DEF LeaseLapses
<1>2. hookBudget' \in [{"stalls", "crashes", "toggles", "retries"} -> Nat]
  <2>1. UNCHANGED hookBudget \/ Spend("stalls")
    BY DEF LeaseLapses
  <2> QED BY <2>1, SpendsOne
<1>3. ASSUME NEW j \in Deliveries
      PROVE  /\ delivery'[j] \in DeliveryRow /\ delivery'[j].status = delivery[j].status
             /\ delivery'[j].attempts = delivery[j].attempts /\ delivery'[j].claim = delivery[j].claim
             /\ j # k => delivery'[j] = delivery[j]
  <2>1. delivery[j] \in DeliveryRow
    BY HooksTypes
  <2>2. CASE j # k
    BY <1>1, <2>1, <2>2, HooksTypes
  <2>3. CASE j = k
    <3>1. delivery'[j] = [status |-> delivery[j].status, attempts |-> delivery[j].attempts,
                          claim |-> delivery[j].claim, lapsed |-> TRUE]
      BY <1>1, <2>1, <2>3, HooksTypes DEF DeliveryRow
    <3> QED BY <2>1, <2>3, <3>1 DEF DeliveryRow
  <2> QED BY <2>2, <2>3
<1>4. delivery' \in [Deliveries -> DeliveryRow]
  BY <1>1, <1>3, HooksTypes
<1>5. HooksTypeOK'
  BY <1>1, <1>2, <1>4 DEF HooksIInv, HooksTypeOK, DeliveryRow
<1>6. ASSUME NEW j \in Deliveries PROVE RowCounts(j)'
  <2>1. RowCounts(j) /\ Unposted(j)' = Unposted(j)
    BY <1>1 DEF HooksIInv, Unposted, Pays
  <2> QED BY <1>1, <1>3, <2>1 DEF RowCounts
<1>7. ASSUME NEW q \in Deliverers PROVE ClaimCounts(q)'
  BY <1>1, <1>3, HooksTypes DEF HooksIInv, ClaimCounts
<1> QED BY <1>5, <1>6, <1>7 DEF HooksIInv

HooksStep == HooksNext \/ \E e \in Announcements : Enqueue(e)

(* Every step of the component keeps the invariant.                        *)
LEMMA NextIInv == HooksIInv /\ [HooksStep]_hookVars => HooksIInv'
<1> SUFFICES ASSUME HooksIInv, [HooksStep]_hookVars PROVE HooksIInv'
  OBVIOUS
<1>1. CASE UNCHANGED hookVars
  BY <1>1 DEF hookVars, HooksIInv, HooksTypeOK, ClaimCounts, RowCounts, Unposted, Pays
<1>2. CASE HooksStep
  BY <1>2, KeepsRequests, KeepsAttempt, KeepsLapse DEF HooksStep, HooksNext
<1> QED BY <1>1, <1>2

(* A delivered row is neither due, claimed, paused, failed nor missing.    *)
LEMMA DeliveredStep ==
  HooksIInv /\ [HooksStep]_hookVars =>
    \A k \in Deliveries : delivery[k].status = "delivered" => delivery'[k] = delivery[k]
<1> SUFFICES ASSUME HooksIInv, [HooksStep]_hookVars, NEW k \in Deliveries, delivery[k].status = "delivered"
             PROVE  delivery'[k] = delivery[k]
  OBVIOUS
<1>1. /\ delivery \in [Deliveries -> DeliveryRow] /\ RowCounts(k) /\ delivery[k].status # "sending"
      /\ ~delivery[k].lapsed /\ delivery[k].claim = Nobody
  BY HooksTypes DEF HooksIInv, RowCounts
<1>2. ASSUME NEW p \in Deliverers, Deliver(p) \/ AttemptDies(p) PROVE delivery'[k] = delivery[k]
  <2>1. p # Nobody
    BY HooksTypes
  <2> QED BY <1>1, <1>2, <2>1 DEF Deliver, ClaimDelivery, Due, ReadSubscription, Post, UpdateDelivery, AttemptDies
<1>3. ASSUME NEW s \in Subscriptions, SubscribeHook(s) \/ PauseHook(s) \/ ResumeHook(s) PROVE delivery'[k] = delivery[k]
  BY <1>1, <1>3 DEF SubscribeHook, PauseHook, ResumeHook
<1>4. ASSUME NEW j \in Deliveries, RetryReads(j) \/ RetryWrites(j) \/ LeaseLapses(j) PROVE delivery'[k] = delivery[k]
  BY <1>1, <1>4 DEF RetryReads, RetryWrites, LeaseLapses
<1>5. ASSUME NEW e \in Announcements, Enqueue(e) PROVE delivery'[k] = delivery[k]
  BY <1>1, <1>5 DEF Enqueue
<1>6. CASE UNCHANGED hookVars
  BY <1>6 DEF hookVars
<1> QED BY <1>2, <1>3, <1>4, <1>5, <1>6 DEF HooksStep, HooksNext

(* However many deliverers stall, die and come late, and whatever requests  *)
(* pause, resume and retry: a receiver gets a delivery at most MaxAttempts  *)
(* times an arming, and once more for each claim taken over (DeliverOne).   *)
THEOREM PostsAreBounded == HooksSpec => []PostsBounded
<1>1. HooksInit => HooksIInv
  BY InitIInv
<1>2. HooksIInv /\ [HooksStep]_hookVars => HooksIInv'
  BY NextIInv
<1>3. HooksIInv => PostsBounded
  BY CountsBound
<1> QED BY <1>1, <1>2, <1>3, PTL DEF HooksSpec, HooksStep

(* An acknowledged delivery is never written again: the update is fenced by *)
(* the claim, and no request re-arms it.                                   *)
THEOREM DeliveredIsFinal == HooksSpec => DeliveredStays
<1>1. HooksInit => HooksIInv
  BY InitIInv
<1>2. HooksIInv /\ [HooksStep]_hookVars => HooksIInv'
  BY NextIInv
<1>3. HooksIInv /\ [HooksStep]_hookVars =>
        [\A k \in Deliveries : delivery[k].status = "delivered" => delivery'[k] = delivery[k]]_hookVars
  BY DeliveredStep
<1> QED BY <1>1, <1>2, <1>3, PTL DEF HooksSpec, HooksStep, DeliveredStays
=============================================================================
