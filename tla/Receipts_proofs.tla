--------------------------- MODULE Receipts_proofs ---------------------------
(***************************************************************************)
(* For any clients, keys and numbers of attempts: the use case of a key    *)
(* runs once in a replay window, a call without a key runs once, and those *)
(* who share a key and a window are told the same.                         *)
(***************************************************************************)
EXTENDS Receipts, FiniteSetTheorems, TLAPS

Kinds == {"none", "ok", "refused", "busy"}
CallRow == [pc : {"idle", "waiting", "done"}, attempt : 0..CallRetries,
            answer : [kind : Kinds, id : Nat]]

(* Only a call with a key is ever sent again or holds one.                 *)
BareSentOnce(c) ==
  IF KeyOf[c] # NoKey THEN ranBare[c] = 0 ELSE
    /\ ranBare[c] <= 1
    /\ \A n \in 0..CallRetries :
         /\ request[<<c, n>>] # "holding"
         /\ n > 0 \/ call[c].pc = "idle" => request[<<c, n>>] = "unsent"
    /\ request[<<c, 0>>] # "done" => ranBare[c] = 0

(* An answer given in the key's first window is the one its receipt keeps.  *)
Kept(c, answer) ==
  answer.kind = "ok" /\ KeyOf[c] # NoKey /\ pruned[KeyOf[c]] = 0 =>
    receipt[KeyOf[c]] = [digest |-> BodyOf[c], answer |-> answer.id]

(* The inductive invariant: runs of a key are counted by its receipt and    *)
(* the windows that are over.                                              *)
RecIInv ==
  /\ RecTypeOK
  /\ \A k \in Keys : /\ IsFiniteSet(ran[k])
                     /\ Cardinality(ran[k]) <= pruned[k] + IF receipt[k] = NoReceipt THEN 0 ELSE 1
  /\ \A c \in Clients : BareSentOnce(c) /\ Kept(c, call[c].answer)
  /\ \A r \in Requests : Kept(r[1], reply[r])

(* What TLC checks of RecIInv follows from it.                             *)
LEMMA IInvImplies == RecIInv => KeyedOnce /\ SameAnswer
<1> SUFFICES ASSUME RecIInv PROVE KeyedOnce /\ SameAnswer
  OBVIOUS
<1>1. KeyedOnce
  <2>1. ASSUME NEW k \in Keys PROVE Cardinality(ran[k]) <= 1 + pruned[k]
    <3>1. Cardinality(ran[k]) \in Nat /\ pruned[k] \in Nat
      BY FS_CardinalityType DEF RecIInv, RecTypeOK
    <3> QED BY <3>1 DEF RecIInv
  <2>2. ASSUME NEW c \in Clients PROVE ranBare[c] <= 1
    <3>1. BareSentOnce(c)
      BY DEF RecIInv
    <3> QED BY <3>1 DEF BareSentOnce
  <2> QED BY <2>1, <2>2 DEF KeyedOnce
<1>2. SameAnswer
  <2> SUFFICES ASSUME NEW c \in Clients, NEW d \in Clients,
                      KeyOf[c] = KeyOf[d], KeyOf[c] # NoKey, pruned[KeyOf[c]] = 0,
                      call[c].answer.kind = "ok", call[d].answer.kind = "ok"
               PROVE  call[c].answer = call[d].answer /\ BodyOf[c] = BodyOf[d]
    BY DEF SameAnswer
  <2>1. /\ call[c].answer \in [kind : Kinds, id : Nat] /\ call[d].answer \in [kind : Kinds, id : Nat]
    BY DEF RecIInv, RecTypeOK, Kinds
  <2>2. [digest |-> BodyOf[c], answer |-> call[c].answer.id]
          = [digest |-> BodyOf[d], answer |-> call[d].answer.id]
    BY DEF RecIInv, Kept
  <2> QED BY <2>1, <2>2
<1> QED BY <1>1, <1>2

(* Nothing has been sent, run or answered.                                 *)
LEMMA InitIInv == RecInit => RecIInv
<1> SUFFICES ASSUME RecInit PROVE RecIInv
  OBVIOUS
<1>1. RecTypeOK
  BY ReceiptsAssumption DEF RecInit, RecTypeOK, NoReceipt, NoReply, Reply
<1>2. \A k \in Keys : IsFiniteSet(ran[k]) /\ Cardinality(ran[k]) = 0 /\ pruned[k] = 0
  BY FS_EmptySet DEF RecInit
<1>3. \A c \in Clients : BareSentOnce(c) /\ Kept(c, call[c].answer)
  <2> TAKE c \in Clients
  <2>1. \A n \in 0..CallRetries : <<c, n>> \in Requests
    BY DEF Requests
  <2> QED BY <2>1, ReceiptsAssumption DEF RecInit, BareSentOnce, Kept, NoReply, Reply
<1>4. \A r \in Requests : Kept(r[1], reply[r])
  BY DEF RecInit, Kept, NoReply, Reply
<1> QED BY <1>1, <1>2, <1>3, <1>4 DEF RecIInv

(* The client: it sends an attempt again only under a key, and keeps what   *)
(* it was answered (Client.Call).                                          *)
LEMMA KeepsClient ==
  ASSUME RecIInv, NEW c \in Clients, Call(c) \/ CallBreaks(c) \/ CallReturns(c)
  PROVE  RecIInv'
<1>0. UNCHANGED <<receipt, holder, reply, ran, ranBare, pruned>>
  BY DEF Call, CallBreaks, CallReturns
<1>1. \/ Call(c) /\ call[c].pc = "idle" /\ Sent(<<c, 0>>)
      \/ call[c].pc = "waiting" /\ Retryable(c) /\ Sent(<<c, call[c].attempt + 1>>)
      \/ call[c].pc = "waiting" /\ GivesUp(c, Reply("busy", 0))
      \/ call[c].pc = "waiting" /\ GivesUp(c, reply[<<c, call[c].attempt>>])
  BY DEF Call, CallBreaks, CallReturns
<1>2. call[c].attempt \in 0..CallRetries /\ <<c, call[c].attempt>> \in Requests /\ CallRetries \in Nat
  BY ReceiptsAssumption DEF RecIInv, RecTypeOK, Requests
<1>3. CASE \E m \in 0..CallRetries : Sent(<<c, m>>) /\ (KeyOf[c] = NoKey => m = 0 /\ call[c].pc = "idle")
  <2> PICK m \in 0..CallRetries : Sent(<<c, m>>) /\ (KeyOf[c] = NoKey => m = 0 /\ call[c].pc = "idle")
    BY <1>3
  <2>1. /\ request' = [request EXCEPT ![<<c, m>>] = "admitting"]
        /\ call' = [call EXCEPT ![c].pc = "waiting", ![c].attempt = m]
        /\ <<c, m>> \in Requests
    BY DEF Sent, Requests
  <2>2. RecTypeOK'
    <3>1. request' \in [Requests -> {"unsent", "admitting", "holding", "done"}]
      BY <2>1 DEF RecIInv, RecTypeOK
    <3>2. call' \in [Clients -> CallRow]
      <4>1. call \in [Clients -> CallRow]
        BY DEF RecIInv, RecTypeOK, CallRow, Kinds
      <4> QED BY <2>1, <4>1 DEF CallRow
    <3> QED BY <1>0, <3>1, <3>2 DEF RecIInv, RecTypeOK, CallRow, Kinds
  <2>3. ASSUME NEW d \in Clients PROVE BareSentOnce(d)' /\ Kept(d, call[d].answer)'
    <3>1. \A i \in 0..CallRetries : <<d, i>> \in Requests
      BY DEF Requests
    <3>2. call'[d].answer = call[d].answer
      BY <2>1 DEF RecIInv, RecTypeOK
    <3>3. Kept(d, call[d].answer)'
      BY <1>0, <3>2 DEF RecIInv, Kept
    <3>4. CASE d # c
      BY <1>0, <2>1, <3>1, <3>3, <3>4 DEF RecIInv, RecTypeOK, BareSentOnce
    <3>5. CASE d = c
      BY <1>0, <1>2, <2>1, <3>1, <3>3, <3>5 DEF RecIInv, RecTypeOK, BareSentOnce
    <3> QED BY <3>4, <3>5
  <2> QED BY <1>0, <2>2, <2>3 DEF RecIInv, Kept, NoReceipt
<1>4. CASE \E a \in {Reply("busy", 0), reply[<<c, call[c].attempt>>]} : GivesUp(c, a) /\ call[c].pc = "waiting"
  <2> PICK a \in {Reply("busy", 0), reply[<<c, call[c].attempt>>]} : GivesUp(c, a) /\ call[c].pc = "waiting"
    BY <1>4
  <2>1. /\ a \in [kind : Kinds, id : Nat] /\ Kept(c, a)
        /\ request' = request /\ call' = [call EXCEPT ![c].pc = "done", ![c].answer = a]
    BY <1>2 DEF RecIInv, RecTypeOK, Reply, Kinds, Kept, GivesUp
  <2>2. RecTypeOK'
    <3>1. call' \in [Clients -> CallRow]
      <4>1. call \in [Clients -> CallRow]
        BY DEF RecIInv, RecTypeOK, CallRow, Kinds
      <4> QED BY <2>1, <4>1 DEF CallRow
    <3> QED BY <1>0, <2>1, <3>1 DEF RecIInv, RecTypeOK, CallRow, Kinds
  <2>3. ASSUME NEW d \in Clients PROVE BareSentOnce(d)' /\ Kept(d, call[d].answer)'
    BY <1>0, <2>1 DEF RecIInv, RecTypeOK, BareSentOnce, Kept
  <2> QED BY <1>0, <2>1, <2>2, <2>3 DEF RecIInv, Kept, NoReceipt
<1> QED
  BY <1>1, <1>2, <1>3, <1>4, ReceiptsAssumption DEF Retryable

(* A handler waits for its key, or ends: with the stored answer, with a     *)
(* refusal, or by running the use case without a key (Admit).              *)
LEMMA KeepsHandler ==
  ASSUME RecIInv, NEW r \in Requests, NEW id \in Nat,
         AdmitBegins(r) \/ AdmitKnows(r) \/ AdmitFails(r) \/ RunsBare(r, id)
  PROVE  RecIInv'
<1> DEFINE ends == /\ request' = [request EXCEPT ![r] = "done"]
                   /\ \E a \in [kind : Kinds, id : Nat] :
                        Kept(r[1], a) /\ reply' = [reply EXCEPT ![r] = a]
<1>0. PICK c \in Clients, n \in 0..CallRetries : r = <<c, n>>
  BY DEF Requests
<1>1. /\ UNCHANGED <<receipt, call, ran, pruned>>
      /\ request[r] \in {"admitting", "holding"}
      /\ ~RunsBare(r, id) => UNCHANGED ranBare
      /\ RunsBare(r, id) => /\ ranBare' = [ranBare EXCEPT ![c] = ranBare[c] + 1]
                            /\ KeyOf[c] = NoKey /\ request[r] = "admitting"
  BY <1>0 DEF AdmitBegins, AdmitKnows, AdmitFails, RunsBare
<1>2. holder' \in [Keys -> Requests \cup {Free}]
  <2>1. holder' = holder \/ (\E k : holder' = [holder EXCEPT ![k] = r]) \/ \E k : holder' = [holder EXCEPT ![k] = Free]
    BY DEF AdmitBegins, AdmitKnows, AdmitFails, RunsBare, Released
  <2> QED BY <2>1 DEF RecIInv, RecTypeOK
<1>3. ends \/ /\ request' = [request EXCEPT ![r] = "holding"]
              /\ UNCHANGED reply /\ KeyOf[c] # NoKey /\ ~RunsBare(r, id)
  <2>1. CASE AdmitBegins(r)
    BY <1>0, <2>1, <1>1 DEF AdmitBegins, RunsBare, RecIInv, RecTypeOK, Requests
  <2>2. CASE AdmitKnows(r)
    <3> DEFINE known == receipt[KeyOf[c]]
    <3>1. BareSentOnce(c) /\ request[<<c, n>>] = "holding"
      BY <1>0, <2>2 DEF RecIInv, AdmitKnows
    <3>2. known = [digest |-> known.digest, answer |-> known.answer] /\ known.answer \in Nat
      BY <3>1, ReceiptsAssumption DEF RecIInv, RecTypeOK, BareSentOnce
    <3>3. /\ request' = [request EXCEPT ![r] = "done"]
          /\ reply' = [reply EXCEPT ![r] = IF known.digest # BodyOf[c] THEN Reply("refused", 0)
                                           ELSE Reply("ok", known.answer)]
      BY <1>0, <2>2 DEF AdmitKnows, Answers
    <3>4. CASE known.digest # BodyOf[c]
      BY <3>3, <3>4 DEF Kept, Reply, Kinds
    <3>5. CASE known.digest = BodyOf[c]
      <4>1. Kept(c, Reply("ok", known.answer)) /\ Reply("ok", known.answer) \in [kind : Kinds, id : Nat]
        BY <3>2, <3>5 DEF Kept, Reply, Kinds
      <4> QED BY <1>0, <3>3, <3>5, <4>1
    <3> QED BY <3>4, <3>5
  <2>3. CASE AdmitFails(r)
    BY <2>3 DEF AdmitFails, Answers, Kept, Reply, Kinds
  <2>4. CASE RunsBare(r, id)
    BY <2>4 DEF RunsBare, Answers, Kept, Reply, Kinds
  <2> QED BY <2>1, <2>2, <2>3, <2>4
<1>4. RecTypeOK'
  <2>1. request' \in [Requests -> {"unsent", "admitting", "holding", "done"}]
    BY <1>3 DEF RecIInv, RecTypeOK
  <2>2. reply' \in [Requests -> [kind : Kinds, id : Nat]]
    BY <1>3 DEF RecIInv, RecTypeOK, Kinds
  <2>3. ranBare' \in [Clients -> Nat]
    <3>1. ranBare \in [Clients -> Nat] /\ ranBare[c] + 1 \in Nat
      BY DEF RecIInv, RecTypeOK
    <3>2. ranBare' = ranBare \/ ranBare' = [ranBare EXCEPT ![c] = ranBare[c] + 1]
      BY <1>1
    <3> QED BY <3>1, <3>2
  <2> QED BY <1>1, <1>2, <2>1, <2>2, <2>3 DEF RecIInv, RecTypeOK, Kinds
<1>5. ASSUME NEW d \in Clients PROVE BareSentOnce(d)'
  <2>1. \A i \in 0..CallRetries : <<d, i>> \in Requests /\ (<<d, i>> = r <=> d = c /\ i = n)
    BY <1>0 DEF Requests
  <2>2. CallRetries \in Nat /\ 0 \in 0..CallRetries
    BY ReceiptsAssumption
  <2>3. BareSentOnce(d) /\ ranBare[d] \in Nat /\ call[d] = call'[d]
    BY <1>1 DEF RecIInv, RecTypeOK
  <2>4. \A q \in Requests : q # r => request'[q] = request[q]
    BY <1>3 DEF RecIInv, RecTypeOK
  <2>5. request'[r] \in {"done", "holding"} /\ (KeyOf[c] = NoKey => request'[r] = "done")
    BY <1>3 DEF RecIInv, RecTypeOK
  <2>6. KeyOf[c] = NoKey => n = 0 /\ request[r] = "admitting"
    <3>1. BareSentOnce(c) /\ request[<<c, n>>] # "unsent"
      BY <1>0, <1>1 DEF RecIInv
    <3> QED BY <1>0, <1>1, <3>1 DEF BareSentOnce
  <2>7. d # c => ranBare'[d] = ranBare[d]
    BY <1>1 DEF RecIInv, RecTypeOK
  <2>8. CASE d # c
    BY <2>1, <2>2, <2>3, <2>4, <2>7, <2>8 DEF BareSentOnce
  <2>9. CASE d = c /\ KeyOf[c] # NoKey
    BY <1>1, <2>3, <2>9 DEF BareSentOnce, RecIInv, RecTypeOK
  <2>10. CASE d = c /\ KeyOf[c] = NoKey
    <3>1. ranBare[c] = 0 /\ ranBare'[c] \in {0, 1} /\ call[c].pc # "idle"
      BY <1>0, <1>1, <2>3, <2>6, <2>10 DEF BareSentOnce, RecIInv, RecTypeOK
    <3> QED BY <1>0, <2>1, <2>2, <2>3, <2>4, <2>5, <2>6, <2>10, <3>1 DEF BareSentOnce
  <2> QED BY <2>8, <2>9, <2>10
<1>6. ASSUME NEW q \in Requests PROVE Kept(q[1], reply[q])'
  BY <1>1, <1>3 DEF RecIInv, RecTypeOK, Kept
<1> QED BY <1>1, <1>4, <1>5, <1>6 DEF RecIInv, Kept, NoReceipt

(* The first run of a window fills the receipt; retention empties it and    *)
(* ends the window (Admit, pruneAuxTables).                                *)
LEMMA KeepsReceipt ==
  ASSUME RecIInv, NEW k \in Keys,
         PruneReceipt(k) \/ \E r \in Requests, id \in Nat : KeyOf[r[1]] = k /\ AdmitRuns(r, id)
  PROVE  RecIInv'
<1>1. CASE PruneReceipt(k)
  <2>1. /\ receipt' = [receipt EXCEPT ![k] = NoReceipt] /\ receipt[k] # NoReceipt
        /\ pruned' = [pruned EXCEPT ![k] = @ + 1]
        /\ UNCHANGED <<holder, request, reply, call, ran, ranBare>>
    BY <1>1 DEF PruneReceipt
  <2>2. RecTypeOK'
    BY <2>1 DEF RecIInv, RecTypeOK, NoReceipt
  <2>3. ASSUME NEW j \in Keys
        PROVE (/\ IsFiniteSet(ran[j])
               /\ Cardinality(ran[j]) <= pruned[j] + IF receipt[j] = NoReceipt THEN 0 ELSE 1)'
    <3>1. Cardinality(ran[j]) \in Nat /\ pruned[j] \in Nat
      BY FS_CardinalityType DEF RecIInv, RecTypeOK
    <3>2. /\ j = k => receipt'[j] = NoReceipt /\ pruned'[j] = pruned[j] + 1 /\ receipt[j] # NoReceipt
          /\ j # k => receipt'[j] = receipt[j] /\ pruned'[j] = pruned[j]
      BY <2>1 DEF RecIInv, RecTypeOK
    <3>3. NoReceipt' = NoReceipt /\ ran' = ran
      BY <2>1 DEF NoReceipt
    <3> QED BY <3>1, <3>2, <3>3 DEF RecIInv
  <2>4. ASSUME NEW c \in Clients, NEW a, Kept(c, a) PROVE Kept(c, a)'
    BY <2>1, <2>4, ReceiptsAssumption DEF RecIInv, RecTypeOK, Kept
  <2>5. \A c \in Clients : BareSentOnce(c)'
    BY <2>1 DEF RecIInv, BareSentOnce
  <2>6. \A r \in Requests : r[1] \in Clients
    BY DEF Requests
  <2> QED BY <2>1, <2>2, <2>3, <2>4, <2>5, <2>6 DEF RecIInv
<1>2. ASSUME NEW r \in Requests, NEW id \in Nat, KeyOf[r[1]] = k, AdmitRuns(r, id)
      PROVE  RecIInv'
  <2>0. PICK c \in Clients, n \in 0..CallRetries : r = <<c, n>>
    BY DEF Requests
  <2> DEFINE row == [digest |-> BodyOf[c], answer |-> id]
  <2>1. /\ receipt' = [receipt EXCEPT ![k] = row] /\ receipt[k] = NoReceipt
        /\ ran' = [ran EXCEPT ![k] = ran[k] \cup {id}]
        /\ request' = [request EXCEPT ![r] = "done"] /\ request[r] = "holding"
        /\ reply' = [reply EXCEPT ![r] = Reply("ok", id)]
        /\ holder' = [holder EXCEPT ![k] = Free]
        /\ UNCHANGED <<call, ranBare, pruned>>
    BY <1>2, <2>0 DEF AdmitRuns, Answers, Released, RecIInv, RecTypeOK
  <2>2. row # NoReceipt /\ row \in [digest : Bodies \cup {NoBody}, answer : Nat]
    BY ReceiptsAssumption DEF NoReceipt
  <2>3. RecTypeOK'
    <3>1. receipt' \in [Keys -> [digest : Bodies \cup {NoBody}, answer : Nat]]
      BY <2>1, <2>2 DEF RecIInv, RecTypeOK
    <3>2. ran' \in [Keys -> SUBSET Nat]
      BY <2>1 DEF RecIInv, RecTypeOK
    <3>3. reply' \in [Requests -> [kind : Kinds, id : Nat]]
      BY <2>1 DEF RecIInv, RecTypeOK, Kinds, Reply
    <3>4. request' \in [Requests -> {"unsent", "admitting", "holding", "done"}]
          /\ holder' \in [Keys -> Requests \cup {Free}]
      BY <2>1 DEF RecIInv, RecTypeOK
    <3> QED BY <2>1, <3>1, <3>2, <3>3, <3>4 DEF RecIInv, RecTypeOK, Kinds
  <2>4. ASSUME NEW j \in Keys
        PROVE (/\ IsFiniteSet(ran[j])
               /\ Cardinality(ran[j]) <= pruned[j] + IF receipt[j] = NoReceipt THEN 0 ELSE 1)'
    <3>1. Cardinality(ran[j]) \in Nat /\ pruned[j] \in Nat /\ IsFiniteSet(ran[j])
      BY FS_CardinalityType DEF RecIInv, RecTypeOK
    <3>2. IsFiniteSet(ran[j] \cup {id}) /\ Cardinality(ran[j] \cup {id}) <= Cardinality(ran[j]) + 1
      <4>1. /\ IsFiniteSet(ran[j] \cup {id})
            /\ Cardinality(ran[j] \cup {id}) = IF id \in ran[j] THEN Cardinality(ran[j]) ELSE Cardinality(ran[j]) + 1
        BY <3>1, FS_AddElement, Zenon
      <4> QED BY <3>1, <4>1
    <3>3. /\ j = k => receipt'[j] = row /\ ran'[j] = ran[j] \cup {id}
          /\ j # k => receipt'[j] = receipt[j] /\ ran'[j] = ran[j]
      BY <2>1 DEF RecIInv, RecTypeOK
    <3>4. NoReceipt' = NoReceipt /\ pruned' = pruned
      BY <2>1 DEF NoReceipt
    <3>5. CASE j = k
      <4>1. Cardinality(ran[j]) <= pruned[j]
        BY <2>1, <3>1, <3>5 DEF RecIInv
      <4>2. Cardinality(ran[j] \cup {id}) \in Nat
        BY <3>2, FS_CardinalityType
      <4>3. (IF receipt[j] = NoReceipt THEN 0 ELSE 1)' = 1
        BY <2>2, <3>3, <3>4, <3>5
      <4> QED BY <3>1, <3>2, <3>3, <3>4, <3>5, <4>1, <4>2, <4>3
    <3>6. CASE j # k
      BY <3>1, <3>3, <3>4, <3>6 DEF RecIInv
    <3> QED BY <3>5, <3>6
  <2>5. ASSUME NEW d \in Clients, NEW a, Kept(d, a) PROVE Kept(d, a)'
    <3>1. CASE KeyOf[d] # k
      BY <2>1, <2>5, <3>1, ReceiptsAssumption DEF RecIInv, RecTypeOK, Kept
    <3>2. CASE KeyOf[d] = k /\ KeyOf[d] # NoKey /\ a.kind = "ok" /\ pruned[k] = 0
      <4>1. receipt[k] = [digest |-> BodyOf[d], answer |-> a.id]
        BY <2>5, <3>2 DEF Kept
      <4> QED BY <2>1, <4>1, ReceiptsAssumption DEF NoReceipt
    <3> QED BY <2>1, <3>1, <3>2 DEF Kept
  <2>6. \A d \in Clients : BareSentOnce(d)'
    <3>1. \A d \in Clients : BareSentOnce(d)
      BY DEF RecIInv
    <3>2. KeyOf[c] # NoKey
      BY <2>0, <2>1, <3>1 DEF BareSentOnce
    <3>3. \A d \in Clients, i \in 0..CallRetries : <<d, i>> \in Requests /\ (<<d, i>> = r => d = c)
      BY <2>0 DEF Requests
    <3>4. \A q \in Requests : q # r => request'[q] = request[q]
      BY <2>1 DEF RecIInv, RecTypeOK
    <3>5. ASSUME NEW d \in Clients PROVE BareSentOnce(d)'
      <4>1. d # c => \A i \in 0..CallRetries : request'[<<d, i>>] = request[<<d, i>>]
        BY <3>3, <3>4
      <4>2. 0 \in 0..CallRetries
        BY ReceiptsAssumption
      <4> QED BY <2>1, <3>1, <3>2, <4>1, <4>2 DEF BareSentOnce
    <3> QED BY <3>5
  <2>7. Kept(c, Reply("ok", id))'
    BY <2>0, <1>2, <2>1 DEF Kept, Reply, RecIInv, RecTypeOK
  <2>8. \A q \in Requests : q[1] \in Clients /\ (q # r => reply'[q] = reply[q]) /\ reply'[r] = Reply("ok", id)
    BY <2>1 DEF Requests, RecIInv, RecTypeOK
  <2>9. \A q \in Requests : Kept(q[1], reply[q])'
    <3> TAKE q \in Requests
    <3>1. CASE q = r
      <4>1. q[1] = c /\ reply'[q] = Reply("ok", id)
        BY <2>0, <2>8, <3>1
      <4> QED BY <2>7, <4>1 DEF Kept, Reply
    <3>2. CASE q # r
      <4>1. Kept(q[1], reply[q]) /\ q[1] \in Clients /\ reply'[q] = reply[q]
        BY <2>8, <3>2 DEF RecIInv

      <4> QED BY <2>5, <4>1 DEF Kept
    <3> QED BY <3>1, <3>2
  <2>10. \A d \in Clients : Kept(d, call[d].answer)'
    <3> TAKE d \in Clients
    <3>1. Kept(d, call[d].answer) /\ call'[d] = call[d]
      BY <2>1 DEF RecIInv
    <3> QED BY <2>5, <3>1 DEF Kept
  <2> QED BY <2>3, <2>4, <2>6, <2>9, <2>10 DEF RecIInv
<1> QED BY <1>1, <1>2

(* Every step of the component keeps the invariant.                        *)
LEMMA NextIInv ==
  ASSUME RecIInv,
         [RecNext \/ \E r \in Requests : AdmitRuns(r, Fresh) \/ RunsBare(r, Fresh)]_recVars
  PROVE  RecIInv'
<1>1. Fresh \in Nat
  <2>1. IsFiniteSet({ran[k] : k \in Keys})
    <3>1. ran \in Surjection(Keys, {ran[k] : k \in Keys})
      BY DEF RecIInv, RecTypeOK, Surjection
    <3> QED BY <3>1, ReceiptsAssumption, FS_Surjection, Zenon
  <2>2. \A T \in {ran[k] : k \in Keys} : IsFiniteSet(T)
    BY DEF RecIInv
  <2>3. IsFiniteSet(Made)
    BY <2>1, <2>2, FS_UNION DEF Made
  <2> QED BY <2>3, FS_CardinalityType DEF Fresh
<1>2. ASSUME NEW r \in Requests, AdmitRuns(r, Fresh) PROVE KeyOf[r[1]] \in Keys
  <2>0. PICK c \in Clients, n \in 0..CallRetries : r = <<c, n>>
    BY DEF Requests
  <2>1. request[<<c, n>>] = "holding"
    BY <1>2, <2>0 DEF AdmitRuns
  <2>2. KeyOf[c] # NoKey
    BY <2>1 DEF RecIInv, BareSentOnce
  <2> QED BY <2>0, <2>2, ReceiptsAssumption
<1>3. CASE UNCHANGED recVars
  BY <1>3 DEF recVars, RecIInv, RecTypeOK, BareSentOnce, Kept, NoReceipt
<1>4. ASSUME NEW c \in Clients, Call(c) \/ CallBreaks(c) \/ CallReturns(c) PROVE RecIInv'
  BY <1>4, KeepsClient
<1>5. ASSUME NEW r \in Requests, AdmitBegins(r) \/ AdmitKnows(r) \/ AdmitFails(r) \/ RunsBare(r, Fresh)
      PROVE  RecIInv'
  BY <1>1, <1>5, KeepsHandler
<1>6. ASSUME NEW r \in Requests, AdmitRuns(r, Fresh) PROVE RecIInv'
  BY <1>1, <1>2, <1>6, KeepsReceipt
<1>7. ASSUME NEW k \in Keys, PruneReceipt(k) PROVE RecIInv'
  BY <1>7, KeepsReceipt
<1> QED BY <1>3, <1>4, <1>5, <1>6, <1>7 DEF RecNext

(* A use case runs once under its key and window, whatever breaks: the      *)
(* transaction that runs it also writes the receipt the others find, and a  *)
(* call without a key is sent once.                                        *)
THEOREM KeyedRunsOnce == RecSpec => []KeyedOnce
<1>1. RecInit => RecIInv
  BY InitIInv
<1>2. RecIInv /\ [RecNext \/ \E r \in Requests : AdmitRuns(r, Fresh) \/ RunsBare(r, Fresh)]_recVars => RecIInv'
  BY NextIInv
<1>3. RecIInv => KeyedOnce
  BY IInvImplies
<1> QED BY <1>1, <1>2, <1>3, PTL DEF RecSpec

(* Two callers that share a key and a window and were answered got the same *)
(* answer and had sent the same body.                                      *)
THEOREM CallersAgree == RecSpec => []SameAnswer
<1>1. RecInit => RecIInv
  BY InitIInv
<1>2. RecIInv /\ [RecNext \/ \E r \in Requests : AdmitRuns(r, Fresh) \/ RunsBare(r, Fresh)]_recVars => RecIInv'
  BY NextIInv
<1>3. RecIInv => SameAnswer
  BY IInvImplies
<1> QED BY <1>1, <1>2, <1>3, PTL DEF RecSpec
=============================================================================
