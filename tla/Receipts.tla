------------------------------ MODULE Receipts ------------------------------
(***************************************************************************)
(* Requests under an Idempotency-Key: the client's Call (sdks/go/client.go) *)
(* sends a request again when its connection breaks or the server is busy, *)
(* and Admit (internal/modules/execution/admission.go) runs the use case   *)
(* of a key once, in the transaction that stores its answer.               *)
(*                                                                         *)
(* A request is an attempt of a call; the attempts of one call, and calls  *)
(* of several clients, are handled concurrently. The transaction takes its *)
(* key at the INSERT, which waits for another's uncommitted row.           *)
(***************************************************************************)
EXTENDS Naturals, FiniteSets

CONSTANTS
  Clients,       (* each makes one call                                     *)
  Keys,
  NoKey,         (* a call without the header                               *)
  KeyOf,         (* KeyOf[c]: the key of client c's call, or NoKey          *)
  Bodies,
  BodyOf,        (* BodyOf[c]: what client c asks for                        *)
  NoBody,
  CallRetries,   (* Client.MaxRetries                                       *)
  MaxPrunes      (* bound: receipts dropped by retention                    *)

ASSUME ReceiptsAssumption ==
  /\ IsFiniteSet(Keys) /\ NoKey \notin Keys /\ NoBody \notin Bodies
  /\ KeyOf \in [Clients -> Keys \cup {NoKey}]
  /\ BodyOf \in [Clients -> Bodies]
  /\ CallRetries \in Nat /\ MaxPrunes \in Nat

VARIABLES
  receipt,       (* the committed rows: digest and stored answer            *)
  holder,        (* holder[k]: the request whose transaction holds key k     *)
  request,       (* request[r]: where the handler of attempt r is            *)
  reply,         (* reply[r]: the answer on its way to the client           *)
  call,          (* call[c]: the client's side                              *)
  ran,           (* history: answers of the committed runs of a key         *)
  ranBare,       (* history: how often a call without a key ran              *)
  pruned         (* history: receipts of a key that were dropped            *)

recVars == <<receipt, holder, request, reply, call, ran, ranBare, pruned>>

Requests == Clients \X (0..CallRetries)
Free == <<>>
NoReceipt == [digest |-> NoBody, answer |-> 0]
Reply(kind, id) == [kind |-> kind, id |-> id]
NoReply == Reply("none", 0)

RecInit ==
  /\ receipt = [k \in Keys |-> NoReceipt]
  /\ holder = [k \in Keys |-> Free]
  /\ request = [r \in Requests |-> "unsent"]
  /\ reply = [r \in Requests |-> NoReply]
  /\ call = [c \in Clients |-> [pc |-> "idle", attempt |-> 0, answer |-> NoReply]]
  /\ ran = [k \in Keys |-> {}]
  /\ ranBare = [c \in Clients |-> 0]
  /\ pruned = [k \in Keys |-> 0]

-----------------------------------------------------------------------------
(* The client. A POST is sent again only under a key.                       *)

Sent(r) == /\ request' = [request EXCEPT ![r] = "admitting"]
           /\ call' = [call EXCEPT ![r[1]].pc = "waiting", ![r[1]].attempt = r[2]]

Call(c) ==
  /\ call[c].pc = "idle" /\ Sent(<<c, 0>>)
  /\ UNCHANGED <<receipt, holder, reply, ran, ranBare, pruned>>

Retryable(c) == KeyOf[c] # NoKey /\ call[c].attempt < CallRetries

GivesUp(c, answer) ==
  /\ call' = [call EXCEPT ![c].pc = "done", ![c].answer = answer]
  /\ UNCHANGED request

(* The connection breaks while the handler may be anywhere, or the answer   *)
(* is a status that asks for a retry.                                       *)
CallBreaks(c) ==
  /\ call[c].pc = "waiting"
  /\ IF Retryable(c) THEN Sent(<<c, call[c].attempt + 1>>)
     ELSE GivesUp(c, Reply("busy", 0))
  /\ UNCHANGED <<receipt, holder, reply, ran, ranBare, pruned>>

CallReturns(c) ==
  LET answer == reply[<<c, call[c].attempt>>] IN
  /\ call[c].pc = "waiting" /\ answer # NoReply
  /\ IF answer.kind = "busy" /\ Retryable(c) THEN Sent(<<c, call[c].attempt + 1>>)
     ELSE GivesUp(c, answer)
  /\ UNCHANGED <<receipt, holder, reply, ran, ranBare, pruned>>

-----------------------------------------------------------------------------
(* Admit.                                                                   *)

Answers(r, answer) ==
  /\ request' = [request EXCEPT ![r] = "done"]
  /\ reply' = [reply EXCEPT ![r] = answer]

(* INSERT ... ON CONFLICT DO NOTHING, then the row lock.                    *)
AdmitBegins(r) ==
  LET k == KeyOf[r[1]] IN
  /\ request[r] = "admitting" /\ k # NoKey /\ holder[k] = Free
  /\ holder' = [holder EXCEPT ![k] = r]
  /\ request' = [request EXCEPT ![r] = "holding"]
  /\ UNCHANGED <<receipt, reply, call, ran, ranBare, pruned>>

Released(r) == holder' = [holder EXCEPT ![KeyOf[r[1]]] = Free]

(* Mutant: the digest of the body is not compared.                          *)
AdmitKnowsAny(r) ==
  LET known == receipt[KeyOf[r[1]]] IN
  /\ request[r] = "holding" /\ known # NoReceipt
  /\ Answers(r, Reply("ok", known.answer))
  /\ Released(r)
  /\ UNCHANGED <<receipt, call, ran, ranBare, pruned>>
AdmitKnows(r) ==
  LET known == receipt[KeyOf[r[1]]] IN
  /\ request[r] = "holding" /\ known # NoReceipt
  /\ Answers(r, IF known.digest # BodyOf[r[1]] THEN Reply("refused", 0)
                ELSE Reply("ok", known.answer))
  /\ Released(r)
  /\ UNCHANGED <<receipt, call, ran, ranBare, pruned>>

(* Mutant: the answer is not stored in the receipt.                         *)
AdmitRunsOnly(r, id) ==
  LET k == KeyOf[r[1]] IN
  /\ request[r] = "holding" /\ receipt[k] = NoReceipt
  /\ ran' = [ran EXCEPT ![k] = @ \cup {id}]
  /\ Answers(r, Reply("ok", id))
  /\ Released(r)
  /\ UNCHANGED <<receipt, call, ranBare, pruned>>
(* The use case commits together with its receipt; id names what it made.   *)
AdmitRuns(r, id) ==
  LET k == KeyOf[r[1]] IN
  /\ request[r] = "holding" /\ receipt[k] = NoReceipt
  /\ receipt' = [receipt EXCEPT ![k] = [digest |-> BodyOf[r[1]], answer |-> id]]
  /\ ran' = [ran EXCEPT ![k] = @ \cup {id}]
  /\ Answers(r, Reply("ok", id))
  /\ Released(r)
  /\ UNCHANGED <<call, ranBare, pruned>>

RunsBare(r, id) ==
  /\ request[r] = "admitting" /\ KeyOf[r[1]] = NoKey
  /\ ranBare' = [ranBare EXCEPT ![r[1]] = @ + 1]
  /\ Answers(r, Reply("ok", id))
  /\ UNCHANGED <<receipt, holder, call, ran, pruned>>

(* The transaction rolls back, the receipt with it.                         *)
AdmitFails(r) ==
  /\ request[r] \in {"admitting", "holding"}
  /\ \E kind \in {"refused", "busy"} : Answers(r, Reply(kind, 0))
  /\ IF request[r] = "holding" THEN Released(r) ELSE UNCHANGED holder
  /\ UNCHANGED <<receipt, call, ran, ranBare, pruned>>

(* pruneAuxTables, a day later: the key's replay window is over.            *)
PruneReceipt(k) ==
  /\ receipt[k] # NoReceipt /\ holder[k] = Free /\ pruned[k] < MaxPrunes
  /\ receipt' = [receipt EXCEPT ![k] = NoReceipt]
  /\ pruned' = [pruned EXCEPT ![k] = @ + 1]
  /\ UNCHANGED <<holder, request, reply, call, ran, ranBare>>

-----------------------------------------------------------------------------
(* All but the runs, which carry another component's changes.               *)

RecNext ==
  \/ \E c \in Clients : Call(c) \/ CallBreaks(c) \/ CallReturns(c)
  \/ \E r \in Requests : AdmitBegins(r) \/ AdmitKnows(r) \/ AdmitFails(r)
  \/ \E k \in Keys : PruneReceipt(k)

(* On their own, runs only have to make distinct things.                    *)
Made == UNION {ran[k] : k \in Keys}
Fresh == Cardinality(Made) + 1
RecSpec ==
  RecInit /\ [][RecNext \/ \E r \in Requests : AdmitRuns(r, Fresh) \/ RunsBare(r, Fresh)]_recVars

RecTypeOK ==
  /\ receipt \in [Keys -> [digest : Bodies \cup {NoBody}, answer : Nat]]
  /\ holder \in [Keys -> Requests \cup {Free}]
  /\ request \in [Requests -> {"unsent", "admitting", "holding", "done"}]
  /\ reply \in [Requests -> [kind : {"none", "ok", "refused", "busy"}, id : Nat]]
  /\ call \in [Clients -> [pc : {"idle", "waiting", "done"}, attempt : 0..CallRetries,
       answer : [kind : {"none", "ok", "refused", "busy"}, id : Nat]]]
  /\ ran \in [Keys -> SUBSET Nat]
  /\ ranBare \in [Clients -> Nat] /\ pruned \in [Keys -> Nat]

(* A key's use case runs once in each replay window, however often and      *)
(* concurrently its requests are sent (Admit); a request without a key is   *)
(* never sent again (Client.Call).                                          *)
KeyedOnce ==
  /\ \A k \in Keys : Cardinality(ran[k]) <= 1 + pruned[k]
  /\ \A c \in Clients : ranBare[c] <= 1

(* Clients that share a key and a window, and got an answer, got the same.  *)
SameAnswer ==
  \A c, d \in Clients :
    /\ KeyOf[c] = KeyOf[d] /\ KeyOf[c] # NoKey /\ pruned[KeyOf[c]] = 0
    /\ call[c].answer.kind = "ok" /\ call[d].answer.kind = "ok"
    => /\ call[c].answer = call[d].answer /\ BodyOf[c] = BodyOf[d]
=============================================================================
