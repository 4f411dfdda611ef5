------------------------------ MODULE History --------------------------------
(***************************************************************************)
(* The message history that a task sends to the model (context.go): its    *)
(* inputs, the turns of the model, the results delivered call by call in   *)
(* step.go, what compaction cuts away, and what completeHistory supplies   *)
(* when a history goes on after a task that stopped between them. `kind`   *)
(* is a session's line of roots, each starting from the one before, or a   *)
(* child that followup resumes. A message is its role and its call ids.    *)
(***************************************************************************)
EXTENDS Naturals, Sequences, FiniteSetsExt, SequencesExt

CONSTANTS
  Turns,        (* the ids of a turn's calls, in order                     *)
  KeptMessages, (* the newest messages compaction prefers to keep: 12      *)
  MaxMessages   (* bound: messages of a history                            *)

(* The model client rejects a turn that repeats an id (modelclient.go 213).*)
ASSUME HistoryAssumption ==
  /\ KeptMessages \in Nat /\ MaxMessages \in Nat
  /\ \A turn \in Turns : turn \in Seq(ToSet(turn)) /\ IsInjective(turn)

VARIABLES
  kind,         (* "root", "child"                                         *)
  history,      (* Messages                                                *)
  undelivered,  (* the ids of the calls whose results are not delivered    *)
  carried,      (* Messages of the previous root until they are loaded     *)
  phase         (* "input": one is to be consumed; "ask": the model is to  *)
                (* be asked once every call is delivered; "done"           *)

historyVars == <<kind, history, undelivered, carried, phase>>

Message(role, calls, id) == [role |-> role, calls |-> calls, id |-> id]
NoId == ""
System == Message("system", <<>>, NoId)
User == Message("user", <<>>, NoId)
Assistant(turn) == Message("assistant", turn, NoId)
Result(id) == Message("tool", <<>>, id)

HistoryInit ==
  /\ kind \in {"root", "child"} /\ history = <<System>>
  /\ undelivered = <<>> /\ carried = <<>> /\ phase = "input"

-----------------------------------------------------------------------------
(* completeHistory: the calls still pending are answered before the next   *)
(* message that is no result; results that answer nothing are dropped.     *)

Results(ids) == [k \in 1..Len(ids) |-> Result(ids[k])]
(* Mutant: calls are answered at the end of the history alone.             *)
CompletedLate(acc, m) ==
  IF m.role = "tool"
  THEN [out |-> Append(acc.out, m), pending |-> RemoveFirst(acc.pending, m.id)]
  ELSE [out |-> Append(acc.out, m), pending |-> acc.pending \o m.calls]
Completed(acc, m) ==
  IF m.role = "tool"
  THEN IF Contains(acc.pending, m.id)
       THEN [out |-> Append(acc.out, m), pending |-> RemoveFirst(acc.pending, m.id)]
       ELSE acc
  ELSE [out |-> Append(acc.out \o Results(acc.pending), m), pending |-> m.calls]
CompleteHistory(msgs) ==
  LET upTo[n \in 0..Len(msgs)] ==
        IF n = 0 THEN [out |-> <<>>, pending |-> <<>>] ELSE Completed(upTo[n - 1], msgs[n])
      end == upTo[Len(msgs)]
  IN  end.out \o Results(end.pending)

(* compact: where the kept part may begin; backed up from a result to its  *)
(* call, and further on when what it keeps does not fit.                   *)
PreferredCut(msgs) == Max({Len(msgs) - KeptMessages, 2}) + 1
Heads(msgs) == {i \in 1..Len(msgs) : msgs[i].role # "tool"}
FirstCut(msgs) == Max({i \in Heads(msgs) : i <= PreferredCut(msgs)})
Boundaries(msgs) ==
  IF PreferredCut(msgs) > Len(msgs) \/ FirstCut(msgs) <= 2 THEN {}
  ELSE {i \in Heads(msgs) : i >= FirstCut(msgs)}
(* The summary stands as one message of the user.                          *)
Compacted(msgs, cut) == <<msgs[1], User>> \o SubSeq(msgs, cut, Len(msgs))

-----------------------------------------------------------------------------
Grows(msgs) == history' = msgs /\ Len(history') <= MaxMessages

(* A first step also loads what the previous root left, without its        *)
(* instructions. Inputs wait for the results of a turn.                    *)
WithoutInstructions(msgs) ==
  IF msgs # <<>> /\ msgs[1].role = "system" THEN Tail(msgs) ELSE msgs
ConsumeInput ==
  /\ undelivered = <<>>
  /\ Grows(Append(history \o WithoutInstructions(CompleteHistory(carried)), User))
  /\ carried' = <<>> /\ phase' = "ask" /\ UNCHANGED <<kind, undelivered>>

ModelAnswers(turn) ==
  /\ phase = "ask" /\ undelivered = <<>>
  /\ Grows(Append(history, Assistant(turn))) /\ undelivered' = turn
  /\ phase' = IF turn = <<>> THEN "done" ELSE "ask"
  /\ UNCHANGED <<kind, carried>>

DeliverResult ==
  /\ undelivered # <<>> /\ Grows(Append(history, Result(Head(undelivered))))
  /\ undelivered' = Tail(undelivered) /\ UNCHANGED <<kind, carried, phase>>

Compact ==
  /\ phase = "ask" /\ undelivered = <<>>
  /\ \E cut \in Boundaries(history) : Grows(Compacted(history, cut))
  /\ UNCHANGED <<kind, undelivered, carried, phase>>

(* A root ends, at any point, and the next one of the session starts. One  *)
(* that ends before its first step has loaded nothing to pass on.          *)
NextRoot ==
  /\ kind = "root" /\ carried' = history /\ history' = <<System>>
  /\ undelivered' = <<>> /\ phase' = "input" /\ UNCHANGED kind

(* A child ends, at any point, and is resumed: the results that were not   *)
(* delivered are delivered still, after what completeHistory supplied.     *)
Followup ==
  /\ kind = "child" /\ Grows(CompleteHistory(history)) /\ phase' = "input"
  /\ UNCHANGED <<kind, undelivered, carried>>

HistoryNext ==
  \/ ConsumeInput \/ DeliverResult \/ Compact \/ NextRoot \/ Followup
  \/ \E turn \in Turns : ModelAnswers(turn)
HistorySpec == HistoryInit /\ [][HistoryNext]_historyVars

-----------------------------------------------------------------------------
CallIds == UNION {ToSet(turn) : turn \in Turns}
Messages ==
  [role : {"system", "user", "assistant", "tool"}, calls : Turns \union {<<>>}, id : CallIds \union {NoId}]

HistoryTypeOK ==
  /\ kind \in {"root", "child"} /\ phase \in {"input", "ask", "done"}
  /\ history \in Seq(Messages) /\ carried \in Seq(Messages) /\ undelivered \in Seq(CallIds)

(* Position j holds a result right after the turn at i: only results lie   *)
(* between them.                                                           *)
Follows(msgs, i, j) == i < j /\ \A k \in (i + 1)..j : msgs[k].role = "tool"

(* Every call is answered after its turn, and every result answers a call. *)
NoOrphans(msgs) ==
  \A i \in 1..Len(msgs) :
    /\ \A id \in ToSet(msgs[i].calls) : \E j \in 1..Len(msgs) : Follows(msgs, i, j) /\ msgs[j].id = id
    /\ msgs[i].role = "tool" =>
         \E t \in 1..Len(msgs) : Follows(msgs, t, i) /\ msgs[i].id \in ToSet(msgs[t].calls)
(* ... and none is answered twice.                                         *)
AnsweredOnce(msgs) ==
  \A i, j, t \in 1..Len(msgs) :
    Follows(msgs, t, i) /\ Follows(msgs, t, j) /\ msgs[t].role # "tool" /\ msgs[i].id = msgs[j].id => i = j
(* The messages that are no results, in order.                             *)
Spoken(msgs) ==
  LET upTo[n \in 0..Len(msgs)] ==
        IF n = 0 THEN <<>>
        ELSE IF msgs[n].role = "tool" THEN upTo[n - 1] ELSE Append(upTo[n - 1], msgs[n])
  IN  upTo[Len(msgs)]

(* A request to the model never holds an orphan call or result, wherever   *)
(* tasks stopped and histories were cut ("a subsequent model request must  *)
(* never contain orphan tool calls", context.go 165); for roots each call  *)
(* is answered once. completeHistory repairs every reachable history, says *)
(* nothing new, and leaves a sound one as it is.                           *)
RequestsWellFormed ==
  /\ phase = "ask" /\ undelivered = <<>> =>
       NoOrphans(history) /\ (kind = "root" => AnsweredOnce(history))
  /\ LET whole == CompleteHistory(history) IN
       /\ NoOrphans(whole) /\ AnsweredOnce(whole)
       /\ Spoken(whole) = Spoken(history)
       /\ NoOrphans(history) /\ AnsweredOnce(history) => whole = history
=============================================================================
