----------------------------- MODULE ModelStream -----------------------------
(***************************************************************************)
(* The model client (modelclient.Stream) puts one response together from   *)
(* the frames of a provider's event stream: the tool calls of a turn       *)
(* arrive in fragments, interleaved, under indices of the provider that    *)
(* need not be contiguous, and the stream may break anywhere.              *)
(*                                                                         *)
(* A call's arguments are the sequence of the pieces received; <<>> is the *)
(* empty object. Wording, thinking, usage and previews are left out.       *)
(***************************************************************************)
EXTENDS Naturals, Sequences, FiniteSets

CONSTANTS
  Fragments,       (* tool call fragments: index, id, name and pieces        *)
  ValidJson,       (* the sequences of pieces that are JSON                  *)
  Unset,           (* an id or a name a fragment does not carry              *)
  MaxFragments     (* bound on the fragments of one response                 *)

ASSUME FragmentsAssumption == MaxFragments \in Nat /\ <<>> \in ValidJson

VARIABLES
  calls,           (* final.ToolCalls                                        *)
  slot,            (* streamArgs: index of the provider -> place in calls    *)
  response,        (* whether text came, and a stop reason; the outcome      *)
  received         (* history: the fragments, in order                       *)

modelVars == <<calls, slot, response, received>>

ModelInit ==
  /\ calls = <<>> /\ slot = <<>> /\ received = <<>>
  /\ response = [text |-> FALSE, stop |-> FALSE, outcome |-> "streaming"]

Streams == response.outcome = "streaming"

-----------------------------------------------------------------------------

(* An index already seen names the place it was given.                      *)
(* Mutant: the index is the place.                                          *)
PlaceByIndex(f) == IF f.index < Len(calls) THEN f.index + 1 ELSE Len(calls) + 1
Place(f) == IF f.index \in DOMAIN slot THEN slot[f.index] ELSE Len(calls) + 1

OrElse(a, b) == IF a = Unset THEN b ELSE a

ReceiveFragment(f) ==
  LET place == Place(f)
      known == IF place <= Len(calls) THEN calls[place]
                                      ELSE [id |-> Unset, name |-> Unset, args |-> <<>>]
      grown == [id |-> OrElse(known.id, f.id), name |-> OrElse(known.name, f.name),
                args |-> known.args \o f.pieces]
  IN
  /\ Streams /\ Len(received) < MaxFragments
  /\ calls' = IF place <= Len(calls) THEN [calls EXCEPT ![place] = grown] ELSE Append(calls, grown)
  /\ slot' = [i \in DOMAIN slot \union {f.index} |-> IF i = f.index THEN place ELSE slot[i]]
  /\ received' = Append(received, f)
  /\ UNCHANGED response

ReceiveText == /\ Streams /\ response' = [response EXCEPT !.text = TRUE]
               /\ UNCHANGED <<calls, slot, received>>
ReceiveStopReason == /\ Streams /\ response' = [response EXCEPT !.stop = TRUE]
                     /\ UNCHANGED <<calls, slot, received>>

(* An error frame, a frame that is none, a response too large, a read that   *)
(* fails.                                                                    *)
StreamBreaks == /\ Streams /\ response' = [response EXCEPT !.outcome = "broken"]
                /\ UNCHANGED <<calls, slot, received>>

(* The end of the body, or the provider's end mark.                         *)
CallsAreValid ==
  /\ \A p \in DOMAIN calls : /\ calls[p].id # Unset /\ calls[p].name # Unset
                             /\ calls[p].args \in ValidJson
  /\ \A p, q \in DOMAIN calls : calls[p].id = calls[q].id => p = q

StreamEnds(marked) ==
  /\ Streams
  /\ response' = [response EXCEPT !.outcome =
       CASE ~marked /\ ~response.stop -> "interrupted"
         [] (marked \/ response.stop) /\ CallsAreValid /\ (response.text \/ calls # <<>>) -> "final"
         [] OTHER -> "invalid"]
  /\ UNCHANGED <<calls, slot, received>>

ModelNext ==
  \/ \E f \in Fragments : ReceiveFragment(f)
  \/ ReceiveText \/ ReceiveStopReason \/ StreamBreaks
  \/ \E marked \in BOOLEAN : StreamEnds(marked)

ModelSpec == ModelInit /\ [][ModelNext]_modelVars

-----------------------------------------------------------------------------
(* What the provider meant, from the fragments alone: for each index, the   *)
(* first id and name it gave and all its pieces in order.                   *)

FragmentsOf(i) == {k \in DOMAIN received : received[k].index = i}
Indices == {received[k].index : k \in DOMAIN received}
Earliest(places) == CHOOSE k \in places : \A j \in places : k <= j
MeantId(i) ==
  LET given == {k \in FragmentsOf(i) : received[k].id # Unset}
  IN  IF given = {} THEN Unset ELSE received[Earliest(given)].id
MeantName(i) ==
  LET given == {k \in FragmentsOf(i) : received[k].name # Unset}
  IN  IF given = {} THEN Unset ELSE received[Earliest(given)].name
MeantArgs(i) ==
  LET upTo[n \in 0..Len(received)] ==
        IF n = 0 THEN <<>>
        ELSE IF received[n].index = i THEN upTo[n - 1] \o received[n].pieces ELSE upTo[n - 1]
  IN  upTo[Len(received)]
Meant(i) == [id |-> MeantId(i), name |-> MeantName(i), args |-> MeantArgs(i)]
FirstPlace(i) == Earliest(FragmentsOf(i))
WellMeant ==
  /\ \A i \in Indices : /\ Meant(i).id # Unset /\ Meant(i).name # Unset
                        /\ Meant(i).args \in ValidJson
  /\ \A i, j \in Indices : Meant(i).id = Meant(j).id => i = j

(* The answer being put together, its calls, and the outcome.               *)
ModelTypeOK ==
  /\ \A p \in DOMAIN calls : DOMAIN calls[p] = {"id", "name", "args"}
  /\ slot \in [DOMAIN slot -> DOMAIN calls]
  /\ response \in [text : BOOLEAN, stop : BOOLEAN,
                outcome : {"streaming", "final", "broken", "interrupted", "invalid"}]
  /\ Len(received) <= MaxFragments

(* An answer handed to the worker holds exactly the calls the provider       *)
(* meant, in the order they began and each with its own arguments, and a     *)
(* complete answer is refused only if some call has no id, no name, another's *)
(* id or broken arguments, or if it says nothing ("sparse indices cannot drop *)
(* arguments", modelclient.go 87).                                            *)
CallsAssembled ==
  /\ response.outcome = "final" =>
       /\ WellMeant
       /\ \A i \in Indices :
            calls[Cardinality({j \in Indices : FirstPlace(j) <= FirstPlace(i)})] = Meant(i)
       /\ Len(calls) = Cardinality(Indices)
  /\ response.outcome = "invalid" => ~WellMeant \/ (~response.text /\ received = <<>>)
=============================================================================
