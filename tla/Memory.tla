------------------------------- MODULE Memory --------------------------------
(***************************************************************************)
(* One memory store (internal/modules/memory) and the agents and clients   *)
(* that share it: they read an entry, and write or delete it later with    *)
(* the version they expect (app/memory.go, the handlers of the store). A   *)
(* change is one transaction under the lock of the store's row.            *)
(***************************************************************************)
EXTENDS Naturals, FiniteSets

CONSTANTS
  Editors,      (* sessions and clients that use the store                 *)
  Paths,
  Contents,
  NoContent,    (* the content of a deleted entry                          *)
  NoPath,
  EntryLimit,   (* entryLimit                                              *)
  HistoryKeep,  (* historyKeep                                             *)
  MaxVersion    (* bound: versions of an entry                             *)

ASSUME MemoryAssumption ==
  /\ HistoryKeep \in Nat \ {0} /\ {EntryLimit, MaxVersion} \subseteq Nat
  /\ NoPath \notin Paths

VARIABLES
  entry,        (* memory_entries; version 0 stands for no row             *)
  revisions,    (* revisions[p]: memory_revisions                          *)
  conflicts,    (* conflicts[p]: how many rejected contents are retained   *)
  seen          (* seen[e]: the entry that e read or wrote last            *)

memoryVars == <<entry, revisions, conflicts, seen>>

Missing == [version |-> 0, content |-> NoContent, deleted |-> TRUE]

MemoryInit ==
  /\ entry = [p \in Paths |-> Missing]
  /\ revisions = [p \in Paths |-> {}] /\ conflicts = [p \in Paths |-> 0]
  /\ seen = [e \in Editors |-> [path |-> NoPath, row |-> Missing]]

Saw(e, p, row) == seen' = [seen EXCEPT ![e] = [path |-> p, row |-> row]]

(* memory_read: a missing path is reported deleted, at version zero.       *)
ReadEntry(e, p) ==
  /\ Saw(e, p, entry[p])
  /\ UNCHANGED <<entry, revisions, conflicts>>

(* Mutant: a deleted entry loses its row, and its versions begin anew.     *)
ForgottenRow(expected, content) ==
  IF content = NoContent THEN Missing
  ELSE [version |-> expected + 1, content |-> content, deleted |-> FALSE]
(* The row a change saves, and the revisions it keeps.                     *)
SavedRow(expected, content) ==
  [version |-> expected + 1, content |-> content, deleted |-> content = NoContent]
Kept(p, row) ==
  {r \in revisions[p] \union {row} : r.version + HistoryKeep > row.version}

Entries == {p \in Paths : entry[p].version > 0}

(* change, with any expected version: the answer tells the editor the new  *)
(* row, unless it is lost.                                                 *)
Change(e, p, expected, content) ==
  LET row == SavedRow(expected, content) IN
  /\ entry[p].version = expected /\ expected < MaxVersion
  /\ expected > 0 \/ Cardinality(Entries) < EntryLimit
  /\ entry' = [entry EXCEPT ![p] = row]
  /\ revisions' = [revisions EXCEPT ![p] = Kept(p, row)]
  /\ Saw(e, p, row) \/ UNCHANGED seen
  /\ UNCHANGED conflicts

(* The rejected content is retained, and the oldest one goes if need be.   *)
Conflicting(p, expected) ==
  /\ entry[p].version # expected
  /\ conflicts' = [conflicts EXCEPT ![p] = IF conflicts[p] < HistoryKeep THEN conflicts[p] + 1 ELSE conflicts[p]]
  /\ UNCHANGED <<entry, revisions, seen>>

MemoryNext ==
  \E e \in Editors, p \in Paths :
    \/ ReadEntry(e, p)
    \/ \E expected \in 0..MaxVersion :
         \/ Conflicting(p, expected)
         \/ \E content \in Contents \union {NoContent} : Change(e, p, expected, content)
MemorySpec == MemoryInit /\ [][MemoryNext]_memoryVars

-----------------------------------------------------------------------------
MemoryRows == [version : Nat, content : Contents \union {NoContent}, deleted : BOOLEAN]

(* Rows of the tables; a store holds no more entries than its limit.       *)
MemoryTypeOK ==
  /\ entry \in [Paths -> MemoryRows] /\ Cardinality(Entries) <= EntryLimit
  /\ revisions \in [Paths -> SUBSET MemoryRows]
  /\ conflicts \in [Paths -> 0..HistoryKeep]
  /\ seen \in [Editors -> [path : Paths \union {NoPath}, row : MemoryRows]]

(* A version names one content for ever, through deletions and lost        *)
(* answers: whoever writes with the version it saw replaces exactly what   *)
(* it saw, and no write of another is lost (change's check of expected).   *)
NoLostUpdate ==
  \A e \in Editors, p \in Paths :
    seen[e].path = p =>
      /\ seen[e].row.version <= entry[p].version
      /\ seen[e].row.version = entry[p].version => seen[e].row = entry[p]

(* The history of an entry has no gap: its last versions up to the current *)
(* row, one revision each (change's insert and its retention).             *)
HistoryKept ==
  \A p \in Paths :
    /\ \A r, q \in revisions[p] : r.version = q.version => r = q
    /\ \A r \in revisions[p] : r.version \in 1..entry[p].version
    /\ \A v \in 1..entry[p].version :
         v + HistoryKeep > entry[p].version <=> \E r \in revisions[p] : r.version = v
    /\ entry[p].version > 0 => entry[p] \in revisions[p]
MemoryExact == NoLostUpdate /\ HistoryKept
=============================================================================
