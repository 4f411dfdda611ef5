------------------------------- MODULE Files ---------------------------------
(***************************************************************************)
(* One owner's files and skills (internal/modules/files, skills) and the   *)
(* content-addressed store behind them (internal/platform/blobstore):      *)
(* uploads are admitted against a quota under the lock of the owner's      *)
(* identity row, and the workers that finish a task publish its outputs    *)
(* as artifacts, again after a failure. A row is deleted by marking it:    *)
(* sessions that refer to it still read it. A blob is never deleted.       *)
(***************************************************************************)
EXTENDS Naturals, FiniteSets, Sequences, FiniteSetsExt

CONSTANTS
  Uploaders,    (* requests that upload, one after another                 *)
  Publishers,   (* workers that publish outputs of one task                *)
  Unlocked,
  Data,         (* contents                                                *)
  NoData,
  SizeOf,       (* SizeOf[d]: the bytes of a content                       *)
  Outputs,      (* names of output files                                   *)
  Quota,        (* Quota["files"], Quota["skills"]: ownerQuotaBytes        *)
  MaxFiles      (* bound: rows                                             *)

ASSUME FilesAssumption ==
  /\ IsFiniteSet(Data) /\ SizeOf \in [Data -> Nat] /\ MaxFiles \in Nat
  /\ Quota \in [{"files", "skills"} -> Nat] /\ Unlocked \notin Uploaders
  /\ "upload" \notin Outputs

VARIABLES
  files,        (* the rows of files and skills, in the order of creation  *)
  stored,       (* the blobs that are complete                             *)
  owner,        (* who holds the lock of the identity row                  *)
  upload,       (* upload[u]: the transaction of an upload                 *)
  publish       (* publish[w]: the output that w publishes, and its answer *)

fileVars == <<files, stored, owner, upload, publish>>

NoName == "upload"
NoUpload == [pc |-> "idle", table |-> "files", data |-> NoData]
NoPublish == [pc |-> "idle", name |-> NoName, data |-> NoData, answer |-> 0]

FilesInit ==
  /\ files = <<>> /\ stored = {} /\ owner = Unlocked
  /\ upload = [u \in Uploaders |-> NoUpload]
  /\ publish = [w \in Publishers |-> NoPublish]

Rows(table) == {i \in 1..Len(files) : files[i].table = table}
Live(table) == {i \in Rows(table) : ~files[i].deleted}
Bytes(S) == MapThenSumSet(LAMBDA i : SizeOf[files[i].data], S)

-----------------------------------------------------------------------------
(* Uploads of files and of skills: quota, blob and row in one transaction. *)

(* Mutant: the identity row is not locked.                                 *)
Lock(u) == UNCHANGED owner
LockOwner(u) == owner = Unlocked /\ owner' = u

(* OwnerBytes reads what is committed, artifacts included.                 *)
BeginUpload(u, table, data) ==
  /\ upload[u].pc = "idle" /\ LockOwner(u)
  /\ Bytes(Live(table)) + SizeOf[data] <= Quota[table]
  /\ upload' = [upload EXCEPT ![u] = [pc |-> "put", table |-> table, data |-> data]]
  /\ UNCHANGED <<files, stored, publish>>

(* put writes a temporary object, syncs it and renames it into place.      *)
UploadBlob(u) ==
  /\ upload[u].pc = "put" /\ upload' = [upload EXCEPT ![u].pc = "row"]
  /\ stored' = stored \union {upload[u].data}
  /\ UNCHANGED <<files, owner, publish>>

Row(table, name, data) == [table |-> table, name |-> name, data |-> data, deleted |-> FALSE]
CommitUpload(u) ==
  /\ upload[u].pc = "row" /\ Len(files) < MaxFiles
  /\ files' = Append(files, Row(upload[u].table, NoName, upload[u].data))
  /\ upload' = [upload EXCEPT ![u] = NoUpload] /\ owner' = Unlocked
  /\ UNCHANGED <<stored, publish>>

(* An error, a client that is gone or a crash rolls back all but the blob. *)
UploadFails(u) ==
  /\ upload[u].pc # "idle" /\ upload' = [upload EXCEPT ![u] = NoUpload] /\ owner' = Unlocked
  /\ UNCHANGED <<files, stored, publish>>

-----------------------------------------------------------------------------
(* PutArtifact: no transaction, no lock; the artifact key decides.         *)

SameKey(name, data) == {i \in Rows("files") : files[i].name = name /\ files[i].data = data}
Publishes(w, pc, answer) == publish' = [publish EXCEPT ![w].pc = pc, ![w].answer = answer]

BeginPublish(w, name, data) ==
  /\ publish[w].pc = "idle"
  /\ publish' = [publish EXCEPT ![w] = [pc |-> "find", name |-> name, data |-> data, answer |-> 0]]
  /\ UNCHANGED <<files, stored, owner, upload>>

FindArtifact(w) ==
  /\ publish[w].pc = "find"
  /\ \/ \E i \in SameKey(publish[w].name, publish[w].data) : Publishes(w, "done", i)
     \/ SameKey(publish[w].name, publish[w].data) = {} /\ Publishes(w, "put", 0)
  /\ UNCHANGED <<files, stored, owner, upload>>

ArtifactBlob(w) ==
  /\ publish[w].pc = "put" /\ Publishes(w, "row", 0) /\ stored' = stored \union {publish[w].data}
  /\ UNCHANGED <<files, owner, upload>>

Inserted(name, data) ==
  IF SameKey(name, data) = {} THEN Append(files, Row("files", name, data)) ELSE files
(* Mutant: the row is inserted whatever its key.                           *)
InsertAnyway(w) ==
  /\ publish[w].pc = "row" /\ Publishes(w, "read", 0) /\ Len(files) < MaxFiles
  /\ files' = Append(files, Row("files", publish[w].name, publish[w].data))
  /\ UNCHANGED <<stored, owner, upload>>
(* On a conflict of keys nothing is inserted, and the row is read again.   *)
InsertArtifact(w) ==
  /\ publish[w].pc = "row" /\ Publishes(w, "read", 0)
  /\ files' = Inserted(publish[w].name, publish[w].data) /\ Len(files') <= MaxFiles
  /\ UNCHANGED <<stored, owner, upload>>
ReadArtifact(w) ==
  /\ publish[w].pc = "read"
  /\ \E i \in SameKey(publish[w].name, publish[w].data) : Publishes(w, "done", i)
  /\ UNCHANGED <<files, stored, owner, upload>>

(* The hook fails or its worker stops: another run publishes all again.    *)
PublishEnds(w) ==
  /\ publish[w].pc # "idle" /\ publish' = [publish EXCEPT ![w] = NoPublish]
  /\ UNCHANGED <<files, stored, owner, upload>>

DeleteFile(i) ==
  /\ i \in Live("files") /\ files' = [files EXCEPT ![i].deleted = TRUE]
  /\ UNCHANGED <<stored, owner, upload, publish>>

FilesNext ==
  \/ \E u \in Uploaders :
       \/ UploadBlob(u) \/ CommitUpload(u) \/ UploadFails(u)
       \/ \E table \in {"files", "skills"}, data \in Data : BeginUpload(u, table, data)
  \/ \E w \in Publishers :
       \/ FindArtifact(w) \/ ArtifactBlob(w) \/ InsertArtifact(w) \/ ReadArtifact(w) \/ PublishEnds(w)
       \/ \E name \in Outputs, data \in Data : BeginPublish(w, name, data)
  \/ \E i \in 1..Len(files) : DeleteFile(i)
FilesSpec == FilesInit /\ [][FilesNext]_fileVars

-----------------------------------------------------------------------------
FilesTypeOK ==
  /\ files \in Seq([table : {"files", "skills"}, name : Outputs \union {NoName}, data : Data, deleted : BOOLEAN])
  /\ stored \subseteq Data /\ owner \in Uploaders \union {Unlocked}
  /\ upload \in [Uploaders -> [pc : {"idle", "put", "row"}, table : {"files", "skills"}, data : Data \union {NoData}]]
  /\ publish \in [Publishers -> [pc : {"idle", "find", "put", "row", "read", "done"},
                                 name : Outputs \union {NoName}, data : Data \union {NoData}, answer : Nat]]

(* A row, deleted or not, has its content: it is committed after the blob  *)
(* (Put, PutArtifact, Create), and pinned inputs can always be staged.     *)
RowsHaveContent == \A i \in 1..Len(files) : files[i].data \in stored

(* However often and concurrently a task's outputs are published, an       *)
(* artifact is one row, and all who published it were told that row.       *)
ArtifactsOnce ==
  /\ \A i, j \in Rows("files") :
       files[i].name # NoName /\ files[i].name = files[j].name /\ files[i].data = files[j].data => i = j
  /\ \A w \in Publishers :
       publish[w].pc = "done" => publish[w].answer \in SameKey(publish[w].name, publish[w].data)

(* Concurrent uploads never exceed the owner's quota together, though      *)
(* artifacts, which are not limited, are counted against it (Put, Create). *)
UploadsWithinQuota ==
  \A table \in {"files", "skills"} :
    Bytes({i \in Live(table) : files[i].name = NoName}) <= Quota[table]
FilesExact == RowsHaveContent /\ ArtifactsOnce /\ UploadsWithinQuota
=============================================================================
