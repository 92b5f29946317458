---------------------------- MODULE DriveContent ----------------------------
(***************************************************************************)
(* The content of the files of one drive folder (services/expresso-drive): *)
(* the rows of drive_files and drive_file_versions, the blobs they point   *)
(* to on disk, and the handlers and workers that change them.              *)
(*                                                                         *)
(* A handler runs one transaction or one file-system call per step, and    *)
(* requests interleave between steps.  A request may also end between two  *)
(* steps without undoing anything: the server crashes, or the client goes  *)
(* away and the handler's future is dropped.                               *)
(*                                                                         *)
(* Sizes, hashes, MIME types, owners and the search index are left out, as *)
(* is who may write a file: require_write may refuse any request.  A       *)
(* storage key stands for the content stored under it, since a blob is     *)
(* never written twice.                                                    *)
(***************************************************************************)
EXTENDS Naturals, FiniteSets

CONSTANTS
  Files,        \* ids of rows of drive_files
  Names,        \* file names
  FolderNames,  \* names of this folder's live subfolders
  Keys,         \* storage keys (random UUIDs, never drawn twice)
  Requests,     \* requests and workers that run concurrently
  MaxVersion,   \* bound on version numbers
  Loads,        \* workloads: [ops, names, width, keys], see load
  None          \* no file, name or key

AllOps == {"upload", "finalize", "put", "restore_version", "delete_version",
           "purge", "copy", "trash", "restore", "expire", "purge_trash"}

ASSUME BoundAssumption ==
  /\ MaxVersion \in Nat
  /\ Loads \subseteq [ops : SUBSET AllOps, names : SUBSET Names, width : Nat, keys : Nat]
ASSUME NoneAssumption == None \notin Files \cup Names \cup Keys

VARIABLES
  file,      \* the drive_files row of each id
  versions,  \* the rows of drive_file_versions
  blobs,     \* keys with a file on disk
  used,      \* keys drawn so far
  req,       \* the requests in flight
  load,      \* the operations and names in use, the requests that overlap and
             \* the keys drawn at most, in this behaviour
  acked,     \* history: keys whose write was answered with success
  released,  \* history: keys that lost a row to a committed DELETE
  raced      \* history: keys replaced by a request while another, or one that was
             \* under way in the meantime, wrote the same file

vars == <<file, versions, blobs, used, req, load, acked, released, raced>>

RowStates == {"free", "live", "trashed", "gone"}
FileRow == [state : RowStates, name : Names \cup {None}, key : Keys \cup {None},
            expires : BOOLEAN]
Version == [file : Files, no : 1..MaxVersion, key : Keys]

Pcs == {"idle", "store", "find", "gate", "target", "number", "archive", "swap",
        "insert", "delete", "unlink"}

\* key is what becomes the file's content, prev what is archived first, and
\* doomed what is still to be unlinked; shared is history: another request has
\* been writing the same file.
Request == [pc : Pcs, op : AllOps \cup {None}, file : Files \cup {None},
            name : Names \cup {None}, key : Keys \cup {None},
            prev : Keys \cup {None}, no : 0..MaxVersion, doomed : SUBSET Keys,
            shared : BOOLEAN]

Idle == [pc |-> "idle", op |-> None, file |-> None, name |-> None, key |-> None,
         prev |-> None, no |-> 0, doomed |-> {}, shared |-> FALSE]

\* Every variable has its type; in particular version numbers start at 1
\* (VersionRepo::next_no).
TypeOK ==
  /\ file \in [Files -> FileRow]
  /\ versions \subseteq Version
  /\ blobs \subseteq used /\ used \subseteq Keys
  /\ req \in [Requests -> Request]
  /\ acked \subseteq Keys
  /\ released \subseteq Keys /\ raced \subseteq Keys

NoFile == [state |-> "free", name |-> None, key |-> None, expires |-> FALSE]

Init ==
  /\ file = [f \in Files |-> NoFile]
  /\ versions = {}
  /\ blobs = {} /\ used = {}
  /\ req = [r \in Requests |-> Idle]
  /\ load \in Loads
  /\ acked = {} /\ released = {} /\ raced = {}

(***************************************************************************)
(* The statements on the two tables.                                       *)
(***************************************************************************)
Live(f) == file[f].state = "live"
Trashed(f) == file[f].state = "trashed"
VersionsOf(f) == {v \in versions : v.file = f}

\* uq_drive_files_sibling_name: names are unique among live siblings.
NameFree(name) ==
  name \notin FolderNames /\ \A f \in Files : Live(f) => file[f].name # name

\* SELECT MAX(version_no) + 1, or 1 for a file that has no versions.
IsNextNo(f, n) ==
  \/ VersionsOf(f) = {} /\ n = 1
  \/ \E v \in VersionsOf(f) : n = v.no + 1 /\ \A w \in VersionsOf(f) : w.no <= v.no

\* The row of a purged file takes its versions with it (ON DELETE CASCADE).
DeleteRows(S) ==
  /\ file' = [f \in Files |-> IF f \in S THEN [file[f] EXCEPT !.state = "gone"] ELSE file[f]]
  /\ versions' = {v \in versions : v.file \notin S}
  /\ released' = released \cup {file[f].key : f \in S}
                          \cup {v.key : v \in {w \in versions : w.file \in S}}

RowKeys(S) == {file[f].key : f \in S}

-----------------------------------------------------------------------------
(***************************************************************************)
(* Requests.  End answers, with or without success; Goto moves on.         *)
(***************************************************************************)
End(r) == req' = [req EXCEPT ![r] = Idle]
Goto(r, pc) == req' = [req EXCEPT ![r].pc = pc]
Free(r) ==
  /\ req[r].pc = "idle"
  /\ Cardinality({q \in Requests : req[q].pc # "idle"}) < load.width

\* A request, now q, takes q.file as the file to write.
Writers == {"upload", "finalize", "put", "restore_version"}
Target(r, q) ==
  LET others == {o \in Requests \ {r} : req[o].file = q.file /\ req[o].op \in Writers}
  IN  req' = [o \in Requests |->
                CASE o = r -> [q EXCEPT !.shared = others # {}]
                  [] o \in others -> [req[o] EXCEPT !.shared = TRUE]
                  [] OTHER -> req[o]]

\* The content a failed write leaves behind.  upload_inner and put_file_impl
\* remove their own new blob; finalize_upload and restore_version just fail.
FailedWriteBlobsAll(q) == {q.key}
FailedWriteBlobs(q) == IF q.op \in {"upload", "put"} THEN {q.key} ELSE {}

\* upload_inner and finalize_upload take a name, put_file_impl,
\* restore_version and delete_version the id of a live file, and
\* delete_file_inner with ?permanent=true the id of a file.
BeginByName(r, op, name) ==
  /\ Free(r) /\ op \in load.ops \cap {"upload", "finalize"}
  /\ req' = [req EXCEPT ![r] = [Idle EXCEPT !.pc = "store", !.op = op, !.name = name]]
  /\ UNCHANGED <<file, versions, blobs, used, acked, released, raced, load>>

FirstPc(op) == CASE op = "put" -> "store"
                 [] op = "restore_version" -> "gate"
                 [] op = "delete_version" -> "delete"
                 [] op = "purge" -> "gate"

BeginById(r, op, f) ==
  /\ Free(r) /\ op \in load.ops \cap {"put", "restore_version", "delete_version", "purge"}
  /\ Live(f)
  /\ LET q == [Idle EXCEPT !.pc = FirstPc(op), !.op = op, !.file = f, !.prev = file[f].key]
     IN  IF op \in Writers THEN Target(r, q) ELSE req' = [req EXCEPT ![r] = q]
  /\ UNCHANGED <<file, versions, blobs, used, acked, released, raced, load>>

\* A new blob is written (or a finished .part renamed) under a new key.
StoreBlob(r) ==
  /\ req[r].pc = "store"
  /\ \E k \in Keys \ used :
       /\ Cardinality(used) < load.keys
       /\ blobs' = blobs \cup {k}
       /\ used' = used \cup {k}
       /\ req' = [req EXCEPT ![r].key = k,
                             ![r].pc = IF req[r].op = "put" THEN "number" ELSE "find"]
  /\ UNCHANGED <<file, versions, acked, released, raced, load>>

\* FileRepo::find_by_name, and what the handlers do with its result: a folder
\* of that name is a conflict, a file is overwritten, otherwise one is made.
find_by_name(r) ==
  LET q == req[r] IN
  /\ q.pc = "find"
  /\ \/ /\ q.name \in FolderNames
        /\ blobs' = blobs \ {q.key}
        /\ End(r)
     \/ \E f \in Files :
          /\ Live(f) /\ file[f].name = q.name
          /\ Target(r, [q EXCEPT !.file = f, !.prev = file[f].key,
                                 !.pc = IF q.op = "upload" THEN "gate" ELSE "number"])
          /\ UNCHANGED blobs
     \/ /\ NameFree(q.name)
        /\ Goto(r, "insert")
        /\ UNCHANGED blobs
  /\ UNCHANGED <<file, versions, used, acked, released, raced, load>>

AfterGateNoArchive(op) == CASE op = "upload" -> "swap"
                            [] op = "restore_version" -> "target"
                            [] op = "purge" -> "delete"

AfterGate(op) == CASE op = "upload" -> "number"
                   [] op = "restore_version" -> "target"
                   [] op = "purge" -> "delete"

\* require_write: the file must still be live and the caller allowed.
require_write(r) ==
  LET q == req[r] IN
  /\ q.pc = "gate"
  /\ \/ /\ Live(q.file)
        /\ Goto(r, AfterGate(q.op))
        /\ UNCHANGED blobs
     \/ /\ blobs' = blobs \ FailedWriteBlobs(q)
        /\ End(r)
  /\ UNCHANGED <<file, versions, used, acked, released, raced, load>>

\* restore_version reads the version it is to promote.
FetchTarget(r) ==
  LET q == req[r] IN
  /\ q.pc = "target"
  /\ \/ \E v \in VersionsOf(q.file) :
          req' = [req EXCEPT ![r].key = v.key, ![r].pc = "number"]
     \/ End(r)                                     \* no such version
  /\ UNCHANGED <<file, versions, blobs, used, acked, released, raced, load>>

next_no(r) ==
  /\ req[r].pc = "number"
  /\ \E n \in 0..MaxVersion :
       /\ IsNextNo(req[r].file, n)
       /\ req' = [req EXCEPT ![r].no = n, ![r].pc = "archive"]
  /\ UNCHANGED <<file, versions, blobs, used, acked, released, raced, load>>

\* VersionRepo::insert.  A purged file violates the foreign key, a number
\* that was taken meanwhile UNIQUE (file_id, version_no); either error leaves
\* the handler at once, and the new blob on disk.
insert_version(r) ==
  LET q == req[r]
      fits == file[q.file].state # "gone" /\ \A v \in VersionsOf(q.file) : v.no # q.no
  IN
  /\ q.pc = "archive"
  /\ \/ /\ fits
        /\ versions' = versions \cup {[file |-> q.file, no |-> q.no, key |-> q.prev]}
        /\ Goto(r, "swap")
     \/ ~fits /\ End(r) /\ UNCHANGED versions
  /\ UNCHANGED <<file, blobs, used, acked, released, raced, load>>

\* UPDATE ... WHERE deleted_at IS NULL.
update_content(r) ==
  LET q == req[r] IN
  /\ q.pc = "swap"
  /\ \/ /\ Live(q.file)
        /\ file' = [file EXCEPT ![q.file].key = q.key]
        /\ acked' = acked \cup {q.key}
        /\ raced' = IF q.shared THEN raced \cup {file[q.file].key} ELSE raced
        /\ UNCHANGED blobs
     \/ /\ ~Live(q.file)
        /\ blobs' = blobs \ FailedWriteBlobs(q)
        /\ UNCHANGED <<file, acked, raced>>
  /\ End(r)
  /\ UNCHANGED <<versions, used, released, load>>

\* FileRepo::insert.
insert(r) ==
  LET q == req[r] IN
  /\ q.pc = "insert"
  /\ \/ /\ NameFree(q.name)
        /\ \E f \in Files :
             /\ file[f].state = "free"
             /\ file' = [file EXCEPT ![f] = [state |-> "live", name |-> q.name,
                                             key |-> q.key, expires |-> FALSE]]
        /\ acked' = acked \cup {q.key}
        /\ UNCHANGED blobs
     \/ /\ ~NameFree(q.name)
        /\ blobs' = blobs \ FailedWriteBlobs(q)
        /\ UNCHANGED <<file, acked>>
  /\ End(r)
  /\ UNCHANGED <<versions, used, released, raced, load>>

\* FileRepo::purge: only a trashed row is deleted.
purge(r) ==
  LET f == req[r].file IN
  /\ req[r].pc = "delete" /\ req[r].op = "purge"
  /\ \/ /\ Trashed(f)
        /\ DeleteRows({f})
        /\ req' = [req EXCEPT ![r].pc = "unlink", ![r].doomed = {file[f].key}]
     \/ ~Trashed(f) /\ End(r) /\ UNCHANGED <<file, versions, released>>
  /\ UNCHANGED <<blobs, used, acked, raced, load>>

\* VersionRepo::delete.  The version's blob is not compared with the file's.
delete_version(r) ==
  LET q == req[r] IN
  /\ q.pc = "delete" /\ q.op = "delete_version"
  /\ \/ \E v \in VersionsOf(q.file) :
          /\ versions' = versions \ {v}
          /\ released' = released \cup {v.key}
          /\ req' = [req EXCEPT ![r].pc = "unlink", ![r].doomed = {v.key}]
     \/ End(r) /\ UNCHANGED <<versions, released>> \* no such version
  /\ UNCHANGED <<file, blobs, used, acked, raced, load>>

\* The handler or worker that deleted rows removes their blobs one by one.
Unlink(r) ==
  LET q == req[r] IN
  /\ q.pc = "unlink"
  /\ \E k \in q.doomed :
       /\ blobs' = blobs \ {k}
       /\ req' = [req EXCEPT ![r] = IF q.doomed = {k} THEN Idle
                                    ELSE [q EXCEPT !.doomed = q.doomed \ {k}]]
  /\ UNCHANGED <<file, versions, used, acked, released, raced, load>>

\* A worker's DELETE ... RETURNING: purge_trashed_older_than takes some of
\* the trash (also for purge_trash), purge_expired_files live files with an
\* expiry.
purge_trashed_older_than(r, S) ==
  /\ Free(r) /\ "purge_trash" \in load.ops /\ S # {}
  /\ \A f \in S : Trashed(f)
  /\ DeleteRows(S)
  /\ req' = [req EXCEPT ![r] = [Idle EXCEPT !.pc = "unlink", !.doomed = RowKeys(S)]]
  /\ UNCHANGED <<blobs, used, acked, raced, load>>

purge_expired_files(r, S) ==
  /\ Free(r) /\ "expire" \in load.ops /\ S # {}
  /\ \A f \in S : Live(f) /\ file[f].expires
  /\ DeleteRows(S)
  /\ req' = [req EXCEPT ![r] = [Idle EXCEPT !.pc = "unlink", !.doomed = RowKeys(S)]]
  /\ UNCHANGED <<blobs, used, acked, raced, load>>

\* The handlers below run one statement that checks what it needs itself.
SetState(S, s) == file' = [f \in Files |-> IF f \in S THEN [file[f] EXCEPT !.state = s]
                                           ELSE file[f]]

\* Soft delete of one file or of several in a transaction.
bulk_trash(S) ==
  /\ "trash" \in load.ops /\ S # {} /\ \A f \in S : Live(f)
  /\ SetState(S, "trashed")
  /\ UNCHANGED <<versions, blobs, used, req, acked, released, raced, load>>

restore(f) ==
  /\ "restore" \in load.ops /\ Trashed(f) /\ NameFree(file[f].name)
  /\ SetState({f}, "live")
  /\ UNCHANGED <<versions, blobs, used, req, acked, released, raced, load>>

set_expiry(f) ==
  /\ "expire" \in load.ops /\ Live(f)
  /\ file' = [file EXCEPT ![f].expires = ~@]
  /\ UNCHANGED <<versions, blobs, used, req, acked, released, raced, load>>

\* A copy is a new row with the same storage key and no versions.
copy_file(src, name) ==
  /\ "copy" \in load.ops /\ Live(src) /\ NameFree(name)
  /\ \E f \in Files :
       /\ file[f].state = "free"
       /\ file' = [file EXCEPT ![f] = [state |-> "live", name |-> name,
                                       key |-> file[src].key, expires |-> FALSE]]
  /\ UNCHANGED <<versions, blobs, used, req, acked, released, raced, load>>

\* A request is cut off between two steps.
Cancel(r) ==
  /\ req[r].pc # "idle"
  /\ End(r)
  /\ UNCHANGED <<file, versions, blobs, used, acked, released, raced, load>>

Step(r) ==
  \/ StoreBlob(r) \/ find_by_name(r) \/ require_write(r) \/ FetchTarget(r)
  \/ next_no(r) \/ insert_version(r) \/ update_content(r) \/ insert(r)
  \/ purge(r) \/ delete_version(r) \/ Unlink(r)

Begin(r) ==
  \/ \E op \in {"upload", "finalize"}, name \in load.names : BeginByName(r, op, name)
  \/ \E op \in {"put", "restore_version", "delete_version", "purge"}, f \in Files :
       BeginById(r, op, f)
  \/ \E S \in SUBSET Files : purge_trashed_older_than(r, S)
  \/ \E S \in SUBSET Files : purge_expired_files(r, S)

Atomic ==
  \/ \E S \in SUBSET Files : bulk_trash(S)
  \/ \E f \in Files : restore(f)
  \/ \E f \in Files : set_expiry(f)
  \/ \E f \in Files, name \in load.names : copy_file(f, name)

Next == (\E r \in Requests : Begin(r) \/ Step(r) \/ Cancel(r)) \/ Atomic

Spec == Init /\ [][Next]_vars

-----------------------------------------------------------------------------
Rows == {f \in Files : file[f].state \in {"live", "trashed"}}
Referenced == RowKeys(Rows) \cup {v.key : v \in versions}

\* A row or a version whose blob is gone lost it to an explicit delete: the
\* clean-up of a failed or refused write, whatever it races with, and a crash
\* never remove content that a row points to (upload_inner, put_file_impl,
\* finalize_upload, restore_version).  The delete need not be of that row:
\* copies share a key, and so may a version and its own file (LiveNotDeleted).
MissingOnlyIfReleased == Referenced \ blobs \subseteq released

\* delete_version's "the current live version cannot be deleted this way", which
\* does not hold: a version that restore_version promoted, or that a write cut
\* off before its update archived, has the key of the file, and deleting it
\* unlinks the content of the file.
LiveNotDeleted == \A f \in Files : Live(f) => file[f].key \in blobs

\* Content whose write was answered with success stays the file's content or one
\* of its versions, until a purge, an expiry or a version delete removes it:
\* nothing is lost by failures and crashes, by trash and restore, by copies, nor
\* by two writes unless they overlap on the same file (upload_inner,
\* put_file_impl, finalize_upload, restore_version).
AckedReachable == acked \subseteq Referenced \cup released \cup raced

\* restore_version's "no data is lost", which upload_inner's and put_file_impl's
\* "archive previous content before overwrite" claim as well, without a condition.
AckedKept == acked \subseteq Referenced \cup released
=============================================================================
