------------------------------ MODULE DriveQuota ----------------------------
(***************************************************************************)
(* The byte quota of one tenant's drive (domain/quota.rs): what            *)
(* drive_quota_used adds up, and the handlers that look at it before they  *)
(* write.  upload_inner and put_file_impl check before they store the new  *)
(* content, create_upload checks when a resumable upload begins, perhaps   *)
(* days before it is finalized; copy, restore and restore_version do not   *)
(* check.  Nothing is reserved between check and write.                    *)
(*                                                                         *)
(* Of a file only its size and the sizes of its versions matter here; the  *)
(* blobs and rows are DriveContent's.  Folder quotas are left out.         *)
(***************************************************************************)
EXTENDS Naturals, FiniteSets, FiniteSetsExt

CONSTANTS
  Files,
  Sizes,       \* content sizes
  MaxBytes,    \* max_bytes of the tenant
  Requests,    \* requests and resumable uploads under way at a time
  MaxVersions, \* bound on the versions of a file
  MaxExtra,    \* bound on extra
  None

ASSUME SizesAssumption == Sizes \subseteq Nat /\ {MaxBytes, MaxVersions, MaxExtra} \subseteq Nat

VARIABLES
  file,      \* [state, size] of each drive_files row
  archived,  \* archived[f][z]: how many versions of f have size z
  req,       \* the requests under way
  extra      \* history: bytes added without a check since the last check that passed

vars == <<file, archived, req, extra>>

Row == [state : {"none", "live", "trashed"}, size : Sizes \cup {0}]
Pcs == {"idle", "session", "find", "target", "archive", "swap", "insert"}
Request == [pc : Pcs, file : Files \cup {None}, size : Sizes \cup {0}, old : Sizes \cup {0},
            checked : BOOLEAN]
Idle == [pc |-> "idle", file |-> None, size |-> 0, old |-> 0, checked |-> TRUE]
NoVersions == [z \in Sizes |-> 0]

\* Every variable has its type; only rows that exist have versions.
TypeOK ==
  /\ file \in [Files -> Row]
  /\ archived \in [Files -> [Sizes -> Nat]]
  /\ \A f \in Files : file[f].state = "none" => archived[f] = NoVersions
  /\ req \in [Requests -> Request]
  /\ extra \in 0 .. MaxExtra

Init ==
  /\ file = [f \in Files |-> [state |-> "none", size |-> 0]]
  /\ archived = [f \in Files |-> NoVersions]
  /\ req = [r \in Requests |-> Idle]
  /\ extra = 0

\* Live files and all versions count; the trash does not, its versions do.
LiveBytes == MapThenSumSet(LAMBDA f : IF file[f].state = "live" THEN file[f].size ELSE 0, Files)
SumOver(f, S) == MapThenSumSet(LAMBDA z : z * archived[f][z], S)
VersionBytes == MapThenSumSet(LAMBDA f : SumOver(f, Sizes), Files)

quota_used_without_versions == LiveBytes
drive_quota_used == LiveBytes + VersionBytes

fits(size) == drive_quota_used + size <= MaxBytes

Live(f) == file[f].state = "live"

\* An id no row and no request under way has.
Fresh(f) ==
  /\ file[f].state = "none"
  /\ \A r \in Requests : req[r].pc \in {"target", "archive", "swap"} => req[r].file # f
End(r) == req' = [req EXCEPT ![r] = Idle]

\* Bytes added by an operation that checked the quota before, or never.
Adds(checked, n) ==
  /\ extra' = IF checked THEN extra ELSE extra + n
  /\ extra' <= MaxExtra

\* The check, for the name of file f or a new name (None).  A direct upload
\* goes on at once, a resumable one when its last byte has arrived.
CheckQuota(r, f, size) ==
  /\ req[r].pc = "idle" /\ fits(size)
  /\ \E pc \in {"find", "session"} :
       req' = [req EXCEPT ![r] = [Idle EXCEPT !.pc = pc, !.file = f, !.size = size]]
  /\ extra' = 0
  /\ UNCHANGED <<file, archived>>

finalize_upload(r) ==
  /\ req[r].pc = "session"
  /\ req' = [req EXCEPT ![r].pc = "find"]
  /\ UNCHANGED <<file, archived, extra>>

find_by_name(r) ==
  /\ req[r].pc = "find"
  /\ LET f == req[r].file IN
     req' = IF f # None /\ Live(f) THEN [req EXCEPT ![r].pc = "archive", ![r].old = file[f].size]
                       ELSE [req EXCEPT ![r].pc = "insert"]
  /\ UNCHANGED <<file, archived, extra>>

\* restore_version reads the live file, then the version to promote.
restore_version(r, f) ==
  /\ req[r].pc = "idle" /\ Live(f)
  /\ req' = [req EXCEPT ![r] = [Idle EXCEPT !.pc = "target", !.file = f, !.old = file[f].size,
                                            !.checked = FALSE]]
  /\ UNCHANGED <<file, archived, extra>>

FetchTarget(r) ==
  /\ req[r].pc = "target"
  /\ \/ \E z \in Sizes : /\ archived[req[r].file][z] > 0
                         /\ req' = [req EXCEPT ![r].pc = "archive", ![r].size = z]
     \/ End(r)                                     \* no such version
  /\ UNCHANGED <<file, archived, extra>>

Count(f) == MapThenSumSet(LAMBDA z : archived[f][z], Sizes)

\* The version keeps the size that was read; the row must still exist.
insert_version(r) ==
  /\ req[r].pc = "archive"
  /\ LET q == req[r] IN
     \/ /\ file[q.file].state # "none" /\ Count(q.file) < MaxVersions
        /\ archived' = [archived EXCEPT ![q.file][q.old] = @ + 1]
        /\ req' = [req EXCEPT ![r].pc = "swap"]
        /\ Adds(q.checked, q.old)
     \/ file[q.file].state = "none" /\ End(r) /\ UNCHANGED <<archived, extra>>
  /\ UNCHANGED file

Growth(f, size) == IF size > file[f].size THEN size - file[f].size ELSE 0

update_content(r) ==
  /\ req[r].pc = "swap"
  /\ LET q == req[r] IN
     \/ /\ Live(q.file)
        /\ file' = [file EXCEPT ![q.file].size = q.size]
        /\ Adds(q.checked, Growth(q.file, q.size))
     \/ ~Live(q.file) /\ UNCHANGED <<file, extra>>
  /\ End(r)
  /\ UNCHANGED archived

\* A new row, unless a row of that name appeared meanwhile.
insert(r) ==
  /\ req[r].pc = "insert"
  /\ \/ \E f \in Files :
          /\ Fresh(f)
          /\ file' = [file EXCEPT ![f] = [state |-> "live", size |-> req[r].size]]
     \/ UNCHANGED file
  /\ End(r)
  /\ UNCHANGED <<archived, extra>>

Cancel(r) ==
  /\ req[r].pc # "idle"
  /\ End(r)
  /\ UNCHANGED <<file, archived, extra>>

copy_file(f, g) ==
  /\ Live(f) /\ Fresh(g)
  /\ file' = [file EXCEPT ![g] = file[f]]
  /\ Adds(FALSE, file[f].size)
  /\ UNCHANGED <<archived, req>>

soft_delete(f) ==
  /\ Live(f)
  /\ file' = [file EXCEPT ![f].state = "trashed"]
  /\ UNCHANGED <<archived, req, extra>>

restore(f) ==
  /\ file[f].state = "trashed"
  /\ file' = [file EXCEPT ![f].state = "live"]
  /\ Adds(FALSE, file[f].size)
  /\ UNCHANGED <<archived, req>>

\* The file was live when the handler looked; it may have been trashed since.
delete_version(f, z) ==
  /\ archived[f][z] > 0
  /\ archived' = [archived EXCEPT ![f][z] = @ - 1]
  /\ UNCHANGED <<file, req, extra>>

\* ON DELETE CASCADE takes the versions along.
purge(f) ==
  /\ file[f].state = "trashed"
  /\ file' = [file EXCEPT ![f] = [state |-> "none", size |-> 0]]
  /\ archived' = [archived EXCEPT ![f] = NoVersions]
  /\ UNCHANGED <<req, extra>>

Step(r) ==
  \/ \E f \in Files \cup {None}, size \in Sizes : CheckQuota(r, f, size)
  \/ \E f \in Files : restore_version(r, f)
  \/ finalize_upload(r) \/ find_by_name(r) \/ FetchTarget(r) \/ insert_version(r)
  \/ update_content(r) \/ insert(r) \/ Cancel(r)

Next ==
  \/ \E r \in Requests : Step(r)
  \/ \E f \in Files : soft_delete(f) \/ restore(f) \/ purge(f)
  \/ \E f \in Files, z \in Sizes : delete_version(f, z)
  \/ \E f, g \in Files : copy_file(f, g)

Spec == Init /\ [][Next]_vars

-----------------------------------------------------------------------------
\* Nothing is reserved, so writes that race, and versions archived by writes
\* that are then cut off, may pass max_bytes.  But a write under way adds at
\* most its content and one archived copy, none begins beyond max_bytes, and
\* the one that checked last has counted its content.  Copies, restores and
\* versions promoted are on top: they check nothing and add what they add.
OvershootBounded ==
  LiveBytes + VersionBytes <= MaxBytes + (2 * Cardinality(Requests) - 1) * Max(Sizes) + extra

=============================================================================
