----------------------------- MODULE DriveUpload ----------------------------
(***************************************************************************)
(* One resumable (tus) upload of the drive: its row in drive_uploads, its  *)
(* <key>.part file, the PATCH requests that fill it, the DELETE that       *)
(* aborts it and the hourly worker that collects it (api/uploads.rs,       *)
(* domain/upload.rs, main.rs).  Sessions do not interact.                  *)
(*                                                                         *)
(* The file is one inode with up to two names, <key>.part and <key>:       *)
(* rename moves it, and a PATCH that has it open keeps writing to it       *)
(* whatever its name is by then.  Each PATCH is one request; its bytes are *)
(* told apart from those of the others by its identity.  What promotion    *)
(* does to drive_files is DriveContent's matter: here it succeeds, fails,  *)
(* or meets a folder of that name.                                         *)
(***************************************************************************)
EXTENDS Naturals, FiniteSets

CONSTANTS
  Patches,      \* PATCH requests: numbers, in the order the server reads them
  MaxInFlight,  \* bound on the PATCHes in flight at once
  Total,        \* Upload-Length, in units of a byte range
  None

ASSUME TotalAssumption == Total \in Nat /\ MaxInFlight \in Nat
ASSUME PatchesAssumption == Patches \subseteq Nat /\ None \notin Patches

VARIABLES
  row,      \* the drive_uploads row: "none", "open", "finalized", "aborted", "purged"
  offset,   \* offset_bytes
  expired,  \* expires_at has passed
  bytes,    \* who wrote each unit of the inode last
  part,     \* <key>.part exists
  final,    \* <key> exists
  patch,    \* the PATCH requests
  aborter,  \* the DELETE request: "idle", "unlink", "delete", "done"
  gc,       \* the worker: [pc, listed]
  acked,    \* history: whose bytes the server answered for, per unit
  promoted, \* history: which PATCH promoted the file, and the content it hashed
  overlapped, \* history: two PATCHes have been in flight at once
  cut       \* history: a PATCH was cut off or its promotion failed

vars == <<row, offset, expired, bytes, part, final, patch, aborter, gc, acked, promoted,
          overlapped, cut>>

Units == 0..(Total - 1)
RowStates == {"none", "open", "finalized", "aborted", "purged"}
Pcs == {"new", "read", "opened", "written", "hash", "rename", "promote", "finish", "done"}
Content == [Units -> Patches \cup {None}]

Patch == [pc : Pcs, at : 0..Total, len : 0..Total, sha : Content \cup {None}]
NewPatch == [pc |-> "new", at |-> 0, len |-> 0, sha |-> None]

\* Every variable has its type; the offset stays within the table's CHECK
\* (offset_bytes <= total_size), so no PATCH fails on it.
TypeOK ==
  /\ row \in RowStates /\ offset \in 0..Total /\ expired \in BOOLEAN
  /\ bytes \in Content /\ part \in BOOLEAN /\ final \in BOOLEAN
  /\ patch \in [Patches -> Patch]
  /\ aborter \in {"idle", "unlink", "delete", "done"}
  /\ gc \in [pc : {"idle", "purge", "unlink"}, listed : BOOLEAN]
  /\ acked \in Content
  /\ promoted \subseteq [by : Patches, sha : Content]
  /\ overlapped \in BOOLEAN /\ cut \in BOOLEAN

Empty == [u \in Units |-> None]

Init ==
  /\ row = "none" /\ offset = 0 /\ expired = FALSE
  /\ bytes = Empty /\ part = FALSE /\ final = FALSE
  /\ patch = [p \in Patches |-> NewPatch]
  /\ aborter = "idle"
  /\ gc = [pc |-> "idle", listed |-> FALSE]
  /\ acked = Empty /\ promoted = {} /\ overlapped = FALSE
  /\ cut = FALSE

(***************************************************************************)
(* POST.  The empty .part file is created before the row is inserted; a    *)
(* crash in between leaves the file alone.                                 *)
(***************************************************************************)
CreatePart ==
  /\ row = "none" /\ ~part
  /\ part' = TRUE
  /\ UNCHANGED <<row, offset, expired, bytes, final, patch, aborter, gc, acked, promoted, overlapped, cut>>

create_upload ==
  /\ row = "none" /\ part
  /\ row' = "open"
  /\ UNCHANGED <<offset, expired, bytes, part, final, patch, aborter, gc, acked, promoted, overlapped, cut>>

(***************************************************************************)
(* PATCH.                                                                  *)
(***************************************************************************)
Goto(p, pc) == patch' = [patch EXCEPT ![p].pc = pc]
Fail(p) == Goto(p, "done")
Range(p) == {u \in Units : patch[p].at <= u /\ u < patch[p].at + patch[p].len}
InFlight == {p \in Patches : patch[p].pc \notin {"new", "done"}}

\* The session is read: it must exist, not be expired, be at the offset the
\* client names, and have room for the chunk, which may be empty.
Fits(len) == offset + len <= Total

PatchRead(p, len) ==
  /\ patch[p].pc = "new" /\ \A q \in Patches : q < p => patch[q].pc # "new"
  /\ Cardinality(InFlight) < MaxInFlight
  /\ row = "open" /\ ~expired /\ Fits(len)
  /\ patch' = [patch EXCEPT ![p] = [NewPatch EXCEPT !.pc = "read", !.at = offset, !.len = len]]
  /\ overlapped' = (overlapped \/ InFlight # {})
  /\ UNCHANGED <<row, offset, expired, bytes, part, final, aborter, gc, acked, promoted, cut>>

PatchOpen(p) ==
  /\ patch[p].pc = "read"
  /\ \/ part /\ Goto(p, "opened")
     \/ ~part /\ Fail(p)
  /\ UNCHANGED <<row, offset, expired, bytes, part, final, aborter, gc, acked, promoted, overlapped, cut>>

\* Seek to the offset that was read, write, flush.
WrittenAtStart(p) == {u \in Units : u < patch[p].len}
WrittenShort(p) == Range(p) \ {patch[p].at}
Written(p) == Range(p)

PatchWrite(p) ==
  /\ patch[p].pc = "opened"
  /\ bytes' = [u \in Units |-> IF u \in Written(p) THEN p ELSE bytes[u]]
  /\ Goto(p, "written")
  /\ UNCHANGED <<row, offset, expired, part, final, aborter, gc, acked, promoted, overlapped, cut>>

\* UPDATE ... WHERE offset_bytes = expected; nothing updated means 409.
CasMatches(p) == row = "open" /\ offset = patch[p].at

advance_offset(p) ==
  /\ patch[p].pc = "written"
  /\ \/ /\ CasMatches(p)
        /\ offset' = patch[p].at + patch[p].len
        /\ acked' = [u \in Units |-> IF u \in Range(p) THEN p ELSE acked[u]]
        /\ Goto(p, IF offset' = Total THEN "hash" ELSE "done")
     \/ ~CasMatches(p) /\ Fail(p) /\ UNCHANGED <<offset, acked>>
  /\ UNCHANGED <<row, expired, bytes, part, final, aborter, gc, promoted, overlapped, cut>>

(***************************************************************************)
(* finalize_upload, run by the PATCH that reached the end.                 *)
(***************************************************************************)
FinalizeHash(p) ==
  /\ patch[p].pc = "hash"
  /\ \/ part /\ patch' = [patch EXCEPT ![p].pc = "rename", ![p].sha = bytes]
     \/ ~part /\ Fail(p)
  /\ UNCHANGED <<row, offset, expired, bytes, part, final, aborter, gc, acked, promoted, overlapped, cut>>

\* The rename finds no .part when another finalize, a DELETE or the worker
\* was faster.
RenamePartKeep(p) == part' = part
RenamePart(p) == part' = FALSE

\* Mutant: a PATCH that has renamed backs off when another one is finalizing.
FinalizeRenameOnce(p) ==
  /\ patch[p].pc = "rename"
  /\ part' = FALSE /\ final' = part
  /\ IF part /\ \A q \in Patches \ {p} : patch[q].pc \notin {"hash", "rename"}
     THEN Goto(p, "promote") ELSE Fail(p)
  /\ UNCHANGED <<row, offset, expired, bytes, aborter, gc, acked, promoted, overlapped, cut>>

FinalizeRename(p) ==
  /\ patch[p].pc = "rename"
  /\ \/ part /\ RenamePart(p) /\ final' = TRUE /\ Goto(p, "promote")
     \/ ~part /\ Fail(p) /\ UNCHANGED <<part, final>>
  /\ UNCHANGED <<row, offset, expired, bytes, aborter, gc, acked, promoted, overlapped, cut>>

\* The name is looked up and the file inserted or overwritten.  A folder of
\* that name removes the blob; any other error leaves it.  Either error
\* leaves the session behind.
FinalizePromote(p) ==
  /\ patch[p].pc = "promote"
  /\ \/ /\ promoted' = promoted \cup {[by |-> p, sha |-> patch[p].sha]}
        /\ Goto(p, "finish")
        /\ UNCHANGED <<final, cut>>
     \/ /\ \/ final' = FALSE
           \/ UNCHANGED final
        /\ Fail(p)
        /\ cut' = TRUE
        /\ UNCHANGED promoted
  /\ UNCHANGED <<row, offset, expired, bytes, part, aborter, gc, acked, overlapped>>

FinalizeFinish(p) ==
  /\ patch[p].pc = "finish"
  /\ row' = IF row = "open" THEN "finalized" ELSE row
  /\ Fail(p)
  /\ UNCHANGED <<offset, expired, bytes, part, final, aborter, gc, acked, promoted, overlapped, cut>>

\* The client goes away, or the server restarts, between two steps.
Cancel(p) ==
  /\ p \in InFlight
  /\ Fail(p)
  /\ cut' = TRUE
  /\ UNCHANGED <<row, offset, expired, bytes, part, final, aborter, gc, acked, promoted, overlapped>>

(***************************************************************************)
(* DELETE reads the row, removes the .part file, then deletes the row.     *)
(***************************************************************************)
AbortRead ==
  /\ aborter = "idle" /\ row = "open"
  /\ aborter' = "unlink"
  /\ UNCHANGED <<row, offset, expired, bytes, part, final, patch, gc, acked, promoted, overlapped, cut>>

AbortUnlink ==
  /\ aborter = "unlink"
  /\ part' = FALSE
  /\ aborter' = "delete"
  /\ UNCHANGED <<row, offset, expired, bytes, final, patch, gc, acked, promoted, overlapped, cut>>

AbortDelete ==
  /\ aborter = "delete"
  /\ row' = IF row = "open" THEN "aborted" ELSE row
  /\ aborter' = "done"
  /\ UNCHANGED <<offset, expired, bytes, part, final, patch, gc, acked, promoted, overlapped, cut>>

(***************************************************************************)
(* The worker lists the keys of expired sessions, deletes the expired      *)
(* rows, and removes the .part files of the keys it listed.  A list that   *)
(* fails counts as empty; a purge that fails ends this round.              *)
(***************************************************************************)
DueEarly == row = "open" /\ ~expired
Due == row = "open" /\ expired

list_expired_keys ==
  /\ gc.pc = "idle"
  /\ \E listed \in {Due, FALSE} : gc' = [pc |-> "purge", listed |-> listed]
  /\ UNCHANGED <<row, offset, expired, bytes, part, final, patch, aborter, acked, promoted, overlapped, cut>>

purge_expired ==
  /\ gc.pc = "purge"
  /\ row' = IF Due THEN "purged" ELSE row
  /\ gc' = [gc EXCEPT !.pc = "unlink"]
  /\ UNCHANGED <<offset, expired, bytes, part, final, patch, aborter, acked, promoted, overlapped, cut>>

PurgeFails ==
  /\ gc.pc = "purge"
  /\ gc' = [pc |-> "idle", listed |-> FALSE]
  /\ UNCHANGED <<row, offset, expired, bytes, part, final, patch, aborter, acked, promoted, overlapped, cut>>

GcUnlink ==
  /\ gc.pc = "unlink"
  /\ part' = IF gc.listed THEN FALSE ELSE part
  /\ gc' = [pc |-> "idle", listed |-> FALSE]
  /\ UNCHANGED <<row, offset, expired, bytes, final, patch, aborter, acked, promoted, overlapped, cut>>

Expire ==
  /\ row = "open" /\ ~expired
  /\ expired' = TRUE
  /\ UNCHANGED <<row, offset, bytes, part, final, patch, aborter, gc, acked, promoted, overlapped, cut>>

PatchStep(p) ==
  \/ PatchOpen(p) \/ PatchWrite(p) \/ advance_offset(p) \/ FinalizeHash(p)
  \/ FinalizeRename(p) \/ FinalizePromote(p) \/ FinalizeFinish(p)

Abort == AbortRead \/ AbortUnlink \/ AbortDelete
Collect == list_expired_keys \/ purge_expired \/ PurgeFails \/ GcUnlink

Next ==
  \/ CreatePart \/ create_upload \/ Expire
  \/ \E p \in Patches, len \in 0..Total : PatchRead(p, len)
  \/ \E p \in Patches : PatchStep(p) \/ Cancel(p)
  \/ Abort \/ Collect

Spec == Init /\ [][Next]_vars

\* The worker is a loop that never ends and a session's expires_at passes; a
\* purge tried again every hour does not fail for ever.  Nothing is asked of the
\* requests.
FairSpec ==
  /\ Spec
  /\ WF_vars(Collect) /\ SF_vars(purge_expired) /\ WF_vars(Expire)

-----------------------------------------------------------------------------
\* Below the offset the server has answered for there are no holes: some
\* PATCH wrote every unit, so an upload is never completed with bytes nobody
\* sent, whatever PATCHes race or are cut off (patch_upload writes first and
\* advances afterwards).
NoHoles == row # "none" => \A u \in Units : u < offset => bytes[u] # None

\* A session is promoted to drive_files at most once, although several
\* PATCHes may reach finalize_upload: an empty one passes every check of
\* patch_upload while another finalizes.  Only the rename of the .part file
\* tells them apart.
PromotedOnce == \A f, g \in promoted : f = g

\* While PATCHes have come one at a time, as a tus client sends them, what is
\* promoted is what was acknowledged, and its hash is the hash of what is on
\* disk, also when PATCHes are cut off and sent again.
PromotedIsAcked ==
  ~overlapped => \A file \in promoted : file.sha = acked /\ file.sha = bytes

\* The worker removes every session in the end, if nothing else does.
SessionsEnd == (row = "open") ~> (row # "open")

\* An upload whose last byte was acknowledged is a file, or some request is still
\* making it one, unless a request was cut off, its promotion failed, or the
\* session was aborted or expired: of several PATCHes that finalize at once one
\* always gets through.  An upload of no bytes has no last one: create_upload
\* leaves it for an empty PATCH to finalize.
CompleteInHand ==
  (row = "open" /\ offset = Total /\ Total > 0 /\ promoted = {}
     /\ ~cut /\ ~expired /\ aborter = "idle")
    => \E p \in Patches : patch[p].pc \in {"hash", "rename", "promote"}

(***************************************************************************)
(* Statements of the repository that the code does not keep.               *)
(***************************************************************************)

\* upload.rs:125 says the compare-and-set prevents concurrent writes out of
\* order; so bytes the server answered for stay as they are.
AckedBytesKept == \A u \in Units : u < offset => bytes[u] = acked[u]

=============================================================================
