------------------------------- MODULE DriveTree ----------------------------
(***************************************************************************)
(* The folder tree of one tenant's drive: creating, moving, renaming,      *)
(* trashing, restoring and purging nodes (api/files.rs, domain/file.rs),   *)
(* with the rename history and the constraints of drive_files: unique live *)
(* sibling names, and parent_id ON DELETE CASCADE.                         *)
(*                                                                         *)
(* Handlers gate each node they touch (require_write) and act in later     *)
(* statements.  The users of the model own every node, so the gate tells   *)
(* live nodes from others; grants are left out.  Blobs are DriveContent's. *)
(***************************************************************************)
EXTENDS Naturals, Sequences, FiniteSets

CONSTANTS
  Nodes, Folders,  \* ids; those of folders
  Names,
  Requests,
  Loads,           \* workloads: [ops, width, size, renames], see load
  Root, None

AllOps == {"mkdir", "move", "bulk_move", "rename", "undo", "trash", "bulk_trash",
           "restore", "bulk_restore", "purge", "auto_purge", "expire"}

ASSUME LoadsAssumption ==
  /\ Folders \subseteq Nodes
  /\ Loads \subseteq [ops : SUBSET AllOps, width : Nat, size : Nat, renames : Nat]
ASSUME RootAssumption == Root \notin Nodes /\ None \notin Names \cup AllOps

VARIABLES
  row,      \* drive_files
  history,  \* drive_file_rename_history, in the order of commits
  req,      \* the requests under way
  load,     \* the operations in use, and the requests that overlap, the nodes and
            \* the renames of a node at most, in this behaviour
  drifted   \* history: nodes renamed while another rename of them was under way

vars == <<row, history, req, load, drifted>>

Row == [state : {"none", "live", "trashed"}, parent : Nodes \cup {Root},
        name : Names \cup {None}]
NoRow == [state |-> "none", parent |-> Root, name |-> None]

Rename == [old : Names, new : Names]

\* A request: what is left to gate, what it acts on, where to, the new name,
\* and the old name it has read; shared is history: another rename of the node has
\* been under way.
Pcs == {"idle", "gate", "target", "old", "apply", "forbidden"}
Request == [op : AllOps \cup {None}, pc : Pcs, left : SUBSET Nodes, ids : SUBSET Nodes,
            to : Nodes \cup {Root}, name : Names \cup {None}, old : Names \cup {None},
            shared : BOOLEAN]
Idle == [op |-> None, pc |-> "idle", left |-> {}, ids |-> {}, to |-> Root,
         name |-> None, old |-> None, shared |-> FALSE]

\* Every variable has its type: a node that exists has a name.
TypeOK ==
  /\ row \in [Nodes -> Row]
  /\ \A n \in Nodes : row[n].state \in {"live", "trashed"} <=> row[n].name # None
  /\ history \in [Nodes -> Seq(Rename)]
  /\ req \in [Requests -> Request]
  /\ drifted \subseteq Nodes

Init ==
  /\ row = [n \in Nodes |-> NoRow]
  /\ history = [n \in Nodes |-> <<>>]
  /\ req = [r \in Requests |-> Idle]
  /\ load \in Loads /\ drifted = {}

(***************************************************************************)
(* The table.                                                              *)
(***************************************************************************)
Live == {n \in Nodes : row[n].state = "live"}
Trashed == {n \in Nodes : row[n].state = "trashed"}
Stored == Live \cup Trashed

\* uq_drive_files_sibling_name, over the rows as a statement leaves them; the
\* root counts as one parent (COALESCE).
UniqueSiblings(rows) ==
  \A m, n \in {x \in Nodes : rows[x].state = "live"} :
     rows[m].parent = rows[n].parent /\ rows[m].name = rows[n].name => m = n

\* The nodes a DELETE of the nodes S takes along through parent_id.
Cascade(S) ==
  {n \in Nodes : \A T \in SUBSET Nodes :
     (S \subseteq T /\ \A m \in Nodes : row[m].parent \in T => m \in T) => n \in T}

Delete(S) == row' = [n \in Nodes |-> IF n \in Cascade(S) THEN NoRow ELSE row[n]]

\* A statement that would break the index leaves everything as it was.
Put(rows) == row' = IF UniqueSiblings(rows) THEN rows ELSE row

(***************************************************************************)
(* Requests.                                                               *)
(***************************************************************************)
End(r) == req' = [req EXCEPT ![r] = Idle]
Goto(r, pc) == req' = [req EXCEPT ![r].pc = pc]

\* mkdir, upload and copy insert in one statement.  The foreign key only wants the
\* parent to exist.  The id is new to every request.
mkdir(n, parent, name) ==
  /\ "mkdir" \in load.ops
  /\ Cardinality(Stored) < load.size
  /\ row[n] = NoRow /\ \A r \in Requests : n \notin req[r].ids /\ n # req[r].to
  /\ (parent = Root \/ parent \in Stored)
  /\ LET rows == [row EXCEPT ![n] = [state |-> "live", parent |-> parent, name |-> name]]
     IN  UniqueSiblings(rows) /\ row' = rows
  /\ UNCHANGED <<history, req, load, drifted>>

Renaming(n) == {r \in Requests : req[r].op \in {"rename", "undo"} /\ n \in req[r].ids}

Begin(r, op, ids, to, name) ==
  LET others == IF op \in {"rename", "undo"} THEN UNION {Renaming(n) : n \in ids} ELSE {}
      q == [Idle EXCEPT !.op = op, !.pc = "gate", !.left = ids, !.ids = ids, !.to = to,
                        !.name = name, !.shared = others # {}]
  IN
  /\ req[r] = Idle /\ op \in load.ops
  /\ Cardinality({o \in Requests : req[o] # Idle}) < load.width
  /\ req' = [o \in Requests |-> CASE o = r -> q
                                  [] o \in others -> [req[o] EXCEPT !.shared = TRUE]
                                  [] OTHER -> req[o]]
  /\ UNCHANGED <<row, history, load, drifted>>

BeginMove(r) ==
  \E n \in Stored, to \in Stored \cup {Root} : Begin(r, "move", {n}, to, None)

BeginBulkMove(r) ==
  \E ids \in SUBSET Stored \ {{}}, to \in Stored \cup {Root} :
     Begin(r, "bulk_move", ids, to, None)

BeginRename(r) ==
  \E n \in Stored, name \in Names :
     Len(history[n]) < load.renames /\ Begin(r, "rename", {n}, Root, name)

\* The entry is read first; it asks for its old name.
BeginUndo(r) ==
  \E n \in Stored : \E i \in DOMAIN history[n] :
     Len(history[n]) < load.renames /\ Begin(r, "undo", {n}, Root, history[n][i].old)

BeginTrash(r) ==
  \/ \E n \in Stored : Begin(r, "trash", {n}, Root, None)
  \/ \E ids \in SUBSET Stored \ {{}} : Begin(r, "bulk_trash", ids, Root, None)

BeginRestore(r) ==
  \E ids \in SUBSET Stored \ {{}} : Begin(r, "bulk_restore", ids, Root, None)

BeginPurge(r) == \E n \in Stored : Begin(r, "purge", {n}, Root, None)

\* require_write, one node at a time: 403 unless the node is live.
AfterGate(op) ==
  CASE op \in {"move", "bulk_move"} -> "target"
    [] op \in {"rename", "undo"} -> "old"
    [] OTHER -> "apply"

require_write(r, n) ==
  /\ req[r].pc = "gate" /\ n \in req[r].left
  /\ IF n \in Live
     THEN req' = [req EXCEPT ![r].left = @ \ {n},
                             ![r].pc = IF req[r].left = {n} THEN AfterGate(req[r].op) ELSE "gate"]
     ELSE Goto(r, "forbidden")
  /\ UNCHANGED <<row, history, load, drifted>>

Answer403(r) ==
  /\ req[r].pc = "forbidden"
  /\ End(r)
  /\ UNCHANGED <<row, history, load, drifted>>

\* The destination must be a live folder, and none of the nodes to move.
GateTarget(r) ==
  /\ req[r].pc = "target"
  /\ \/ /\ \/ req[r].to = Root
           \/ req[r].to \in (Live \cap Folders) \ req[r].ids
        /\ Goto(r, "apply")
     \/ /\ req[r].to # Root
        /\ req[r].to \notin (Live \cap Folders) \ req[r].ids
        /\ End(r)
  /\ UNCHANGED <<row, history, load, drifted>>

\* One UPDATE moves the nodes still live; the foreign key fails it when the
\* destination is gone.
MoveRowsTrashed(r) == [n \in Nodes |->
  IF n \in req[r].ids \cap Stored THEN [row[n] EXCEPT !.parent = req[r].to] ELSE row[n]]
MoveRows(r) == [n \in Nodes |->
  IF n \in req[r].ids \cap Live THEN [row[n] EXCEPT !.parent = req[r].to] ELSE row[n]]

move_to(r) ==
  /\ req[r].pc = "apply" /\ req[r].op \in {"move", "bulk_move"}
  /\ IF req[r].to = Root \/ req[r].to \in Stored THEN Put(MoveRows(r)) ELSE UNCHANGED row
  /\ End(r)
  /\ UNCHANGED <<history, load, drifted>>

\* rename reads the old name, then updates and records in one transaction,
\* whose row lock comes with the UPDATE.
RenameRead(r) ==
  /\ req[r].pc = "old"
  /\ \E n \in req[r].ids :
       IF n \in Live THEN req' = [req EXCEPT ![r].pc = "apply", ![r].old = row[n].name]
                     ELSE End(r)
  /\ UNCHANGED <<row, history, load, drifted>>

RecordsSwapped(old, new) == IF old = new THEN <<>> ELSE <<[old |-> new, new |-> old]>>
Records(old, new) == IF old = new THEN <<>> ELSE <<[old |-> old, new |-> new]>>

rename(r) ==
  /\ req[r].pc = "apply" /\ req[r].op \in {"rename", "undo"}
  /\ \E n \in req[r].ids :
       LET rows == [row EXCEPT ![n].name = req[r].name]
           done == n \in Live /\ UniqueSiblings(rows)
       IN  /\ row' = IF done THEN rows ELSE row
           /\ history' = IF done
                         THEN [history EXCEPT ![n] = @ \o Records(req[r].old, req[r].name)]
                         ELSE history
           /\ drifted' = IF done /\ req[r].shared THEN drifted \cup {n} ELSE drifted
  /\ End(r)
  /\ UNCHANGED load

bulk_trash(r) ==
  /\ req[r].pc = "apply" /\ req[r].op \in {"trash", "bulk_trash"}
  /\ row' = [n \in Nodes |-> IF n \in req[r].ids \cap Live
                             THEN [row[n] EXCEPT !.state = "trashed"] ELSE row[n]]
  /\ End(r)
  /\ UNCHANGED <<history, load, drifted>>

RestoreRows(S) == [n \in Nodes |->
  IF n \in S \cap Trashed THEN [row[n] EXCEPT !.state = "live"] ELSE row[n]]

bulk_restore(r) ==
  /\ req[r].pc = "apply" /\ req[r].op = "bulk_restore"
  /\ Put(RestoreRows(req[r].ids))
  /\ End(r)
  /\ UNCHANGED <<history, load, drifted>>

\* The single restore has no gate.
restore(n) ==
  /\ "restore" \in load.ops
  /\ n \in Trashed
  /\ Put(RestoreRows({n}))
  /\ UNCHANGED <<history, req, load, drifted>>

\* The history goes with the row (ON DELETE CASCADE).
Purge(S) ==
  /\ Delete(S)
  /\ history' = [n \in Nodes |-> IF n \in Cascade(S) THEN <<>> ELSE history[n]]
  /\ drifted' = drifted \ Cascade(S)

purge(r) ==
  /\ req[r].pc = "apply" /\ req[r].op = "purge"
  /\ Purge(req[r].ids \cap Trashed)
  /\ End(r)
  /\ UNCHANGED load

\* DELETE /drive/trash and the hourly worker purge what is old enough.
purge_trashed_older_than(S) ==
  /\ "auto_purge" \in load.ops
  /\ S # {} /\ Purge(S)
  /\ UNCHANGED <<req, load>>

\* The hourly worker deletes live nodes past their expires_at, which
\* set_expiry allows on folders too.
purge_expired_files(S) ==
  /\ "expire" \in load.ops
  /\ S # {} /\ Purge(S)
  /\ UNCHANGED <<req, load>>

Cancel(r) ==
  /\ req[r] # Idle
  /\ End(r)
  /\ UNCHANGED <<row, history, load, drifted>>

BeginRequest(r) ==
  \/ BeginMove(r) \/ BeginBulkMove(r) \/ BeginRename(r) \/ BeginUndo(r)
  \/ BeginTrash(r) \/ BeginRestore(r) \/ BeginPurge(r)

Step(r) ==
  \/ \E n \in Nodes : require_write(r, n)
  \/ Answer403(r) \/ GateTarget(r) \/ move_to(r) \/ RenameRead(r) \/ rename(r)
  \/ bulk_trash(r) \/ bulk_restore(r) \/ purge(r) \/ Cancel(r)

Next ==
  \/ \E n \in Nodes, parent \in Nodes \cup {Root}, name \in Names : mkdir(n, parent, name)
  \/ \E n \in Nodes : restore(n)
  \/ \E S \in SUBSET Trashed : purge_trashed_older_than(S)
  \/ \E S \in SUBSET Live : purge_expired_files(S)
  \/ \E r \in Requests : BeginRequest(r) \/ Step(r)

Spec == Init /\ [][Next]_vars

-----------------------------------------------------------------------------
\* A node in the trash keeps its name, its place and its rename history until it is
\* restored as it was or purged, also when a move or a rename was let through
\* by require_write before the node was trashed (move_to, bulk_move, rename).
TrashUntouched ==
  [][\A n \in Trashed :
       \/ row'[n] = NoRow
       \/ /\ row'[n] \in {row[n], [row[n] EXCEPT !.state = "live"]}
          /\ history'[n] = history[n]]_vars

Chained(n) ==
  LET h == history[n] IN
  /\ \A i \in 1..(Len(h) - 1) : h[i].new = h[i + 1].old
  /\ h # <<>> => h[Len(h)].new = row[n].name

\* Unless two renames of a node overlap, its history is a chain from name to name
\* that ends in its present name, undo included, whatever else happens to it.
\* For those that do, see NoDrift.
HistoryMatchesName == \A n \in Stored \ drifted : Chained(n)

(***************************************************************************)
(* Statements of the repository that the code does not keep.               *)
(***************************************************************************)

\* files.rs:1059: cannot move a folder into itself.
NotInsideItself ==
  \A n \in Stored : \/ row[n].parent = Root
                    \/ row[n].parent \notin Cascade({n})

\* 20260911000000_drive_file_rename_history.sql:5: a rename and its entry are one
\* transaction, so the trail cannot drift from the live name.  The old name is
\* read by a statement that takes no row lock, and another rename may commit
\* between it and the UPDATE.
NoDrift == \A n \in Stored : Chained(n)

=============================================================================
