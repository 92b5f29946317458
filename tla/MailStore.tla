------------------------------ MODULE MailStore ------------------------------
(***************************************************************************)
(* The mailboxes and messages tables of expresso-mail under the concurrent *)
(* transactions of its front ends (IMAP, POP3, ActiveSync, REST, LMTP      *)
(* delivery, the sweep worker).                                            *)
(*                                                                         *)
(* Every row change of messages fires trg_messages_sync_mailbox_stats,     *)
(* which recomputes next_uid and message_count of the mailbox.  Writers    *)
(* that allocate a UID lock the mailbox row first (FOR UPDATE); writers    *)
(* that flag, delete or re-file rows reach that row only in the trigger,   *)
(* where the counters have been computed from a snapshot taken before the  *)
(* wait for the row.  Transactions run at PostgreSQL's READ COMMITTED: a   *)
(* statement sees what was committed when it began plus its own writes,    *)
(* and an UPDATE that waited for a row uses the values it had computed.    *)
(*                                                                         *)
(* Of a message only its identity, place, UID and body matter; flags are   *)
(* left out, a flag change is a write of the row.                          *)
(***************************************************************************)
EXTENDS Naturals, FiniteSets, Sequences, FiniteSetsExt, SequencesExt

CONSTANTS
  Boxes,    \* the mailboxes
  Txns,     \* transactions in flight at a time
  MaxRows,  \* bound on the message rows ever inserted
  Loads,    \* sets of operations, each the workload of some of the behaviours
  None

AllOps == {"deliver", "copy", "move", "touch", "delete", "refile"}

ASSUME StoreAssumption == MaxRows \in Nat /\ Loads \subseteq SUBSET AllOps /\ None \notin Txns \cup Boxes

VARIABLES
  load,    \* the operations this behaviour may use
  msgs,    \* the committed rows of messages
  mb,      \* the committed counters of each mailbox
  lock,    \* who holds the row lock of each mailbox
  tx,      \* the transactions
  made,    \* rows inserted so far; the next row has id made + 1
  kept,    \* history: bodies stored and not since deleted on request
  dup,     \* history: bodies copied, or moved by a MOVE that found no row left
  overtaken \* history: mailboxes whose counters come from an overtaken refresh

vars == <<load, msgs, mb, lock, tx, made, kept, dup, overtaken>>

Row == [id : 1..MaxRows, box : Boxes, uid : Nat, body : 1..MaxRows]
Counters == [next_uid : Nat, message_count : Nat]
NoCounters == [next_uid |-> 0, message_count |-> 0]

Pcs == {"idle", "selected", "locked", "inserted", "refresh"}

Txn == [pc    : Pcs,
        op    : AllOps \cup {None},
        box   : Boxes \cup {None},        \* where it inserts or re-files to
        rows  : SUBSET Row,               \* the rows its SELECT returned
        ins   : SUBSET Row,               \* rows it wrote
        gone  : SUBSET (1..MaxRows),      \* ids it deleted or rewrote
        todo  : Seq(Boxes),               \* mailboxes its triggers still refresh
        snap  : Counters,                 \* what the refresh under way computed
        many  : BOOLEAN,                  \* the statement wrote several rows
        mb    : [Boxes -> Counters],      \* counters it wrote
        stale : SUBSET Boxes]             \* history: refreshed, then overtaken

Idle == [pc |-> "idle", op |-> None, box |-> None, rows |-> {}, ins |-> {}, gone |-> {},
         todo |-> <<>>, snap |-> NoCounters, many |-> FALSE,
         mb |-> [m \in Boxes |-> NoCounters], stale |-> {}]

\* Every variable has its type; a UID names one message of a mailbox.
TypeOK ==
  /\ load \in Loads
  /\ msgs \subseteq Row
  /\ \A r, s \in msgs : (r.id = s.id \/ (r.box = s.box /\ r.uid = s.uid)) => r = s
  /\ mb \in [Boxes -> Counters]
  /\ lock \in [Boxes -> Txns \cup {None}]
  /\ \A p \in Txns :
       /\ tx[p].pc \in Pcs /\ tx[p].op \in AllOps \cup {None} /\ tx[p].box \in Boxes \cup {None}
       /\ tx[p].rows \subseteq Row /\ tx[p].ins \subseteq Row /\ tx[p].gone \subseteq 1..MaxRows
       /\ Range(tx[p].todo) \subseteq Boxes /\ tx[p].snap \in Counters
       /\ tx[p].mb \in [Boxes -> Counters] /\ tx[p].stale \subseteq Boxes
       /\ tx[p].many \in BOOLEAN
  /\ made \in 0..MaxRows /\ kept \subseteq 1..MaxRows /\ dup \subseteq 1..MaxRows
  /\ overtaken \subseteq Boxes

Init ==
  /\ load \in Loads
  /\ msgs = {}
  /\ mb = [m \in Boxes |-> [next_uid |-> 1, message_count |-> 0]]
  /\ lock = [m \in Boxes |-> None]
  /\ tx = [p \in Txns |-> Idle]
  /\ made = 0
  /\ kept = {} /\ dup = {} /\ overtaken = {}

In(rows, m) == {r \in rows : r.box = m}
Ids(rows) == {r.id : r \in rows}
Bodies(rows) == {r.body : r \in rows}

\* What transaction t sees of messages.
View(t) == {r \in msgs : r.id \notin t.gone} \cup t.ins

\* Mutant: next_uid is taken from the number of rows.
MutStatsCount(rows, m) ==
  LET n == Cardinality(In(rows, m))
  IN [message_count |-> n, next_uid |-> n + 1]

\* What refresh_mailbox_stats computes for mailbox m.
Stats(rows, m) ==
  LET R == In(rows, m)
  IN [message_count |-> Cardinality(R),
      next_uid      |-> IF R = {} THEN 1 ELSE Max({r.uid : r \in R}) + 1]

\* The rows of R are not being written by another transaction.
RowsFree(p, R) == \A q \in Txns \ {p} : tx[q].gone \cap Ids(R) = {}

SameKey(r, s) == r.box = s.box /\ r.uid = s.uid /\ r.id # s.id

\* No transaction in flight has written the (mailbox, uid) of a row of R,
\* so the unique index need not wait for its outcome.
KeysSettled(p, R) ==
  \A q \in Txns \ {p} : \A s \in tx[q].ins \cup {x \in msgs : x.id \in tx[q].gone} :
    \A r \in R : ~SameKey(r, s)

\* Mutant: the schema has no unique index.
MutCollidesNever(t, R) == FALSE

\* UNIQUE (mailbox_id, uid) refuses the rows R written by t.
Collides(t, R) == \E r \in R : \E s \in View(t) \cup R : SameKey(r, s)

\* The trigger's calls for a statement of t that changed the mailboxes bs, in
\* that order: the first one takes its snapshot at once.
StartRefresh(t, bs, several) ==
  [t EXCEPT !.pc = "refresh", !.todo = bs, !.many = several,
            !.snap = Stats(View(t), Head(bs)), !.stale = @ \ {Head(bs)}]

Wrote(t) == {m \in Boxes : t.mb[m] # NoCounters}
Changed(t) == {r.box : r \in t.ins \cup {x \in msgs : x.id \in t.gone}}

\* The mailboxes of bs whose counters t has already computed.
Computed(t, bs) ==
  {m \in bs : m \in Wrote(t) \/ (t.pc = "refresh" /\ m = Head(t.todo))}

\* COMMIT of p, whose last statement has left it at t.  Nothing that another
\* transaction could see lies between the two.
Commit(p, t) ==
  LET deleted == Bodies({r \in msgs : r.id \in t.gone})
      unmatched == {r \in t.rows : r.id \notin t.gone}
  IN /\ msgs' = View(t)
     /\ UNCHANGED load
     /\ mb' = [m \in Boxes |-> IF m \in Wrote(t) THEN t.mb[m] ELSE mb[m]]
     /\ lock' = [m \in Boxes |-> IF lock[m] = p THEN None ELSE lock[m]]
     /\ tx' = [q \in Txns |->
                 IF q = p THEN Idle
                 ELSE [tx[q] EXCEPT !.stale = @ \cup Computed(tx[q], Changed(t))]]
     /\ kept' = CASE t.op = "deliver" -> kept \cup Bodies(t.ins)
                  [] t.op = "delete"  -> kept \ deleted
                  [] OTHER            -> kept
     /\ dup' = CASE t.op = "copy" -> dup \cup Bodies(t.rows)
                 [] t.op = "move" -> dup \cup Bodies(unmatched)
                 [] OTHER         -> dup
     /\ overtaken' = (overtaken \ Wrote(t)) \cup t.stale

\* p goes on with another statement, as t.
Continue(p, t) ==
  /\ tx' = [tx EXCEPT ![p] = t]
  /\ UNCHANGED <<load, msgs, mb, kept, dup, overtaken>>

\* The refresh of Head(t.todo) is done: the next call takes its snapshot, or
\* the statement, and with it the transaction, is complete.
AfterRefresh(p, t) ==
  LET rest == Tail(t.todo)
  IN IF rest = <<>>
     THEN Commit(p, t)
     ELSE Continue(p, [t EXCEPT !.todo = rest, !.snap = Stats(View(t), Head(rest)),
                                !.stale = @ \ {Head(rest)}])
-----------------------------------------------------------------------------
(* Writers that allocate UIDs.                                             *)

\* COPY and MOVE read the source rows before their transaction begins.
SelectRows(p, op, R, m) ==
  /\ tx[p].pc = "idle"
  /\ tx' = [tx EXCEPT ![p] = [Idle EXCEPT !.pc = "selected", !.op = op, !.box = m, !.rows = R]]
  /\ UNCHANGED <<load, msgs, mb, lock, made, kept, dup, overtaken>>

\* A delivery, an APPEND, a draft or a sent message: begins at the mailbox row.
BeginDeliver(p, m) ==
  /\ tx[p].pc = "idle"
  /\ lock[m] = None
  /\ lock' = [lock EXCEPT ![m] = p]
  /\ tx' = [tx EXCEPT ![p] = [Idle EXCEPT !.pc = "locked", !.op = "deliver", !.box = m]]
  /\ UNCHANGED <<load, msgs, mb, made, kept, dup, overtaken>>

\* SELECT ... FOR UPDATE on the destination.
LockBox(p) ==
  LET m == tx[p].box
  IN /\ tx[p].pc = "selected"
     /\ lock[m] = None
     /\ lock' = [lock EXCEPT ![m] = p]
     /\ tx' = [tx EXCEPT ![p].pc = "locked"]
     /\ UNCHANGED <<load, msgs, mb, made, kept, dup, overtaken>>

Pos(r, R) == Cardinality({s \in R : s.uid <= r.uid})

\* The rows t inserts: one new message, or one per row its SELECT returned,
\* with the UIDs that follow the next_uid it read.
NewRows(t) ==
  LET first == mb[t.box].next_uid
  IN IF t.op = "deliver"
     THEN {[id |-> made + 1, box |-> t.box, uid |-> first, body |-> made + 1]}
     ELSE {[id |-> made + Pos(r, t.rows), box |-> t.box, uid |-> first + Pos(r, t.rows) - 1,
            body |-> r.body] : r \in t.rows}

\* INSERT, with its trigger: p already holds the mailbox row.  A UID that is
\* taken fails the statement (Rollback).
InsertRows(p) ==
  LET t == tx[p]
      R == NewRows(t)
      u == [t EXCEPT !.ins = R]
      v == [u EXCEPT !.mb[t.box] = Stats(View(u), t.box)]
  IN /\ t.pc = "locked"
     /\ made + Cardinality(R) <= MaxRows
     /\ KeysSettled(p, R) /\ ~Collides(t, R)
     /\ made' = made + Cardinality(R)
     /\ IF t.op = "move"
        THEN Continue(p, [v EXCEPT !.pc = "inserted"]) /\ UNCHANGED lock
        ELSE Commit(p, v)

\* Mutant: MOVE deletes by UID what its SELECT found by id.
MutMovedRowsByUid(t) == {r \in msgs : \E s \in t.rows : s.uid = r.uid /\ s.box = r.box}

\* The source rows a MOVE still finds, by id and mailbox.
MovedRows(t) == {r \in msgs : \E s \in t.rows : s.id = r.id /\ s.box = r.box}

MoveDelete(p) ==
  LET t == tx[p]
      R == MovedRows(t)
      u == [t EXCEPT !.gone = Ids(R)]
  IN /\ t.pc = "inserted"
     /\ RowsFree(p, {r \in msgs : r.id \in Ids(t.rows)})
     /\ IF R = {}
        THEN Commit(p, t)
        ELSE /\ Continue(p, StartRefresh(u, <<(CHOOSE r \in R : TRUE).box>>, Cardinality(R) > 1))
             /\ UNCHANGED lock
     /\ UNCHANGED made
-----------------------------------------------------------------------------
(* Which rows a handler's statement writes.  Flags are left out, so "the   *)
(* rows marked \Deleted" or "the unseen rows" may be any rows of the       *)
(* mailbox; an id list is taken within one mailbox.                        *)

Rows(scope) ==
  CASE scope = "one"  -> {{r} : r \in msgs}
    [] scope = "some" -> UNION {SUBSET In(msgs, m) \ {{}} : m \in Boxes}
    [] scope = "all"  -> {In(msgs, m) : m \in {r.box : r \in msgs}}

Selected(scopes) == UNION {Rows(scope) : scope \in scopes}

\* Flag writers.
cmd_store == "some"             \* the UIDs or sequence numbers named
apply_implicit_seen == "one"    \* FETCH of a body, one row at a time
get_message == "one"
update_flags == "one"
bulk_update_flags == "some"
mark_folder_read == "some"      \* the rows without \Seen
mark_folder_unread == "some"    \* the rows with \Seen
EasRead == "one"                \* ActiveSync Change, by UID
BulkFlag == "some"
Touched == {cmd_store, apply_implicit_seen, get_message, update_flags, bulk_update_flags,
            mark_folder_read, mark_folder_unread, EasRead, BulkFlag}

\* Deleters.
cmd_expunge == "some"           \* the rows marked \Deleted
cmd_expunge_uid == "some"       \* those of them named
cmd_close == "some"
delete_messages == "some"       \* POP3 QUIT: the rows DELE marked
empty_folder == "all"
empty_special_use_folder == "all"
bulk_delete == "some"
BulkDelete == "some"
discard_draft == "one"
update_draft == "one"           \* the old draft; the new one is a delivery
EasDelete == "one"              \* ActiveSync Delete, by UID
FlowDiscard == "one"            \* the flow action "discard"
Deleted == {cmd_expunge, cmd_expunge_uid, cmd_close, delete_messages, empty_folder,
            empty_special_use_folder, bulk_delete, BulkDelete, discard_draft, update_draft,
            EasDelete, FlowDiscard}

\* Writers of mailbox_id, which keep the UID.
move_message == "one"
delete_message == "one"         \* to the mailbox marked \Trash
BulkMove == "some"
apply_flow_actions == "one"     \* the flow action "move"
run_sweep == "some"
Refiled == {move_message, delete_message, BulkMove, apply_flow_actions, run_sweep}
-----------------------------------------------------------------------------
(* Writers that do not lock the mailbox row first.                         *)

\* UPDATE messages SET flags.
Touch(p, R) ==
  LET t == [Idle EXCEPT !.op = "touch", !.ins = R, !.gone = Ids(R)]
  IN /\ tx[p].pc = "idle"
     /\ RowsFree(p, R)
     /\ tx' = [tx EXCEPT ![p] = StartRefresh(t, <<(CHOOSE r \in R : TRUE).box>>, Cardinality(R) > 1)]
     /\ UNCHANGED <<load, msgs, mb, lock, made, kept, dup, overtaken>>

\* DELETE FROM messages.
Delete(p, R) ==
  LET t == [Idle EXCEPT !.op = "delete", !.gone = Ids(R)]
  IN /\ tx[p].pc = "idle"
     /\ RowsFree(p, R)
     /\ tx' = [tx EXCEPT ![p] = StartRefresh(t, <<(CHOOSE r \in R : TRUE).box>>, Cardinality(R) > 1)]
     /\ UNCHANGED <<load, msgs, mb, lock, made, kept, dup, overtaken>>

\* Mutant: the trigger refreshes the new mailbox only.
MutRefileOrderNew(new, old) == <<new>>

\* The mailboxes the trigger refreshes for a row that changed mailbox: the
\* new one, then the old one.
RefileOrder(new, old) == <<new, old>>

\* UPDATE messages SET mailbox_id: a taken UID fails the statement.
Refile(p, R, m) ==
  LET S == {[r EXCEPT !.box = m] : r \in R}
      t == [Idle EXCEPT !.op = "refile", !.box = m, !.ins = S, !.gone = Ids(R)]
  IN /\ tx[p].pc = "idle"
     /\ \A r \in R : r.box # m
     /\ RowsFree(p, R) /\ KeysSettled(p, S) /\ ~Collides(t, S)
     /\ tx' = [tx EXCEPT ![p] =
                 StartRefresh(t, RefileOrder(m, (CHOOSE r \in R : TRUE).box), Cardinality(R) > 1)]
     /\ UNCHANGED <<load, msgs, mb, lock, made, kept, dup, overtaken>>
-----------------------------------------------------------------------------
(* The trigger, and rollback.                                              *)

\* The counters a refresh of m writes once it has the mailbox row: what its
\* snapshot gave.  The calls for further rows of the statement, and the
\* second UPDATE of the function (no row left), look again.
Refreshed(t, m) ==
  LET now == Stats(View(t), m)
  IN IF t.many \/ now.message_count = 0 THEN now ELSE t.snap

refresh_mailbox_stats(p) ==
  LET t == tx[p]
      m == Head(t.todo)
      again == t.many \/ Stats(View(t), m).message_count = 0
      u == [t EXCEPT !.mb[m] = Refreshed(t, m), !.stale = IF again THEN @ \ {m} ELSE @]
  IN /\ t.pc = "refresh"
     /\ lock[m] \in {None, p}
     /\ AfterRefresh(p, u)
     /\ Len(t.todo) > 1 => lock' = [lock EXCEPT ![m] = p]
     /\ UNCHANGED made

\* The snapshot saw no row, so the first UPDATE matched nothing; the second
\* one sees a row that arrived since, and matches nothing either.
RefreshNothing(p) ==
  LET t == tx[p]
      m == Head(t.todo)
  IN /\ t.pc = "refresh"
     /\ t.snap.message_count = 0 /\ ~t.many
     /\ Stats(View(t), m).message_count > 0
     /\ AfterRefresh(p, t)
     /\ Len(t.todo) > 1 => UNCHANGED lock
     /\ UNCHANGED made

\* Mutant: the inserts of COPY and MOVE are not part of the transaction.
MutRollbackInsertStays(p) ==
  /\ tx[p].pc # "idle"
  /\ msgs' = IF tx[p].pc = "inserted" THEN msgs \cup tx[p].ins ELSE msgs
  /\ tx' = [tx EXCEPT ![p] = Idle]
  /\ lock' = [m \in Boxes |-> IF lock[m] = p THEN None ELSE lock[m]]
  /\ UNCHANGED <<load, mb, made, kept, dup, overtaken>>

\* A failed statement, a deadlock victim, a dropped connection, a crash.
Rollback(p) ==
  /\ tx[p].pc # "idle"
  /\ tx' = [tx EXCEPT ![p] = Idle]
  /\ lock' = [m \in Boxes |-> IF lock[m] = p THEN None ELSE lock[m]]
  /\ UNCHANGED <<load, msgs, mb, made, kept, dup, overtaken>>

Next ==
  \E p \in Txns :
    \/ LockBox(p) \/ InsertRows(p) \/ MoveDelete(p)
    \/ refresh_mailbox_stats(p) \/ RefreshNothing(p)
    \/ Rollback(p)
    \/ \E m \in Boxes : "deliver" \in load /\ BeginDeliver(p, m)
    \/ "touch" \in load /\ \E R \in Selected(Touched) : Touch(p, R)
    \/ "delete" \in load /\ \E R \in Selected(Deleted) : Delete(p, R)
    \/ "refile" \in load /\ \E R \in Selected(Refiled), m \in Boxes : Refile(p, R, m)
    \/ \E op \in load \cap {"copy", "move"}, R \in Rows("some"), m \in Boxes : SelectRows(p, op, R, m)

Spec == Init /\ [][Next]_vars
-----------------------------------------------------------------------------
\* No body is lost: what was stored and not deleted on request is in some
\* mailbox, however COPY, MOVE, re-filing and rollbacks interleave
\* (cmd_move, move_message, run_sweep, apply_flow_actions).
NothingLost == kept \subseteq Bodies(msgs)

\* A body that was never copied, and never moved by a MOVE whose DELETE found
\* its row already gone, is in one place only (cmd_move, RFC 6851 atomicity).
MovedOnce == \A b \in kept \ dup : Cardinality({r \in msgs : r.body = b}) = 1

\* next_uid is above every UID of the mailbox, so the next delivery cannot be
\* refused by UNIQUE (mailbox_id, uid); the one exception is a mailbox whose
\* counters were last written by a refresh that another commit overtook.
NextUidFree ==
  \A m \in Boxes \ overtaken : \A r \in In(msgs, m) : r.uid < mb[m].next_uid

\* A mailbox no transaction is writing has an exact message_count, with the
\* same exception (SELECT, STATUS and NOOP report it as EXISTS).
Quiet(m) == \A p \in Txns : m \notin Changed(tx[p]) \cup Wrote(tx[p]) \cup tx[p].stale
CountExact ==
  \A m \in Boxes \ overtaken : Quiet(m) => mb[m].message_count = Cardinality(In(msgs, m))

\* The counters of a mailbox no transaction is writing agree with its rows
\* ("Keep mailbox counters synchronized from messages table").
CountersSynchronized == \A m \in Boxes : Quiet(m) => mb[m] = Stats(msgs, m)
=============================================================================
