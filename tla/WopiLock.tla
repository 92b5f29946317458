------------------------------ MODULE WopiLock ------------------------------
(***************************************************************************)
(* The WOPI lock of one drive file (services/expresso-drive): the row that *)
(* table drive_wopi_locks holds for it, and the requests of WOPI clients   *)
(* that read and write it.  Every statement is keyed by file_id, the       *)
(* primary key, so the locks of different files do not interact.           *)
(*                                                                         *)
(* A request runs its database transactions step by step.  PostgreSQL's    *)
(* now() is the time at which the transaction BEGAN, not the time at which *)
(* the statement runs, and each statement of a READ COMMITTED transaction  *)
(* sees what is committed when the statement starts; both matter here and  *)
(* both are modelled.  The columns locked_by and acquired_at are written   *)
(* and never read by a handler, and are left out.                          *)
(***************************************************************************)
EXTENDS Integers

CONSTANTS
  Clients,   \* concurrent WOPI requests
  Tokens,    \* values of X-WOPI-Lock / X-WOPI-OldLock (non-empty strings)
  NoToken,   \* the empty string
  TTL,       \* lifetime of a lock (30 minutes), in clock ticks
  MaxTime,   \* bound on the clock
  None       \* no row, or no owner of a row lock

ASSUME TokenAssumption == NoToken \notin Tokens
ASSUME TimeAssumption == TTL \in Nat \ {0} /\ MaxTime \in Nat
ASSUME NoneAssumption ==
  None \notin Clients /\ None \notin [token : Tokens, expires : Nat]

VARIABLES
  clock,     \* wall clock, shared by all transactions
  fileRow,   \* TRUE while the drive_files row exists
  row,       \* the drive_wopi_locks row, or None
  rowLock,   \* the client whose open transaction holds the row's lock
  req        \* the request each client has in flight

vars == <<clock, fileRow, row, rowLock, req>>

Ops == {"LOCK", "REFRESH_LOCK", "UNLOCK", "GET_LOCK", "PUT"}
Pcs == {"idle", "begun", "conflict", "reread", "admitted", "done"}
Statuses == {"none", "ok", "conflict", "bad_request", "error"}
Header == Tokens \cup {NoToken}     \* a header's value, empty when absent

LockRow == [token : Tokens, expires : Nat]

Request == [pc : Pcs, op : Ops, lock : Header, old : Header,
            now : Nat, status : Statuses, reply : Header]

NoRequest == [pc |-> "idle", op |-> "GET_LOCK", lock |-> NoToken, old |-> NoToken,
              now |-> 0, status |-> "none", reply |-> NoToken]

\* Every variable has its type: a stored lock has a non-empty token and an
\* expiry, and a request is in one of the handler's steps (wopi_post_impl,
\* put_file_impl).
TypeOK ==
  /\ clock \in Nat
  /\ fileRow \in BOOLEAN
  /\ row \in LockRow \cup {None}
  /\ rowLock \in Clients \cup {None}
  /\ req \in [Clients -> Request]

(***************************************************************************)
(* The clauses of the statements, at the time now of their transaction.    *)
(***************************************************************************)
Active(r, now) == r # None /\ r.expires > now

FetchActiveShort(now) == IF row # None /\ row.expires > now + 1 THEN row.token ELSE NoToken
fetch_active(now) == IF Active(row, now) THEN row.token ELSE NoToken

NewRow(token, now) == [token |-> token, expires |-> now + TTL]

\* The upsert's WHERE clause: expires_at <= now() OR the token matches.
MayTakeEarly(r, token, now) == r.expires <= now + 1 \/ r.token = token
MayTake(r, token, now) == r.expires <= now \/ r.token = token

Init ==
  /\ clock = 0
  /\ fileRow = TRUE
  /\ row = None
  /\ rowLock = None
  /\ req = [c \in Clients |-> NoRequest]

(***************************************************************************)
(* Requests.  Reply ends a request with a status and an X-WOPI-Lock value. *)
(***************************************************************************)
Reply(c, status, token) ==
  req' = [req EXCEPT ![c].pc = "done", ![c].status = status, ![c].reply = token]

Goto(c, pc) == req' = [req EXCEPT ![c].pc = pc]

\* No other open transaction holds the lock of the row.
RowFree(c) == rowLock \in {None, c}

\* A request arrives and opens its first transaction.  GET_LOCK reads no
\* header, and only LOCK reads X-WOPI-OldLock: when that is not empty, LOCK
\* means UnlockAndRelock.
Begin(c, op, lock, old) ==
  /\ req[c].pc = "idle"
  /\ op = "GET_LOCK" => lock = NoToken
  /\ op # "LOCK" => old = NoToken
  /\ req' = [req EXCEPT ![c] =
               [pc |-> "begun", op |-> op, lock |-> lock, old |-> old,
                now |-> clock, status |-> "none", reply |-> NoToken]]
  /\ UNCHANGED <<clock, fileRow, row, rowLock>>

\* Every operation that names a lock refuses an empty X-WOPI-Lock.
LockRequired(c) ==
  /\ req[c].pc = "begun"
  /\ req[c].op \in {"LOCK", "REFRESH_LOCK", "UNLOCK"}
  /\ req[c].lock = NoToken
  /\ Reply(c, "bad_request", NoToken)
  /\ UNCHANGED <<clock, fileRow, row, rowLock>>

\* A row the upsert rejects stays locked until its transaction ends.
KeepRowLockNot(c) == rowLock' = rowLock
KeepRowLock(c) == rowLock' = c

EndTransactionNot(c) == rowLock' = rowLock
EndTransaction(c) == rowLock' = IF rowLock = c THEN None ELSE rowLock

\* The single-statement upsert behind LOCK and REFRESH_LOCK: insert, take
\* over an expired lock, refresh a lock of the same token, or conflict.
acquire_or_refresh(c) ==
  LET r == req[c] IN
  /\ r.pc = "begun" /\ r.lock # NoToken
  /\ r.op = "REFRESH_LOCK" \/ (r.op = "LOCK" /\ r.old = NoToken)
  /\ RowFree(c)
  /\ \/ /\ row = None /\ fileRow
        /\ row' = NewRow(r.lock, r.now)
        /\ Reply(c, "ok", r.lock)
        /\ UNCHANGED rowLock
     \/ /\ row = None /\ ~fileRow                  \* foreign key violation
        /\ Reply(c, "error", NoToken)
        /\ UNCHANGED <<row, rowLock>>
     \/ /\ row # None /\ MayTake(row, r.lock, r.now)
        /\ row' = NewRow(r.lock, r.now)
        /\ Reply(c, "ok", r.lock)
        /\ UNCHANGED rowLock
     \/ /\ row # None /\ ~MayTake(row, r.lock, r.now)
        /\ KeepRowLock(c)
        /\ Goto(c, "conflict")
        /\ UNCHANGED row
  /\ UNCHANGED <<clock, fileRow>>

\* UPDATE ... WHERE lock_token = old AND expires_at > now().  A row that does
\* not match is neither locked nor waited for.
unlock_and_relock(c) ==
  LET r == req[c]
      matches == Active(row, r.now) /\ row.token = r.old
  IN
  /\ r.pc = "begun" /\ r.op = "LOCK" /\ r.old # NoToken /\ r.lock # NoToken
  /\ \/ /\ matches /\ RowFree(c)
        /\ row' = NewRow(r.lock, r.now)
        /\ Reply(c, "ok", r.lock)
     \/ /\ ~matches
        /\ Goto(c, "conflict")
        /\ UNCHANGED row
  /\ UNCHANGED <<clock, fileRow, rowLock>>

\* DELETE ... WHERE lock_token = token AND expires_at > now(); on a mismatch
\* UNLOCK goes on to read the current lock in a second transaction.
release(c) ==
  LET r == req[c]
      matches == Active(row, r.now) /\ row.token = r.lock
  IN
  /\ r.pc = "begun" /\ r.op = "UNLOCK" /\ r.lock # NoToken
  /\ \/ /\ matches /\ RowFree(c)
        /\ row' = None
        /\ Reply(c, "ok", NoToken)
     \/ /\ ~matches
        /\ Goto(c, "reread")
        /\ UNCHANGED row
  /\ UNCHANGED <<clock, fileRow, rowLock>>

\* The second transaction of a failed UNLOCK begins.
UnlockReread(c) ==
  /\ req[c].pc = "reread"
  /\ req' = [req EXCEPT ![c].pc = "conflict", ![c].now = clock]
  /\ UNCHANGED <<clock, fileRow, row, rowLock>>

\* The conflict path reads the active lock, commits and answers 409.
ConflictReply(c) ==
  /\ req[c].pc = "conflict"
  /\ Reply(c, "conflict", fetch_active(req[c].now))
  /\ EndTransaction(c)
  /\ UNCHANGED <<clock, fileRow, row>>

\* GET_LOCK.
get_active(c) ==
  /\ req[c].pc = "begun" /\ req[c].op = "GET_LOCK"
  /\ Reply(c, "ok", fetch_active(req[c].now))
  /\ UNCHANGED <<clock, fileRow, row, rowLock>>

\* PutFile, first half: the lock is read in a transaction of its own and
\* compared with X-WOPI-Lock; an unlocked file may be written by anyone.
PutCheck(c) ==
  LET active == fetch_active(req[c].now) IN
  /\ req[c].pc = "begun" /\ req[c].op = "PUT"
  /\ \/ /\ active \in {NoToken, req[c].lock}
        /\ Goto(c, "admitted")
     \/ /\ active \notin {NoToken, req[c].lock}
        /\ Reply(c, "conflict", active)
  /\ UNCHANGED <<clock, fileRow, row, rowLock>>

\* PutFile, second half: later transactions store the new content; the lock
\* is not looked at again.  DriveContent models what they do.
PutWrite(c) ==
  /\ req[c].pc = "admitted"
  /\ Reply(c, IF fileRow THEN "ok" ELSE "error", NoToken)
  /\ UNCHANGED <<clock, fileRow, row, rowLock>>

\* The client has its answer and may send another request.
Finish(c) ==
  /\ req[c].pc = "done"
  /\ req' = [req EXCEPT ![c] = NoRequest]
  /\ UNCHANGED <<clock, fileRow, row, rowLock>>

\* The client goes away and the handler's future is dropped, or the server
\* restarts: the open transaction is rolled back.
Abandon(c) ==
  /\ req[c].pc \notin {"idle", "done"}
  /\ req' = [req EXCEPT ![c] = NoRequest]
  /\ EndTransaction(c)
  /\ UNCHANGED <<clock, fileRow, row>>

\* The file's row is purged; ON DELETE CASCADE removes the lock row with it.
PurgeFile ==
  /\ fileRow
  /\ rowLock = None
  /\ fileRow' = FALSE
  /\ row' = None
  /\ UNCHANGED <<clock, rowLock, req>>

Tick ==
  /\ clock < MaxTime
  /\ clock' = clock + 1
  /\ UNCHANGED <<fileRow, row, rowLock, req>>

Step(c) ==
  \/ LockRequired(c)
  \/ acquire_or_refresh(c)
  \/ unlock_and_relock(c)
  \/ release(c)
  \/ UnlockReread(c)
  \/ ConflictReply(c)
  \/ get_active(c)
  \/ PutCheck(c)
  \/ PutWrite(c)

Next ==
  \/ \E c \in Clients, op \in Ops, lock \in Header, old \in Header :
       Begin(c, op, lock, old)
  \/ \E c \in Clients : Step(c)
  \/ \E c \in Clients : Finish(c) \/ Abandon(c)
  \/ PurgeFile
  \/ Tick

Spec == Init /\ [][Next]_vars

\* A request that is not abandoned keeps running: the handler is a task of the
\* server's runtime.  A statement that waits for the row's lock is queued by
\* PostgreSQL and granted it in turn, hence strong fairness for those.
Statement(c) == acquire_or_refresh(c) \/ unlock_and_relock(c) \/ release(c)

FairSpec ==
  Spec /\ \A c \in Clients : WF_vars(Step(c)) /\ SF_vars(Statement(c))

-----------------------------------------------------------------------------
\* A lock that is active is never taken from its token: while it has not
\* expired, the row changes token or disappears only in a step of a request
\* that presented that token (UNLOCK, or LOCK with X-WOPI-OldLock), or when
\* the file itself is purged.  This holds although every transaction judges
\* expiry by the time it began (acquire_or_refresh, unlock_and_relock).
Surrenders(c, token) ==
  /\ req[c].pc = "begun" /\ req'[c].status = "ok"
  /\ \/ req[c].op = "UNLOCK" /\ req[c].lock = token
     \/ req[c].op = "LOCK" /\ req[c].old = token

TokenChanges == row # None /\ (row' = None \/ row'.token # row.token)

LockNotStolen ==
  [][Active(row, clock) /\ TokenChanges /\ fileRow' =>
       \E c \in Clients : Surrenders(c, row.token)]_vars

\* A LOCK or REFRESH_LOCK that is refused learns which lock refused it: the
\* reply names a token, and not the token the request asked for
\* (acquire_or_refresh reads the row in the transaction that was blocked).
ConflictNamesBlocker ==
  \A c \in Clients :
    LET r == req[c] IN
    r.pc = "done" /\ r.status = "conflict" /\ r.old = NoToken
      /\ r.op \in {"LOCK", "REFRESH_LOCK"}
    => r.reply \in Tokens \ {r.lock}

\* A PutFile is admitted only while no other token's lock is active, although the
\* check judges expiry by the time its transaction began (put_file_impl): a
\* write that meets a foreign lock was admitted before that lock was taken.
PutAdmittedUnlocked ==
  [][\A c \in Clients :
       req[c].pc = "begun" /\ req'[c].pc = "admitted" /\ Active(row, clock)
       => row.token = req[c].lock]_vars

\* Every request is answered unless its client goes away: no order of row
\* locks taken by conflicting requests, answered or abandoned, leaves one of
\* them waiting for ever (acquire_or_refresh, unlock_and_relock, release).
RequestsAnswered ==
  \A c \in Clients : req[c].pc = "begun" ~> req[c].pc \in {"done", "idle"}

(***************************************************************************)
(* Statements of the repository's documentation that the code does not     *)
(* keep (see README, Findings).                                            *)
(***************************************************************************)

\* wopi.rs:346 says that a PutFile on a locked file must present the matching
\* X-WOPI-Lock; so none is stored while another token's lock is active.
PutHonoursLock ==
  [][\A c \in Clients :
       req[c].pc = "admitted" /\ req'[c].status = "ok" /\ Active(row, clock)
       => row.token = req[c].lock]_vars
=============================================================================
