--------------------------- MODULE WopiLockProofs ---------------------------
(***************************************************************************)
(* Proofs about WopiLock, for any set of clients and tokens, any lifetime  *)
(* of a lock and any bound on the clock.                                   *)
(***************************************************************************)
EXTENDS WopiLock, TLAPS

\* No transaction began in the future.
NowBehindClock == \A c \in Clients : req[c].now <= clock

\* An upsert that found a conflict still holds the row that refused it, and
\* the row is what it was when it refused.
BlockerHeld ==
  \A c \in Clients :
    req[c].pc = "conflict" /\ req[c].op \in {"LOCK", "REFRESH_LOCK"} /\ req[c].old = NoToken
    => /\ rowLock = c
       /\ row # None
       /\ ~MayTake(row, req[c].lock, req[c].now)

\* Only UNLOCK reads the lock a second time.
OnlyUnlockRereads == \A c \in Clients : req[c].pc = "reread" => req[c].op = "UNLOCK"

IInv ==
  TypeOK /\ NowBehindClock /\ OnlyUnlockRereads /\ BlockerHeld /\ ConflictNamesBlocker

USE TokenAssumption, TimeAssumption, NoneAssumption

\* A reply leaves every request well typed.
LEMMA ReplyTyped ==
  ASSUME req \in [Clients -> Request], NEW c \in Clients,
         NEW status \in Statuses, NEW token \in Header, Reply(c, status, token)
  PROVE  req' \in [Clients -> Request]
<1>1. req[c] \in Request
  OBVIOUS
<1> DEFINE new == [req[c] EXCEPT !.pc = "done", !.status = status, !.reply = token]
<1>2. new \in Request
  BY <1>1, Zenon DEF Request, Pcs
<1>3. req' = [req EXCEPT ![c] = new]
  BY <1>1, Zenon DEF Reply, Request
<1> QED
  BY <1>2, <1>3

\* A stored lock is a row.
LEMMA NewRowIs ==
  ASSUME NEW r \in Request, r.lock # NoToken
  PROVE  NewRow(r.lock, r.now) # None
BY DEF Request, Header, NewRow

\* What a reply changes, and what it leaves.
LEMMA ReplyIs ==
  ASSUME req \in [Clients -> Request], NEW c \in Clients, NEW status, NEW token,
         Reply(c, status, token)
  PROVE  /\ req'[c].pc = "done" /\ req'[c].status = status /\ req'[c].reply = token
         /\ req'[c].op = req[c].op /\ req'[c].lock = req[c].lock /\ req'[c].old = req[c].old
         /\ req'[c].now = req[c].now
         /\ \A d \in Clients \ {c} : req'[d] = req[d]
BY Zenon DEF Reply, Request

\* Goto changes where a request is and nothing else.
LEMMA GotoIs ==
  ASSUME req \in [Clients -> Request], NEW c \in Clients, NEW pc, Goto(c, pc)
  PROVE  /\ req'[c].pc = pc
         /\ req'[c].op = req[c].op /\ req'[c].lock = req[c].lock /\ req'[c].old = req[c].old
         /\ req'[c].now = req[c].now
         /\ \A d \in Clients \ {c} : req'[d] = req[d]
BY Zenon DEF Goto, Request

\* How a step of a handler ends: it answers, with a conflict only after the conflict
\* path or to a PutFile, or it goes on; only a PutFile is admitted.
LEMMA StepEnds ==
  ASSUME NEW c \in Clients, Step(c)
  PROVE  /\ UNCHANGED clock
         /\ \/ \E s, t : Reply(c, s, t) /\ (s = "conflict" => ConflictReply(c) \/ req[c].op = "PUT")
            \/ Goto(c, "conflict")
            \/ Goto(c, "reread") /\ req[c].op = "UNLOCK"
            \/ Goto(c, "admitted") /\ PutCheck(c)
            \/ UnlockReread(c)
<1> DEFINE Answers == \E s \in {"bad_request", "ok", "error"} : \E t : Reply(c, s, t)
<1>0. Answers => \E s, t : Reply(c, s, t) /\ (s = "conflict" => ConflictReply(c) \/ req[c].op = "PUT")
  BY Zenon
<1>1. CASE LockRequired(c) \/ get_active(c) \/ PutWrite(c)
  <2>1. Answers /\ UNCHANGED clock
    BY <1>1, Zenon DEF LockRequired, get_active, PutWrite
  <2> QED BY <1>0, <2>1, Zenon
<1>2. CASE acquire_or_refresh(c)
  <2>1. (Answers \/ Goto(c, "conflict")) /\ UNCHANGED clock
    BY <1>2, Zenon DEF acquire_or_refresh
  <2> QED BY <1>0, <2>1, Zenon
<1>3. CASE unlock_and_relock(c)
  <2>1. (Answers \/ Goto(c, "conflict")) /\ UNCHANGED clock
    BY <1>3, Zenon DEF unlock_and_relock
  <2> QED BY <1>0, <2>1, Zenon
<1>4. CASE release(c)
  <2>1. (Answers \/ Goto(c, "reread")) /\ UNCHANGED clock /\ req[c].op = "UNLOCK"
    BY <1>4, Zenon DEF release
  <2> QED BY <1>0, <2>1, Zenon
<1>5. CASE UnlockReread(c)
  BY <1>5, Zenon DEF UnlockReread
<1>6. CASE ConflictReply(c)
  <2>1. Reply(c, "conflict", fetch_active(req[c].now)) /\ UNCHANGED clock
    BY <1>6, Zenon DEF ConflictReply
  <2> QED BY <1>6, <2>1, Zenon
<1>7. CASE PutCheck(c)
  <2>1. /\ UNCHANGED clock /\ req[c].op = "PUT"
        /\ Goto(c, "admitted") \/ Reply(c, "conflict", fetch_active(req[c].now))
    BY <1>7, Zenon DEF PutCheck
  <2> QED BY <1>7, <2>1, Zenon
<1> QED BY <1>1, <1>2, <1>3, <1>4, <1>5, <1>6, <1>7, Zenon DEF Step

\* What a step leaves of its request, and that it leaves the others alone.
LEMMA StepIs ==
  ASSUME req \in [Clients -> Request], NEW c \in Clients, Step(c)
  PROVE  /\ UNCHANGED clock
         /\ \A d \in Clients \ {c} : req'[d] = req[d]
         /\ req'[c].op = req[c].op /\ req'[c].lock = req[c].lock /\ req'[c].old = req[c].old
         /\ req'[c].now \in {req[c].now, clock}
         /\ req'[c].pc = "reread" => req[c].op = "UNLOCK"
         /\ req'[c].pc = "admitted" => PutCheck(c)
         /\ req'[c].pc = "done" /\ req'[c].status = "conflict"
              => ConflictReply(c) \/ req[c].op = "PUT"
<1>1. CASE \E s, t : Reply(c, s, t) /\ (s = "conflict" => ConflictReply(c) \/ req[c].op = "PUT")
  <2>1. PICK s, t : Reply(c, s, t) /\ (s = "conflict" => ConflictReply(c) \/ req[c].op = "PUT")
    BY <1>1, Zenon
  <2>2. /\ req'[c].pc = "done" /\ req'[c].status = s
        /\ req'[c].op = req[c].op /\ req'[c].lock = req[c].lock /\ req'[c].old = req[c].old
        /\ req'[c].now = req[c].now
        /\ \A d \in Clients \ {c} : req'[d] = req[d]
    BY <2>1, ReplyIs, Zenon
  <2> QED BY <2>1, <2>2, StepEnds, Zenon
<1>2. ASSUME NEW pc \in {"conflict", "reread", "admitted"}, Goto(c, pc)
      PROVE  /\ req'[c].pc = pc
             /\ req'[c].op = req[c].op /\ req'[c].lock = req[c].lock /\ req'[c].old = req[c].old
             /\ req'[c].now = req[c].now
             /\ \A d \in Clients \ {c} : req'[d] = req[d]
  BY <1>2, GotoIs, Zenon
<1>3. CASE UnlockReread(c)
  <2>1. /\ req'[c].pc = "conflict" /\ req'[c].now = clock
        /\ req'[c].op = req[c].op /\ req'[c].lock = req[c].lock /\ req'[c].old = req[c].old
        /\ \A d \in Clients \ {c} : req'[d] = req[d]
    BY <1>3, Zenon DEF UnlockReread, Request
  <2> QED BY <2>1, StepEnds, Zenon
<1> QED BY <1>1, <1>2, <1>3, StepEnds, Zenon

\* The lock a transaction reads is the empty string or a token.
LEMMA FetchTyped ==
  ASSUME TypeOK, NEW now
  PROVE  fetch_active(now) \in Header
BY DEF TypeOK, fetch_active, Active, LockRow, Header

\* The next-state relation preserves the types.
LEMMA TypeOKStep == TypeOK /\ [Next]_vars => TypeOK'
<1> SUFFICES ASSUME TypeOK, [Next]_vars PROVE TypeOK'
  OBVIOUS
<1>0. /\ \A c \in Clients : req[c] \in Request
      /\ {"ok", "conflict", "bad_request", "error"} \subseteq Statuses
      /\ NoToken \in Header
  BY DEF TypeOK, Statuses, Header
<1>1. ASSUME NEW c \in Clients, NEW op \in Ops, NEW lock \in Header, NEW old \in Header,
             Begin(c, op, lock, old)
      PROVE  TypeOK'
  BY <1>1, Zenon DEF Begin, TypeOK, Request, Pcs, Statuses, Header
<1>2. ASSUME NEW c \in Clients, Step(c) PROVE TypeOK'
  <2>0. /\ req[c].lock \in Header /\ req[c].now \in Nat
        /\ req[c].lock # NoToken => NewRow(req[c].lock, req[c].now) \in LockRow
    BY <1>0 DEF Request, Header, NewRow, LockRow
  <2>1. CASE LockRequired(c)
    BY <1>0, <2>1, ReplyTyped DEF LockRequired, TypeOK
  <2>2. CASE acquire_or_refresh(c)
    <3>1. req' \in [Clients -> Request]
      <4>1. CASE Goto(c, "conflict")
        BY <4>1 DEF Goto, TypeOK, Request, Pcs
      <4>2. CASE \E s \in Statuses, t \in Header : Reply(c, s, t)
        BY <4>2, ReplyTyped DEF TypeOK
      <4> QED
        BY <1>0, <2>0, <2>2, <4>1, <4>2, Zenon DEF acquire_or_refresh
    <3> QED
      BY <2>0, <2>2, <3>1, Zenon DEF acquire_or_refresh, KeepRowLock, TypeOK
  <2>3. CASE unlock_and_relock(c)
    <3>1. req' \in [Clients -> Request]
      <4>1. CASE Goto(c, "conflict")
        BY <4>1 DEF Goto, TypeOK, Request, Pcs
      <4>2. CASE Reply(c, "ok", req[c].lock)
        BY <1>0, <2>0, <4>2, ReplyTyped DEF TypeOK
      <4> QED
        BY <2>3, <4>1, <4>2, Zenon DEF unlock_and_relock
    <3> QED
      BY <2>0, <2>3, <3>1, Zenon DEF unlock_and_relock, TypeOK
  <2>4. CASE release(c)
    <3>1. req' \in [Clients -> Request]
      <4>1. CASE Goto(c, "reread")
        BY <4>1 DEF Goto, TypeOK, Request, Pcs
      <4>2. CASE Reply(c, "ok", NoToken)
        BY <1>0, <4>2, ReplyTyped DEF TypeOK
      <4> QED
        BY <2>4, <4>1, <4>2 DEF release
    <3> QED
      BY <2>4, <3>1 DEF release, TypeOK
  <2>5. CASE UnlockReread(c)
    <3> DEFINE new == [req[c] EXCEPT !.pc = "conflict", !.now = clock]
    <3>1. new \in Request
      BY <1>0, ZenonT(60) DEF Request, Pcs, TypeOK
    <3>2. req' = [req EXCEPT ![c] = new]
      BY <1>0, <2>5, Zenon DEF UnlockReread, TypeOK, Request
    <3> QED
      BY <2>5, <3>1, <3>2 DEF UnlockReread, TypeOK
  <2>6. CASE ConflictReply(c)
    BY <1>0, <2>6, ReplyTyped, FetchTyped DEF ConflictReply, EndTransaction, TypeOK
  <2>7. CASE get_active(c)
    BY <1>0, <2>7, ReplyTyped, FetchTyped DEF get_active, TypeOK
  <2>8. CASE PutCheck(c)
    <3>1. req' \in [Clients -> Request]
      <4>1. CASE Goto(c, "admitted")
        BY <4>1 DEF Goto, TypeOK, Request, Pcs
      <4>2. CASE Reply(c, "conflict", fetch_active(req[c].now))
        BY <1>0, <4>2, ReplyTyped, FetchTyped DEF TypeOK
      <4> QED
        BY <2>8, <4>1, <4>2 DEF PutCheck
    <3> QED
      BY <2>8, <3>1 DEF PutCheck, TypeOK
  <2>9. CASE PutWrite(c)
    BY <1>0, <2>9, ReplyTyped DEF PutWrite, TypeOK
  <2> QED
    BY <1>2, <2>1, <2>2, <2>3, <2>4, <2>5, <2>6, <2>7, <2>8, <2>9 DEF Step
<1>3. ASSUME NEW c \in Clients, Finish(c) PROVE TypeOK'
  BY <1>3 DEF Finish, NoRequest, TypeOK, Request, Pcs, Ops, Statuses, Header
<1>3a. ASSUME NEW c \in Clients, Abandon(c) PROVE TypeOK'
  BY <1>3a, Zenon DEF Abandon, EndTransaction, NoRequest, TypeOK, Request, Pcs, Ops, Statuses, Header
<1>4. CASE PurgeFile
  BY <1>4, Zenon DEF PurgeFile, TypeOK
<1>5. CASE Tick
  BY <1>5 DEF Tick, TypeOK
<1>6. CASE UNCHANGED vars
  BY <1>6 DEF vars, TypeOK
<1> QED
  BY <1>1, <1>2, <1>3, <1>3a, <1>4, <1>5, <1>6 DEF Next

\* A clock that never runs back keeps every transaction's now() behind it.
LEMMA NowStep == TypeOK /\ NowBehindClock /\ [Next]_vars => NowBehindClock'
<1> SUFFICES ASSUME TypeOK, NowBehindClock, [Next]_vars PROVE NowBehindClock'
  OBVIOUS
<1> USE DEF TypeOK, Request, NowBehindClock, Reply, Goto
<1>1. ASSUME NEW c \in Clients, NEW op \in Ops, NEW lock \in Header, NEW old \in Header,
             Begin(c, op, lock, old)
      PROVE  NowBehindClock'
  BY <1>1 DEF Begin
<1>2. ASSUME NEW c \in Clients, Step(c) PROVE NowBehindClock'
  <2>1. clock <= clock
    OBVIOUS
  <2>2. req \in [Clients -> Request]
    BY Zenon
  <2>3. /\ UNCHANGED clock /\ req'[c].now \in {req[c].now, clock}
        /\ \A d \in Clients \ {c} : req'[d] = req[d]
    BY <1>2, <2>2, StepIs, Zenon
  <2> QED BY <2>1, <2>3, Zenon
<1>3. ASSUME NEW c \in Clients, Finish(c) PROVE NowBehindClock'
  BY <1>3 DEF Finish, NoRequest
<1>3a. ASSUME NEW c \in Clients, Abandon(c) PROVE NowBehindClock'
  BY <1>3a DEF Abandon, EndTransaction, NoRequest
<1>4. CASE PurgeFile
  BY <1>4 DEF PurgeFile
<1>5. CASE Tick
  BY <1>5 DEF Tick
<1>6. CASE UNCHANGED vars
  BY <1>6 DEF vars
<1> QED
  BY <1>1, <1>2, <1>3, <1>3a, <1>4, <1>5, <1>6, Zenon DEF Next

\* Only a failed release leads to the second read.
LEMMA RereadStep == TypeOK /\ OnlyUnlockRereads /\ [Next]_vars => OnlyUnlockRereads'
<1> SUFFICES ASSUME TypeOK, OnlyUnlockRereads, [Next]_vars PROVE OnlyUnlockRereads'
  OBVIOUS
<1> USE DEF TypeOK, Request, OnlyUnlockRereads, Reply, Goto
<1>1. ASSUME NEW c \in Clients, NEW op \in Ops, NEW lock \in Header, NEW old \in Header,
             Begin(c, op, lock, old)
      PROVE  OnlyUnlockRereads'
  BY <1>1, Zenon DEF Begin
<1>2. ASSUME NEW c \in Clients, Step(c) PROVE OnlyUnlockRereads'
  <2>1. req \in [Clients -> Request]
    BY Zenon
  <2> QED BY <1>2, <2>1, StepIs, Zenon
<1>3. ASSUME NEW c \in Clients, Finish(c) PROVE OnlyUnlockRereads'
  BY <1>3 DEF Finish, NoRequest
<1>3a. ASSUME NEW c \in Clients, Abandon(c) PROVE OnlyUnlockRereads'
  BY <1>3a DEF Abandon, EndTransaction, NoRequest
<1>4. CASE PurgeFile \/ Tick \/ UNCHANGED vars
  BY <1>4 DEF PurgeFile, Tick, vars
<1> QED
  BY <1>1, <1>2, <1>3, <1>3a, <1>4, Zenon DEF Next

\* While a refused upsert holds the row, no other statement can change it.
LEMMA BlockerStep ==
  TypeOK /\ OnlyUnlockRereads /\ BlockerHeld /\ [Next]_vars => BlockerHeld'
<1> SUFFICES ASSUME TypeOK, OnlyUnlockRereads, BlockerHeld, [Next]_vars PROVE BlockerHeld'
  OBVIOUS
<1> USE DEF TypeOK, Request, BlockerHeld, Reply, Goto, RowFree
<1>1. ASSUME NEW c \in Clients, NEW op \in Ops, NEW lock \in Header, NEW old \in Header,
             Begin(c, op, lock, old)
      PROVE  BlockerHeld'
  BY <1>1, Zenon DEF Begin, MayTake
<1>2. ASSUME NEW c \in Clients, Step(c) PROVE BlockerHeld'
  <2>1. CASE LockRequired(c)
    BY <2>1 DEF LockRequired, MayTake
  <2>2. CASE acquire_or_refresh(c)
    <3>1. CASE Goto(c, "conflict")
      BY <2>2, <3>1 DEF acquire_or_refresh, KeepRowLock, MayTake
    <3>2. CASE rowLock' = rowLock /\ req'[c].pc = "done"
      <4>1. \A d \in Clients \ {c} : req'[d] = req[d]
        BY <2>2, Zenon DEF acquire_or_refresh
      <4>2. \A d \in Clients \ {c} : rowLock = d => row' = row
        BY <2>2, Zenon DEF acquire_or_refresh
      <4> QED
        BY <3>2, <4>1, <4>2, Zenon DEF MayTake
    <3>3. \/ Goto(c, "conflict")
          \/ rowLock' = rowLock /\ req'[c].pc = "done"
      BY <2>2 DEF acquire_or_refresh
    <3> QED
      BY <3>1, <3>2, <3>3, Zenon
  <2>3. CASE unlock_and_relock(c)
    BY <2>3 DEF unlock_and_relock, MayTake
  <2>4. CASE release(c)
    BY <2>4 DEF release, MayTake
  <2>5. CASE UnlockReread(c)
    BY <2>5 DEF UnlockReread, OnlyUnlockRereads, MayTake
  <2>6. CASE ConflictReply(c)
    BY <2>6 DEF ConflictReply, EndTransaction, MayTake
  <2>7. CASE get_active(c)
    BY <2>7 DEF get_active, MayTake
  <2>8. CASE PutCheck(c)
    BY <2>8 DEF PutCheck, MayTake
  <2>9. CASE PutWrite(c)
    BY <2>9 DEF PutWrite, MayTake
  <2> QED
    BY <1>2, <2>1, <2>2, <2>3, <2>4, <2>5, <2>6, <2>7, <2>8, <2>9, Zenon DEF Step
<1>3. ASSUME NEW c \in Clients, Finish(c) PROVE BlockerHeld'
  BY <1>3, Zenon DEF Finish, NoRequest, MayTake
<1>3a. ASSUME NEW c \in Clients, Abandon(c) PROVE BlockerHeld'
  BY <1>3a, Zenon DEF Abandon, EndTransaction, NoRequest, MayTake
<1>4. CASE PurgeFile
  BY <1>4 DEF PurgeFile, MayTake
<1>5. CASE Tick
  BY <1>5 DEF Tick, MayTake
<1>6. CASE UNCHANGED vars
  BY <1>6 DEF vars, MayTake
<1> QED
  BY <1>1, <1>2, <1>3, <1>3a, <1>4, <1>5, <1>6, Zenon DEF Next

\* A refused upsert answers with the token of the row it still holds.
LEMMA ReplyStep ==
  TypeOK /\ BlockerHeld /\ ConflictNamesBlocker /\ [Next]_vars => ConflictNamesBlocker'
<1> SUFFICES ASSUME TypeOK, BlockerHeld, ConflictNamesBlocker, [Next]_vars
             PROVE  ConflictNamesBlocker'
  OBVIOUS
<1> USE DEF TypeOK, Request, ConflictNamesBlocker, Reply, Goto
<1>1. ASSUME NEW c \in Clients, NEW op \in Ops, NEW lock \in Header, NEW old \in Header,
             Begin(c, op, lock, old)
      PROVE  ConflictNamesBlocker'
  BY <1>1, Zenon DEF Begin
<1>2. ASSUME NEW c \in Clients, Step(c) PROVE ConflictNamesBlocker'
  <2>1. CASE ConflictReply(c)
    <3>1. \A d \in Clients \ {c} : req'[d] = req[d]
      BY <2>1, Zenon DEF ConflictReply
    <3>2. /\ req'[c].op = req[c].op
          /\ req'[c].old = req[c].old
          /\ req'[c].lock = req[c].lock
          /\ req'[c].reply = fetch_active(req[c].now)
      BY <2>1, Zenon DEF ConflictReply
    <3>3. ASSUME req[c].op \in {"LOCK", "REFRESH_LOCK"}, req[c].old = NoToken
          PROVE  fetch_active(req[c].now) \in Tokens \ {req[c].lock}
      BY <2>1, <3>3 DEF ConflictReply, BlockerHeld, MayTake, fetch_active, Active, LockRow
    <3> QED
      BY <3>1, <3>2, <3>3
  <2>2. CASE ~ConflictReply(c)
    <3>1. req \in [Clients -> Request]
      BY Zenon
    <3>2. /\ \A d \in Clients \ {c} : req'[d] = req[d]
          /\ req'[c].op = req[c].op
          /\ req'[c].pc = "done" /\ req'[c].status = "conflict" => req[c].op = "PUT"
      BY <1>2, <2>2, <3>1, StepIs, Zenon
    <3> HIDE DEF TypeOK, Request, Reply, Goto
    <3> QED BY <3>2, Zenon
  <2> QED
    BY <2>1, <2>2, Zenon
<1>3. ASSUME NEW c \in Clients, Finish(c) PROVE ConflictNamesBlocker'
  BY <1>3, Zenon DEF Finish, NoRequest
<1>3a. ASSUME NEW c \in Clients, Abandon(c) PROVE ConflictNamesBlocker'
  BY <1>3a, Zenon DEF Abandon, EndTransaction, NoRequest
<1>4. CASE PurgeFile \/ Tick \/ UNCHANGED vars
  BY <1>4, Zenon DEF PurgeFile, Tick, vars
<1> QED
  BY <1>1, <1>2, <1>3, <1>3a, <1>4, Zenon DEF Next

\* The invariant holds in every state.
THEOREM Invariance == Spec => []IInv
<1>1. Init => IInv
  BY DEF Init, IInv, TypeOK, NowBehindClock, OnlyUnlockRereads, BlockerHeld,
         ConflictNamesBlocker, NoRequest, Request, Pcs, Ops, Statuses, Header
<1>2. IInv /\ [Next]_vars => IInv'
  BY TypeOKStep, NowStep, RereadStep, BlockerStep, ReplyStep DEF IInv
<1> QED
  BY <1>1, <1>2, PTL DEF Spec

\* Types are kept by every step of every request (wopi_post_impl,
\* put_file_impl), for any number of clients.
THEOREM TypeCorrect == Spec => []TypeOK
<1>1. IInv => TypeOK
  BY DEF IInv
<1> QED
  BY <1>1, Invariance, PTL

\* A LOCK or REFRESH_LOCK that is refused always learns the token that
\* refused it, and never its own (acquire_or_refresh).
THEOREM RefusalNamesBlocker == Spec => []ConflictNamesBlocker
<1>1. IInv => ConflictNamesBlocker
  BY DEF IInv
<1> QED
  BY <1>1, Invariance, PTL

\* No step takes an active lock from its token unless the request presented
\* that token or the file is purged (acquire_or_refresh, unlock_and_relock,
\* release), whatever the delay between a transaction's BEGIN and its
\* statement.
THEOREM NotStolen == Spec => LockNotStolen
<1> DEFINE Safe == Active(row, clock) /\ TokenChanges /\ fileRow' =>
                     \E c \in Clients : Surrenders(c, row.token)
<1>1. IInv /\ [Next]_vars => [Safe]_vars
  <2> SUFFICES ASSUME IInv, [Next]_vars, Active(row, clock), TokenChanges, fileRow'
               PROVE  \E c \in Clients : Surrenders(c, row.token)
    OBVIOUS
  <2>1. row' # row /\ row # None
    BY DEF TokenChanges, IInv, TypeOK
  <2>2. PICK c \in Clients : acquire_or_refresh(c) \/ unlock_and_relock(c) \/ release(c)
    BY <2>1, Zenon DEF Next, Step, vars, Begin, LockRequired, UnlockReread, ConflictReply,
                get_active, PutCheck, PutWrite, Finish, Abandon, PurgeFile, Tick
  <2>3. row.expires \in Nat /\ req[c].now \in Nat /\ clock \in Nat /\ req[c].now <= clock
    BY <2>1 DEF IInv, TypeOK, NowBehindClock, LockRow, Request
  <2>4. CASE acquire_or_refresh(c)
    <3>1. MayTake(row, req[c].lock, req[c].now) /\ row' = NewRow(req[c].lock, req[c].now)
      BY <2>1, <2>4, Zenon DEF acquire_or_refresh
    <3>2. row'.token = req[c].lock /\ row.token = req[c].lock
      BY <2>3, <3>1 DEF MayTake, NewRow, Active
    <3>3. row' # None
      <4>1. req[c] \in Request /\ req[c].lock # NoToken
        BY <2>4, Zenon DEF acquire_or_refresh, IInv, TypeOK
      <4> QED BY <3>1, <4>1, NewRowIs, Zenon
    <3> QED
      BY <3>2, <3>3 DEF TokenChanges
  <2>5. CASE unlock_and_relock(c)
    <3>1. Reply(c, "ok", req[c].lock) /\ row.token = req[c].old
      BY <2>1, <2>5, Zenon DEF unlock_and_relock
    <3>2. req'[c].status = "ok"
      BY <3>1 DEF Reply, IInv, TypeOK, Request
    <3> QED
      BY <2>5, <3>1, <3>2, Zenon DEF unlock_and_relock, Surrenders
  <2>6. CASE release(c)
    <3>1. Reply(c, "ok", NoToken) /\ row.token = req[c].lock
      BY <2>1, <2>6 DEF release
    <3>2. req'[c].status = "ok"
      BY <3>1 DEF Reply, IInv, TypeOK, Request
    <3> QED
      BY <2>6, <3>1, <3>2, Zenon DEF release, Surrenders
  <2> QED
    BY <2>2, <2>4, <2>5, <2>6
<1> QED
  BY <1>1, Invariance, PTL DEF Spec, LockNotStolen

\* No PutFile is admitted while a lock of another token is active, for any number
\* of clients and whatever the delay between BEGIN and the check (put_file_impl).
THEOREM AdmittedUnlocked == Spec => PutAdmittedUnlocked
<1> DEFINE Safe(c) == req[c].pc = "begun" /\ req'[c].pc = "admitted" /\ Active(row, clock)
                        => row.token = req[c].lock
<1>1. IInv /\ [Next]_vars => [\A c \in Clients : Safe(c)]_vars
  <2> SUFFICES ASSUME IInv, [Next]_vars, NEW c \in Clients, req[c].pc = "begun",
                      req'[c].pc = "admitted", Active(row, clock)
               PROVE  row.token = req[c].lock
    OBVIOUS
  <2>1. /\ req \in [Clients -> Request] /\ req[c].now \in Nat /\ clock \in Nat
        /\ row # None /\ row.expires \in Nat /\ row.token \in Tokens /\ req[c].now <= clock
    BY DEF IInv, TypeOK, NowBehindClock, LockRow, Request, Active
  <2>2. PutCheck(c)
    <3> USE <2>1 DEF Request
    <3>1. \/ UNCHANGED vars \/ PurgeFile \/ Tick
          \/ \E d \in Clients : \/ \E op \in Ops, lock \in Header, old \in Header : Begin(d, op, lock, old)
                                \/ Step(d) \/ Finish(d) \/ Abandon(d)
      BY DEF Next
    <3>2. CASE UNCHANGED vars \/ PurgeFile \/ Tick
      BY <3>2 DEF vars, PurgeFile, Tick
    <3>3. ASSUME NEW d \in Clients, NEW op \in Ops, NEW lock \in Header, NEW old \in Header,
                 Begin(d, op, lock, old)
          PROVE  FALSE
      BY <3>3, Zenon DEF Begin
    <3>4. ASSUME NEW d \in Clients, Finish(d) \/ Abandon(d)
          PROVE  FALSE
      BY <3>4 DEF Finish, Abandon, NoRequest
    <3>5. ASSUME NEW d \in Clients, Step(d), ~PutCheck(d)
          PROVE  FALSE
      <4>1. req \in [Clients -> Request]
        BY <2>1, Zenon
      <4>2. d # c => req'[c] = req[c]
        BY <3>5, <4>1, StepIs, Zenon
      <4>3. "begun" # "admitted"
        OBVIOUS
      <4> QED BY <3>5, <4>1, <4>2, <4>3, StepIs, Zenon
    <3>6. ASSUME NEW d \in Clients, PutCheck(d), d # c
          PROVE  FALSE
      BY <3>6, Zenon DEF PutCheck, Reply, Goto
    <3> QED
      BY <3>1, <3>2, <3>3, <3>4, <3>5, <3>6, Zenon
  <2>3. fetch_active(req[c].now) = row.token
    BY <2>1 DEF fetch_active, Active
  <2>4. fetch_active(req[c].now) \in {NoToken, req[c].lock}
    BY <2>1, <2>2, ZenonT(60) DEF PutCheck, Reply, Request
  <2> QED
    BY <2>1, <2>3, <2>4
<1> QED
  BY <1>1, Invariance, PTL DEF Spec, PutAdmittedUnlocked
=============================================================================
