--------------------------- MODULE MailFlowProofs ---------------------------
(***************************************************************************)
(* What scheduled sends and inbound sessions promise, proved of their      *)
(* composition for any number of workers, sessions, jobs and messages.     *)
(***************************************************************************)
EXTENDS MailFlow, SmtpSessionProofs, WellFoundedInduction, FiniteSetTheorems

-----------------------------------------------------------------------------
(* Scheduled sends.                                                        *)

\* A batch has a first row.
BatchOrdered == \A S \in SUBSET Msgs : S # {} => \E x \in S : \A y \in S : x <= y

WorkerState == [batch : SUBSET Msgs, pc : {"idle", "read", "mark"}]

SendTypes ==
  /\ row \in [Msgs -> {"none", "later", "due", "null", "gone"}]
  /\ worker \in [Workers -> WorkerState]
  /\ cancelling \in Msgs \cup {NoMsg}
  /\ sent \in [Msgs -> Nat]
  /\ cancelled \subseteq Msgs

Inert(m) == row[m] \in {"null", "gone"}

\* A cancellation in time leaves a message no worker holds or will find.
Withdrawn == \A m \in cancelled \ tooLate : Inert(m) /\ ~Taken(m) /\ sent[m] = 0

\* A worker about to clear deliver_at has relayed the message.
MarksSent == \A w \in Workers : worker[w].pc = "mark" => worker[w].batch # {} /\ sent[Now(w)] > 0

\* A message not known to be at risk is held by one worker at most, and once it was
\* relayed that worker is about to clear deliver_at, or nobody will find it.
Single(m) == \A v, w \in Workers : m \in worker[v].batch /\ m \in worker[w].batch => v = w
Marking(m) == \E w \in Workers : m \in worker[w].batch /\ worker[w].pc = "mark" /\ Now(w) = m
RelayedOnce ==
  \A m \in Msgs \ twice :
    /\ Single(m)
    /\ sent[m] > 0 => sent[m] = 1 /\ (Marking(m) \/ (~Taken(m) /\ Inert(m)))

SendInv ==
  /\ SendTypes /\ Withdrawn /\ MarksSent /\ RelayedOnce /\ NothingForgotten

\* A user's step on the row that neither clears nor sets again deliver_at.
LEMMA RowStepKeeps ==
  ASSUME SendInv, UNCHANGED <<worker, sent, cancelled, tooLate, twice>>,
         row' \in [Msgs -> {"none", "later", "due", "null", "gone"}],
         cancelling' \in Msgs \cup {NoMsg},
         \A m \in Msgs : /\ Inert(m) => Inert(m)'
                         /\ row'[m] = "null" => row[m] = "null"
  PROVE  SendInv'
<1>1. SendTypes'
  BY DEF SendInv, SendTypes
<1>2. Withdrawn'
  BY Zenon DEF SendInv, SendTypes, Withdrawn, Taken
<1>3. MarksSent'
  BY Zenon DEF SendInv, MarksSent, Now
<1>4. RelayedOnce'
  BY DEF SendInv, RelayedOnce, Single, Marking, Taken, Now
<1>5. NothingForgotten'
  BY DEF SendInv, NothingForgotten
<1> QED BY <1>1, <1>2, <1>3, <1>4, <1>5, ZenonT(60) DEF SendInv

\* A cancellation clears deliver_at and is acknowledged (cancel_send,
\* cancel_all_scheduled).
LEMMA CancelKeeps ==
  ASSUME SendInv, NEW S \in SUBSET Msgs, Acknowledge(S), UNCHANGED <<worker, sent, twice>>,
         row' \in [Msgs -> {"none", "later", "due", "null", "gone"}],
         cancelling' \in Msgs \cup {NoMsg},
         \A m \in S : Inert(m)',
         \A m \in Msgs \ S : row'[m] = row[m]
  PROVE  SendInv'
<1>1. SendTypes'
  BY DEF SendInv, SendTypes, Acknowledge
<1>2. Withdrawn'
  <2> SUFFICES ASSUME NEW m \in cancelled' \ tooLate'
               PROVE  Inert(m)' /\ ~Taken(m)' /\ sent'[m] = 0
    BY DEF Withdrawn
  <2>1. CASE m \in S
    BY <2>1 DEF Acknowledge, Taken, SendInv, SendTypes
  <2>2. CASE m \notin S
    <3>1. m \in cancelled \ tooLate /\ m \in Msgs
      BY <2>2, Zenon DEF Acknowledge, SendInv, SendTypes
    <3> QED BY <2>2, <3>1, Zenon DEF SendInv, Withdrawn, Inert, Taken
  <2> QED BY <2>1, <2>2, Zenon
<1>3. MarksSent'
  BY Zenon DEF SendInv, MarksSent, Now
<1>4. RelayedOnce'
  BY DEF SendInv, RelayedOnce, Single, Marking, Taken, Now, Inert
<1>5. NothingForgotten'
  BY DEF SendInv, NothingForgotten, Acknowledge
<1> QED BY <1>1, <1>2, <1>3, <1>4, <1>5, Zenon DEF SendInv

\* Every step of the users (persist_for_delivery, cancel_send, cancel_all, delete).
LEMMA UsersKeep == SendInv /\ Users => SendInv'
<1> SUFFICES ASSUME SendInv, Users PROVE SendInv'
  OBVIOUS
<1>1. SendTypes
  BY DEF SendInv
<1>2. ASSUME NEW m \in Msgs, persist_for_delivery(m) \/ BecomeDue(m) \/ DeleteDraft(m)
      PROVE  SendInv'
  <2>1. UNCHANGED <<worker, sent, cancelled, tooLate, twice, cancelling>>
    BY <1>2, Zenon DEF persist_for_delivery, BecomeDue, DeleteDraft
  <2>2. PICK v \in {"later", "due", "gone"} :
          row' = [row EXCEPT ![m] = v] /\ (v # "gone" => ~Inert(m))
    BY <1>2, Zenon DEF persist_for_delivery, BecomeDue, DeleteDraft, Inert
  <2> QED BY <1>1, <2>1, <2>2, RowStepKeeps, Zenon DEF SendTypes, Inert
<1>3. ASSUME NEW m \in Msgs, CheckScheduled(m) PROVE SendInv'
  <2>1. UNCHANGED <<worker, sent, cancelled, tooLate, twice, row>> /\ cancelling' = m
    BY <1>3 DEF CheckScheduled
  <2> QED BY <1>1, <2>1, RowStepKeeps, Zenon DEF SendTypes, Inert
<1>4. ASSUME cancel_send PROVE SendInv'
  <2>1. /\ cancelling \in Msgs /\ cancelling' = NoMsg /\ Acknowledge({cancelling})
        /\ row' = IF row[cancelling] = "gone" THEN row ELSE [row EXCEPT ![cancelling] = "null"]
        /\ UNCHANGED <<worker, sent, twice>>
    BY <1>1, <1>4, Zenon DEF cancel_send, SendTypes
  <2> QED BY <1>1, <2>1, CancelKeeps, Zenon DEF SendTypes, Inert
<1>5. ASSUME cancel_all_scheduled PROVE SendInv'
  <2> DEFINE S == {m \in Msgs : Scheduled(m)}
  <2>1. /\ row' = [m \in Msgs |-> IF m \in S THEN "null" ELSE row[m]]
        /\ Acknowledge(S) /\ UNCHANGED <<worker, cancelling, sent, twice>>
    BY <1>5, Zenon DEF cancel_all_scheduled
  <2> HIDE DEF S
  <2>2. S \in SUBSET Msgs
    BY DEF S
  <2> QED BY <1>1, <2>1, <2>2, CancelKeeps, Zenon DEF SendTypes, Inert
<1> QED BY <1>2, <1>3, <1>4, <1>5, Zenon DEF Users

\* The row a worker is at is one of its batch.
LEMMA NowIn ==
  ASSUME BatchOrdered, SendTypes, NEW w \in Workers, worker[w].batch # {}
  PROVE  Now(w) \in worker[w].batch /\ Now(w) \in Msgs
BY DEF BatchOrdered, SendTypes, WorkerState, Now

\* The due query (dispatch_due_messages).
LEMMA DispatchKeeps ==
  ASSUME SendInv, NEW w \in Workers, dispatch_due_messages(w)
  PROVE  SendInv'
<1> DEFINE B == First(Due, Limit)
<1>1. /\ SendTypes /\ worker[w].batch = {}
      /\ worker' = [worker EXCEPT ![w] = [batch |-> B, pc |-> "read"]]
      /\ twice' = twice \cup {m \in B : Taken(m)}
      /\ UNCHANGED <<row, cancelling, sent, cancelled, tooLate>>
  BY Zenon DEF SendInv, dispatch_due_messages
<1>2. B \subseteq Msgs /\ \A m \in B : row[m] = "due"
  BY DEF First, Due
<1> HIDE DEF B
<1>3. /\ worker' \in [Workers -> WorkerState]
      /\ worker'[w].batch = B /\ worker'[w].pc = "read"
      /\ \A v \in Workers \ {w} : worker'[v] = worker[v]
  BY <1>1, <1>2, Zenon DEF SendTypes, WorkerState
<1>4. SendTypes'
  BY <1>1, <1>3, Zenon DEF SendTypes
<1>5. ASSUME NEW m, m \notin B PROVE Taken(m)' <=> Taken(m)
  BY <1>1, <1>3, <1>5, Zenon DEF Taken
<1>6. Withdrawn'
  BY <1>1, <1>2, <1>5, Zenon DEF SendInv, Withdrawn, Inert
<1>7. MarksSent'
  BY <1>1, <1>3, ZenonT(60) DEF SendInv, MarksSent, Now
<1>8. RelayedOnce'
  <2> SUFFICES ASSUME NEW m \in Msgs, m \notin twice'
               PROVE  /\ Single(m)'
                      /\ sent[m] > 0 => sent[m] = 1 /\ (Marking(m)' \/ (~Taken(m)' /\ Inert(m)))
    BY <1>1, Zenon DEF RelayedOnce, Inert
  <2>1. /\ Single(m)
        /\ sent[m] > 0 => sent[m] = 1 /\ (Marking(m) \/ (~Taken(m) /\ Inert(m)))
    BY <1>1, Zenon DEF SendInv, RelayedOnce
  <2>2. CASE m \in B
    <3>1. ~Taken(m)
      BY <1>1, <2>2, Zenon
    <3>2. Single(m)'
      BY <1>3, <3>1, Zenon DEF Single, Taken
    <3>3. ~(sent[m] > 0)
      BY <1>2, <2>1, <2>2, <3>1, Zenon DEF Marking, Taken, Inert
    <3> QED BY <3>2, <3>3, Zenon
  <2>3. CASE m \notin B
    <3>1. Single(m)'
      BY <1>1, <1>3, <2>1, <2>3, Zenon DEF Single
    <3>2. Marking(m) => Marking(m)'
      BY <1>1, <1>3, <2>3, ZenonT(60) DEF Marking, Now
    <3> QED BY <1>5, <2>1, <2>3, <3>1, <3>2, Zenon
  <2> QED BY <2>2, <2>3, Zenon
<1>9. NothingForgotten'
  BY <1>1, Zenon DEF SendInv, NothingForgotten
<1> QED BY <1>4, <1>6, <1>7, <1>8, <1>9, Zenon DEF SendInv

\* A worker leaves a row, or all of them.  The row it had relayed it has cleared,
\* or it counts as one that may be relayed again.
LEMMA LeaveKeeps ==
  ASSUME SendInv, NEW w \in Workers,
         worker' \in [Workers -> WorkerState],
         worker'[w].batch \subseteq worker[w].batch, worker'[w].pc # "mark",
         \A v \in Workers \ {w} : worker'[v] = worker[v],
         row' \in [Msgs -> {"none", "later", "due", "null", "gone"}],
         \A m \in Msgs : /\ Inert(m) => Inert(m)'
                         /\ row'[m] = "null" => row[m] = "null" \/ sent[m] > 0,
         twice \subseteq twice',
         worker[w].pc = "mark" =>
            \/ Now(w) \in twice'
            \/ row'[Now(w)] \in {"null", "gone"} /\ Now(w) \notin worker'[w].batch,
         UNCHANGED <<cancelling, sent, cancelled, tooLate>>
  PROVE  SendInv'
<1>1. SendTypes'
  BY Zenon DEF SendInv, SendTypes
<1>2. \A m : Taken(m)' => Taken(m)
  BY Zenon DEF Taken
<1>3. Withdrawn'
  BY <1>2, Zenon DEF SendInv, SendTypes, Withdrawn
<1>4. MarksSent'
  BY ZenonT(60) DEF SendInv, MarksSent, Now
<1>5. RelayedOnce'
  <2> SUFFICES ASSUME NEW m \in Msgs, m \notin twice'
               PROVE  /\ Single(m)'
                      /\ sent[m] > 0 => sent[m] = 1 /\ (Marking(m)' \/ (~Taken(m)' /\ Inert(m)'))
    BY Zenon DEF RelayedOnce
  <2>1. /\ Single(m)
        /\ sent[m] > 0 => sent[m] = 1 /\ (Marking(m) \/ (~Taken(m) /\ Inert(m)))
    BY Zenon DEF SendInv, RelayedOnce
  <2>2. Single(m)'
    BY <2>1, Zenon DEF Single
  <2>3. ASSUME Marking(m) PROVE Marking(m)' \/ (~Taken(m)' /\ Inert(m)')
    <3>1. PICK v \in Workers : m \in worker[v].batch /\ worker[v].pc = "mark" /\ Now(v) = m
      BY <2>3, Zenon DEF Marking
    <3>2. CASE v # w
      BY <3>1, <3>2, Zenon DEF Marking, Now
    <3>3. CASE v = w
      <4>1. Inert(m)' /\ m \notin worker'[w].batch
        BY <3>1, <3>3, Zenon DEF Inert
      <4>2. ~Taken(m)'
        BY <2>1, <3>1, <3>3, <4>1, Zenon DEF Single, Taken
      <4> QED BY <4>1, <4>2, Zenon
    <3> QED BY <3>2, <3>3, Zenon
  <2> QED BY <1>2, <2>1, <2>2, <2>3, Zenon
<1>6. NothingForgotten'
  BY Zenon DEF SendInv, NothingForgotten
<1> QED BY <1>1, <1>3, <1>4, <1>5, <1>6, ZenonT(60) DEF SendInv

\* What going on with the next row does to the workers (the loop of
\* dispatch_due_messages).
LEMMA NextRowIs ==
  ASSUME SendTypes, NEW w \in Workers, worker[w].batch # {}, NextRow(w)
  PROVE  /\ worker' \in [Workers -> WorkerState]
         /\ worker'[w].batch = worker[w].batch \ {Now(w)} /\ worker'[w].pc # "mark"
         /\ \A v \in Workers \ {w} : worker'[v] = worker[v]
<1> DEFINE n == [batch |-> worker[w].batch \ {Now(w)},
                 pc |-> IF worker[w].batch = {Now(w)} THEN "idle" ELSE "read"]
<1>1. worker' = [worker EXCEPT ![w] = n]
  BY DEF NextRow
<1>2. n \in WorkerState /\ n.batch = worker[w].batch \ {Now(w)} /\ n.pc # "mark"
  BY Zenon DEF SendTypes, WorkerState
<1> HIDE DEF n
<1> QED BY <1>1, <1>2, Zenon DEF SendTypes

\* The steps of a worker that do not reach the relay (dispatch_due_messages).
LEMMA PollKeeps ==
  ASSUME BatchOrdered, SendInv, NEW w \in Workers, Poll(w)
  PROVE  SendInv'
<1>1. SendTypes /\ MarksSent
  BY DEF SendInv
<1>2. ASSUME worker[w].batch # {}, PassOver(w) \/ RelayFails(w) PROVE SendInv'
  <2>1. /\ NextRow(w) /\ worker[w].pc = "read"
        /\ UNCHANGED <<row, cancelling, sent, cancelled, tooLate, twice>>
    BY <1>2, Zenon DEF PassOver, RelayFails
  <2> QED BY <1>1, <1>2, <2>1, NextRowIs, LeaveKeeps, ZenonT(60) DEF SendTypes, Inert
<1>3. ASSUME worker[w].batch # {}, MarkSent(w) PROVE SendInv'
  <2>1. /\ NextRow(w) /\ worker[w].pc = "mark" /\ row' = Cleared(Now(w))
        /\ UNCHANGED <<cancelling, sent, cancelled, tooLate, twice>>
    BY <1>3, Zenon DEF MarkSent
  <2>2. Now(w) \in Msgs /\ sent[Now(w)] > 0
    BY <1>1, <1>3, <2>1, NowIn, Zenon DEF MarksSent
  <2>3. /\ row' \in [Msgs -> {"none", "later", "due", "null", "gone"}]
        /\ row'[Now(w)] \in {"null", "gone"}
        /\ \A m \in Msgs \ {Now(w)} : row'[m] = row[m]
    BY <1>1, <2>1, <2>2, Zenon DEF SendTypes, Cleared, Inert
  <2>4. \A m \in Msgs : /\ Inert(m) => Inert(m)'
                        /\ row'[m] = "null" => row[m] = "null" \/ sent[m] > 0
    BY <2>2, <2>3, Zenon DEF Inert
  <2>5. /\ worker' \in [Workers -> WorkerState]
        /\ worker'[w].batch = worker[w].batch \ {Now(w)} /\ worker'[w].pc # "mark"
        /\ \A v \in Workers \ {w} : worker'[v] = worker[v]
    BY <1>1, <1>3, <2>1, NextRowIs, ZenonT(60)
  <2>6. twice \subseteq twice' /\ worker'[w].batch \subseteq worker[w].batch
    BY <2>1, <2>5, Zenon
  <2>7. row'[Now(w)] \in {"null", "gone"} /\ Now(w) \notin worker'[w].batch
    BY <2>3, <2>5, Zenon
  <2> QED BY <2>1, <2>3, <2>4, <2>5, <2>6, <2>7, LeaveKeeps, ZenonT(60)
<1>4. ASSUME worker[w].batch # {}, MarkFails(w) PROVE SendInv'
  <2>1. /\ NextRow(w) /\ twice' = twice \cup {Now(w)}
        /\ UNCHANGED <<row, cancelling, sent, cancelled, tooLate>>
    BY <1>4, Zenon DEF MarkFails
  <2> QED BY <1>1, <1>4, <2>1, NextRowIs, LeaveKeeps, Zenon DEF SendTypes, Inert
<1>5. ASSUME WorkerDies(w) PROVE SendInv'
  <2>1. /\ worker' = [worker EXCEPT ![w] = [batch |-> {}, pc |-> "idle"]]
        /\ twice' = IF worker[w].pc = "mark" THEN twice \cup {Now(w)} ELSE twice
        /\ UNCHANGED <<row, cancelling, sent, cancelled, tooLate>>
    BY <1>5, Zenon DEF WorkerDies
  <2>2. /\ worker' \in [Workers -> WorkerState]
        /\ worker'[w].batch = {} /\ worker'[w].pc # "mark"
        /\ \A v \in Workers \ {w} : worker'[v] = worker[v]
    BY <1>1, <2>1, Zenon DEF SendTypes, WorkerState
  <2> QED BY <1>1, <2>1, <2>2, LeaveKeeps, Zenon DEF SendTypes, Inert
<1> QED BY <1>2, <1>3, <1>4, <1>5, DispatchKeeps, Zenon DEF Poll

\* The relay accepts a message, and the worker learns of it or does not.
LEMMA RelayKeeps ==
  ASSUME BatchOrdered, SendInv, NEW w \in Workers, worker[w].batch # {},
         Relay(w) \/ RelayUnsure(w)
  PROVE  SendInv'
<1> DEFINE n == Now(w)
<1>1. SendTypes /\ Withdrawn /\ MarksSent /\ RelayedOnce /\ NothingForgotten
  BY DEF SendInv
<1>2. n \in worker[w].batch /\ n \in Msgs
  BY <1>1, NowIn, Zenon
<1>3. /\ worker[w].pc = "read" /\ sent' = [sent EXCEPT ![n] = @ + 1]
      /\ UNCHANGED <<row, cancelling, cancelled, tooLate>>
  BY Zenon DEF Relay, RelayUnsure, Accepted
<1>4. n \in twice' \/ (UNCHANGED twice /\ worker' = [worker EXCEPT ![w].pc = "mark"])
  BY DEF Relay, RelayUnsure
<1>5. /\ worker' \in [Workers -> WorkerState]
      /\ worker'[w].batch \subseteq worker[w].batch
      /\ worker'[w].pc = "mark" => worker'[w].batch = worker[w].batch
      /\ \A v \in Workers \ {w} : worker'[v] = worker[v]
  <2>1. CASE Relay(w)
    BY <1>1, <2>1, Zenon DEF Relay, SendTypes, WorkerState
  <2>2. CASE RelayUnsure(w)
    BY <1>1, <2>2, NextRowIs, Zenon DEF RelayUnsure
  <2> QED BY <2>1, <2>2, Zenon
<1>6. /\ sent' \in [Msgs -> Nat] /\ sent'[n] = sent[n] + 1 /\ sent[n] \in Nat
      /\ \A m \in Msgs \ {n} : sent'[m] = sent[m]
  BY <1>1, <1>2, <1>3 DEF SendTypes
<1> HIDE DEF n
<1>7. SendTypes'
  BY <1>1, <1>3, <1>5, <1>6, Zenon DEF SendTypes
<1>8. Withdrawn'
  <2> SUFFICES ASSUME NEW m \in cancelled \ tooLate
               PROVE  Inert(m) /\ ~Taken(m)' /\ sent'[m] = 0
    BY <1>3, Zenon DEF Withdrawn, Inert
  <2>1. m \in Msgs /\ Inert(m) /\ ~Taken(m) /\ sent[m] = 0
    BY <1>1, Zenon DEF Withdrawn, SendTypes
  <2>2. m # n
    BY <1>2, <2>1, Zenon DEF Taken
  <2> QED BY <1>5, <1>6, <2>1, <2>2, Zenon DEF Taken
<1>9. MarksSent'
  <2> SUFFICES ASSUME NEW v \in Workers, worker'[v].pc = "mark"
               PROVE  worker'[v].batch # {} /\ sent'[Now(v)'] > 0
    BY DEF MarksSent
  <2>1. worker'[v].batch = worker[v].batch /\ worker[v].batch # {} /\ Now(v)' = Now(v)
    BY <1>1, <1>2, <1>5, Zenon DEF MarksSent, Now
  <2>2. Now(v) \in Msgs
    BY <1>1, <2>1, NowIn, Zenon
  <2>3. v # w => sent[Now(v)] > 0
    BY <1>1, <1>5, Zenon DEF MarksSent
  <2>4. v = w => Now(v) = n
    BY DEF n
  <2> QED BY <1>6, <2>1, <2>2, <2>3, <2>4
<1>10. RelayedOnce'
  <2> SUFFICES ASSUME NEW m \in Msgs, m \notin twice'
               PROVE  /\ Single(m)'
                      /\ sent'[m] > 0 => sent'[m] = 1 /\ (Marking(m)' \/ (~Taken(m)' /\ Inert(m)'))
    BY DEF RelayedOnce
  <2>1. twice \subseteq twice'
    BY DEF Relay, RelayUnsure
  <2>2. /\ Single(m)
        /\ sent[m] > 0 => sent[m] = 1 /\ (Marking(m) \/ (~Taken(m) /\ Inert(m)))
    BY <1>1, <2>1, Zenon DEF RelayedOnce
  <2>3. Single(m)'
    BY <1>5, <2>2, Zenon DEF Single
  <2>4. CASE m = n
    <3>1. worker' = [worker EXCEPT ![w].pc = "mark"]
      BY <1>4, <2>4, Zenon
    <3>2. worker'[w].batch = worker[w].batch /\ worker'[w].pc = "mark"
      BY <1>1, <3>1, Zenon DEF SendTypes, WorkerState
    <3>3. Marking(m)'
      BY <1>2, <2>4, <3>2, Zenon DEF Marking, Now, n
    <3>4. sent[m] = 0
      <4>1. ~Marking(m)
        BY <1>2, <1>3, <2>2, <2>4, Zenon DEF Marking, Single
      <4>2. Taken(m)
        BY <1>2, <2>4, Zenon DEF Taken
      <4> QED BY <1>6, <2>2, <2>4, <4>1, <4>2
    <3> QED BY <1>6, <2>3, <2>4, <3>3, <3>4
  <2>5. CASE m # n
    <3>1. Marking(m) => Marking(m)'
      BY <1>3, <1>5, Zenon DEF Marking, Now
    <3>2. Taken(m)' => Taken(m)
      BY <1>5, Zenon DEF Taken
    <3> QED BY <1>3, <1>6, <2>2, <2>3, <2>5, <3>1, <3>2, ZenonT(60) DEF Inert
  <2> QED BY <2>4, <2>5, Zenon
<1>11. NothingForgotten'
  BY <1>1, <1>3, <1>6 DEF NothingForgotten
<1> QED BY <1>7, <1>8, <1>9, <1>10, <1>11, Zenon DEF SendInv

\* A step of the sessions leaves the scheduler's invariant alone.
LEMMA SendStutters == SendInv /\ UNCHANGED sendVars => SendInv'
<1> SUFFICES ASSUME SendInv, UNCHANGED sendVars PROVE SendInv'
  OBVIOUS
<1>1. UNCHANGED <<row, worker, cancelling, sent, cancelled, tooLate, twice>>
  BY DEF sendVars
<1>2. SendTypes'
  BY <1>1, Zenon DEF SendInv, SendTypes
<1>3. ASSUME NEW m
      PROVE  /\ Taken(m)' = Taken(m) /\ Single(m)' = Single(m) /\ Marking(m)' = Marking(m)
  BY <1>1, Zenon DEF Taken, Single, Marking, Now
<1>4. Withdrawn'
  BY <1>1, <1>3, Zenon DEF SendInv, Withdrawn, Inert
<1>5. MarksSent'
  BY <1>1, Zenon DEF SendInv, MarksSent, Now
<1>6. RelayedOnce'
  BY <1>1, <1>3, Zenon DEF SendInv, RelayedOnce, Inert
<1>7. NothingForgotten'
  BY <1>1, Zenon DEF SendInv, NothingForgotten
<1> QED BY <1>2, <1>4, <1>5, <1>6, <1>7, Zenon DEF SendInv

-----------------------------------------------------------------------------
(* The composition.                                                        *)


\* A set of numbers has a least one (the row a worker is at, the recipient process
\* is at).
LEMMA HasLeast ==
  ASSUME NEW S \in SUBSET Nat, S # {}
  PROVE  \E x \in S : \A y \in S : x <= y
<1> DEFINE Less == {ss \in Nat \X Nat : ss[1] < ss[2]}
<1>1. IsWellFoundedOn(Less, Nat)
  BY NatLessThanWellFounded DEF OpToRel
<1> HIDE DEF Less
<1>2. PICK x \in S : \A y \in S : ~(<<y, x>> \in Less)
  BY <1>1, WFMin, Zenon
<1>3. ASSUME NEW y \in S PROVE x <= y
  <2>1. <<y, x>> \in Nat \X Nat /\ <<y, x>>[1] = y /\ <<y, x>>[2] = x
    OBVIOUS
  <2>2. ~(y < x)
    BY <1>2, <2>1, Zenon DEF Less
  <2> QED BY <2>2
<1> QED BY <1>3

\* A worker's batch and a session's recipients are numbers, so the next one exists.
LEMMA Ordered == BatchOrdered /\ RcptsOrdered
<1>1. Msgs \subseteq Nat /\ Addrs \subseteq Nat
  BY ScheduledSendAssumption, SmtpSessionAssumption, Zenon
<1>2. \A S \in SUBSET Msgs : S # {} => \E x \in S : \A y \in S : x <= y
  BY <1>1, HasLeast, Zenon
<1>3. \A S \in SUBSET Addrs : S # {} => \E x \in S : \A y \in S : x <= y
  BY <1>1, HasLeast, Zenon
<1> QED BY <1>2, <1>3, Zenon DEF BatchOrdered, RcptsOrdered

\* The bookkeeping of the workers and that of the sessions.
IInv == SendInv /\ SmtpInv /\ load \in Loads

\* The invariant holds of an empty queue and idle sessions.
LEMMA InitIInv == Init => IInv
<1> SUFFICES ASSUME Init PROVE IInv
  OBVIOUS
<1>1. SendInv
  <2>1. SendTypes
    BY DEF Init, SendInit, SendTypes, WorkerState
  <2>2. \A w \in Workers : worker[w].batch = {} /\ worker[w].pc = "idle"
    BY DEF Init, SendInit
  <2>3. \A m \in Msgs : sent[m] = 0 /\ row[m] = "none"
    BY DEF Init, SendInit
  <2>4. cancelled = {}
    BY DEF Init, SendInit
  <2> QED BY <2>1, <2>2, <2>3, <2>4 DEF SendInv, Withdrawn, MarksSent, RelayedOnce, Single, NothingForgotten
<1>2. SmtpInv
  <2>1. SmtpTypes
    BY DEF Init, SmtpInit, SmtpTypes
  <2>2. /\ \A j \in Jobs : queue[j] = None
        /\ \A s \in Sessions : sess[s] = None
        /\ \A j \in Jobs, r \in Addrs : box[j][r] = 0
        /\ acked = {}
    BY DEF Init, SmtpInit
  <2> QED BY <2>1, <2>2, Zenon DEF SmtpInv, SessOK, OneActive, Active, CopyOK, AckedOK, AckedHandled
<1> QED BY <1>1, <1>2, Zenon DEF IInv, Init

\* Every step of the scheduler, the sessions and the queue keeps the invariant.
LEMMA NextIInv == IInv /\ [Next]_vars => IInv'
<1> SUFFICES ASSUME IInv, [Next]_vars PROVE IInv'
  OBVIOUS
<1>1. SendInv /\ SmtpInv /\ load \in Loads /\ load.jobs \subseteq Jobs
  BY MailFlowAssumption, Zenon DEF IInv
<1>2. CASE UNCHANGED vars
  BY <1>1, <1>2, SendStutters, SmtpStutters, Zenon DEF vars, IInv
<1>3. CASE Arrive
  <2>1. PICK j \in load.jobs, a \in load.arrives :
          Enqueue(j, a.via, a.rcpts, a.class) /\ UNCHANGED <<sendVars, load>>
    BY <1>3, Zenon DEF Arrive
  <2>2. a \in [via : Ports, rcpts : SUBSET Addrs, class : Classes]
    BY <1>1, <2>1, MailFlowAssumption, Zenon
  <2>3. j \in Jobs /\ a.via \in Ports /\ a.rcpts \in SUBSET Addrs /\ a.class \in Classes
    BY <1>1, <2>1, <2>2, Zenon
  <2>4. SmtpInv'
    BY <1>1, <2>1, <2>3, EnqueueKeeps, Zenon
  <2> QED BY <1>1, <2>1, <2>4, SendStutters, Zenon DEF IInv
<1>4. CASE Schedule
  BY <1>1, <1>4, UsersKeep, SmtpStutters, Zenon DEF Schedule, IInv
<1>5. ASSUME NEW w \in Workers, Work(w) PROVE IInv'
  <2>1. CASE Poll(w) /\ UNCHANGED <<smtpVars, msgOf, load>>
    BY <1>1, <2>1, Ordered, PollKeeps, SmtpStutters, Zenon DEF IInv
  <2>2. CASE Accept(w)
    <3>1. SendInv'
      BY <1>1, <2>2, Ordered, RelayKeeps, Zenon DEF Accept
    <3>2. Now(w) \in Msgs
      BY <1>1, <2>2, Ordered, NowIn, Zenon DEF Accept, SendInv
    <3>3. Recipients(Now(w)) \in SUBSET Addrs /\ "lmtp" \in Ports /\ "plain" \in Classes
      BY <3>2, MailFlowAssumption, Zenon DEF Recipients, Ports, Classes
    <3>4. CASE UNCHANGED <<smtpVars, msgOf>>
      BY <1>1, <2>2, <3>1, <3>4, SmtpStutters, Zenon DEF Accept, IInv
    <3>5. CASE \E j \in load.jobs : Enqueue(j, "lmtp", Recipients(Now(w)), "plain")
      <4>1. PICK j \in Jobs : Enqueue(j, "lmtp", Recipients(Now(w)), "plain")
        BY <1>1, <3>5, Zenon
      <4>2. SmtpInv'
        BY <1>1, <3>3, <4>1, EnqueueKeeps, Zenon
      <4> QED BY <1>1, <2>2, <3>1, <4>2, Zenon DEF Accept, IInv
    <3> QED BY <2>2, <3>4, <3>5, Zenon DEF Accept
  <2> QED BY <1>5, <2>1, <2>2, Zenon DEF Work
<1>6. ASSUME NEW s \in Sessions, Session(Serve, s) \/ Session(Transmit, s) \/ Session(Fault, s)
      PROVE  IInv'
  <2>1. (Serve(s) \/ Transmit(s) \/ Fault(s)) /\ UNCHANGED <<sendVars, load>>
    BY <1>6, Zenon DEF Session
  <2>2. SmtpInv'
    BY <1>1, <2>1, Ordered, SessionKeeps, Zenon
  <2> QED BY <1>1, <2>1, <2>2, SendStutters, Zenon DEF IInv
<1> QED BY <1>2, <1>3, <1>4, <1>5, <1>6, Zenon DEF Next

\* The inductive invariant of the whole mail flow: the bookkeeping of the workers and
\* that of the sessions.
THEOREM Invariance == Spec => []IInv
BY InitIInv, NextIInv, PTL DEF Spec

\* cancel_send: a cancellation acknowledged before a worker took the message is never
\* followed by the relay accepting it.
THEOREM CancelKept == Spec => []CancelHonoured
<1>1. IInv => CancelHonoured
  BY DEF IInv, SendInv, Withdrawn, CancelHonoured
<1> QED BY <1>1, Invariance, PTL

\* dispatch_due_messages: without two workers holding a row at once or a failure between
\* the relay and the UPDATE, a message is relayed once.
THEOREM ResendsExplained == Spec => []ResentExplained
<1>1. IInv => ResentExplained
  <2> SUFFICES ASSUME IInv, NEW m \in Msgs, sent[m] > 1, m \notin twice PROVE FALSE
    BY DEF ResentExplained
  <2>1. sent[m] \in Nat /\ (sent[m] > 0 => sent[m] = 1)
    BY DEF IInv, SendInv, SendTypes, RelayedOnce
  <2> QED BY <2>1
<1> QED BY <1>1, Invariance, PTL

\* deliver_at is only ever cleared of a message that was relayed or cancelled.
THEOREM NoneForgotten == Spec => []NothingForgotten
<1>1. IInv => NothingForgotten
  BY DEF IInv, SendInv
<1> QED BY <1>1, Invariance, PTL

\* ingest::process and the three finalizers: 250 is only answered when every recipient
\* was stored, relayed or dropped.
THEOREM AckedAreHandled == Spec => []AckedHandled
<1>1. IInv => AckedHandled
  BY Zenon DEF IInv, SmtpInv, AckedOK
<1> QED BY <1>1, Invariance, PTL

\* The envelope of a message that was not refused holds only recipients named for it:
\* MAIL FROM, RSET and the answer to DATA leave nothing of an earlier transaction.
THEOREM RecipientsNamed == Spec => []NoLeftoverRecipients
<1>1. IInv => NoLeftoverRecipients
  <2> SUFFICES ASSUME IInv, NEW s \in Sessions, sess[s] # None, Busy(sess[s]),
                      ~TurnedDown(queue[sess[s].job])
               PROVE  Range(sess[s].rcpts) \subseteq queue[sess[s].job].all
    BY Zenon DEF NoLeftoverRecipients
  <2>1. SessOK(s) /\ sess[s].pc # "cmd"
    BY Zenon DEF IInv, SmtpInv, Busy
  <2> QED BY <2>1, Zenon DEF SessOK, Down
<1> QED BY <1>1, Invariance, PTL

\* One copy for each recipient of the message: at most as many copies as there are
\* recipients that lead to the mailbox.
LEMMA OneCopyEach ==
  ASSUME NEW j \in Jobs, NEW u, queue[j] \in JobRecord,
         \A r \in Addrs : resolve_recipient(r) = u => box[j][r] = 0 \/ (box[j][r] = 1 /\ r \in queue[j].all)
  PROVE  ~(Cardinality(Copies(j, u)) > Cardinality(NamesOf(j, u)))
<1> DEFINE N == NamesOf(j, u)
           f == [r \in N |-> <<r, 1>>]
           P == {f[r] : r \in N}
<1>1. N \subseteq Addrs /\ IsFiniteSet(N)
  <2>1. N \subseteq Addrs
    BY DEF NamesOf, JobRecord
  <2> QED BY <2>1, SmtpSessionAssumption, FS_Subset, Zenon
<1>2. IsFiniteSet(P) /\ Cardinality(P) <= Cardinality(N)
  <2>1. f \in Surjection(N, P)
    BY DEF Surjection
  <2> QED BY <1>1, <2>1, FS_Surjection, Zenon
<1>3. Copies(j, u) \subseteq P
  <2> SUFFICES ASSUME NEW r \in Addrs, resolve_recipient(r) = u, NEW n \in 1 .. box[j][r]
               PROVE  <<r, n>> \in P
    BY DEF Copies
  <2>1. box[j][r] = 1 /\ r \in queue[j].all /\ n = 1
    <3>1. box[j][r] # 0
      OBVIOUS
    <3>2. box[j][r] = 1 /\ r \in queue[j].all
      BY <3>1, Zenon
    <3> QED BY <3>2
  <2>2. r \in N /\ f[r] = <<r, n>>
    BY <2>1 DEF NamesOf
  <2> QED BY <2>2, Zenon
<1>4. Cardinality(Copies(j, u)) <= Cardinality(P) /\ IsFiniteSet(Copies(j, u))
  BY <1>2, <1>3, FS_Subset, Zenon
<1>5. Cardinality(Copies(j, u)) \in Nat /\ Cardinality(P) \in Nat /\ Cardinality(N) \in Nat
  BY <1>1, <1>2, <1>4, FS_CardinalityType, Zenon
<1> QED BY <1>2, <1>4, <1>5

\* A mailbox holds a copy too many only after an attempt that failed or whose answer was
\* lost, however many of the recipients are aliases of the same user.
THEOREM CopiesAreExplained == Spec => []CopiesExplained
<1>1. IInv => CopiesExplained
  <2> SUFFICES ASSUME IInv, NEW j \in Jobs, NEW u \in Mailboxes, queue[j] # None, ~TurnedDown(queue[j]),
                      \A r \in Addrs : resolve_recipient(r) = u => <<j, r>> \notin unsure
               PROVE  ~(Cardinality(Copies(j, u)) > Cardinality(NamesOf(j, u)))
    BY Zenon DEF CopiesExplained
  <2>1. queue[j] \in JobRecord
    BY DEF IInv, SmtpInv, SmtpTypes
  <2>2. ASSUME NEW r \in Addrs, resolve_recipient(r) = u
        PROVE  box[j][r] = 0 \/ (box[j][r] = 1 /\ r \in queue[j].all)
    BY <2>2, Zenon DEF IInv, SmtpInv, CopyOK, Down, Wanted
  <2> QED BY <2>1, <2>2, OneCopyEach, Zenon
<1> QED BY <1>1, Invariance, PTL
=============================================================================
