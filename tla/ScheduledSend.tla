---------------------------- MODULE ScheduledSend ----------------------------
(***************************************************************************)
(* Scheduled and undo-able sends.  persist_for_delivery stores the message *)
(* as a draft with deliver_at; every replica of the mail service polls for *)
(* due rows (dispatch_due_messages), relays each and clears deliver_at     *)
(* afterwards, by id and without a lock; cancel_send and cancel_all clear  *)
(* deliver_at too.                                                         *)
(*                                                                         *)
(* Msgs are numbers in the order of deliver_at.  The relay is external.    *)
(***************************************************************************)
EXTENDS Naturals, FiniteSets

CONSTANTS
  Workers,     \* replicas of the polling worker
  Msgs,        \* messages users schedule
  To, Cc,      \* To[m], Cc[m]: the addressees (Cc stands for cc and bcc)
  Limit,       \* LIMIT of the due query
  ObjectStore, \* whether raw messages go to the object store
  Mishaps,     \* bound on relay, database and worker failures
  NoMsg

ASSUME ScheduledSendAssumption ==
  /\ Msgs \subseteq Nat /\ IsFiniteSet(Msgs) /\ NoMsg \notin Msgs
  /\ DOMAIN To = Msgs /\ DOMAIN Cc = Msgs
  /\ Limit \in Nat \ {0} /\ ObjectStore \in BOOLEAN /\ Mishaps \in Nat

VARIABLES
  row,        \* deliver_at: "none" (no row yet), "later", "due", "null", "gone"
  worker,     \* the batch of each worker and the step it is at
  cancelling, \* the message cancel_send has checked and not yet cleared
  sent,       \* sent[m]: times the relay accepted m
  cancelled,  \* history: messages whose cancellation was acknowledged
  tooLate,    \* history: of these, the ones some worker had taken by then
  twice,      \* history: messages that may be relayed again
  mishaps

sendVars == <<row, worker, cancelling, sent, cancelled, tooLate, twice, mishaps>>

SendInit ==
  /\ row = [m \in Msgs |-> "none"]
  /\ worker = [w \in Workers |-> [batch |-> {}, pc |-> "idle"]]
  /\ cancelling = NoMsg
  /\ sent = [m \in Msgs |-> 0]
  /\ cancelled = {} /\ tooLate = {} /\ twice = {}
  /\ mishaps = 0

Scheduled(m) == row[m] \in {"later", "due"}

\* schedule_message and send_with_undo: validate_send_request wants a recipient.
persist_for_delivery(m) ==
  /\ row[m] = "none"
  /\ To[m] \cup Cc[m] # {}
  /\ row' = [row EXCEPT ![m] = "later"]
  /\ UNCHANGED <<worker, cancelling, sent, cancelled, tooLate, twice, mishaps>>

\* deliver_at <= now().
BecomeDue(m) ==
  /\ row[m] = "later"
  /\ row' = [row EXCEPT ![m] = "due"]
  /\ UNCHANGED <<worker, cancelling, sent, cancelled, tooLate, twice, mishaps>>

Taken(m) == \E w \in Workers : m \in worker[w].batch

\* The acknowledgement of a cancellation of the messages in S.
Acknowledge(S) ==
  /\ cancelled' = cancelled \cup S
  /\ tooLate' = tooLate \cup {m \in S : Taken(m) \/ sent[m] > 0}

\* cancel_send: the check and the UPDATE are two statements of one transaction,
\* without a lock on the row.
CheckScheduled(m) ==
  /\ cancelling = NoMsg /\ Scheduled(m)
  /\ cancelling' = m
  /\ UNCHANGED <<row, worker, sent, cancelled, tooLate, twice, mishaps>>

cancel_send ==
  /\ cancelling # NoMsg
  /\ row' = IF row[cancelling] = "gone" THEN row ELSE [row EXCEPT ![cancelling] = "null"]
  /\ Acknowledge({cancelling})
  /\ cancelling' = NoMsg
  /\ UNCHANGED <<worker, sent, twice, mishaps>>

cancel_all_scheduled ==
  LET S == {m \in Msgs : Scheduled(m)}
  IN  /\ S # {}
      /\ row' = [m \in Msgs |-> IF m \in S THEN "null" ELSE row[m]]
      /\ Acknowledge(S)
      /\ UNCHANGED <<worker, cancelling, sent, twice, mishaps>>

\* The draft is deleted like any message.
DeleteDraft(m) ==
  /\ row[m] \notin {"none", "gone"}
  /\ row' = [row EXCEPT ![m] = "gone"]
  /\ UNCHANGED <<worker, cancelling, sent, cancelled, tooLate, twice, mishaps>>

\* Mutant: the due query does not look at deliver_at IS NOT NULL.
DueOrCleared == {m \in Msgs : row[m] \in {"due", "null"}}

\* The due query's rows.
Due == {m \in Msgs : row[m] = "due"}

\* Mutant: one row too few.
FirstButOne(S, n) == {m \in S : Cardinality({k \in S : k < m}) + 1 < n}

\* ORDER BY deliver_at LIMIT n.
First(S, n) == {m \in S : Cardinality({k \in S : k < m}) < n}

dispatch_due_messages(w) ==
  /\ worker[w].batch = {} /\ Due # {}
  /\ worker' = [worker EXCEPT ![w] = [batch |-> First(Due, Limit), pc |-> "read"]]
  /\ twice' = twice \cup {m \in First(Due, Limit) : Taken(m)}
  /\ UNCHANGED <<row, cancelling, sent, cancelled, tooLate, mishaps>>

Now(w) == CHOOSE m \in worker[w].batch : \A k \in worker[w].batch : m <= k

\* The loop goes on with the next row of the batch.
NextRow(w) ==
  worker' = [worker EXCEPT ![w] =
               [batch |-> @.batch \ {Now(w)},
                pc |-> IF @.batch = {Now(w)} THEN "idle" ELSE "read"]]

\* Rows the worker passes over on every tick: the body is read from the local
\* disk even when it was stored in the object store, and the envelope is built
\* from to_addrs alone.
Unsendable(m) == ObjectStore \/ To[m] = {}

\* Rows passed over fill the batch of every tick before m's turn comes.
Starved(m) == Cardinality({k \in Msgs : k < m /\ Scheduled(k) /\ Unsendable(k)}) >= Limit

PassOver(w) ==
  /\ worker[w].pc = "read" /\ Unsendable(Now(w))
  /\ NextRow(w)
  /\ UNCHANGED <<row, cancelling, sent, cancelled, tooLate, twice, mishaps>>

\* The envelope, and the relay accepting it.
Recipients(m) == To[m]

Accepted(w) ==
  /\ worker[w].pc = "read" /\ ~Unsendable(Now(w))
  /\ sent' = [sent EXCEPT ![Now(w)] = @ + 1]

Relay(w) ==
  /\ Accepted(w)
  /\ worker' = [worker EXCEPT ![w].pc = "mark"]
  /\ UNCHANGED <<row, cancelling, cancelled, tooLate, twice, mishaps>>

\* Mutant: a refusal is handled like an acceptance.
RelayFailsMarks(w) ==
  /\ worker[w].pc = "read" /\ ~Unsendable(Now(w)) /\ mishaps < Mishaps
  /\ worker' = [worker EXCEPT ![w].pc = "mark"]
  /\ mishaps' = mishaps + 1
  /\ UNCHANGED <<row, cancelling, sent, cancelled, tooLate, twice>>

\* The relay refuses, or accepts and its answer is lost: the row stays due.
RelayFails(w) ==
  /\ worker[w].pc = "read" /\ ~Unsendable(Now(w)) /\ mishaps < Mishaps
  /\ NextRow(w)
  /\ mishaps' = mishaps + 1
  /\ UNCHANGED <<row, cancelling, sent, cancelled, tooLate, twice>>

RelayUnsure(w) ==
  /\ Accepted(w) /\ mishaps < Mishaps
  /\ NextRow(w)
  /\ twice' = twice \cup {Now(w)}
  /\ mishaps' = mishaps + 1
  /\ UNCHANGED <<row, cancelling, cancelled, tooLate>>

\* Mutant: nothing is cleared.
MarkNothing(m) == row

\* UPDATE messages SET deliver_at = NULL WHERE id = $1.
Cleared(m) == IF row[m] = "gone" THEN row ELSE [row EXCEPT ![m] = "null"]

MarkSent(w) ==
  /\ worker[w].pc = "mark"
  /\ row' = Cleared(Now(w))
  /\ NextRow(w)
  /\ UNCHANGED <<cancelling, sent, cancelled, tooLate, twice, mishaps>>

MarkFails(w) ==
  /\ worker[w].pc = "mark" /\ mishaps < Mishaps
  /\ NextRow(w)
  /\ twice' = twice \cup {Now(w)}
  /\ mishaps' = mishaps + 1
  /\ UNCHANGED <<row, cancelling, sent, cancelled, tooLate>>

WorkerDies(w) ==
  /\ worker[w].batch # {} /\ mishaps < Mishaps
  /\ worker' = [worker EXCEPT ![w] = [batch |-> {}, pc |-> "idle"]]
  /\ twice' = IF worker[w].pc = "mark" THEN twice \cup {Now(w)} ELSE twice
  /\ mishaps' = mishaps + 1
  /\ UNCHANGED <<row, cancelling, sent, cancelled, tooLate>>

Users ==
  \/ \E m \in Msgs : persist_for_delivery(m) \/ BecomeDue(m) \/ CheckScheduled(m) \/ DeleteDraft(m)
  \/ cancel_send \/ cancel_all_scheduled

\* The steps of a worker that do not reach the relay.
Poll(w) ==
  \/ dispatch_due_messages(w)
  \/ worker[w].batch # {} /\ (PassOver(w) \/ RelayFails(w) \/ MarkSent(w) \/ MarkFails(w))
  \/ WorkerDies(w)

-----------------------------------------------------------------------------
(* Properties.                                                             *)

SendTypeOK ==
  /\ row \in [Msgs -> {"none", "later", "due", "null", "gone"}]
  /\ \A w \in Workers :
       /\ worker[w].batch \subseteq Msgs /\ Cardinality(worker[w].batch) <= Limit
       /\ worker[w].pc = "idle" <=> worker[w].batch = {}
  /\ cancelling \in Msgs \cup {NoMsg}
  /\ tooLate \subseteq cancelled

\* A cancellation acknowledged before any worker took the message is kept: it
\* is never relayed, whichever of the two statements of cancel_send the workers
\* run between.
CancelHonoured == \A m \in cancelled \ tooLate : sent[m] = 0

\* A message is relayed twice only if two workers held it at once, or a failure
\* came between the relay accepting it and deliver_at being cleared.
ResentExplained == \A m \in Msgs : sent[m] > 1 => m \in twice

\* deliver_at is cleared only of messages that were relayed or cancelled: no order
\* of workers, failures and cancellations forgets one.
NothingForgotten ==
  \A m \in Msgs : row[m] = "null" => sent[m] > 0 \/ m \in cancelled

\* "Clears `deliver_at` on the message, converting it back to a plain draft":
\* an acknowledged cancellation means the message is not sent.
CancelledNotSent == \A m \in cancelled : sent[m] = 0
=============================================================================
