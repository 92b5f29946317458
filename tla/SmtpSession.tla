---------------------------- MODULE SmtpSession ----------------------------
(***************************************************************************)
(* Inbound mail: the sessions of the LMTP, SMTP (port 25) and submission   *)
(* (port 587) listeners, and ingest::process, which all three call at the  *)
(* end of DATA with the recipients of the envelope.  process handles the   *)
(* recipients one by one, each in a transaction of its own, and gives up   *)
(* at the first error; the session then answers once for all of them.      *)
(*                                                                         *)
(* The other end is external: a mail server or a user's client that        *)
(* transmits a job (a message and the recipients it still owes it to),     *)
(* keeps the recipients of a 4xx answer for another attempt and gives up   *)
(* after MaxTries.  As all three listeners advertise PIPELINING, it may    *)
(* send MAIL, RCPT and DATA before it reads the answer to MAIL.  It may    *)
(* close a connection or stop waiting at any time; every such event, and   *)
(* every error of the database, is counted against MaxFaults.              *)
(***************************************************************************)
EXTENDS Naturals, Sequences, FiniteSets, Functions

CONSTANTS
  Sessions,   \* connections
  Jobs,       \* messages being transmitted
  Addrs,      \* addresses: numbers, ordered like the normalized ones
  Mailboxes,  \* the addresses of local users
  Alias,      \* the target of each enabled alias; one that is no address is ambiguous
  MAX_ALIAS_HOPS,
  Rejects,    \* local users whose Sieve script rejects the message
  MaxRcpts,   \* MAX_RCPTS
  MaxTries,   \* attempts of the transmitting side per job
  MaxFaults,  \* bound on faults in a behaviour
  Elsewhere, Nowhere,  \* outcomes of resolve_recipient that are no mailbox
  None

Ports == {"lmtp", "smtp25", "submission"}
\* Messages: plain ones, ones above MAX_MSG_BYTES (declared with SIZE= or not), ones
\* sent in another user's name, ones the scanner refuses, ones that fail DMARC with
\* p=reject.
Classes == {"plain", "declared", "late", "foreign", "infected", "spoofed"}

\* A job: how it is transmitted, its recipients, those still owed, and the attempts.
JobRecord == [via : Ports, all : SUBSET Addrs, todo : SUBSET Addrs, class : Classes, tries : Nat]

\* A session: its port and envelope, whether DATA is being read, how far process is
\* ("text": the rest of a message refused in the middle is read as commands), and
\* whether the client still waits.
SessRecord ==
  [port : Ports, authed : BOOLEAN, job : Jobs \cup {None}, from : BOOLEAN, rcpts : Seq(Addrs),
   data : BOOLEAN, pc : {"cmd", "text", "ingest", "reply"}, left : SUBSET Addrs, n : Nat,
   res : {"ok", "fail", "dmarc"}, gone : BOOLEAN]

ASSUME SmtpSessionAssumption ==
  /\ Addrs \subseteq Nat /\ IsFiniteSet(Addrs)
  /\ Mailboxes \subseteq Addrs /\ Rejects \subseteq Mailboxes
  /\ DOMAIN Alias \subseteq Addrs /\ MAX_ALIAS_HOPS \in Nat
  /\ Elsewhere \notin Addrs /\ Nowhere \notin Addrs
  /\ {MaxRcpts, MaxTries} \subseteq Nat \ {0} /\ MaxFaults \in Nat
  /\ MaxTries > MaxFaults
  /\ None \notin JobRecord \cup SessRecord

VARIABLES
  queue,    \* the jobs of the transmitting side
  sess,     \* the sessions
  box,      \* box[j][r]: copies of j inserted, for recipient r, into the mailbox it resolves to
  relayed,  \* pairs <<j, r>> forwarded off-platform
  dropped,  \* pairs dropped for a reason of the recipient's own
  acked,    \* history: pairs answered with 250
  unsure,   \* history: pairs committed, or that may be, in an attempt that failed
  faults

smtpVars == <<queue, sess, box, relayed, dropped, acked, unsure, faults>>

SmtpInit ==
  /\ queue = [j \in Jobs |-> None]
  /\ sess = [s \in Sessions |-> None]
  /\ box = [j \in Jobs |-> [r \in Addrs |-> 0]]
  /\ relayed = {} /\ dropped = {} /\ acked = {} /\ unsure = {}
  /\ faults = 0

Pairs(j, S) == {j} \X S

-----------------------------------------------------------------------------
(* The transmitting side (external).                                       *)

\* A message arrives for transmission.
Enqueue(j, via, rcpts, class) ==
  /\ queue[j] = None
  /\ queue' = [queue EXCEPT ![j] = [via |-> via, all |-> rcpts, todo |-> rcpts, class |-> class, tries |-> 0]]
  /\ UNCHANGED <<sess, box, relayed, dropped, acked, unsure, faults>>

Waiting(j) ==
  /\ queue[j] # None /\ queue[j].todo # {}
  /\ \A s \in Sessions : sess[s] # None /\ sess[s].job = j => sess[s].gone

\* The client's side after an attempt that decided nothing.
Retried(j) ==
  LET q == queue[j]
  IN  [queue EXCEPT ![j] = [q EXCEPT !.tries = q.tries + 1,
                                     !.todo = IF q.tries + 1 < MaxTries THEN q.todo ELSE {}]]

-----------------------------------------------------------------------------
(* Commands.                                                               *)

Envelope(port, authed) ==
  [port |-> port, authed |-> authed, job |-> None, from |-> FALSE, rcpts |-> <<>>,
   data |-> FALSE, pc |-> "cmd", left |-> {}, n |-> 0, res |-> "ok", gone |-> FALSE]

\* accept: a session starts with an empty envelope; the submission port takes
\* STARTTLS and AUTH before anything else.
Connect(s, port) ==
  /\ sess[s] = None
  /\ \E j \in Jobs : Waiting(j) /\ queue[j].via = port
  /\ sess' = [sess EXCEPT ![s] = Envelope(port, FALSE)]
  /\ UNCHANGED <<queue, box, relayed, dropped, acked, unsure, faults>>

finish_smtp_auth(s) ==
  /\ sess[s].port = "submission" /\ ~sess[s].authed /\ sess[s].pc = "cmd"
  /\ sess' = [sess EXCEPT ![s].authed = TRUE]
  /\ UNCHANGED <<queue, box, relayed, dropped, acked, unsure, faults>>

Commands(s) ==
  /\ sess[s] # None /\ sess[s].pc = "cmd" /\ ~sess[s].data
  /\ sess[s].port = "submission" => sess[s].authed

\* What the commands of a transaction do to the envelope, on each port.  A refused
\* MAIL FROM leaves it as it is, sender and recipients included.

Sender(e) == [e EXCEPT !.from = TRUE, !.rcpts = <<>>]

handle_lmtp_mail_from(e, class) == IF class = "declared" THEN e ELSE Sender(e)

handle_inbound_mail_from(e, class) == IF class = "declared" THEN e ELSE Sender(e)

handle_mail_from(e, class) ==
  IF ~e.authed \/ class = "declared" \/ class = "foreign" THEN e ELSE Sender(e)

\* Mutant: the recipients of an abandoned transaction stay.
MailFromKeeps(e, class) == IF class = "declared" THEN e ELSE [e EXCEPT !.from = TRUE]

MailFrom(e, class) ==
  CASE e.port = "lmtp" -> handle_lmtp_mail_from(e, class)
    [] e.port = "smtp25" -> handle_inbound_mail_from(e, class)
    [] OTHER -> handle_mail_from(e, class)

\* The messages whose MAIL FROM is refused, and those refused in all.
Refused(q) == q.class = "declared" \/ (q.class = "foreign" /\ q.via = "submission")
TurnedDown(q) == Refused(q) \/ q.class = "late"

Named(e, r) ==
  IF e.from /\ Len(e.rcpts) < MaxRcpts THEN [e EXCEPT !.rcpts = Append(@, r)] ELSE e

handle_lmtp_rcpt_to(e, r) == Named(e, r)

handle_inbound_rcpt_to(e, r) == Named(e, r)

handle_rcpt_to(e, r) == IF e.authed THEN Named(e, r) ELSE e

RcptTo(e, r) ==
  CASE e.port = "lmtp" -> handle_lmtp_rcpt_to(e, r)
    [] e.port = "smtp25" -> handle_inbound_rcpt_to(e, r)
    [] OTHER -> handle_rcpt_to(e, r)

handle_lmtp_data_command(e) == e.from /\ e.rcpts # <<>>

inbound_data_command(e) == e.from /\ e.rcpts # <<>>

handle_data_command(e) == e.authed /\ e.from /\ e.rcpts # <<>>

DataCommand(e) ==
  CASE e.port = "lmtp" -> handle_lmtp_data_command(e)
    [] e.port = "smtp25" -> inbound_data_command(e)
    [] OTHER -> handle_data_command(e)

\* MAIL FROM for job j, possibly after a transaction that was not finished.  If it is
\* refused the client gives the job up, unless RCPT and DATA are already on their way.
Mail(s, j) ==
  /\ Commands(s) /\ sess[s].job = None
  /\ Waiting(j) /\ queue[j].via = sess[s].port
  /\ \/ /\ sess' = [sess EXCEPT ![s] = [MailFrom(@, queue[j].class) EXCEPT !.job = j]]
        /\ UNCHANGED queue
     \/ Refused(queue[j]) /\ queue' = [queue EXCEPT ![j].todo = {}] /\ UNCHANGED sess
  /\ UNCHANGED <<box, relayed, dropped, acked, unsure, faults>>

\* RCPT and DATA after a refused MAIL FROM, without the sender of an earlier one: 503.
BadSequence(s) ==
  /\ Commands(s) /\ sess[s].job # None /\ ~sess[s].from
  /\ queue' = [queue EXCEPT ![sess[s].job].todo = {}]
  /\ sess' = [sess EXCEPT ![s].job = None]
  /\ UNCHANGED <<box, relayed, dropped, acked, unsure, faults>>

\* RCPT TO, of each recipient and possibly of one again; at MAX_RCPTS the answer
\* is 452 and the client sends the rest later.
Rcpt(s, r) ==
  /\ Commands(s) /\ sess[s].job # None
  /\ LET named == Range(sess[s].rcpts)
         todo == queue[sess[s].job].todo
     IN  r \in todo /\ (r \in named => todo \subseteq named)
  /\ RcptTo(sess[s], r) # sess[s]
  /\ sess' = [sess EXCEPT ![s] = RcptTo(@, r)]
  /\ UNCHANGED <<queue, box, relayed, dropped, acked, unsure, faults>>

\* DATA, once the client has named the recipients it can.
Data(s) ==
  /\ Commands(s) /\ sess[s].job # None /\ DataCommand(sess[s])
  /\ \/ queue[sess[s].job].todo \subseteq Range(sess[s].rcpts)
     \/ Len(sess[s].rcpts) = MaxRcpts
  /\ sess' = [sess EXCEPT ![s].data = TRUE]
  /\ UNCHANGED <<queue, box, relayed, dropped, acked, unsure, faults>>

\* The message is being sent, and not what is left of it after a refusal.
Oversized(q) == q.class = "late" /\ q.todo # {}

\* A line of DATA past the limit: 552, and the envelope is reset.  The client goes on
\* with the message, whose lines are now commands.
TooLarge(s) ==
  /\ sess[s] # None /\ sess[s].data /\ Oversized(queue[sess[s].job])
  /\ queue' = [queue EXCEPT ![sess[s].job].todo = {}]
  /\ sess' = [sess EXCEPT ![s] = [Envelope(@.port, @.authed) EXCEPT !.job = sess[s].job,
                                                                     !.pc = "text"]]
  /\ UNCHANGED <<box, relayed, dropped, acked, unsure, faults>>

\* A line of that text that reads as MAIL, RCPT or DATA (one transaction at most; any
\* other line is answered with 500 or changes nothing).
TextLine(s) ==
  /\ sess[s] # None /\ sess[s].pc = "text"
  /\ LET e == sess[s]
     IN  \/ ~e.from /\ sess' = [sess EXCEPT ![s] = MailFrom(e, "plain")]
         \/ \E r \in Addrs : RcptTo(e, r) # e /\ sess' = [sess EXCEPT ![s] = RcptTo(e, r)]
         \/ DataCommand(e) /\ sess' = [sess EXCEPT ![s] = [e EXCEPT !.data = TRUE, !.pc = "cmd"]]
  /\ UNCHANGED <<queue, box, relayed, dropped, acked, unsure, faults>>

\* Its end, or a line QUIT.
TextEnds(s) ==
  /\ sess[s] # None /\ sess[s].pc = "text"
  /\ \/ sess' = [sess EXCEPT ![s] = [@ EXCEPT !.job = None, !.pc = "cmd"]]
     \/ sess' = [sess EXCEPT ![s] = None]
  /\ UNCHANGED <<queue, box, relayed, dropped, acked, unsure, faults>>

\* RSET, or a transaction the client leaves without one.
Rset(s) ==
  /\ Commands(s) /\ sess[s].job # None /\ faults < MaxFaults
  /\ sess' = [sess EXCEPT ![s] = Envelope(@.port, @.authed)]
  /\ faults' = faults + 1
  /\ UNCHANGED <<queue, box, relayed, dropped, acked, unsure>>

Forsake(s) ==
  /\ Commands(s) /\ sess[s].job # None /\ faults < MaxFaults
  /\ sess' = [sess EXCEPT ![s].job = None]
  /\ faults' = faults + 1
  /\ UNCHANGED <<queue, box, relayed, dropped, acked, unsure>>

Quit(s) ==
  /\ Commands(s) /\ sess[s].job = None
  /\ ~\E j \in Jobs : Waiting(j) /\ queue[j].via = sess[s].port
  /\ sess' = [sess EXCEPT ![s] = None]
  /\ UNCHANGED <<queue, box, relayed, dropped, acked, unsure, faults>>

-----------------------------------------------------------------------------
(* End of DATA: ingest::process.                                           *)

normalized_recipients(rcpts) == Range(rcpts)

\* Where an address leads within h hops: to a mailbox, off the platform, or nowhere
\* (too many hops, which also ends cycles, or an ambiguous alias).
Follow[h \in 0 .. MAX_ALIAS_HOPS] ==
  [a \in Addrs |-> IF h = 0 THEN Nowhere
                  ELSE IF a \in Mailboxes THEN a
                  ELSE IF a \notin DOMAIN Alias THEN Elsewhere
                  ELSE IF Alias[a] \in Addrs THEN Follow[h - 1][Alias[a]]
                  ELSE Nowhere]

Known(r) == r \in Mailboxes \cup DOMAIN Alias

resolve_recipient(r) == IF Known(r) THEN Follow[MAX_ALIAS_HOPS][r] ELSE Nowhere

\* What becomes of the message before its recipients are looked at: DMARC on
\* port 25, then the scanner.
Screened(port, class) ==
  CASE class = "spoofed" /\ port = "smtp25" -> "dmarc"
    [] class = "infected" -> "fail"
    [] OTHER -> "ok"

\* The "." line.
Dot(s) ==
  /\ sess[s] # None /\ sess[s].data /\ ~Oversized(queue[sess[s].job])
  /\ LET res == Screened(sess[s].port, queue[sess[s].job].class)
     IN  sess' = [sess EXCEPT ![s] =
                    [@ EXCEPT !.data = FALSE, !.res = res,
                              !.left = normalized_recipients(sess[s].rcpts),
                              !.pc = IF res = "ok" THEN "ingest" ELSE "reply"]]
  /\ UNCHANGED <<queue, box, relayed, dropped, acked, unsure, faults>>

Ingesting(s) == sess[s] # None /\ sess[s].pc = "ingest"
Current(s) == CHOOSE r \in sess[s].left : \A q \in sess[s].left : r <= q

\* The current recipient is done; counted says whether it counts as delivered.
Done(s, counted) ==
  LET e == sess[s]
  IN  sess' = [sess EXCEPT ![s] = [e EXCEPT !.left = e.left \ {Current(s)},
                                            !.n = IF counted THEN e.n + 1 ELSE e.n]]

\* Unknown address, off-platform target the relay refuses, quota exceeded, or a
\* script that discards.
DropDelivery(s) ==
  /\ Ingesting(s) /\ sess[s].left # {}
  /\ Done(s, FALSE)
  /\ dropped' = dropped \cup {<<sess[s].job, Current(s)>>}
  /\ UNCHANGED <<queue, box, relayed, acked, unsure, faults>>

relay_off_platform(s) ==
  /\ Ingesting(s) /\ sess[s].left # {} /\ resolve_recipient(Current(s)) = Elsewhere
  /\ Done(s, TRUE)
  /\ relayed' = relayed \cup {<<sess[s].job, Current(s)>>}
  /\ UNCHANGED <<queue, box, dropped, acked, unsure, faults>>

\* The INSERT and its commit.
Deliver(s) ==
  /\ Ingesting(s) /\ sess[s].left # {}
  /\ resolve_recipient(Current(s)) \in Mailboxes \ Rejects
  /\ Done(s, TRUE)
  /\ box' = [box EXCEPT ![sess[s].job][Current(s)] = @ + 1]
  /\ UNCHANGED <<queue, relayed, dropped, acked, unsure, faults>>

\* process returns an error: what it committed so far stays.
Fails(s) ==
  /\ sess' = [sess EXCEPT ![s] = [@ EXCEPT !.res = "fail", !.pc = "reply"]]
  /\ unsure' = unsure \cup Pairs(sess[s].job, Range(sess[s].rcpts) \ sess[s].left)

\* Sieve rejects: bail!, for the whole batch.
Reject(s) ==
  /\ Ingesting(s) /\ sess[s].left # {} /\ resolve_recipient(Current(s)) \in Rejects
  /\ Fails(s)
  /\ UNCHANGED <<queue, box, relayed, dropped, acked, faults>>

\* Mutant: an error makes process start over with the first recipient.
DbErrorRestarts(s) ==
  /\ Ingesting(s) /\ sess[s].left # {} /\ faults < MaxFaults
  /\ sess' = [sess EXCEPT ![s].left = Range(sess[s].rcpts)]
  /\ faults' = faults + 1
  /\ UNCHANGED <<queue, box, relayed, dropped, acked, unsure>>

DbError(s) ==
  /\ Ingesting(s) /\ sess[s].left # {} /\ faults < MaxFaults
  /\ Fails(s)
  /\ faults' = faults + 1
  /\ UNCHANGED <<queue, box, relayed, dropped, acked>>

\* Mutant: no answer when nothing was delivered.
FinishDelivered(s) ==
  /\ Ingesting(s) /\ sess[s].left = {} /\ sess[s].n > 0
  /\ sess' = [sess EXCEPT ![s].pc = "reply"]
  /\ UNCHANGED <<queue, box, relayed, dropped, acked, unsure, faults>>

Finish(s) ==
  /\ Ingesting(s) /\ sess[s].left = {}
  /\ sess' = [sess EXCEPT ![s].pc = "reply"]
  /\ UNCHANGED <<queue, box, relayed, dropped, acked, unsure, faults>>

\* Mutant: an error of process is logged and the message acknowledged.
AnswerAnyway(e) ==
  IF e.res = "dmarc" \/ (e.res = "ok" /\ e.port = "smtp25" /\ e.n = 0) THEN "550" ELSE "250"

\* Mutant: an error of process is answered as a permanent failure.
AnswerPermanent(e) ==
  IF e.res # "ok" \/ (e.port = "smtp25" /\ e.n = 0) THEN "550" ELSE "250"

\* The answer to DATA, the same for every recipient: the one of the port.

finalize_inbound_message(e) ==
  CASE e.res = "dmarc" -> "550"
    [] e.res = "fail" -> "451"
    [] e.n = 0 -> "550"
    [] OTHER -> "250"

finalize_data_message(e) == IF e.res = "fail" THEN "451" ELSE "250"

Answer(e) ==
  CASE e.port = "lmtp" -> IF e.res = "fail" THEN "451" ELSE "250"
    [] e.port = "smtp25" -> finalize_inbound_message(e)
    [] OTHER -> finalize_data_message(e)

\* Once process has the message.
Busy(e) == e.pc \in {"ingest", "reply"}

\* The answer is written and the envelope reset; a client that stopped waiting
\* does not get it, and its session ends.  One that was refused before gives up.
Reply(s) ==
  /\ sess[s] # None /\ sess[s].pc = "reply"
  /\ LET e == sess[s]
         told == Range(e.rcpts)
     IN  IF e.gone THEN UNCHANGED <<queue, acked>>
         ELSE /\ queue' = CASE TurnedDown(queue[e.job]) -> [queue EXCEPT ![e.job].todo = {}]
                            [] ~TurnedDown(queue[e.job]) /\ Answer(e) = "451" -> Retried(e.job)
                            [] OTHER -> [queue EXCEPT ![e.job].todo = @ \ told]
              /\ acked' = IF Answer(e) = "250" THEN acked \cup Pairs(e.job, told) ELSE acked
  /\ sess' = [sess EXCEPT ![s] = IF @.gone THEN None ELSE Envelope(@.port, @.authed)]
  /\ UNCHANGED <<box, relayed, dropped, unsure, faults>>

-----------------------------------------------------------------------------
(* Faults.                                                                 *)

\* The client stops waiting, or the connection breaks, while process runs: the
\* session goes on to its reply.
Hangup(s) ==
  /\ sess[s] # None /\ Busy(sess[s]) /\ ~sess[s].gone /\ faults < MaxFaults
  /\ sess' = [sess EXCEPT ![s].gone = TRUE]
  /\ queue' = Retried(sess[s].job)
  /\ unsure' = unsure \cup Pairs(sess[s].job, Range(sess[s].rcpts))
  /\ faults' = faults + 1
  /\ UNCHANGED <<box, relayed, dropped, acked>>

\* The server dies, or the connection breaks between commands.
Crash(s) ==
  /\ sess[s] # None /\ faults < MaxFaults
  /\ sess' = [sess EXCEPT ![s] = None]
  /\ IF sess[s].job = None \/ sess[s].gone
     THEN UNCHANGED <<queue, unsure>>
     ELSE /\ queue' = Retried(sess[s].job)
          /\ unsure' = unsure \cup Pairs(sess[s].job, Range(sess[s].rcpts))
  /\ faults' = faults + 1
  /\ UNCHANGED <<box, relayed, dropped, acked>>

\* What the server does by itself.
Serve(s) ==
  \/ TooLarge(s) \/ Dot(s)
  \/ DropDelivery(s) \/ relay_off_platform(s) \/ Deliver(s) \/ Reject(s)
  \/ Finish(s) \/ Reply(s)

\* What a client does to get its jobs transmitted.
Transmit(s) ==
  \/ \E port \in Ports : Connect(s, port)
  \/ sess[s] # None /\ finish_smtp_auth(s)
  \/ \E j \in Jobs : Mail(s, j)
  \/ \E r \in Addrs : Rcpt(s, r)
  \/ BadSequence(s) \/ Data(s) \/ TextLine(s) \/ TextEnds(s)
  \/ Quit(s)

Fault(s) == Rset(s) \/ Forsake(s) \/ DbError(s) \/ Hangup(s) \/ Crash(s)

-----------------------------------------------------------------------------
(* Properties.                                                             *)

\* Envelopes never hold more than MAX_RCPTS recipients, and a message is read only
\* for an envelope with a sender and a recipient.
SmtpTypeOK ==
  /\ \A j \in Jobs : queue[j] # None =>
       queue[j].todo \subseteq queue[j].all /\ queue[j].tries \in 0 .. MaxTries
  /\ \A s \in Sessions : sess[s] # None =>
       /\ sess[s].rcpts \in Seq(Addrs) /\ Len(sess[s].rcpts) <= MaxRcpts
       /\ sess[s].left \subseteq Addrs
       /\ sess[s].data \/ Busy(sess[s]) => sess[s].rcpts # <<>> /\ sess[s].job # None
  /\ faults \in 0 .. MaxFaults

\* Every recipient of a transaction answered with 250 was stored, relayed or
\* dropped for a reason of its own: the error of another recipient, a crash or
\* an abandoned attempt never makes process skip one it then acknowledges.
AckedHandled ==
  \A p \in acked : p \in relayed \cup dropped \/ box[p[1]][p[2]] > 0

\* process never handles a recipient that was not named for this very message,
\* whatever transactions the connection carried before, finished or not, unless the
\* listener had refused the message (then what follows acts on the old envelope).
NoLeftoverRecipients ==
  \A s \in Sessions : sess[s] # None /\ Busy(sess[s]) /\ ~TurnedDown(queue[sess[s].job])
    => Range(sess[s].rcpts) \subseteq queue[sess[s].job].all

\* The same of every message: a client that pipelines after an unfinished transaction
\* does not get its refused message, or an empty one, to the recipients of the other.
OwnRecipients ==
  \A s \in Sessions : sess[s] # None /\ Busy(sess[s])
    => Range(sess[s].rcpts) \subseteq queue[sess[s].job].all

\* The copies of j in u's mailbox, and the recipients of j that lead there.
Copies(j, u) == UNION {{r} \X (1 .. box[j][r]) : r \in {q \in Addrs : resolve_recipient(q) = u}}
NamesOf(j, u) == {r \in queue[j].all : resolve_recipient(r) = u}

\* A mailbox holds more copies of a message than its recipients that lead there (the
\* user's address and aliases of it) only when process failed after one of them was
\* stored, or its answer did not reach the client.
CopiesExplained ==
  \A j \in Jobs, u \in Mailboxes :
    /\ queue[j] # None /\ ~TurnedDown(queue[j])
    /\ Cardinality(Copies(j, u)) > Cardinality(NamesOf(j, u))
    => \E r \in Addrs : resolve_recipient(r) = u /\ <<j, r>> \in unsure

\* Once the client is done with a message, every recipient has got it or was
\* dropped for a reason of its own, if the client outlasts the faults and no
\* script rejects before process reaches the recipient: a rejecting recipient
\* fails the batch for those after it.
SettledReceived ==
  \A j \in Jobs : queue[j] # None /\ queue[j].todo = {} /\ queue[j].class = "plain"
    => \A r \in queue[j].all :
         (\A q \in queue[j].all : resolve_recipient(q) \in Rejects
             => q > r /\ Cardinality(queue[j].all) <= MaxRcpts)
           => box[j][r] > 0 \/ <<j, r>> \in relayed \cup dropped

\* Every message handed to a listener is settled in the end: acknowledged, refused,
\* or given up after MaxTries.
JobsSettled == []<>(\A j \in Jobs : queue[j] = None \/ queue[j].todo = {})

\* "local delivery if recipient matches domain; else relay": what the submission
\* port acknowledges for an address that is not local goes to the relay.
SubmissionRelays ==
  \A p \in acked : ~Known(p[2]) /\ queue[p[1]].via = "submission" => p \in relayed

=============================================================================
