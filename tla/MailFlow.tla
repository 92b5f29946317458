------------------------------ MODULE MailFlow ------------------------------
(***************************************************************************)
(* Scheduled sends and inbound sessions composed: what the polling workers *)
(* relay comes back to the LMTP listener for its recipients (the relay is  *)
(* the site's mail server, which hands local mail to LMTP), beside mail    *)
(* that arrives from elsewhere.                                            *)
(***************************************************************************)
EXTENDS SmtpSession, ScheduledSend

CONSTANT Loads
\* Workloads: the messages users schedule, the arrivals from elsewhere, and the
\* jobs, sessions, workers and failures there are.

ASSUME MailFlowAssumption ==
  /\ Jobs \subseteq Nat
  /\ \A m \in Msgs : To[m] \subseteq Addrs
  /\ \A l \in Loads : /\ l.schedules \subseteq Msgs
                      /\ l.arrives \subseteq [via : Ports, rcpts : SUBSET Addrs, class : Classes]
                      /\ l.jobs \subseteq Jobs /\ l.sessions \subseteq Sessions
                      /\ l.workers \subseteq Workers /\ {l.faults, l.mishaps} \subseteq Nat

VARIABLES
  msgOf,   \* the scheduled message of a job, or NoMsg
  load     \* the workload of this behaviour

vars == <<smtpVars, sendVars, msgOf, load>>

Init ==
  /\ SmtpInit /\ SendInit
  /\ msgOf = [j \in Jobs |-> NoMsg]
  /\ load \in Loads

\* The next job; a message relayed when all are taken is not followed further.
Fresh(j) == queue[j] = None /\ \A i \in load.jobs : queue[i] = None => j <= i
Full == \A j \in load.jobs : queue[j] # None

\* Mail from elsewhere.
Arrive ==
  \E j \in load.jobs, a \in load.arrives :
    /\ Fresh(j) /\ Enqueue(j, a.via, a.rcpts, a.class)
    /\ UNCHANGED <<sendVars, msgOf, load>>

\* A worker's message is accepted by the relay and queued for LMTP.
Accept(w) ==
  /\ worker[w].batch # {}
  /\ Relay(w) \/ RelayUnsure(w)
  /\ \/ \E j \in load.jobs :
          /\ Fresh(j) /\ Enqueue(j, "lmtp", Recipients(Now(w)), "plain")
          /\ msgOf' = [msgOf EXCEPT ![j] = Now(w)]
     \/ Full /\ UNCHANGED <<smtpVars, msgOf>>
  /\ UNCHANGED load

Schedule ==
  /\ Users
  /\ \A m \in Msgs \ load.schedules : row'[m] = "none"
  /\ UNCHANGED <<smtpVars, msgOf, load>>

Work(w) ==
  /\ w \in load.workers
  /\ Accept(w) \/ (Poll(w) /\ UNCHANGED <<smtpVars, msgOf, load>>)
  /\ mishaps' <= load.mishaps

Session(A(_), s) ==
  s \in load.sessions /\ A(s) /\ faults' <= load.faults /\ UNCHANGED <<sendVars, msgOf, load>>

Next ==
  \/ Arrive \/ Schedule
  \/ \E w \in Workers : Work(w)
  \/ \E s \in Sessions : Session(Serve, s) \/ Session(Transmit, s) \/ Session(Fault, s)

Spec == Init /\ [][Next]_vars

\* Time passes, a worker polls on every tick of its interval, a session is a task
\* of its own, and mail servers try again until they give up.
Fairness ==
  /\ \A m \in Msgs : WF_vars(BecomeDue(m) /\ UNCHANGED <<smtpVars, msgOf, load>>)
  /\ \A w \in Workers : WF_vars(Work(w))
  /\ \A s \in Sessions : WF_vars(Session(Serve, s)) /\ WF_vars(Session(Transmit, s))

FairSpec == Spec /\ Fairness

-----------------------------------------------------------------------------
(* Properties.                                                             *)

\* The states of the two components: bounded envelopes and attempts, rows and
\* batches of the workers, and which job carries which scheduled message.
TypeOK == SmtpTypeOK /\ SendTypeOK /\ msgOf \in [Jobs -> Msgs \cup {NoMsg}]

\* A message that can be relayed does not stay scheduled for ever: rows the worker
\* passes over on every tick do not hold up the others while fewer than Limit of them
\* are due before it.
ScheduledSent == []<>(\A m \in Msgs : Scheduled(m) => Unsendable(m) \/ Starved(m))

\* "the background `scheduled_send_worker` picks it up and relays it when the time
\* comes": every scheduled message, whoever its addressees are and wherever its body
\* is stored.
ScheduledRelayed == []<>(\A m \in Msgs : ~Scheduled(m))

\* The same of the messages with a To recipient, whatever else is scheduled.
AddressedRelayed == []<>(\A m \in Msgs : Scheduled(m) => To[m] = {})

\* "the background `scheduled_send_worker` picks it up and relays it when the time
\* comes": to all its addressees.
AllAddresseesSent ==
  \A j \in Jobs : msgOf[j] # NoMsg => queue[j].all = To[msgOf[j]] \cup Cc[msgOf[j]]

=============================================================================
