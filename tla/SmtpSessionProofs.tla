------------------------- MODULE SmtpSessionProofs --------------------------
(***************************************************************************)
(* Inbound sessions keep their bookkeeping: the lemmas MailFlowProofs builds *)
(* on, for any number of sessions, jobs and recipients.                    *)
(***************************************************************************)
EXTENDS SmtpSession, TLAPS

\* The recipients left have a first one.
RcptsOrdered == \A S \in SUBSET Addrs : S # {} => \E x \in S : \A y \in S : x <= y

SmtpTypes ==
  /\ queue \in [Jobs -> JobRecord \cup {None}]
  /\ sess \in [Sessions -> SessRecord \cup {None}]
  /\ box \in [Jobs -> [Addrs -> Nat]]

Handled(j, r) == <<j, r>> \in relayed \cup dropped \/ box[j][r] > 0

\* A message a listener refuses, whatever the client sends after that.
Down(j) == queue[j] \in JobRecord /\ TurnedDown(queue[j])

\* What holds of a session: its recipients are those of its message, unless that is a
\* refused one; the client still wants them unless it has gone, and process has
\* handled those it is done with.
SessOK(s) ==
  LET e == sess[s]
  IN  e # None =>
        /\ e.data => e.pc = "cmd"
        /\ e.data \/ e.pc # "cmd" => e.job # None
        /\ e.job # None => queue[e.job] \in JobRecord
        /\ e.job # None /\ ~Down(e.job) => Range(e.rcpts) \subseteq queue[e.job].all
        /\ e.job # None /\ ~Down(e.job) /\ ~e.gone => Range(e.rcpts) \subseteq queue[e.job].todo
        /\ e.pc = "text" => Down(e.job)
        /\ e.gone => Busy(e) /\ \A r \in Range(e.rcpts) : <<e.job, r>> \in unsure
        /\ Busy(e) => e.left \subseteq Range(e.rcpts)
        /\ e.pc = "ingest" => e.res = "ok"
        /\ e.pc = "reply" /\ e.res = "ok" => e.left = {}
        /\ e.pc = "reply" /\ e.res = "dmarc" => e.port = "smtp25"
        /\ Busy(e) /\ e.res = "ok" => \A r \in Range(e.rcpts) \ e.left : Handled(e.job, r)

\* At most one session transmits a job, apart from those its client has left.
Active(s, j) == sess[s] # None /\ sess[s].job = j /\ j # None /\ ~sess[s].gone
OneActive == \A s, t \in Sessions : \A j \in Jobs : Active(s, j) /\ Active(t, j) => s = t

\* A stored copy that is not at risk of a second one: the client has let go of the
\* recipient, or is waiting for the answer.
Off(j, r) == queue[j] \in JobRecord /\ r \notin queue[j].todo
HoldsAt(s, j, r) ==
  /\ Active(s, j) /\ Busy(sess[s]) /\ sess[s].res = "ok"
  /\ r \in Range(sess[s].rcpts) \ sess[s].left
Wanted(j, r) == queue[j] \in JobRecord /\ r \in queue[j].all
CopyOK(j, r) ==
  \/ Down(j)
  \/ <<j, r>> \in unsure
  \/ box[j][r] = 0
  \/ /\ box[j][r] = 1 /\ Wanted(j, r)
     /\ Off(j, r) \/ \E s \in Sessions : HoldsAt(s, j, r)

\* What was acknowledged are recipients of jobs, each stored, relayed or dropped.
AckedOK == acked \subseteq Jobs \X Addrs /\ AckedHandled

SmtpInv ==
  /\ SmtpTypes
  /\ \A j \in Jobs : queue[j] # None => queue[j].todo \subseteq queue[j].all
  /\ \A s \in Sessions : SessOK(s)
  /\ OneActive
  /\ \A j \in Jobs, r \in Addrs : CopyOK(j, r)
  /\ AckedOK

\* A job keeps what it is, and the client only ever lets go of recipients.
Same(p, q) == p.all = q.all /\ p.via = q.via /\ p.class = q.class
QueueMoves ==
  \A j \in Jobs : queue[j] \in JobRecord =>
    queue'[j] \in JobRecord /\ Same(queue'[j], queue[j]) /\ queue'[j].todo \subseteq queue[j].todo

Grows ==
  /\ relayed \subseteq relayed' /\ dropped \subseteq dropped' /\ unsure \subseteq unsure'
  /\ \A j \in Jobs, r \in Addrs : box'[j][r] >= box[j][r]

\* A step that stores no copy and takes back no risk.
LEMMA StoresNothing ==
  ASSUME SmtpTypes, UNCHANGED <<box, relayed, dropped>>, unsure \subseteq unsure',
         queue' \in [Jobs -> JobRecord \cup {None}], sess' \in [Sessions -> SessRecord \cup {None}]
  PROVE  SmtpTypes' /\ Grows
<1>1. \A j \in Jobs, r \in Addrs : box[j][r] \in Nat
  BY Zenon DEF SmtpTypes
<1>2. \A j \in Jobs, r \in Addrs : box[j][r] >= box[j][r]
  BY <1>1
<1> QED BY <1>2, Zenon DEF SmtpTypes, Grows

\* A step that acknowledges nothing and stores nothing.
LEMMA StillHandled ==
  ASSUME AckedOK, UNCHANGED <<box, relayed, dropped, acked>>
  PROVE  AckedOK'
BY Zenon DEF AckedOK, AckedHandled

\* A step that leaves the client's queue alone.
LEMMA StillQueued == ASSUME UNCHANGED queue PROVE QueueMoves
BY Zenon DEF QueueMoves, Same

\* A refused message stays refused.
LEMMA StaysDown ==
  ASSUME QueueMoves, NEW j \in Jobs, queue[j] \in JobRecord
  PROVE  Down(j)' <=> Down(j)
BY Zenon DEF QueueMoves, Same, Down, TurnedDown, Refused

LEMMA SameDown == ASSUME UNCHANGED queue PROVE \A j : Down(j)' <=> Down(j)
BY Zenon DEF Down

\* A copy stored stays handled.
LEMMA StaysHandled ==
  ASSUME Grows, NEW j \in Jobs, NEW r \in Addrs, box[j][r] \in Nat, box'[j][r] \in Nat, Handled(j, r)
  PROVE  Handled(j, r)'
<1>1. box'[j][r] >= box[j][r]
  BY Zenon DEF Grows
<1>2. box[j][r] > 0 => box'[j][r] > 0
  BY <1>1
<1> QED BY <1>2, Zenon DEF Handled, Grows

\* A copy at no risk of a second one that nobody holds is not stored.
LEMMA FreshCopy ==
  ASSUME NEW j, NEW r, CopyOK(j, r), ~Down(j), <<j, r>> \notin unsure, ~Off(j, r),
         \A s \in Sessions : ~HoldsAt(s, j, r)
  PROVE  box[j][r] + 1 = 1
<1>1. box[j][r] = 0
  BY Zenon DEF CopyOK
<1> QED BY <1>1

\* What a step of session s has to show for the invariant to be kept: nothing is
\* said of other sessions, whose view of their job does not change.
LEMMA SessionStepKeeps ==
  ASSUME SmtpInv, NEW s \in Sessions, SmtpTypes',
         \A t \in Sessions \ {s} : sess'[t] = sess[t],
         QueueMoves, Grows,
         \A j \in Jobs : queue[j] = None => queue'[j] = None,
         \A t \in Sessions \ {s} : \A j \in Jobs : Active(t, j) => queue'[j] = queue[j],
         SessOK(s)',
         \A j \in Jobs : Active(s, j)' => Active(s, j) \/ \A t \in Sessions : ~Active(t, j),
         \A j \in Jobs, r \in Addrs : HoldsAt(s, j, r)
            => HoldsAt(s, j, r)' \/ Off(j, r)' \/ <<j, r>> \in unsure',
         \A j \in Jobs, r \in Addrs : box'[j][r] # box[j][r]
            => Down(j) \/ <<j, r>> \in unsure' \/ (box'[j][r] = 1 /\ Wanted(j, r) /\ HoldsAt(s, j, r)'),
         AckedOK'
  PROVE  SmtpInv'
<1>1. SmtpTypes
  BY Zenon DEF SmtpInv
<1>2. \A j \in Jobs : queue'[j] # None => queue'[j].todo \subseteq queue'[j].all
  BY <1>1, ZenonT(60) DEF SmtpInv, SmtpTypes, QueueMoves, Same
<1>3. ASSUME NEW t \in Sessions PROVE SessOK(t)'
  <2>1. CASE t = s
    BY <2>1, Zenon
  <2>2. CASE t # s
    <3>1. sess'[t] = sess[t] /\ SessOK(t)
      BY <2>2, Zenon DEF SmtpInv
    <3> SUFFICES ASSUME sess[t] # None PROVE SessOK(t)'
      BY <3>1, Zenon DEF SessOK, Busy
    <3>2. sess[t] \in SessRecord
      BY <1>1, Zenon DEF SmtpTypes
    <3> DEFINE e == sess[t]
    <3>3. /\ e.job \in Jobs \cup {None} /\ e.left \subseteq Addrs /\ Range(e.rcpts) \subseteq Addrs
      BY <3>2 DEF SessRecord, Range
    <3>4. ASSUME NEW j \in Jobs, NEW r \in Addrs, Handled(j, r) PROVE Handled(j, r)'
      <4>1. box[j][r] \in Nat /\ box'[j][r] \in Nat
        BY <1>1, Zenon DEF SmtpTypes
      <4> QED BY <3>4, <4>1, StaysHandled, Zenon
    <3>5. e.job # None => /\ queue'[e.job] \in JobRecord
                          /\ queue'[e.job].all = queue[e.job].all
      BY <3>1, <3>3, Zenon DEF SessOK, QueueMoves, Same
    <3>9. \A j \in Jobs : queue[j] \in JobRecord => (Down(j)' <=> Down(j))
      BY StaysDown, Zenon
    <3>6. e.job # None /\ ~e.gone => queue'[e.job].todo = queue[e.job].todo
      <4> SUFFICES ASSUME e.job # None, ~e.gone PROVE queue'[e.job].todo = queue[e.job].todo
        BY Zenon
      <4>1. e.job \in Jobs /\ t \in Sessions \ {s} /\ Active(t, e.job)
        BY <2>2, <3>3, Zenon DEF Active
      <4>2. queue'[e.job] = queue[e.job]
        BY <4>1, Zenon
      <4> QED BY <4>2, Zenon
    <3>7. Busy(e) /\ e.res = "ok" => \A r \in Range(e.rcpts) \ e.left : Handled(e.job, r)'
      BY <3>1, <3>3, <3>4, Zenon DEF SessOK, Busy
    <3>8. PICK j : j = e.job
      OBVIOUS
    <3>10. j # None => j \in Jobs /\ queue[j] \in JobRecord /\ (Down(j)' <=> Down(j))
      BY <3>1, <3>3, <3>8, <3>9, Zenon DEF SessOK
    <3> QED BY <3>1, <3>5, <3>6, <3>7, <3>8, <3>10, ZenonT(60) DEF SessOK, Busy, Grows
  <2> QED BY <2>1, <2>2, Zenon
<1>4. OneActive'
  <2> SUFFICES ASSUME NEW t \in Sessions, NEW u \in Sessions, NEW j \in Jobs,
                      Active(t, j)', Active(u, j)'
               PROVE  t = u
    BY Zenon DEF OneActive
  <2>1. ASSUME NEW v \in Sessions \ {s}, Active(v, j)' PROVE Active(v, j)
    BY <2>1, Zenon DEF Active
  <2> QED BY <2>1, Zenon DEF SmtpInv, OneActive
<1>5. ASSUME NEW j \in Jobs, NEW r \in Addrs PROVE CopyOK(j, r)'
  <2>1. CopyOK(j, r)
    BY Zenon DEF SmtpInv
  <2>4. (Down(j) => Down(j)') /\ (Wanted(j, r) => Wanted(j, r)')
    BY StaysDown, Zenon DEF Down, Wanted, QueueMoves, Same
  <2>2. CASE box'[j][r] # box[j][r]
    BY <2>2, <2>4, Zenon DEF CopyOK
  <2>3. CASE box'[j][r] = box[j][r]
    <3>1. Off(j, r) => Off(j, r)'
      BY Zenon DEF Off, QueueMoves
    <3>2. ASSUME NEW t \in Sessions, HoldsAt(t, j, r)
          PROVE  HoldsAt(t, j, r)' \/ Off(j, r)' \/ <<j, r>> \in unsure'
      <4>1. CASE t = s
        BY <3>2, <4>1, Zenon
      <4>2. CASE t # s
        <5>1. sess'[t] = sess[t]
          BY <4>2, Zenon
        <5> QED BY <3>2, <5>1, Zenon DEF HoldsAt, Active, Busy
      <4> QED BY <4>1, <4>2, Zenon
    <3> QED BY <2>1, <2>3, <2>4, <3>1, <3>2, Zenon DEF CopyOK, Grows
  <2> QED BY <2>2, <2>3, Zenon
<1> QED BY <1>2, <1>3, <1>4, <1>5, Zenon DEF SmtpInv

\* A step of session s that touches only its own envelope.
LEMMA EnvelopeStepKeeps ==
  ASSUME SmtpInv, NEW s \in Sessions,
         UNCHANGED <<queue, box, relayed, dropped, acked, unsure>>,
         sess' \in [Sessions -> SessRecord \cup {None}],
         \A t \in Sessions \ {s} : sess'[t] = sess[t],
         SessOK(s)',
         \A j \in Jobs : Active(s, j)' => Active(s, j) \/ \A t \in Sessions : ~Active(t, j),
         \A j \in Jobs, r \in Addrs : HoldsAt(s, j, r) => HoldsAt(s, j, r)'
  PROVE  SmtpInv'
<1>1. SmtpTypes /\ AckedOK
  BY DEF SmtpInv
<1>2. SmtpTypes' /\ QueueMoves /\ Grows
  <2>1. queue' \in [Jobs -> JobRecord \cup {None}]
    BY <1>1, Zenon DEF SmtpTypes
  <2> QED BY <1>1, <2>1, StoresNothing, StillQueued, Zenon
<1>3. AckedOK'
  BY <1>1, StillHandled, Zenon
<1> QED BY <1>2, <1>3, SessionStepKeeps, Zenon

\* A fresh envelope names no message and no recipient.
LEMMA EnvelopeIs ==
  ASSUME NEW port \in Ports, NEW authed \in BOOLEAN
  PROVE  /\ Envelope(port, authed) \in SessRecord
         /\ Envelope(port, authed).job = None /\ Envelope(port, authed).rcpts = <<>>
         /\ Envelope(port, authed).pc = "cmd"
         /\ ~Envelope(port, authed).data /\ ~Envelope(port, authed).gone
<1>1. <<>> \in Seq(Addrs)
  OBVIOUS
<1> QED BY <1>1 DEF Envelope, SessRecord

\* The types of the fields of a session.
LEMMA RecordFields ==
  ASSUME SmtpTypes, NEW s \in Sessions, sess[s] # None
  PROVE  /\ sess[s] \in SessRecord
         /\ sess[s].port \in Ports /\ sess[s].authed \in BOOLEAN
         /\ sess[s].job \in Jobs \cup {None}
         /\ sess[s].rcpts \in Seq(Addrs) /\ Range(sess[s].rcpts) \subseteq Addrs
         /\ sess[s].pc \in {"cmd", "text", "ingest", "reply"} /\ sess[s].left \subseteq Addrs
         /\ sess[s].n \in Nat /\ sess[s].res \in {"ok", "fail", "dmarc"}
         /\ sess[s].data \in BOOLEAN /\ sess[s].gone \in BOOLEAN
<1>1. sess[s] \in SessRecord
  BY DEF SmtpTypes
<1>2. ASSUME NEW q \in Seq(Addrs) PROVE Range(q) \subseteq Addrs
  BY DEF Range
<1> QED BY <1>1, <1>2, Zenon DEF SessRecord

\* A new connection starts with nothing accepted.
LEMMA ConnectKeeps ==
  ASSUME SmtpInv, NEW s \in Sessions, NEW port \in Ports, Connect(s, port) PROVE SmtpInv'
<1>1. SmtpTypes
  BY DEF SmtpInv
<1> DEFINE f == Envelope(port, FALSE)
<1>2. /\ f \in SessRecord /\ f.job = None /\ f.rcpts = <<>> /\ f.pc = "cmd"
      /\ ~f.data /\ ~f.gone
  BY EnvelopeIs, Zenon
<1>3. /\ sess[s] = None /\ sess' = [sess EXCEPT ![s] = f]
      /\ UNCHANGED <<queue, box, relayed, dropped, acked, unsure>>
  BY DEF Connect
<1> HIDE DEF f
<1>4. /\ sess' \in [Sessions -> SessRecord \cup {None}] /\ sess'[s] = f
      /\ \A t \in Sessions \ {s} : sess'[t] = sess[t]
  BY <1>1, <1>2, <1>3, Zenon DEF SmtpTypes
<1>5. SessOK(s)'
  BY <1>2, <1>4, Zenon DEF SessOK, Busy
<1>6. \A j \in Jobs : ~Active(s, j)'
  BY <1>2, <1>4 DEF Active
<1>7. \A j \in Jobs, r \in Addrs : ~HoldsAt(s, j, r)
  BY <1>3 DEF HoldsAt, Active, Busy
<1> QED BY <1>3, <1>4, <1>5, <1>6, <1>7, EnvelopeStepKeeps, Zenon

\* finish_smtp_auth changes who the client is and nothing else.
LEMMA AuthKeeps ==
  ASSUME SmtpInv, NEW s \in Sessions, sess[s] # None, finish_smtp_auth(s) PROVE SmtpInv'
<1>1. SmtpTypes /\ SessOK(s)
  BY DEF SmtpInv
<1> DEFINE e == sess[s]
           f == [e EXCEPT !.authed = TRUE]
<1>2. e \in SessRecord
  BY <1>1, RecordFields, Zenon
<1>3. /\ e.pc = "cmd" /\ sess' = [sess EXCEPT ![s] = f]
      /\ UNCHANGED <<queue, box, relayed, dropped, acked, unsure>>
  BY DEF finish_smtp_auth
<1>4. /\ f \in SessRecord /\ f.job = e.job /\ f.rcpts = e.rcpts /\ f.pc = e.pc
      /\ f.data = e.data /\ f.gone = e.gone
  BY <1>2, Zenon DEF SessRecord
<1> HIDE DEF f
<1>5. /\ sess' \in [Sessions -> SessRecord \cup {None}] /\ sess'[s] = f
      /\ \A t \in Sessions \ {s} : sess'[t] = sess[t]
  BY <1>1, <1>3, <1>4, Zenon DEF SmtpTypes
<1>9. \A j : Down(j)' <=> Down(j)
  BY <1>3, SameDown, Zenon
<1>6. SessOK(s)'
  BY <1>1, <1>3, <1>4, <1>5, <1>9, Zenon DEF SessOK, Busy
<1>7. \A j \in Jobs : Active(s, j)' => Active(s, j)
  BY <1>4, <1>5, Zenon DEF Active
<1>8. \A j \in Jobs, r \in Addrs : ~HoldsAt(s, j, r)
  BY <1>3 DEF HoldsAt, Busy
<1> QED BY <1>3, <1>5, <1>6, <1>7, <1>8, EnvelopeStepKeeps, Zenon

\* MAIL FROM names the sender, and no recipient yet, or is refused and changes nothing.
LEMMA MailFromIs ==
  ASSUME NEW e \in SessRecord, NEW q \in JobRecord, q.via = e.port, e.port = "submission" => e.authed
  PROVE  \/ MailFrom(e, q.class) = Sender(e)
         \/ MailFrom(e, q.class) = e /\ Refused(q)
BY Zenon DEF MailFrom, handle_lmtp_mail_from, handle_inbound_mail_from, handle_mail_from,
     SessRecord, Ports, Refused

\* The envelope after MAIL FROM.
LEMMA SenderIs ==
  ASSUME NEW e \in SessRecord
  PROVE  /\ Sender(e) \in SessRecord /\ Sender(e).rcpts = <<>> /\ Range(<<>>) = {}
         /\ Sender(e).job = e.job /\ Sender(e).pc = e.pc /\ Sender(e).data = e.data
         /\ Sender(e).gone = e.gone
<1>1. <<>> \in Seq(Addrs) /\ Range(<<>>) = {}
  BY DEF Range
<1> QED BY <1>1, ZenonT(60) DEF SessRecord, Sender

\* MAIL FROM takes a job nobody else is transmitting.
LEMMA MailKeeps ==
  ASSUME SmtpInv, NEW s \in Sessions, NEW j \in Jobs, Mail(s, j) PROVE SmtpInv'
<1>1. SmtpTypes /\ SessOK(s) /\ AckedOK
  BY DEF SmtpInv
<1> DEFINE e == sess[s]
<1>2. /\ e # None /\ e.pc = "cmd" /\ ~e.data /\ e.job = None
      /\ (e.port = "submission" => e.authed) /\ queue[j].via = e.port
  BY DEF Mail, Commands
<1>3. e \in SessRecord /\ ~e.gone
  BY <1>1, <1>2, RecordFields, Zenon DEF SessOK, Busy
<1>4. queue[j] \in JobRecord /\ \A t \in Sessions : ~Active(t, j)
  BY <1>1, Zenon DEF Mail, Waiting, Active, SmtpTypes
<1>5. UNCHANGED <<box, relayed, dropped, acked, unsure>>
  BY DEF Mail
<1>8. \A i \in Jobs, r \in Addrs : ~HoldsAt(s, i, r)
  BY <1>2 DEF HoldsAt, Busy
<1>6. CASE queue' = [queue EXCEPT ![j].todo = {}] /\ UNCHANGED sess
  <2>2. queue' \in [Jobs -> JobRecord \cup {None}] /\ QueueMoves
        /\ \A i \in Jobs \ {j} : queue'[i] = queue[i]
    BY <1>1, <1>4, <1>6, Zenon DEF SmtpTypes, QueueMoves, Same, JobRecord
  <2>3. SmtpTypes' /\ Grows /\ AckedOK'
    <3>1. sess' \in [Sessions -> SessRecord \cup {None}]
      BY <1>1, <1>6, Zenon DEF SmtpTypes
    <3> QED BY <1>1, <1>5, <2>2, <3>1, StoresNothing, StillHandled, Zenon
  <2>4. SessOK(s)'
    BY <1>2, <1>3, <1>6, Zenon DEF SessOK, Busy
  <2>5. \A t \in Sessions, i \in Jobs : Active(t, i)' = Active(t, i)
    BY <1>6 DEF Active
  <2>7. \A i \in Jobs : queue[i] = None => queue'[i] = None
    BY <1>4, <2>2, SmtpSessionAssumption, Zenon
  <2> QED BY <1>4, <1>5, <1>6, <1>8, <2>2, <2>3, <2>4, <2>5, <2>7, SessionStepKeeps, ZenonT(60)
<1>7. CASE sess' = [sess EXCEPT ![s] = [MailFrom(e, queue[j].class) EXCEPT !.job = j]] /\ UNCHANGED queue
  <2> DEFINE m == MailFrom(e, queue[j].class)
             f == [m EXCEPT !.job = j]
  <2>1. m = Sender(e) \/ (m = e /\ Down(j))
    BY <1>2, <1>3, <1>4, MailFromIs, Zenon DEF Down, TurnedDown
  <2>2. m \in SessRecord /\ m.pc = "cmd" /\ ~m.data /\ ~m.gone /\ (Down(j) \/ Range(m.rcpts) = {})
    BY <1>2, <1>3, <2>1, SenderIs, Zenon
  <2>3. sess' = [sess EXCEPT ![s] = f]
    BY <1>7
  <2> HIDE DEF m
  <2>4. /\ f \in SessRecord /\ f.job = j /\ f.rcpts = m.rcpts /\ f.pc = "cmd"
        /\ ~f.data /\ ~f.gone
    BY <2>2, ZenonT(60) DEF SessRecord
  <2> HIDE DEF f
  <2>5. /\ sess' \in [Sessions -> SessRecord \cup {None}] /\ sess'[s] = f
        /\ \A t \in Sessions \ {s} : sess'[t] = sess[t]
    BY <1>1, <2>3, <2>4, Zenon DEF SmtpTypes
  <2>6. SessOK(s)'
    <3>1. Down(j)' <=> Down(j)
      BY <1>7 DEF Down
    <3> QED BY <1>4, <1>7, <2>2, <2>4, <2>5, <3>1, Zenon DEF SessOK, Busy
  <2>7. \A i \in Jobs : Active(s, i)' => i = j
    BY <2>4, <2>5 DEF Active
  <2> QED BY <1>4, <1>5, <1>7, <1>8, <2>5, <2>6, <2>7, EnvelopeStepKeeps, Zenon
<1> QED BY <1>6, <1>7 DEF Mail

\* A recipient that is appended joins those named so far.
LEMMA RangeAppend ==
  ASSUME NEW q \in Seq(Addrs), NEW r \in Addrs
  PROVE  Append(q, r) \in Seq(Addrs) /\ Range(Append(q, r)) = Range(q) \cup {r}
<1>1. /\ Append(q, r) \in Seq(Addrs) /\ Len(Append(q, r)) = Len(q) + 1 /\ Len(q) \in Nat
      /\ DOMAIN q = 1 .. Len(q) /\ DOMAIN Append(q, r) = 1 .. Len(q) + 1
      /\ \A i \in 1 .. Len(q) : Append(q, r)[i] = q[i]
      /\ Append(q, r)[Len(q) + 1] = r
  OBVIOUS
<1>2. \A i \in 1 .. Len(q) : i \in 1 .. Len(q) + 1
  BY <1>1
<1>3. \A i \in 1 .. Len(q) + 1 : i \in 1 .. Len(q) \/ i = Len(q) + 1
  BY <1>1
<1>4. Len(q) + 1 \in 1 .. Len(q) + 1
  BY <1>1
<1>5. ASSUME NEW x \in Range(q) PROVE x \in Range(Append(q, r))
  BY <1>1, <1>2 DEF Range
<1>6. ASSUME NEW x \in Range(Append(q, r)) PROVE x \in Range(q) \/ x = r
  <2>1. PICK i \in 1 .. Len(q) + 1 : x = Append(q, r)[i]
    BY <1>1, <1>6 DEF Range
  <2> QED BY <1>1, <1>3, <2>1, Zenon DEF Range
<1>7. r \in Range(Append(q, r))
  BY <1>1, <1>4 DEF Range
<1> QED BY <1>1, <1>5, <1>6, <1>7, Zenon

\* RCPT TO names a recipient the client still owes the message to.
LEMMA RcptKeeps ==
  ASSUME SmtpInv, NEW s \in Sessions, NEW r \in Addrs, Rcpt(s, r) PROVE SmtpInv'
<1>1. SmtpTypes /\ SessOK(s)
  BY DEF SmtpInv
<1> DEFINE e == sess[s]
           f == [e EXCEPT !.rcpts = Append(e.rcpts, r)]
<1>2. /\ e # None /\ e.pc = "cmd" /\ ~e.data /\ e.job # None /\ r \in queue[e.job].todo
      /\ UNCHANGED <<queue, box, relayed, dropped, acked, unsure>>
  BY Zenon DEF Rcpt, Commands
<1>3. e \in SessRecord /\ ~e.gone /\ e.rcpts \in Seq(Addrs) /\ e.job \in Jobs
  BY <1>1, <1>2, RecordFields, Zenon DEF SessOK, Busy
<1>4. Append(e.rcpts, r) \in Seq(Addrs) /\ Range(Append(e.rcpts, r)) = Range(e.rcpts) \cup {r}
  BY <1>3, RangeAppend
<1>5. RcptTo(e, r) = e \/ RcptTo(e, r) = f
  BY Zenon DEF RcptTo, handle_lmtp_rcpt_to, handle_inbound_rcpt_to, handle_rcpt_to, Named
<1>6. sess' = [sess EXCEPT ![s] = f]
  BY <1>5, Zenon DEF Rcpt
<1>7. /\ f \in SessRecord /\ f.job = e.job /\ f.rcpts = Append(e.rcpts, r) /\ f.pc = e.pc
      /\ f.data = e.data /\ f.gone = e.gone
  BY <1>3, <1>4, Zenon DEF SessRecord
<1> HIDE DEF f
<1>8. /\ sess' \in [Sessions -> SessRecord \cup {None}] /\ sess'[s] = f
      /\ \A t \in Sessions \ {s} : sess'[t] = sess[t]
  BY <1>1, <1>6, <1>7, Zenon DEF SmtpTypes
<1>9. r \in queue[e.job].all
  <2>1. queue[e.job] \in JobRecord
    BY <1>1, <1>2, Zenon DEF SessOK, Busy
  <2>2. queue[e.job] # None
    BY <2>1, SmtpSessionAssumption, Zenon
  <2> QED BY <1>2, <1>3, <2>2, Zenon DEF SmtpInv
<1>13. \A j : Down(j)' <=> Down(j)
  BY <1>2, SameDown, Zenon
<1>10. SessOK(s)'
  BY <1>1, <1>2, <1>3, <1>4, <1>7, <1>8, <1>9, <1>13, Zenon DEF SessOK, Busy
<1>11. \A j \in Jobs : Active(s, j)' => Active(s, j)
  BY <1>2, <1>7, <1>8, Zenon DEF Active
<1>12. \A j \in Jobs, q \in Addrs : ~HoldsAt(s, j, q)
  BY <1>2, Zenon DEF HoldsAt, Busy
<1> QED BY <1>2, <1>8, <1>10, <1>11, <1>12, EnvelopeStepKeeps, Zenon

\* DATA keeps the envelope.
LEMMA DataKeeps ==
  ASSUME SmtpInv, NEW s \in Sessions, Data(s) PROVE SmtpInv'
<1>1. SmtpTypes /\ SessOK(s)
  BY DEF SmtpInv
<1> DEFINE e == sess[s]
           f == [e EXCEPT !.data = TRUE]
<1>2. /\ e # None /\ e.pc = "cmd" /\ e.job # None /\ sess' = [sess EXCEPT ![s] = f]
      /\ UNCHANGED <<queue, box, relayed, dropped, acked, unsure>>
  BY Zenon DEF Data, Commands
<1>3. e \in SessRecord
  BY <1>1, <1>2, RecordFields, Zenon
<1>4. /\ f \in SessRecord /\ f.job = e.job /\ f.rcpts = e.rcpts /\ f.pc = e.pc
      /\ f.gone = e.gone
  BY <1>3, Zenon DEF SessRecord
<1> HIDE DEF f
<1>5. /\ sess' \in [Sessions -> SessRecord \cup {None}] /\ sess'[s] = f
      /\ \A t \in Sessions \ {s} : sess'[t] = sess[t]
  BY <1>1, <1>2, <1>4, Zenon DEF SmtpTypes
<1>9. \A j : Down(j)' <=> Down(j)
  BY <1>2, SameDown, Zenon
<1>6. SessOK(s)'
  BY <1>1, <1>2, <1>4, <1>5, <1>9, Zenon DEF SessOK, Busy
<1>7. \A j \in Jobs : Active(s, j)' => Active(s, j)
  BY <1>2, <1>4, <1>5, Zenon DEF Active
<1>8. \A j \in Jobs, r \in Addrs : ~HoldsAt(s, j, r)
  BY <1>2 DEF HoldsAt, Busy
<1> QED BY <1>2, <1>5, <1>6, <1>7, <1>8, EnvelopeStepKeeps, Zenon

\* RSET, a transaction left, QUIT, and the end of a refused message let go of the job.
LEMMA LetGoKeeps ==
  ASSUME SmtpInv, NEW s \in Sessions, Rset(s) \/ Forsake(s) \/ Quit(s) \/ TextEnds(s)
  PROVE  SmtpInv'
<1>1. SmtpTypes /\ SessOK(s)
  BY DEF SmtpInv
<1> DEFINE e == sess[s]
<1>2. /\ e # None /\ ~Busy(e) /\ ~e.data
      /\ UNCHANGED <<queue, box, relayed, dropped, acked, unsure>>
  BY <1>1, Zenon DEF Rset, Forsake, Quit, Commands, TextEnds, Busy, SessOK
<1>3. e \in SessRecord /\ e.port \in Ports /\ e.authed \in BOOLEAN /\ ~e.gone
  BY <1>1, <1>2, RecordFields, Zenon DEF SessOK, Busy
<1>4. /\ sess' \in [Sessions -> SessRecord \cup {None}]
      /\ \A t \in Sessions \ {s} : sess'[t] = sess[t]
      /\ sess'[s] # None => /\ sess'[s].job = None /\ sess'[s].pc = "cmd"
                            /\ ~sess'[s].data /\ ~sess'[s].gone
  <2>1. CASE Rset(s)
    <3>1. sess' = [sess EXCEPT ![s] = Envelope(e.port, e.authed)]
      BY <2>1 DEF Rset
    <3> QED BY <1>1, <1>3, <3>1, EnvelopeIs, Zenon DEF SmtpTypes
  <2>2. CASE Forsake(s)
    <3> DEFINE f == [e EXCEPT !.job = None]
    <3>1. sess' = [sess EXCEPT ![s] = f]
      BY <2>2 DEF Forsake
    <3>2. f \in SessRecord /\ f.job = None /\ f.pc = e.pc /\ f.data = e.data /\ f.gone = e.gone
      BY <1>3, Zenon DEF SessRecord
    <3> HIDE DEF f
    <3>3. sess'[s] = f /\ e.pc = "cmd"
      BY <1>1, <2>2, <3>1 DEF SmtpTypes, Forsake, Commands
    <3> QED BY <1>1, <1>2, <1>3, <3>1, <3>2, <3>3, Zenon DEF SmtpTypes
  <2>3. CASE Quit(s) \/ (TextEnds(s) /\ sess' = [sess EXCEPT ![s] = None])
    BY <1>1, <2>3, Zenon DEF Quit, SmtpTypes
  <2>4. CASE sess' = [sess EXCEPT ![s] = [e EXCEPT !.job = None, !.pc = "cmd"]]
    <3> DEFINE f == [e EXCEPT !.job = None, !.pc = "cmd"]
    <3>1. f \in SessRecord /\ f.job = None /\ f.pc = "cmd" /\ f.data = e.data /\ f.gone = e.gone
      BY <1>3, Zenon DEF SessRecord
    <3>2. sess' = [sess EXCEPT ![s] = f]
      BY <2>4
    <3> HIDE DEF f
    <3> QED BY <1>1, <1>2, <1>3, <3>1, <3>2, Zenon DEF SmtpTypes
  <2> QED BY <2>1, <2>2, <2>3, <2>4, Zenon DEF TextEnds
<1>5. SessOK(s)'
  BY <1>4, Zenon DEF SessOK, Busy
<1>6. \A j \in Jobs : ~Active(s, j)'
  BY <1>4 DEF Active
<1>7. \A j \in Jobs, r \in Addrs : ~HoldsAt(s, j, r)
  BY <1>2 DEF HoldsAt, Busy
<1> QED BY <1>2, <1>4, <1>5, <1>6, <1>7, EnvelopeStepKeeps, Zenon

\* The job of a session whose client has not gone is the session's alone.
LEMMA OwnJob ==
  ASSUME SmtpInv, NEW s \in Sessions, sess[s] # None, sess[s].job # None, ~sess[s].gone
  PROVE  /\ sess[s].job \in Jobs /\ queue[sess[s].job] \in JobRecord
         /\ queue[sess[s].job] # None
         /\ \A t \in Sessions \ {s} : ~Active(t, sess[s].job)
<1>1. SmtpTypes /\ SessOK(s) /\ OneActive
  BY DEF SmtpInv
<1>2. sess[s].job \in Jobs
  BY <1>1, RecordFields, Zenon
<1>3. queue[sess[s].job] \in JobRecord
  BY <1>1, Zenon DEF SessOK, Busy
<1>4. Active(s, sess[s].job)
  BY DEF Active
<1> QED BY <1>1, <1>2, <1>3, <1>4, SmtpSessionAssumption, Zenon DEF OneActive

\* What the client's bookkeeping does to the queue.
LEMMA QueueUpdate ==
  ASSUME SmtpTypes, NEW j \in Jobs, queue[j] \in JobRecord,
         NEW T \in SUBSET queue[j].todo,
         \/ queue' = [queue EXCEPT ![j].todo = T]
         \/ queue' = [queue EXCEPT ![j] = [queue[j] EXCEPT !.tries = queue[j].tries + 1, !.todo = T]]
  PROVE  /\ queue' \in [Jobs -> JobRecord \cup {None}] /\ QueueMoves
         /\ \A i \in Jobs \ {j} : queue'[i] = queue[i]
         /\ \A i \in Jobs : queue[i] = None => queue'[i] = None
         /\ queue'[j].todo = T
<1> DEFINE q == queue[j]
           k == q.tries + 1
<1>1. q \in JobRecord /\ T \subseteq Addrs /\ k \in Nat
  BY DEF JobRecord
<1> HIDE DEF k
<1>2. /\ [q EXCEPT !.todo = T] \in JobRecord
      /\ Same([q EXCEPT !.todo = T], q) /\ [q EXCEPT !.todo = T].todo = T
  BY <1>1, Zenon DEF JobRecord, Same
<1>3. /\ [q EXCEPT !.tries = k, !.todo = T] \in JobRecord
      /\ Same([q EXCEPT !.tries = k, !.todo = T], q)
      /\ [q EXCEPT !.tries = k, !.todo = T].todo = T
  BY <1>1, Zenon DEF JobRecord, Same
<1>4. PICK n : /\ n \in JobRecord /\ Same(n, q) /\ n.todo = T
               /\ queue' = [queue EXCEPT ![j] = n]
  BY <1>2, <1>3, Zenon DEF k
<1>5. /\ queue' \in [Jobs -> JobRecord \cup {None}] /\ queue'[j] = n
      /\ \A i \in Jobs \ {j} : queue'[i] = queue[i]
  BY <1>4 DEF SmtpTypes
<1>6. QueueMoves
  <2>1. \A i \in Jobs : Same(queue[i], queue[i])
    BY DEF Same
  <2> QED BY <1>4, <1>5, <2>1, Zenon DEF QueueMoves
<1>7. queue[j] # None
  BY SmtpSessionAssumption
<1> QED BY <1>4, <1>5, <1>6, <1>7, Zenon

\* What an answer for the recipients in D changes in a job.
LEMMA QueueCut ==
  ASSUME SmtpTypes, NEW j \in Jobs, queue[j] \in JobRecord, NEW D,
         queue' = [queue EXCEPT ![j].todo = queue[j].todo \ D]
  PROVE  /\ queue' \in [Jobs -> JobRecord \cup {None}] /\ QueueMoves
         /\ \A i \in Jobs \ {j} : queue'[i] = queue[i]
         /\ \A i \in Jobs : queue[i] = None => queue'[i] = None
         /\ queue'[j].todo = queue[j].todo \ D
<1> DEFINE T == queue[j].todo \ D
<1>1. T \in SUBSET queue[j].todo /\ queue' = [queue EXCEPT ![j].todo = T]
  BY Zenon
<1> HIDE DEF T
<1>2. /\ queue' \in [Jobs -> JobRecord \cup {None}] /\ QueueMoves
      /\ \A i \in Jobs \ {j} : queue'[i] = queue[i]
      /\ \A i \in Jobs : queue[i] = None => queue'[i] = None
      /\ queue'[j].todo = T
  BY <1>1, QueueUpdate, Zenon
<1> QED BY <1>2, Zenon DEF T

\* What a retry changes in a job.
LEMMA RetriedIs ==
  ASSUME SmtpTypes, NEW j \in Jobs, queue[j] \in JobRecord, queue' = Retried(j)
  PROVE  /\ queue' \in [Jobs -> JobRecord \cup {None}] /\ QueueMoves
         /\ \A i \in Jobs \ {j} : queue'[i] = queue[i]
         /\ \A i \in Jobs : queue[i] = None => queue'[i] = None
<1> DEFINE T == IF queue[j].tries + 1 < MaxTries THEN queue[j].todo ELSE {}
<1>1. T \in SUBSET queue[j].todo
  OBVIOUS
<1>2. queue' = [queue EXCEPT ![j] = [queue[j] EXCEPT !.tries = queue[j].tries + 1, !.todo = T]]
  BY DEF Retried, SmtpTypes
<1> HIDE DEF T
<1> QED BY <1>1, <1>2, QueueUpdate, Zenon

\* The client gives the job up, between commands or in the middle of DATA.
LEMMA GiveUpKeeps ==
  ASSUME SmtpInv, NEW s \in Sessions, sess[s] # None, sess[s].job # None, sess[s].pc = "cmd",
         queue' = [queue EXCEPT ![sess[s].job].todo = {}],
         NEW f \in SessRecord, sess' = [sess EXCEPT ![s] = f],
         ~f.data, ~f.gone, ~Busy(f),
         \/ f.job = None /\ f.pc # "text"
         \/ f.job = sess[s].job /\ Down(f.job),
         UNCHANGED <<box, relayed, dropped, acked, unsure>>
  PROVE  SmtpInv'
<1>1. SmtpTypes /\ SessOK(s) /\ AckedOK
  BY DEF SmtpInv
<1> DEFINE e == sess[s]
<1>3. ~e.gone
  BY <1>1, Zenon DEF SessOK, Busy
<1>4. e.job \in Jobs /\ queue[e.job] \in JobRecord /\ \A t \in Sessions \ {s} : ~Active(t, e.job)
  BY <1>3, OwnJob, Zenon
<1>6. /\ sess' \in [Sessions -> SessRecord \cup {None}] /\ sess'[s] = f
      /\ \A t \in Sessions \ {s} : sess'[t] = sess[t]
  BY <1>1, Zenon DEF SmtpTypes
<1>7. /\ queue' \in [Jobs -> JobRecord \cup {None}] /\ QueueMoves
      /\ \A i \in Jobs \ {e.job} : queue'[i] = queue[i]
      /\ \A i \in Jobs : queue[i] = None => queue'[i] = None
  <2>1. {} \in SUBSET queue[e.job].todo
    OBVIOUS
  <2> QED BY <1>1, <1>4, <2>1, QueueUpdate, Zenon
<1>8. SmtpTypes' /\ Grows /\ AckedOK'
  BY <1>1, <1>6, <1>7, StoresNothing, StillHandled, Zenon
<1>9. SessOK(s)'
  <2>1. PICK j : j = f.job
    OBVIOUS
  <2>2. j # None => Down(j)' /\ queue'[j] \in JobRecord
    BY <1>4, <1>7, <2>1, StaysDown, Zenon DEF QueueMoves
  <2>3. f.pc = "text" => j # None
    BY <2>1, Zenon
  <2>4. f.pc = "cmd" \/ f.pc = "text"
    BY DEF SessRecord, Busy
  <2> QED BY <1>6, <2>1, <2>2, <2>3, <2>4, Zenon DEF SessOK, Busy
<1>10. \A j \in Jobs, r \in Addrs : ~HoldsAt(s, j, r)
  BY DEF HoldsAt, Busy
<1>11. \A t \in Sessions \ {s} : \A j \in Jobs : Active(t, j) => queue'[j] = queue[j]
  BY <1>4, <1>7, Zenon
<1>12. \A j \in Jobs : Active(s, j)' => Active(s, j)
  BY <1>3, <1>6, Zenon DEF Active
<1> QED BY <1>6, <1>7, <1>8, <1>9, <1>10, <1>11, <1>12, SessionStepKeeps, Zenon

\* 503 without a sender: the client gives the job up.
LEMMA BadSequenceKeeps ==
  ASSUME SmtpInv, NEW s \in Sessions, BadSequence(s) PROVE SmtpInv'
<1>1. SmtpTypes /\ SessOK(s)
  BY DEF SmtpInv
<1> DEFINE e == sess[s]
           f == [e EXCEPT !.job = None]
<1>2. /\ e # None /\ e.job # None /\ e.pc = "cmd" /\ ~e.data
      /\ queue' = [queue EXCEPT ![e.job].todo = {}] /\ sess' = [sess EXCEPT ![s] = f]
      /\ UNCHANGED <<box, relayed, dropped, acked, unsure>>
  BY DEF BadSequence, Commands
<1>3. e \in SessRecord /\ ~e.gone
  BY <1>1, <1>2, RecordFields, Zenon DEF SessOK, Busy
<1>4. f \in SessRecord /\ f.job = None /\ f.pc = e.pc /\ f.data = e.data /\ f.gone = e.gone
  BY <1>3, Zenon DEF SessRecord
<1> HIDE DEF f
<1> QED BY <1>2, <1>3, <1>4, GiveUpKeeps, Zenon DEF Busy

\* 552: the envelope is reset and the rest of the message read as commands.
LEMMA TooLargeKeeps ==
  ASSUME SmtpInv, NEW s \in Sessions, TooLarge(s) PROVE SmtpInv'
<1>1. SmtpTypes /\ SessOK(s)
  BY DEF SmtpInv
<1> DEFINE e == sess[s]
           g == Envelope(e.port, e.authed)
           f == [g EXCEPT !.job = e.job, !.pc = "text"]
<1>2. /\ e # None /\ e.data /\ queue' = [queue EXCEPT ![e.job].todo = {}]
      /\ queue[e.job].class = "late" /\ sess' = [sess EXCEPT ![s] = f]
      /\ UNCHANGED <<box, relayed, dropped, acked, unsure>>
  BY Zenon DEF TooLarge, Oversized
<1>3. /\ e.pc = "cmd" /\ e.job # None /\ e.port \in Ports /\ e.authed \in BOOLEAN
      /\ e.job \in Jobs /\ Down(e.job)
  BY <1>1, <1>2, RecordFields, Zenon DEF SessOK, Down, TurnedDown
<1>4. g \in SessRecord /\ ~g.data /\ ~g.gone
  BY <1>3, EnvelopeIs, Zenon
<1> HIDE DEF g
<1>5. f \in SessRecord /\ f.job = e.job /\ f.pc = "text" /\ ~f.data /\ ~f.gone
  BY <1>3, <1>4, Zenon DEF SessRecord
<1> HIDE DEF f
<1> QED BY <1>2, <1>3, <1>5, GiveUpKeeps, Zenon DEF Busy

\* A line of a refused message that reads as a command.
LEMMA TextLineKeeps ==
  ASSUME SmtpInv, NEW s \in Sessions, TextLine(s) PROVE SmtpInv'
<1>1. SmtpTypes /\ SessOK(s)
  BY DEF SmtpInv
<1> DEFINE e == sess[s]
<1>2. /\ e # None /\ e.pc = "text" /\ UNCHANGED <<queue, box, relayed, dropped, acked, unsure>>
  BY DEF TextLine
<1>3. e \in SessRecord /\ ~e.gone /\ ~e.data /\ e.rcpts \in Seq(Addrs) /\ e.job # None /\ Down(e.job)
  BY <1>1, <1>2, RecordFields, Zenon DEF SessOK, Busy
<1>4. PICK f : /\ sess' = [sess EXCEPT ![s] = f] /\ f \in SessRecord /\ f.job = e.job /\ ~f.gone
               /\ \/ f.pc = "text" /\ ~f.data
                  \/ f.pc = "cmd"
  <2>1. CASE sess' = [sess EXCEPT ![s] = MailFrom(e, "plain")]
    <3>1. MailFrom(e, "plain") = Sender(e) \/ MailFrom(e, "plain") = e
      BY Zenon DEF MailFrom, handle_lmtp_mail_from, handle_inbound_mail_from, handle_mail_from
    <3>2. /\ Sender(e) \in SessRecord /\ Sender(e).job = e.job /\ Sender(e).pc = "text"
          /\ ~Sender(e).data /\ ~Sender(e).gone
      BY <1>2, <1>3, SenderIs, Zenon
    <3> QED BY <1>2, <1>3, <2>1, <3>1, <3>2, Zenon
  <2>2. CASE \E r \in Addrs : sess' = [sess EXCEPT ![s] = RcptTo(e, r)]
    <3>1. PICK r \in Addrs : sess' = [sess EXCEPT ![s] = RcptTo(e, r)]
      BY <2>2
    <3> DEFINE g == [e EXCEPT !.rcpts = Append(e.rcpts, r)]
    <3>2. RcptTo(e, r) = e \/ RcptTo(e, r) = g
      BY Zenon DEF RcptTo, handle_lmtp_rcpt_to, handle_inbound_rcpt_to, handle_rcpt_to, Named
    <3>3. Append(e.rcpts, r) \in Seq(Addrs)
      BY <1>3, RangeAppend
    <3>4. g \in SessRecord /\ g.job = e.job /\ g.pc = e.pc /\ g.data = e.data /\ g.gone = e.gone
      BY <1>3, <3>3, Zenon DEF SessRecord
    <3> HIDE DEF g
    <3> QED BY <1>2, <1>3, <3>1, <3>2, <3>4, Zenon
  <2>3. CASE sess' = [sess EXCEPT ![s] = [e EXCEPT !.data = TRUE, !.pc = "cmd"]]
    <3> DEFINE g == [e EXCEPT !.data = TRUE, !.pc = "cmd"]
    <3>1. g \in SessRecord /\ g.job = e.job /\ g.pc = "cmd" /\ g.gone = e.gone
      BY <1>3, Zenon DEF SessRecord
    <3>2. sess' = [sess EXCEPT ![s] = g]
      BY <2>3
    <3> HIDE DEF g
    <3> QED BY <1>3, <3>1, <3>2, Zenon
  <2> QED BY <2>1, <2>2, <2>3, Zenon DEF TextLine
<1>5. /\ sess' \in [Sessions -> SessRecord \cup {None}] /\ sess'[s] = f
      /\ \A t \in Sessions \ {s} : sess'[t] = sess[t]
  BY <1>1, <1>4, Zenon DEF SmtpTypes
<1>6. SessOK(s)'
  <2>1. PICK j : j = e.job
    OBVIOUS
  <2>2. Down(j)' /\ queue'[j] \in JobRecord
    BY <1>2, <1>3, <2>1, SameDown, Zenon DEF Down
  <2> QED BY <1>3, <1>4, <1>5, <2>1, <2>2, Zenon DEF SessOK, Busy
<1>7. \A j \in Jobs : Active(s, j)' => Active(s, j)
  BY <1>2, <1>3, <1>4, <1>5, Zenon DEF Active
<1>8. \A j \in Jobs, r \in Addrs : ~HoldsAt(s, j, r)
  BY <1>2 DEF HoldsAt, Busy
<1> QED BY <1>2, <1>5, <1>6, <1>7, <1>8, EnvelopeStepKeeps, Zenon

\* The end of DATA: process starts with every recipient left, or the message is
\* refused before any is looked at.
LEMMA DotKeeps ==
  ASSUME SmtpInv, NEW s \in Sessions, Dot(s) PROVE SmtpInv'
<1>1. SmtpTypes /\ SessOK(s)
  BY DEF SmtpInv
<1> DEFINE e == sess[s]
           res == Screened(e.port, queue[e.job].class)
           pc == IF res = "ok" THEN "ingest" ELSE "reply"
           f == [e EXCEPT !.data = FALSE, !.res = res, !.left = Range(e.rcpts), !.pc = pc]
<1>2. /\ e # None /\ e.data /\ sess' = [sess EXCEPT ![s] = f]
      /\ UNCHANGED <<queue, box, relayed, dropped, acked, unsure>>
  BY Zenon DEF Dot, normalized_recipients
<1>3. /\ e \in SessRecord /\ e.pc = "cmd" /\ e.job # None /\ ~e.gone
      /\ Range(e.rcpts) \subseteq Addrs
  BY <1>1, <1>2, RecordFields, Zenon DEF SessOK, Busy
<1>4. res \in {"ok", "fail", "dmarc"} /\ (res = "dmarc" => e.port = "smtp25")
  BY Zenon DEF Screened
<1>5. pc \in {"ingest", "reply"} /\ (res = "ok" <=> pc = "ingest")
  BY Zenon
<1> HIDE DEF res, pc
<1>6. /\ f \in SessRecord /\ f.job = e.job /\ f.rcpts = e.rcpts /\ f.pc = pc
      /\ f.port = e.port /\ f.res = res /\ f.left = Range(e.rcpts)
      /\ ~f.data /\ f.gone = e.gone
  BY <1>3, <1>4, <1>5, Zenon DEF SessRecord
<1> HIDE DEF f
<1>7. /\ sess' \in [Sessions -> SessRecord \cup {None}] /\ sess'[s] = f
      /\ \A t \in Sessions \ {s} : sess'[t] = sess[t]
  BY <1>1, <1>2, <1>6, Zenon DEF SmtpTypes
<1>8. SessOK(s)'
  <2>5. PICK j : j = e.job
    OBVIOUS
  <2>1. /\ queue'[j] \in JobRecord
        /\ Down(j)' \/ /\ Range(e.rcpts) \subseteq queue'[j].all
                       /\ Range(e.rcpts) \subseteq queue'[j].todo
    <3>1. Down(j)' <=> Down(j)
      BY <1>2, SameDown, Zenon
    <3> QED BY <1>1, <1>2, <1>3, <2>5, <3>1, Zenon DEF SessOK
  <2>2. f.pc = "reply" => f.res # "ok"
    BY <1>5, <1>6, Zenon
  <2>3. Range(f.rcpts) \ f.left = {}
    BY <1>6, Zenon
  <2>4. /\ f.pc \in {"ingest", "reply"} /\ ~f.data /\ ~f.gone /\ f.job = e.job /\ f.job # None
        /\ f.rcpts = e.rcpts /\ (f.pc = "ingest" => f.res = "ok")
        /\ f.res = "dmarc" => f.port = "smtp25"
        /\ f.left \subseteq Range(f.rcpts)
    BY <1>3, <1>4, <1>5, <1>6, Zenon
  <2> QED BY <1>7, <2>1, <2>2, <2>3, <2>4, <2>5, ZenonT(60) DEF SessOK, Busy
<1>9. \A j \in Jobs : Active(s, j)' => Active(s, j)
  BY <1>2, <1>6, <1>7, Zenon DEF Active
<1>10. \A j \in Jobs, r \in Addrs : ~HoldsAt(s, j, r)
  BY <1>3 DEF HoldsAt, Busy
<1> QED BY <1>2, <1>7, <1>8, <1>9, <1>10, EnvelopeStepKeeps, Zenon

\* Ingestion is over when no recipient is left; the reply comes next.
LEMMA FinishKeeps ==
  ASSUME SmtpInv, NEW s \in Sessions, Finish(s) PROVE SmtpInv'
<1>1. SmtpTypes /\ SessOK(s)
  BY DEF SmtpInv
<1> DEFINE e == sess[s]
           f == [e EXCEPT !.pc = "reply"]
<1>2. /\ e # None /\ e.pc = "ingest" /\ e.left = {} /\ sess' = [sess EXCEPT ![s] = f]
      /\ UNCHANGED <<queue, box, relayed, dropped, acked, unsure>>
  BY DEF Finish, Ingesting
<1>3. e \in SessRecord
  BY <1>1, <1>2, RecordFields, Zenon
<1>4. /\ f \in SessRecord /\ f.job = e.job /\ f.rcpts = e.rcpts /\ f.pc = "reply"
      /\ f.port = e.port /\ f.res = e.res /\ f.left = e.left
      /\ f.data = e.data /\ f.gone = e.gone
  BY <1>3, Zenon DEF SessRecord
<1> HIDE DEF f
<1>5. /\ sess' \in [Sessions -> SessRecord \cup {None}] /\ sess'[s] = f
      /\ \A t \in Sessions \ {s} : sess'[t] = sess[t]
  BY <1>1, <1>2, <1>4, Zenon DEF SmtpTypes
<1>6. \A j, r : Handled(j, r)' = Handled(j, r)
  BY <1>2 DEF Handled
<1>10. \A j : Down(j)' <=> Down(j)
  BY <1>2, SameDown, Zenon
<1>7. SessOK(s)'
  BY <1>1, <1>2, <1>4, <1>5, <1>6, <1>10, Zenon DEF SessOK, Busy
<1>8. \A j \in Jobs : Active(s, j)' => Active(s, j)
  BY <1>2, <1>4, <1>5, Zenon DEF Active
<1>9. \A j \in Jobs, r \in Addrs : HoldsAt(s, j, r) => HoldsAt(s, j, r)'
  BY <1>4, <1>5, SmtpSessionAssumption, Zenon DEF HoldsAt, Active, Busy
<1> QED BY <1>2, <1>5, <1>7, <1>8, <1>9, EnvelopeStepKeeps, Zenon

\* process has done with a recipient, whatever it did: the session moves on to the
\* next and still holds those it held.
LEMMA DoneMoves ==
  ASSUME SmtpInv, NEW s \in Sessions, Ingesting(s),
         NEW i \in Jobs, NEW c \in Addrs, sess[s].job = i, Current(s) = c, c \in sess[s].left,
         Done(s, TRUE) \/ Done(s, FALSE), UNCHANGED queue, Grows,
         box' \in [Jobs -> [Addrs -> Nat]], Handled(i, c)'
  PROVE  /\ SmtpTypes' /\ \A t \in Sessions \ {s} : sess'[t] = sess[t]
         /\ SessOK(s)'
         /\ \A j \in Jobs : Active(s, j)' = Active(s, j)
         /\ \A j \in Jobs, r \in Addrs : HoldsAt(s, j, r) => HoldsAt(s, j, r)'
         /\ \A j \in Jobs : Active(s, j) => HoldsAt(s, j, c)'
<1> DEFINE e == sess[s]
           f == sess'[s]
<1>1. SmtpTypes /\ SessOK(s) /\ e # None /\ e.pc = "ingest"
  BY DEF SmtpInv, Ingesting
<1>2. /\ e \in SessRecord /\ e.job \in Jobs /\ e.left \subseteq Addrs
      /\ Range(e.rcpts) \subseteq Addrs /\ e.n \in Nat /\ e.n + 1 \in Nat
  <2>1. /\ e \in SessRecord /\ e.job \in Jobs /\ e.left \subseteq Addrs
        /\ Range(e.rcpts) \subseteq Addrs /\ e.n \in Nat
    BY <1>1, RecordFields, Zenon
  <2>2. e.n + 1 \in Nat
    BY <2>1
  <2> QED BY <2>1, <2>2, Zenon
<1>4. PICK k \in Nat : sess' = [sess EXCEPT ![s] = [e EXCEPT !.left = e.left \ {c}, !.n = k]]
  BY <1>2, Zenon DEF Done
<1>5. /\ [e EXCEPT !.left = e.left \ {c}, !.n = k] \in SessRecord
      /\ [e EXCEPT !.left = e.left \ {c}, !.n = k].job = e.job
      /\ [e EXCEPT !.left = e.left \ {c}, !.n = k].rcpts = e.rcpts
      /\ [e EXCEPT !.left = e.left \ {c}, !.n = k].pc = e.pc
      /\ [e EXCEPT !.left = e.left \ {c}, !.n = k].res = e.res
      /\ [e EXCEPT !.left = e.left \ {c}, !.n = k].data = e.data
      /\ [e EXCEPT !.left = e.left \ {c}, !.n = k].gone = e.gone
      /\ [e EXCEPT !.left = e.left \ {c}, !.n = k].left = e.left \ {c}
  BY <1>2, Zenon DEF SessRecord
<1>6. f = [e EXCEPT !.left = e.left \ {c}, !.n = k] /\ \A t \in Sessions \ {s} : sess'[t] = sess[t]
  BY <1>1, <1>4, Zenon DEF SmtpTypes
<1>7. /\ f \in SessRecord /\ f.job = e.job /\ f.rcpts = e.rcpts /\ f.pc = e.pc
      /\ f.res = e.res /\ f.data = e.data /\ f.gone = e.gone /\ f.left = e.left \ {c}
  BY <1>5, <1>6, Zenon
<1>8. SmtpTypes'
  BY <1>1, <1>4, <1>5, Zenon DEF SmtpTypes
<1>9. \A r \in Addrs : Handled(i, r) => Handled(i, r)'
  <2> SUFFICES ASSUME NEW r \in Addrs, Handled(i, r) PROVE Handled(i, r)'
    OBVIOUS
  <2>1. box[i][r] \in Nat /\ box'[i][r] \in Nat
    BY <1>1, <1>2, Zenon DEF SmtpTypes
  <2> QED BY <2>1, StaysHandled, Zenon
<1>10. \A r \in Range(f.rcpts) \ f.left : Handled(i, r)'
  BY <1>1, <1>2, <1>7, <1>9, Zenon DEF SessOK, Busy
<1>16. \A j : Down(j)' <=> Down(j)
  BY SameDown, Zenon
<1>11. SessOK(s)'
  BY <1>1, <1>2, <1>7, <1>10, <1>16, Zenon DEF SessOK, Busy, Grows
<1>12. f # None
  BY <1>7, SmtpSessionAssumption, Zenon
<1>13. \A j \in Jobs : Active(s, j)' = Active(s, j)
  BY <1>1, <1>7, <1>12, Zenon DEF Active
<1>14. \A j \in Jobs, r \in Addrs : HoldsAt(s, j, r) => HoldsAt(s, j, r)'
  BY <1>7, <1>13, Zenon DEF HoldsAt, Busy
<1>15. \A j \in Jobs : Active(s, j) => HoldsAt(s, j, c)'
  BY <1>1, <1>7, <1>13, Zenon DEF SessOK, HoldsAt, Busy
<1> QED BY <1>6, <1>8, <1>11, <1>13, <1>14, <1>15, Zenon

\* The recipient a session is at is one of those left.
LEMMA CurrentIs ==
  ASSUME RcptsOrdered, SmtpInv, NEW s \in Sessions, Ingesting(s), sess[s].left # {}
  PROVE  /\ Current(s) \in sess[s].left /\ Current(s) \in Addrs /\ sess[s].job \in Jobs
         /\ Current(s) \in Range(sess[s].rcpts)
         /\ sess[s] # None /\ sess[s].res = "ok" /\ sess[s].job # None
<1>1. SmtpTypes /\ SessOK(s) /\ sess[s] # None /\ sess[s].pc = "ingest"
  BY DEF SmtpInv, Ingesting
<1>2. /\ sess[s].left \subseteq Addrs /\ sess[s].job \in Jobs
      /\ sess[s].left \subseteq Range(sess[s].rcpts) /\ sess[s].res = "ok" /\ sess[s].job # None
  BY <1>1, RecordFields, Zenon DEF SessOK, Busy
<1>3. Current(s) \in sess[s].left
  BY <1>2, Zenon DEF RcptsOrdered, Current
<1> QED BY <1>1, <1>2, <1>3, Zenon

\* A recipient dropped for its own reason, or forwarded.
LEMMA PassKeeps ==
  ASSUME RcptsOrdered, SmtpInv, NEW s \in Sessions, DropDelivery(s) \/ relay_off_platform(s)
  PROVE  SmtpInv'
<1>1. SmtpTypes /\ AckedOK
  BY DEF SmtpInv
<1>2. Ingesting(s) /\ sess[s].left # {}
  BY Zenon DEF DropDelivery, relay_off_platform
<1>3. PICK i \in Jobs, c \in Addrs : sess[s].job = i /\ Current(s) = c /\ c \in sess[s].left
  BY <1>2, CurrentIs, Zenon
<1>4. /\ Done(s, TRUE) \/ Done(s, FALSE)
      /\ UNCHANGED <<queue, box, acked, unsure>>
      /\ relayed \subseteq relayed' /\ dropped \subseteq dropped'
      /\ <<i, c>> \in relayed' \cup dropped'
  BY <1>3, Zenon DEF DropDelivery, relay_off_platform
<1>5. Grows /\ Handled(i, c)' /\ box' \in [Jobs -> [Addrs -> Nat]]
  BY <1>1, <1>4 DEF Grows, Handled, SmtpTypes
<1>6. AckedOK'
  BY <1>1, <1>4, Zenon DEF AckedOK, AckedHandled
<1>7. /\ SmtpTypes' /\ \A t \in Sessions \ {s} : sess'[t] = sess[t]
      /\ SessOK(s)'
      /\ \A j \in Jobs : Active(s, j)' = Active(s, j)
      /\ \A j \in Jobs, r \in Addrs : HoldsAt(s, j, r) => HoldsAt(s, j, r)'
  BY <1>2, <1>3, <1>4, <1>5, DoneMoves, Zenon
<1>8. QueueMoves /\ \A j \in Jobs : queue'[j] = queue[j]
  BY <1>4, StillQueued
<1> QED BY <1>4, <1>5, <1>6, <1>7, <1>8, SessionStepKeeps, Zenon

\* A copy stored: it is the first, or the client has given this recipient's delivery
\* up as unknown before.
LEMMA DeliverKeeps ==
  ASSUME RcptsOrdered, SmtpInv, NEW s \in Sessions, Deliver(s) PROVE SmtpInv'
<1>1. SmtpTypes /\ AckedOK /\ OneActive /\ SessOK(s)
  BY DEF SmtpInv
<1>2. Ingesting(s) /\ sess[s].left # {}
  BY Zenon DEF Deliver
<1>3. PICK i \in Jobs, c \in Addrs : /\ sess[s].job = i /\ Current(s) = c /\ c \in sess[s].left
                                    /\ c \in Range(sess[s].rcpts)
  BY <1>2, CurrentIs, Zenon
<1>4. /\ Done(s, TRUE) /\ box' = [box EXCEPT ![i][c] = box[i][c] + 1]
      /\ UNCHANGED <<queue, relayed, dropped, acked, unsure>>
  BY <1>3, ZenonT(30) DEF Deliver
<1>5. /\ box[i][c] \in Nat /\ box'[i][c] = box[i][c] + 1
      /\ box' \in [Jobs -> [Addrs -> Nat]]
      /\ \A j \in Jobs, r \in Addrs : <<j, r>> # <<i, c>> => box'[j][r] = box[j][r]
      /\ \A j \in Jobs, r \in Addrs : box[j][r] \in Nat
  BY <1>1, <1>4 DEF SmtpTypes
<1>6. \A j \in Jobs, r \in Addrs : box'[j][r] >= box[j][r]
  BY <1>5
<1>7. Grows /\ Handled(i, c)'
  BY <1>4, <1>5, <1>6 DEF Grows, Handled
<1>8. AckedOK'
  <2>1. acked \subseteq Jobs \X Addrs /\ AckedHandled
    BY <1>1, Zenon DEF AckedOK
  <2>2. ASSUME NEW j \in Jobs, NEW r \in Addrs, <<j, r>> \in acked
        PROVE  <<j, r>> \in relayed' \cup dropped' \/ box'[j][r] > 0
    <3>1. Handled(j, r)
      BY <2>1, <2>2 DEF AckedHandled, Handled
    <3>2. box[j][r] \in Nat /\ box'[j][r] \in Nat
      BY <1>5, Zenon
    <3>3. Handled(j, r)'
      BY <1>7, <3>1, <3>2, StaysHandled, Zenon
    <3> QED BY <3>3, Zenon DEF Handled
  <2>3. ASSUME NEW p \in acked PROVE p \in relayed' \cup dropped' \/ box'[p[1]][p[2]] > 0
    <3>1. PICK j \in Jobs, r \in Addrs : p = <<j, r>>
      BY <2>1, <2>3
    <3>2. p[1] = j /\ p[2] = r
      BY <3>1
    <3> QED BY <2>2, <2>3, <3>1, <3>2, Zenon
  <2> QED BY <1>4, <2>1, <2>3, Zenon DEF AckedOK, AckedHandled
<1>9. /\ SmtpTypes' /\ \A t \in Sessions \ {s} : sess'[t] = sess[t]
      /\ SessOK(s)'
      /\ \A j \in Jobs : Active(s, j)' = Active(s, j)
      /\ \A j \in Jobs, r \in Addrs : HoldsAt(s, j, r) => HoldsAt(s, j, r)'
      /\ \A j \in Jobs : Active(s, j) => HoldsAt(s, j, c)'
  BY <1>2, <1>3, <1>4, <1>5, <1>7, DoneMoves, Zenon
<1>10. QueueMoves /\ \A j \in Jobs : queue'[j] = queue[j]
  BY <1>4, StillQueued
<1>11. Down(i) \/ <<i, c>> \in unsure' \/ (box'[i][c] = 1 /\ Wanted(i, c) /\ HoldsAt(s, i, c)')
  <2>1. CASE sess[s].gone
    BY <1>1, <1>2, <1>3, <1>4, <2>1, Zenon DEF SessOK, Ingesting
  <2>2. CASE ~sess[s].gone /\ ~Down(i)
    <3>1. Active(s, i) /\ c \in queue[i].todo /\ Wanted(i, c)
      BY <1>1, <1>2, <1>3, <2>2, Zenon DEF Active, Ingesting, SessOK, Wanted
    <3>2. ~Off(i, c)
      BY <3>1 DEF Off
    <3>3. ASSUME NEW t \in Sessions PROVE ~HoldsAt(t, i, c)
      BY <1>1, <1>3, <3>1, Zenon DEF HoldsAt, OneActive
    <3>4. CopyOK(i, c)
      BY DEF SmtpInv
    <3>5. CASE <<i, c>> \in unsure
      BY <1>4, <3>5, Zenon
    <3>6. CASE <<i, c>> \notin unsure
      <4>1. box[i][c] + 1 = 1
        BY <2>2, <3>2, <3>3, <3>4, <3>6, FreshCopy, Zenon
      <4> QED BY <1>5, <1>9, <3>1, <4>1, Zenon
    <3> QED BY <3>5, <3>6, Zenon
  <2> QED BY <2>1, <2>2, Zenon
<1> QED BY <1>5, <1>7, <1>8, <1>9, <1>10, <1>11, SessionStepKeeps, Zenon

\* An error of process: what it did so far may be repeated by the next attempt.
LEMMA FailKeeps ==
  ASSUME SmtpInv, NEW s \in Sessions, Reject(s) \/ DbError(s) PROVE SmtpInv'
<1>1. SmtpTypes /\ SessOK(s) /\ AckedOK
  BY DEF SmtpInv
<1> DEFINE e == sess[s]
           f == [e EXCEPT !.res = "fail", !.pc = "reply"]
<1>2. /\ e # None /\ e.pc = "ingest" /\ sess' = [sess EXCEPT ![s] = f]
      /\ unsure' = unsure \cup Pairs(e.job, Range(e.rcpts) \ e.left)
      /\ UNCHANGED <<queue, box, relayed, dropped, acked>>
  BY Zenon DEF Reject, DbError, Ingesting, Fails
<1>3. e \in SessRecord
  BY <1>1, <1>2, RecordFields, Zenon
<1>4. /\ f \in SessRecord /\ f.job = e.job /\ f.rcpts = e.rcpts /\ f.pc = "reply"
      /\ f.res = "fail" /\ f.left = e.left /\ f.data = e.data /\ f.gone = e.gone
  BY <1>3, ZenonT(30) DEF SessRecord
<1> HIDE DEF f
<1>5. /\ sess' \in [Sessions -> SessRecord \cup {None}] /\ sess'[s] = f
      /\ \A t \in Sessions \ {s} : sess'[t] = sess[t]
  BY <1>1, <1>2, <1>4, Zenon DEF SmtpTypes
<1>6. unsure \subseteq unsure' /\ \A r \in Range(e.rcpts) \ e.left : <<e.job, r>> \in unsure'
  BY <1>2, Zenon DEF Pairs
<1>7. SmtpTypes' /\ Grows /\ QueueMoves /\ AckedOK'
  <2>1. queue' \in [Jobs -> JobRecord \cup {None}]
    BY <1>1, <1>2, Zenon DEF SmtpTypes
  <2> QED BY <1>1, <1>2, <1>5, <1>6, <2>1, StoresNothing, StillQueued, StillHandled, Zenon
<1>11. \A j : Down(j)' <=> Down(j)
  BY <1>2, SameDown, Zenon
<1>8. SessOK(s)'
  BY <1>1, <1>2, <1>4, <1>5, <1>6, <1>11, Zenon DEF SessOK, Busy
<1>9. \A j \in Jobs : Active(s, j)' => Active(s, j)
  BY <1>2, <1>4, <1>5, Zenon DEF Active
<1>10. \A j \in Jobs, r \in Addrs : HoldsAt(s, j, r) => <<j, r>> \in unsure'
  BY <1>6, Zenon DEF HoldsAt, Active, Busy
<1> QED BY <1>2, <1>5, <1>7, <1>8, <1>9, <1>10, SessionStepKeeps, Zenon

\* 250 means that process went through all recipients without an error.
LEMMA PositiveAnswer ==
  ASSUME SmtpInv, NEW s \in Sessions, sess[s] # None, sess[s].pc = "reply"
  PROVE  /\ Answer(sess[s]) = "250" => sess[s].res = "ok"
         /\ sess[s].res = "ok" => Answer(sess[s]) # "451"
<1>1. /\ sess[s].port \in Ports /\ sess[s].res \in {"ok", "fail", "dmarc"}
      /\ sess[s].res = "dmarc" => sess[s].port = "smtp25"
  BY RecordFields, Zenon DEF SmtpInv, SessOK
<1> QED BY <1>1, Zenon DEF Answer, finalize_inbound_message, finalize_data_message, Ports

\* The answer: the client lets go of what was acknowledged or refused, and keeps the
\* rest for another attempt.
LEMMA ReplyKeeps ==
  ASSUME SmtpInv, NEW s \in Sessions, Reply(s) PROVE SmtpInv'
<1>1. SmtpTypes /\ SessOK(s) /\ AckedOK
  BY DEF SmtpInv
<1> DEFINE e == sess[s]
           told == Range(e.rcpts)
<1>2. /\ e # None /\ e.pc = "reply" /\ UNCHANGED <<box, relayed, dropped, unsure>>
  BY Zenon DEF Reply
<1>3. /\ e.job \in Jobs /\ e.job # None /\ e.port \in Ports /\ e.authed \in BOOLEAN
      /\ e.gone \in BOOLEAN /\ queue[e.job] \in JobRecord /\ told \subseteq Addrs
  BY <1>1, <1>2, RecordFields, Zenon DEF SessOK, Busy
<1>4. /\ sess' \in [Sessions -> SessRecord \cup {None}]
      /\ \A t \in Sessions \ {s} : sess'[t] = sess[t]
      /\ sess'[s] # None => /\ sess'[s].job = None /\ sess'[s].pc = "cmd"
                            /\ ~sess'[s].data /\ ~sess'[s].gone
  <2>1. sess' = [sess EXCEPT ![s] = IF e.gone THEN None ELSE Envelope(e.port, e.authed)]
    BY Zenon DEF Reply
  <2> QED BY <1>1, <1>3, <2>1, EnvelopeIs, Zenon DEF SmtpTypes
<1>5. SessOK(s)' /\ \A j \in Jobs : ~Active(s, j)'
  BY <1>4, Zenon DEF SessOK, Active, Busy
<1>6. CASE e.gone
  <2>1. UNCHANGED <<queue, acked>>
    BY <1>6 DEF Reply
  <2>2. SmtpTypes' /\ Grows /\ QueueMoves /\ AckedOK'
    <3>1. queue' \in [Jobs -> JobRecord \cup {None}] /\ unsure \subseteq unsure'
      BY <1>1, <1>2, <2>1, Zenon DEF SmtpTypes
    <3> QED BY <1>1, <1>2, <1>4, <2>1, <3>1, StoresNothing, StillQueued, StillHandled, Zenon
  <2>3. \A j \in Jobs, r \in Addrs : ~HoldsAt(s, j, r)
    BY <1>6, Zenon DEF HoldsAt, Active, Busy
  <2> QED BY <1>2, <1>4, <1>5, <2>1, <2>2, <2>3, SessionStepKeeps, Zenon
<1>7. CASE ~e.gone
  <2>1. /\ \/ queue' = [queue EXCEPT ![e.job].todo = {}]
           \/ Answer(e) = "451" /\ queue' = Retried(e.job)
           \/ Answer(e) # "451" /\ queue' = [queue EXCEPT ![e.job].todo = queue[e.job].todo \ told]
        /\ acked' = IF Answer(e) = "250" THEN acked \cup Pairs(e.job, told) ELSE acked
    BY <1>7, Zenon DEF Reply
  <2>2. \A t \in Sessions \ {s} : ~Active(t, e.job)
    BY <1>2, <1>3, <1>7, OwnJob, Zenon
  <2>3. /\ queue' \in [Jobs -> JobRecord \cup {None}] /\ QueueMoves
        /\ \A i \in Jobs \ {e.job} : queue'[i] = queue[i]
        /\ \A i \in Jobs : queue[i] = None => queue'[i] = None
        /\ Answer(e) # "451" => queue'[e.job].todo \subseteq queue[e.job].todo \ told
    <3>1. CASE Answer(e) = "451" /\ queue' = Retried(e.job)
      BY <1>1, <1>3, <3>1, RetriedIs, Zenon
    <3>2. CASE queue' = [queue EXCEPT ![e.job].todo = queue[e.job].todo \ told]
      <4> HIDE DEF told
      <4> QED BY <1>1, <1>3, <3>2, QueueCut, Zenon
    <3>3. CASE queue' = [queue EXCEPT ![e.job].todo = {}]
      <4>1. {} \in SUBSET queue[e.job].todo
        OBVIOUS
      <4>2. /\ queue' \in [Jobs -> JobRecord \cup {None}] /\ QueueMoves
            /\ \A i \in Jobs \ {e.job} : queue'[i] = queue[i]
            /\ \A i \in Jobs : queue[i] = None => queue'[i] = None
            /\ queue'[e.job].todo = {}
        BY <1>1, <1>3, <3>3, <4>1, QueueUpdate, Zenon
      <4> QED BY <4>2, Zenon
    <3> QED BY <2>1, <3>1, <3>2, <3>3, Zenon
  <2>4. SmtpTypes' /\ Grows
    <3>1. unsure \subseteq unsure'
      BY <1>2, Zenon
    <3> QED BY <1>1, <1>2, <1>4, <2>3, <3>1, StoresNothing, Zenon
  <2>5. AckedOK'
    <3>1. CASE Answer(e) # "250"
      BY <1>1, <1>2, <2>1, <3>1, Zenon DEF AckedOK, AckedHandled
    <3>2. CASE Answer(e) = "250"
      <4>1. e.res = "ok"
        BY <1>2, <3>2, PositiveAnswer, Zenon
      <4>2. \A r \in told : Handled(e.job, r)
        BY <1>1, <1>2, <4>1, Zenon DEF SessOK, Busy
      <4>4. Pairs(e.job, told) \subseteq Jobs \X Addrs
        BY <1>3 DEF Pairs
      <4>3. \A p \in Pairs(e.job, told) : p \in relayed \cup dropped \/ box[p[1]][p[2]] > 0
        BY <4>2 DEF Handled, Pairs
      <4> QED BY <1>1, <1>2, <2>1, <3>2, <4>3, <4>4, Zenon DEF AckedOK, AckedHandled
    <3> QED BY <3>1, <3>2
  <2>6. \A j \in Jobs, r \in Addrs : HoldsAt(s, j, r) => Off(j, r)'
    <3> SUFFICES ASSUME NEW j \in Jobs, NEW r \in Addrs, HoldsAt(s, j, r) PROVE Off(j, r)'
      OBVIOUS
    <3>1. j = e.job /\ e.res = "ok" /\ r \in told
      BY DEF HoldsAt, Active, Busy
    <3>2. queue'[j].todo \subseteq queue[j].todo \ told
      BY <1>2, <2>3, <3>1, PositiveAnswer, Zenon
    <3> QED BY <1>3, <2>3, <3>1, <3>2, Zenon DEF Off, QueueMoves
  <2>7. \A t \in Sessions \ {s} : \A j \in Jobs : Active(t, j) => queue'[j] = queue[j]
    BY <2>2, <2>3, Zenon
  <2> QED BY <1>2, <1>4, <1>5, <2>3, <2>4, <2>5, <2>6, <2>7, SessionStepKeeps, Zenon
<1> QED BY <1>3, <1>6, <1>7, Zenon

\* The client or the server is gone: the client starts over with all it named.
LEMMA LostKeeps ==
  ASSUME SmtpInv, NEW s \in Sessions, Hangup(s) \/ Crash(s) PROVE SmtpInv'
<1>1. SmtpTypes /\ SessOK(s) /\ AckedOK
  BY DEF SmtpInv
<1> DEFINE e == sess[s]
<1>2. e # None /\ UNCHANGED <<box, relayed, dropped, acked>>
  BY Zenon DEF Hangup, Crash
<1>3. e \in SessRecord /\ e.job \in Jobs \cup {None} /\ e.gone \in BOOLEAN /\ Range(e.rcpts) \subseteq Addrs
  BY <1>1, <1>2, RecordFields, Zenon
<1>4. /\ sess' \in [Sessions -> SessRecord \cup {None}]
      /\ \A t \in Sessions \ {s} : sess'[t] = sess[t]
      /\ sess'[s] # None =>
           /\ Hangup(s) /\ sess'[s].gone /\ sess'[s].pc = e.pc /\ sess'[s].job = e.job
           /\ sess'[s].rcpts = e.rcpts /\ sess'[s].left = e.left /\ sess'[s].res = e.res
           /\ sess'[s].port = e.port /\ sess'[s].data = e.data
  <2>1. CASE Hangup(s)
    <3> DEFINE f == [e EXCEPT !.gone = TRUE]
    <3>1. sess' = [sess EXCEPT ![s] = f]
      BY <2>1, Zenon DEF Hangup
    <3>2. /\ f \in SessRecord /\ f.gone /\ f.pc = e.pc /\ f.job = e.job
          /\ f.rcpts = e.rcpts /\ f.left = e.left /\ f.res = e.res
          /\ f.port = e.port /\ f.data = e.data
      BY <1>3, Zenon DEF SessRecord
    <3> HIDE DEF f
    <3>3. sess'[s] = f /\ \A t \in Sessions \ {s} : sess'[t] = sess[t]
      BY <1>1, <3>1, Zenon DEF SmtpTypes
    <3> QED BY <1>1, <2>1, <3>1, <3>2, <3>3, Zenon DEF SmtpTypes
  <2>2. CASE Crash(s)
    BY <1>1, <2>2, Zenon DEF Crash, SmtpTypes
  <2> QED BY <2>1, <2>2, Zenon
<1>5. \A j \in Jobs : ~Active(s, j)'
  BY <1>4, Zenon DEF Active
<1>6. CASE e.job = None \/ e.gone
  <2>1. Crash(s) /\ UNCHANGED <<queue, unsure>>
    BY <1>1, <1>2, <1>6, Zenon DEF Hangup, Crash, SessOK, Busy
  <2>2. sess'[s] = None
    BY <1>1, <2>1, Zenon DEF Crash, SmtpTypes
  <2>3. SmtpTypes' /\ Grows /\ QueueMoves /\ AckedOK'
    <3>1. queue' \in [Jobs -> JobRecord \cup {None}] /\ unsure \subseteq unsure'
      BY <1>1, <2>1, Zenon DEF SmtpTypes
    <3> QED BY <1>1, <1>2, <1>4, <2>1, <3>1, StoresNothing, StillQueued, StillHandled, Zenon
  <2>4. \A j \in Jobs, r \in Addrs : ~HoldsAt(s, j, r)
    BY <1>6, Zenon DEF HoldsAt, Active, Busy
  <2>5. SessOK(s)'
    BY <2>2, Zenon DEF SessOK, Busy
  <2> QED BY <1>2, <1>4, <1>5, <2>1, <2>3, <2>4, <2>5, SessionStepKeeps, Zenon
<1>7. CASE e.job # None /\ ~e.gone
  <2>1. /\ queue' = Retried(e.job)
        /\ unsure' = unsure \cup Pairs(e.job, Range(e.rcpts))
    BY <1>7, Zenon DEF Hangup, Crash
  <2>2. e.job \in Jobs /\ queue[e.job] \in JobRecord /\ \A t \in Sessions \ {s} : ~Active(t, e.job)
    BY <1>2, <1>7, OwnJob, Zenon
  <2>3. /\ queue' \in [Jobs -> JobRecord \cup {None}] /\ QueueMoves
        /\ \A i \in Jobs \ {e.job} : queue'[i] = queue[i]
        /\ \A i \in Jobs : queue[i] = None => queue'[i] = None
    BY <1>1, <2>1, <2>2, RetriedIs, Zenon
  <2>4. unsure \subseteq unsure' /\ \A r \in Range(e.rcpts) : <<e.job, r>> \in unsure'
    BY <2>1, Zenon DEF Pairs
  <2>5. SmtpTypes' /\ Grows /\ AckedOK'
    BY <1>1, <1>2, <1>4, <2>3, <2>4, StoresNothing, StillHandled, Zenon
  <2>6. \A j \in Jobs, r \in Addrs : HoldsAt(s, j, r) => <<j, r>> \in unsure'
    BY <2>4, Zenon DEF HoldsAt, Active, Busy
  <2>7. SessOK(s)'
    <3>1. \A j, r : Handled(j, r) => Handled(j, r)'
      BY <1>2 DEF Handled
    <3>6. PICK j : j = e.job
      OBVIOUS
    <3>2. /\ queue'[j] \in JobRecord /\ queue'[j].all = queue[j].all
          /\ Down(j)' <=> Down(j)
      <4>1. Down(j)' <=> Down(j)
        BY <2>2, <2>3, <3>6, StaysDown, Zenon
      <4> QED BY <2>2, <2>3, <3>6, <4>1, Zenon DEF QueueMoves, Same
    <3>3. Hangup(s) => Busy(e) /\ e.pc # "text"
      BY Zenon DEF Hangup, Busy
    <3>4. /\ Down(e.job) \/ Range(e.rcpts) \subseteq queue[e.job].all
          /\ (e.data => e.pc = "cmd")
          /\ Busy(e) => e.left \subseteq Range(e.rcpts)
          /\ e.pc = "ingest" => e.res = "ok"
          /\ e.pc = "reply" /\ e.res = "ok" => e.left = {}
          /\ e.pc = "reply" /\ e.res = "dmarc" => e.port = "smtp25"
      BY <1>1, <1>2, <1>7, Zenon DEF SessOK, Busy
    <3>5. Busy(e) /\ e.res = "ok" => \A r \in Range(e.rcpts) \ e.left : Handled(e.job, r)
      BY <1>1, <1>2, Zenon DEF SessOK, Busy
    <3> QED BY <1>4, <1>7, <2>4, <3>2, <3>3, <3>4, <3>5, <3>6, <3>1, Zenon DEF SessOK, Busy
  <2>8. \A t \in Sessions \ {s} : \A j \in Jobs : Active(t, j) => queue'[j] = queue[j]
    BY <2>2, <2>3, Zenon
  <2> QED BY <1>2, <1>4, <1>5, <2>3, <2>5, <2>6, <2>7, <2>8, SessionStepKeeps, Zenon
<1> QED BY <1>6, <1>7, Zenon

\* A new job is in no session and has no copies.
LEMMA EnqueueKeeps ==
  ASSUME SmtpInv, NEW j \in Jobs, NEW via \in Ports, NEW S \in SUBSET Addrs,
         NEW class \in Classes, Enqueue(j, via, S, class)
  PROVE  SmtpInv'
<1>1. SmtpTypes /\ OneActive /\ AckedOK
  BY DEF SmtpInv
<1> DEFINE n == [via |-> via, all |-> S, todo |-> S, class |-> class, tries |-> 0]
<1>2. /\ queue[j] = None /\ queue' = [queue EXCEPT ![j] = n]
      /\ UNCHANGED <<sess, box, relayed, dropped, acked, unsure>>
  BY DEF Enqueue
<1>3. n \in JobRecord /\ n.todo = n.all
  BY DEF JobRecord
<1> HIDE DEF n
<1>4. /\ queue' \in [Jobs -> JobRecord \cup {None}] /\ queue'[j] = n
      /\ \A i \in Jobs \ {j} : queue'[i] = queue[i]
  BY <1>1, <1>2, <1>3, Zenon DEF SmtpTypes
<1>5. SmtpTypes' /\ OneActive' /\ AckedOK'
  <2>1. sess' \in [Sessions -> SessRecord \cup {None}] /\ unsure \subseteq unsure'
    BY <1>1, <1>2, Zenon DEF SmtpTypes
  <2>2. OneActive'
    BY <1>1, <1>2, Zenon DEF OneActive, Active
  <2> QED BY <1>1, <1>2, <1>4, <2>1, <2>2, StoresNothing, StillHandled, Zenon
<1>6. \A i \in Jobs : queue'[i] # None => queue'[i].todo \subseteq queue'[i].all
  BY <1>3, <1>4, Zenon DEF SmtpInv
<1>7. queue[j] \notin JobRecord
  BY <1>2, SmtpSessionAssumption, Zenon
<1>8. ASSUME NEW s \in Sessions PROVE SessOK(s)'
  <2>1. SessOK(s)
    BY DEF SmtpInv
  <2> SUFFICES ASSUME sess[s] # None PROVE SessOK(s)'
    BY <1>2, ZenonT(30) DEF SessOK, Busy
  <2>2. sess[s].job # None => sess[s].job \in Jobs \ {j}
    BY <1>1, <1>7, <2>1, RecordFields, Zenon DEF SessOK, Busy
  <2>6. PICK k : k = sess[s].job
    OBVIOUS
  <2>3. k # None => queue'[k] = queue[k] /\ (Down(k)' <=> Down(k))
    BY <1>4, <2>2, <2>6, Zenon DEF Down
  <2>5. sess[s].pc = "text" => sess[s].job # None
    BY <2>1, Zenon DEF SessOK
  <2>4. \A i, r : Handled(i, r)' = Handled(i, r)
    BY <1>2 DEF Handled
  <2> QED BY <1>2, <2>1, <2>3, <2>4, <2>5, <2>6, Zenon DEF SessOK
<1>9. ASSUME NEW i \in Jobs, NEW r \in Addrs PROVE CopyOK(i, r)'
  <2>1. CopyOK(i, r)
    BY DEF SmtpInv
  <2>2. (Off(i, r) => Off(i, r)') /\ (Down(i) => Down(i)') /\ (Wanted(i, r) => Wanted(i, r)')
    BY <1>4, <1>7, Zenon DEF Off, Down, Wanted
  <2>3. \A s \in Sessions : HoldsAt(s, i, r)' = HoldsAt(s, i, r)
    BY <1>2, Zenon DEF HoldsAt, Active, Busy
  <2> QED BY <1>2, <2>1, <2>2, <2>3, Zenon DEF CopyOK
<1> QED BY <1>5, <1>6, <1>8, <1>9, Zenon DEF SmtpInv

\* Every step of a session keeps the invariant.
LEMMA SessionKeeps ==
  ASSUME RcptsOrdered, SmtpInv, NEW s \in Sessions, Serve(s) \/ Transmit(s) \/ Fault(s) PROVE SmtpInv'
<1>1. CASE Serve(s)
  BY <1>1, TooLargeKeeps, DotKeeps, PassKeeps, DeliverKeeps, FailKeeps, FinishKeeps, ReplyKeeps, Zenon DEF Serve
<1>2. CASE Transmit(s)
  BY <1>2, ConnectKeeps, AuthKeeps, MailKeeps, RcptKeeps, DataKeeps, LetGoKeeps, BadSequenceKeeps,
     TextLineKeeps, Zenon DEF Transmit
<1>3. CASE Fault(s)
  BY <1>3, LetGoKeeps, FailKeeps, LostKeeps, Zenon DEF Fault
<1> QED BY <1>1, <1>2, <1>3, Zenon

\* A step of the scheduler alone leaves the sessions' invariant alone.
LEMMA SmtpStutters == SmtpInv /\ UNCHANGED smtpVars => SmtpInv'
<1> SUFFICES ASSUME SmtpInv, UNCHANGED smtpVars PROVE SmtpInv'
  OBVIOUS
<1>1. UNCHANGED <<queue, sess, box, relayed, dropped, acked, unsure>>
  BY DEF smtpVars
<1>2. SmtpTypes' /\ OneActive' /\ AckedOK'
  BY <1>1, Zenon DEF SmtpInv, SmtpTypes, OneActive, Active, AckedOK, AckedHandled
<1>3. \A j \in Jobs : queue'[j] # None => queue'[j].todo \subseteq queue'[j].all
  BY <1>1, Zenon DEF SmtpInv
<1>4. ASSUME NEW s \in Sessions PROVE SessOK(s)'
  <2>1. SessOK(s)
    BY DEF SmtpInv
  <2>2. \A j, r : Handled(j, r)' = Handled(j, r)
    BY <1>1 DEF Handled
  <2>3. \A j : Down(j)' <=> Down(j)
    BY <1>1 DEF Down
  <2> QED BY <1>1, <2>1, <2>2, <2>3, Zenon DEF SessOK
<1>5. ASSUME NEW j \in Jobs, NEW r \in Addrs PROVE CopyOK(j, r)'
  <2>1. CopyOK(j, r)
    BY DEF SmtpInv
  <2>2. \A s \in Sessions : HoldsAt(s, j, r)' = HoldsAt(s, j, r)
    BY <1>1 DEF HoldsAt, Active, Busy
  <2> QED BY <1>1, <2>1, <2>2, Zenon DEF CopyOK, Off, Down, Wanted
<1> QED BY <1>2, <1>3, <1>4, <1>5, Zenon DEF SmtpInv
=============================================================================
