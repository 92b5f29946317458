------------------------------ MODULE EventRow ------------------------------
(***************************************************************************)
(* One row of calendar_events under the handlers that edit it.  The row    *)
(* holds the client's iCalendar text (ical_raw) and columns parsed from    *)
(* it.  A handler of api/events.rs or api/scheduling.rs reads the row,     *)
(* computes a new text and writes it back with EventRepo::update or        *)
(* replace_by_uid, in a second transaction and without comparing etags;    *)
(* PATCH and the events-by-range statements write columns only and leave   *)
(* the text as it is.                                                      *)
(*                                                                         *)
(* Of the text the model keeps the recurrence rule, the cancelled          *)
(* occurrences (EXDATE), the overridden ones (VEVENTs with RECURRENCE-ID), *)
(* the attendees' PARTSTAT, DESCRIPTION, STATUS, SEQUENCE and DTSTAMP;     *)
(* "text" stands for the other properties that have an indexed column      *)
(* (SUMMARY, LOCATION, DTSTART, DTEND, ...).                               *)
(*                                                                         *)
(* The handlers read and write exceptions as EXDATE:<UTC> and              *)
(* RECURRENCE-ID:<UTC>.  A client's body may also write them with          *)
(* parameters (EXDATE;TZID=...): those are "zoned", and no handler sees,   *)
(* adds or removes one.                                                    *)
(***************************************************************************)
EXTENDS Naturals, FiniteSets

CONSTANTS
  Reqs,      \* requests in flight at a time
  Insts,     \* occurrences an exception can name
  Rules,     \* recurrence rules
  Occ,       \* Occ[r]: the occurrences rule r generates
  Window,    \* occurrences within the window cleanup-orphans expands
  Texts,     \* values of the other indexed properties
  People,    \* attendees
  Props,     \* counter-proposals
  MaxSeq,    \* bound on SEQUENCE and on the sequence column
  MaxId,     \* bound on the rows inserted for the UID
  MaxStamp,  \* bound on DTSTAMP
  Loads,     \* workloads: the operations of a behaviour, the bodies clients put
             \* and a bound on the sequence column
  None

Partstats == {"NEEDS-ACTION", "ACCEPTED"}
Statuses == {"CONFIRMED", "CANCELLED"}

Raw == [rrule : Rules \cup {None}, text : Texts, desc : Texts, status : Statuses,
        exdates : SUBSET Insts, over : [Insts -> Texts \cup {None}],
        zoned : [ex : SUBSET Insts, over : SUBSET Insts],
        att : [People -> Partstats \cup {None}], seq : Nat, stamp : Nat]

AllOps == {"put", "fields", "range", "delete", "cancel", "clear_exdates", "delete_exdate",
           "override", "delete_override", "patch_override", "to_cancel", "to_override",
           "touch", "cleanup", "attendee", "rsvp", "reply", "itip_cancel", "counter"}

ASSUME EventRowAssumption ==
  /\ IsFiniteSet(Insts) /\ Window \subseteq Insts
  /\ Occ \in [Rules -> SUBSET Insts]
  /\ None \notin Rules \cup Texts \cup Partstats \cup Reqs
  /\ {MaxSeq, MaxId} \subseteq Nat /\ MaxStamp \in Nat
  /\ \A l \in Loads : l.does \subseteq AllOps /\ l.bodies \subseteq Raw /\ l.seq \in 0 .. MaxSeq

VARIABLES
  raw,     \* ical_raw, or None when the row is deleted
  col,     \* the indexed columns
  id,      \* the row's id
  req,     \* the requests between their read and their write
  prop,    \* scheduling_counter_proposals
  load,    \* the workload of this behaviour
  bulk,    \* history: the last write was an events-by-range statement
  want,    \* history: the last acknowledged value of each facet of the text
  lost,    \* history: facets a request wrote back as it had read them earlier
  both,    \* history: occurrences a client's own body cancels and overrides
  applied, \* history: proposals whose times were written
  heard    \* history: SEQUENCE and DTSTAMP of the last REPLY of each attendee let through

vars == <<raw, col, id, req, prop, load, bulk, want, lost, both, applied, heard>>

-----------------------------------------------------------------------------
(* The row.                                                                *)

\* What the indexed columns hold of a text (ical::parse_vevent).
Indexed(r) == [rrule |-> r.rrule, text |-> r.text, desc |-> r.desc, status |-> r.status]

\* Mutant: a changed rule does not count as a change.
RevisedNoRule(c, new) ==
  [idx |-> new,
   seq |-> IF [c.idx EXCEPT !.desc = new.desc, !.rrule = new.rrule] = new THEN c.seq ELSE c.seq + 1]

\* The CASE of UPDATE ... SET sequence: it counts changes of the columns but
\* description.
Revised(c, new) ==
  [idx |-> new, seq |-> IF [c.idx EXCEPT !.desc = new.desc] = new THEN c.seq ELSE c.seq + 1]

\* The facets of a text a request can address, and what the text says of each.
Facets == Insts \cup People \cup {"rule", "text", "status", "seq", "stamp"}

Facet(r, f) ==
  CASE f \in Insts -> <<f \in r.exdates, r.over[f], f \in r.zoned.ex, f \in r.zoned.over>>
    [] f \in People -> r.att[f]
    [] f = "rule" -> r.rrule
    [] f = "text" -> <<r.text, r.desc>>
    [] f = "status" -> r.status
    [] f = "seq" -> r.seq
    [] f = "stamp" -> r.stamp

\* The occurrences cancelled and overridden in the forms the handlers read.
Coexisting(r) == {i \in r.exdates : r.over[i] # None}

Init ==
  /\ load \in Loads
  /\ raw \in load.bodies
  /\ col = [idx |-> Indexed(raw), seq |-> raw.seq]
  /\ id = 1
  /\ req = [p \in Reqs |-> None]
  /\ prop = [q \in Props |-> None]
  /\ bulk = FALSE
  /\ want = [f \in Facets |-> Facet(raw, f)]
  /\ lost = {}
  /\ both = Coexisting(raw)
  /\ applied = {}
  /\ heard = [a \in People |-> None]

\* The row is written with text r, by an UPDATE or by the upsert of
\* replace_by_uid, which inserts a new row when there is none.
Store(r) ==
  /\ raw' = r
  /\ IF raw = None
     THEN id < MaxId /\ id' = id + 1 /\ col' = [idx |-> Indexed(r), seq |-> r.seq]
     ELSE UNCHANGED id /\ col' = Revised(col, Indexed(r))
  /\ col'.seq <= load.seq
  /\ bulk' = FALSE

\* A client's whole body: CalDAV PUT (replace_by_uid), REST PUT (update, not of
\* a deleted row).
Put(b) ==
  /\ Store(b)
  /\ want' = [f \in Facets |-> Facet(b, f)]
  /\ lost' = {}
  /\ both' = both \cup Coexisting(b)
  /\ UNCHANGED <<req, prop, applied, heard>>

\* EventRepo::patch_fields: columns only.
PatchFields(t, d, s) ==
  /\ raw # None
  /\ col' = Revised(col, [col.idx EXCEPT !.text = t, !.desc = d, !.status = s])
  /\ col'.seq <= load.seq
  /\ bulk' = FALSE
  /\ UNCHANGED <<raw, id, req, prop, want, lost, both, applied, heard>>

\* The events-by-range statements: columns only, and sequence stays.
SetRange(idx) ==
  /\ raw # None
  /\ col' = [col EXCEPT !.idx = idx]
  /\ bulk' = TRUE
  /\ UNCHANGED <<raw, id, req, prop, want, lost, both, applied, heard>>

\* What each of them may make of the columns.
Reworded == {[col.idx EXCEPT !.text = t] : t \in Texts}
events_by_range_set_rrule == {[col.idx EXCEPT !.rrule = r] : r \in Rules}
events_by_range_clear_rrule == {[col.idx EXCEPT !.rrule = None]}
events_by_range_set_status == {[col.idx EXCEPT !.status = s] : s \in Statuses}
events_by_range_set_summary == Reworded
events_by_range_set_location == Reworded
events_by_range_set_description == {[col.idx EXCEPT !.desc = d] : d \in Texts}
events_by_range_set_organizer_email == Reworded
events_by_range_set_class == Reworded
events_by_range_set_transparency == Reworded
events_by_range_set_text_fields ==
  {[col.idx EXCEPT !.text = td[1], !.desc = td[2]] : td \in Texts \X Texts}
Ranged == UNION {events_by_range_set_rrule, events_by_range_clear_rrule, events_by_range_set_status,
                 events_by_range_set_summary, events_by_range_set_location,
                 events_by_range_set_description, events_by_range_set_organizer_email,
                 events_by_range_set_class, events_by_range_set_transparency,
                 events_by_range_set_text_fields}

\* EventRepo::delete; ON DELETE CASCADE takes the proposals with the row.
Delete ==
  /\ raw # None
  /\ raw' = None
  /\ prop' = [q \in Props |-> None]
  /\ applied' = {}
  /\ UNCHANGED <<col, id, req, bulk, want, lost, both, heard>>

-----------------------------------------------------------------------------
(* Edits of the text.                                                      *)

inject_exdate_line(r, i) == [r EXCEPT !.exdates = @ \cup {i}]
strip_exdate_lines(r) == [r EXCEPT !.exdates = {}]

\* The slice of the leading blanks is computed from a line without its end and
\* a trimmed line with it, so the index underflows at the first EXDATE line and
\* the handler panics.
remove_exdate_value(r, i) == IF r.exdates = {} THEN r ELSE None

inject_before_end_vcalendar(r, i, t) == [r EXCEPT !.over[i] = t]

\* Mutant: every override of the series goes.
RemoveAllOverrides(r, S) == [r EXCEPT !.over = [i \in Insts |-> None]]

remove_recurrence_id_override_block(r, S) ==
  [r EXCEPT !.over = [i \in Insts |-> IF i \in S THEN None ELSE @[i]]]

patch_recurrence_id_override_block(r, S, t) ==
  [r EXCEPT !.over = [i \in Insts |-> IF i \in S THEN t ELSE @[i]]]

Overridden(r) == {i \in Insts : r.over[i] # None}
Recurring == col.idx.rrule # None

\* The first half of a handler: the row has been read, new is the text to write
\* (None when computing it panics), sets the facets the request is about.
Reading(p, op, sets, new) ==
  /\ req[p] = None /\ raw # None
  /\ req' = [req EXCEPT ![p] =
               [op |-> op, pc |-> "write", sets |-> sets, base |-> raw, new |-> new,
                id |-> id, prop |-> None]]
  /\ UNCHANGED <<raw, col, id, prop, bulk, want, lost, both, applied>>

Read(p, op, sets, new) == Reading(p, op, sets, new) /\ UNCHANGED heard

cancel_event_instance(p, i) ==
  /\ Recurring
  /\ i \notin raw.exdates
  /\ raw.over[i] = None
  /\ Read(p, "cancel", {i}, inject_exdate_line(raw, i))

clear_exdates(p) ==
  /\ raw.exdates # {}
  /\ Read(p, "clear_exdates", raw.exdates, strip_exdate_lines(raw))

delete_exdate(p, i) ==
  /\ i \in raw.exdates
  /\ Read(p, "delete_exdate", {i}, remove_exdate_value(raw, i))

\* Mutant: the check for an EXDATE is missing.
OverrideUnchecked(p, i, t) ==
  /\ Recurring
  /\ raw.over[i] = None
  /\ Read(p, "override", {i}, inject_before_end_vcalendar(raw, i, t))

override_event_instance(p, i, t) ==
  /\ Recurring
  /\ i \notin raw.exdates
  /\ raw.over[i] = None
  /\ Read(p, "override", {i}, inject_before_end_vcalendar(raw, i, t))

delete_override(p, i) ==
  /\ i \in Overridden(raw)
  /\ Read(p, "delete_override", {i}, remove_recurrence_id_override_block(raw, {i}))

\* The overrides a PATCH addresses: one, or those of a range.
patch_override == {{i} : i \in Overridden(raw)}
patch_overrides_by_range == SUBSET Overridden(raw) \ {{}}

PatchOverrides(p, S, t) ==
  Read(p, "patch_override", S, patch_recurrence_id_override_block(raw, S, t))

migrate_override_to_cancel(p, i) ==
  /\ Recurring
  /\ i \in Overridden(raw) \ raw.exdates
  /\ Read(p, "to_cancel", {i},
          inject_exdate_line(remove_recurrence_id_override_block(raw, {i}), i))

migrate_cancel_to_override(p, i, t) ==
  /\ Recurring
  /\ i \in raw.exdates \ Overridden(raw)
  /\ LET without == remove_exdate_value(raw, i)
     IN  Read(p, "to_override", {i},
              IF without = None THEN None ELSE inject_before_end_vcalendar(without, i, t))

\* The touch handlers refresh a DTSTAMP: of the master, or of overrides, whose
\* stamps the model leaves out.
touch_master == {[raw EXCEPT !.stamp = @ + 1]}
touch_all == touch_master
touch_override == IF Overridden(raw) = {} THEN {} ELSE {raw}
touch_overrides_bulk == touch_override
touch_overrides_by_range == touch_override

touch(p) ==
  \E new \in UNION {touch_master, touch_all, touch_override, touch_overrides_bulk,
                    touch_overrides_by_range} :
    new.stamp <= MaxStamp /\ Read(p, "touch", {"stamp"}, new)

\* The exceptions of S that name no occurrence the rule generates in the window.
Orphans(S, rule) == {i \in S : i \notin Occ[rule] \cap Window}

events_by_range_cleanup_orphans(p) ==
  /\ Recurring
  /\ LET ex == Orphans(raw.exdates, col.idx.rrule)
         ov == Orphans(Overridden(raw), col.idx.rrule)
     IN  /\ ex \cup ov # {}
         /\ Read(p, "cleanup", ex \cup ov,
                 IF ex # {} THEN None ELSE remove_recurrence_id_override_block(raw, ov))

events_by_range_set_attendees(p, a) ==
  Read(p, "attendee", {a},
       [raw EXCEPT !.att[a] = IF @ = None THEN "NEEDS-ACTION" ELSE None])

rsvp(p, a, s) == Read(p, "rsvp", {a}, [raw EXCEPT !.att[a] = s])

-----------------------------------------------------------------------------
(* iTIP messages and counter-proposals.                                    *)

\* The staleness gate of a REPLY with SEQUENCE n and DTSTAMP t.
Fresh(n, t) == n > raw.seq \/ (n = raw.seq /\ t >= raw.stamp)

handle_reply(p, a, s, n, t) ==
  /\ Fresh(n, t)
  /\ raw.att[a] # s
  /\ Reading(p, "reply", {a}, [raw EXCEPT !.att[a] = s])
  /\ heard' = [heard EXCEPT ![a] = [seq |-> n, stamp |-> t]]

handle_cancel(p, n) ==
  /\ n >= raw.seq
  /\ raw.status # "CANCELLED"
  /\ Read(p, "itip_cancel", {"status"}, [raw EXCEPT !.status = "CANCELLED"])

handle_counter(q, t) ==
  /\ raw # None
  /\ prop[q] = None
  /\ prop' = [prop EXCEPT ![q] = [status |-> "pending", text |-> t]]
  /\ UNCHANGED <<raw, col, id, req, bulk, want, lost, both, applied, heard>>

Pending(q) == prop[q] # None /\ prop[q].status = "pending"

\* A request about proposal q, at its next step pc.
About(op, pc, q) ==
  [op |-> op, pc |-> pc, sets |-> {}, base |-> None, new |-> None, id |-> id,
   prop |-> q]

\* Mutant: the proposal is resolved before the event is written.
AcceptResolves(p, q) ==
  /\ req[p] = None /\ Pending(q)
  /\ req' = [req EXCEPT ![p] = About("accepted", "resolve", q)]
  /\ UNCHANGED <<raw, col, id, prop, bulk, want, lost, both, applied, heard>>

\* accept_counter and reject_counter up to their test of the status.
accept_counter(p, q) ==
  /\ req[p] = None /\ Pending(q)
  /\ req' = [req EXCEPT ![p] = About("accepted", "get", q)]
  /\ UNCHANGED <<raw, col, id, prop, bulk, want, lost, both, applied, heard>>

reject_counter(p, q) ==
  /\ req[p] = None /\ Pending(q)
  /\ req' = [req EXCEPT ![p] = About("rejected", "resolve", q)]
  /\ UNCHANGED <<raw, col, id, prop, bulk, want, lost, both, applied, heard>>

\* accept_counter reads the event and applies the proposed times to its text.
\* The proposal was read before; only a delete of the event takes it away.
apply_proposed_times(p) ==
  /\ req[p] # None /\ req[p].pc = "get"
  /\ raw # None /\ id = req[p].id /\ prop[req[p].prop] # None
  /\ req' = [req EXCEPT ![p] =
               [@ EXCEPT !.pc = "write", !.sets = {"text"}, !.base = raw,
                         !.new = [raw EXCEPT !.text = prop[req[p].prop].text]]]
  /\ UNCHANGED <<raw, col, id, prop, bulk, want, lost, both, applied, heard>>

\* expresso-admin's accept has read the proposal; it then writes the proposed
\* times to the columns alone.
admin_accept(p, q) ==
  /\ req[p] = None /\ Pending(q)
  /\ req' = [req EXCEPT ![p] = About("accepted", "columns", q)]
  /\ UNCHANGED <<raw, col, id, prop, bulk, want, lost, both, applied, heard>>

admin_apply(p) ==
  /\ req[p] # None /\ req[p].pc = "columns"
  /\ id = req[p].id /\ prop[req[p].prop] # None
  /\ col' = Revised(col, [col.idx EXCEPT !.text = prop[req[p].prop].text])
  /\ col'.seq <= load.seq
  /\ bulk' = FALSE
  /\ applied' = applied \cup {req[p].prop}
  /\ req' = [req EXCEPT ![p].pc = "resolve"]
  /\ UNCHANGED <<raw, id, prop, want, lost, both, heard>>

\* CounterRepo::resolve: UPDATE ... WHERE status = 'pending'.
Resolved(q, verdict) ==
  IF Pending(q) THEN [prop EXCEPT ![q].status = verdict] ELSE prop

resolve(p) ==
  /\ req[p] # None /\ req[p].pc = "resolve"
  /\ prop' = IF id = req[p].id THEN Resolved(req[p].prop, req[p].op) ELSE prop
  /\ req' = [req EXCEPT ![p] = None]
  /\ UNCHANGED <<raw, col, id, bulk, want, lost, both, applied, heard>>

-----------------------------------------------------------------------------
(* The second half of a handler.                                           *)

\* handle_reply and handle_cancel write with replace_by_uid, the others with
\* update, which names the row by its id.
Upserts(r) == r.op \in {"reply", "itip_cancel"}
Found(r) == raw # None /\ id = r.id

Write(p) ==
  LET r == req[p]
  IN  /\ r # None /\ r.pc = "write" /\ r.new # None
      /\ Upserts(r) \/ Found(r)
      /\ Store(r.new)
      /\ want' = [f \in Facets |-> IF f \in r.sets THEN Facet(r.new, f) ELSE want[f]]
      /\ lost' = IF raw = None THEN Facets
                 ELSE (lost \ r.sets)
                      \cup {f \in Facets \ r.sets : Facet(raw, f) # Facet(r.base, f)}
      /\ applied' = IF r.prop = None THEN applied ELSE applied \cup {r.prop}
      /\ req' = [req EXCEPT ![p] = IF r.prop = None THEN None ELSE [@ EXCEPT !.pc = "resolve"]]
      /\ UNCHANGED <<prop, both, heard>>

\* The handler panicked, the row is gone, or the connection is: the request
\* ends where it is.
Abandon(p) ==
  /\ req[p] # None
  /\ req' = [req EXCEPT ![p] = None]
  /\ UNCHANGED <<raw, col, id, prop, bulk, want, lost, both, applied, heard>>

Whole ==
  \/ "put" \in load.does /\ \E b \in load.bodies : Put(b)
  \/ "fields" \in load.does /\ \E t, d \in Texts, s \in Statuses : PatchFields(t, d, s)
  \/ "range" \in load.does /\ raw # None /\ \E idx \in Ranged : SetRange(idx)
  \/ "delete" \in load.does /\ Delete

Exceptions(p) ==
  \/ "clear_exdates" \in load.does /\ clear_exdates(p)
  \/ "touch" \in load.does /\ touch(p)
  \/ "cleanup" \in load.does /\ events_by_range_cleanup_orphans(p)
  \/ \E i \in Insts :
       \/ "cancel" \in load.does /\ cancel_event_instance(p, i)
       \/ "delete_exdate" \in load.does /\ delete_exdate(p, i)
       \/ "delete_override" \in load.does /\ delete_override(p, i)
       \/ "to_cancel" \in load.does /\ migrate_override_to_cancel(p, i)
       \/ \E t \in Texts :
            \/ "override" \in load.does /\ override_event_instance(p, i, t)
            \/ "to_override" \in load.does /\ migrate_cancel_to_override(p, i, t)
  \/ /\ "patch_override" \in load.does
     /\ \E S \in patch_override \cup patch_overrides_by_range, t \in Texts : PatchOverrides(p, S, t)

Scheduling(p) ==
  \/ \E a \in People :
       \/ "attendee" \in load.does /\ events_by_range_set_attendees(p, a)
       \/ \E s \in Partstats :
            \/ "rsvp" \in load.does /\ rsvp(p, a, s)
            \/ \E n \in 0 .. MaxSeq, t \in 0 .. MaxStamp :
                 "reply" \in load.does /\ handle_reply(p, a, s, n, t)
  \/ \E n \in 0 .. MaxSeq : "itip_cancel" \in load.does /\ handle_cancel(p, n)
  \/ "counter" \in load.does /\ \E q \in Props :
       \/ \E t \in Texts : handle_counter(q, t)
       \/ accept_counter(p, q)
       \/ reject_counter(p, q)
       \/ admin_accept(p, q)
  \/ apply_proposed_times(p)
  \/ admin_apply(p)
  \/ resolve(p)

Next ==
  /\ \/ Whole
     \/ \E p \in Reqs :
          \/ raw # None /\ req[p] = None /\ Exceptions(p)
          \/ raw # None /\ Scheduling(p)
          \/ Write(p)
          \/ Abandon(p)
  /\ UNCHANGED load

Spec == Init /\ [][Next]_vars

-----------------------------------------------------------------------------
(* Properties.                                                             *)

\* Types of the state; a deleted event leaves no proposal behind.
TypeOK ==
  /\ raw \in Raw \cup {None}
  /\ col.idx \in [rrule : Rules \cup {None}, text : Texts, desc : Texts, status : Statuses]
  /\ col.seq \in 0 .. MaxSeq
  /\ id \in 1 .. MaxId
  /\ \A p \in Reqs : req[p] # None => req[p].new \in Raw \cup {None} /\ req[p].id \in 1 .. id
  /\ \A q \in Props : prop[q] # None => prop[q].status \in {"pending", "accepted", "rejected"}
  /\ raw = None => \A q \in Props : prop[q] = None
  /\ bulk \in BOOLEAN
  /\ lost \subseteq Facets /\ both \subseteq Insts /\ applied \subseteq Props

\* An occurrence is cancelled or overridden, never both, whatever the requests
\* in flight write over each other; only a client's own body can say both.  The
\* guards of the exception handlers look at the text they rewrite whole, so a
\* late write carries the combination they checked.  It speaks of the forms the
\* handlers read and write, EXDATE:<UTC> and RECURRENCE-ID:<UTC>; ConflictsRefused
\* below is about the others.
ExclusiveExceptions == raw # None => Coexisting(raw) \subseteq both

\* Every acknowledged edit of the text is still there, unless a request that had
\* read the row before the edit has written the whole text back since (lost):
\* no handler disturbs a property it is not about, the SEQUENCE and DTSTAMP that
\* the gates of handle_reply and handle_cancel compare with included.
AckedEditsKept ==
  raw # None => \A f \in Facets \ lost : Facet(raw, f) = want[f]

\* While the row lives, sequence counts its revisions: a change of a column other
\* than description raises it by one, whoever makes it (EventRepo::update,
\* replace_by_uid, patch_fields, the admin's accept), and nothing else moves it.
\* The events-by-range statements are documented not to touch it.
SequenceSignals ==
  [][raw # None /\ raw' # None /\ ~bulk'
       => LET same == [col.idx EXCEPT !.desc = col'.idx.desc] = col'.idx
          IN  col'.seq = IF same THEN col.seq ELSE col.seq + 1]_vars

\* A proposal counts as accepted only after its times have been written to the
\* event (by accept_counter to text and columns, by the admin's accept to the
\* columns), wherever the request is interrupted.
AcceptedApplied ==
  \A q \in Props : prop[q] # None /\ prop[q].status = "accepted" => q \in applied

-----------------------------------------------------------------------------
(* What comments say and the handlers do not do: each of these is violated *)
(* on MCEventRowClaims.cfg.                                                *)

\* "remove UMA EXDATE específica": delete_exdate computes the text without the
\* named EXDATE.
DeleteExdateRemoves ==
  \A p \in Reqs :
    req[p] # None /\ req[p].op = "delete_exdate"
      => req[p].new = [req[p].base EXCEPT !.exdates = @ \ req[p].sets]

\* "reject: mark resolved, event unchanged".
RejectedNotApplied ==
  \A q \in Props : prop[q] # None /\ prop[q].status = "rejected" => q \notin applied

\* "instance ... is cancelled via EXDATE", "has a RECURRENCE-ID override": the
\* handlers refuse an exception contrary to one the text has, in whatever form.
ConflictsRefused ==
  \A p \in Reqs :
    /\ req[p] # None /\ req[p].op = "cancel" => req[p].sets \cap req[p].base.zoned.over = {}
    /\ req[p] # None /\ req[p].op = "override" => req[p].sets \cap req[p].base.zoned.ex = {}

\* The step is the write of a request of one of ops, and changes the text.
Writes(p, ops) ==
  /\ req[p] # None /\ req[p].op \in ops /\ req'[p] = None
  /\ {raw, raw'} \cap {None} = {} /\ raw' # raw

\* "refresca SÓ o DTSTAMP ... sem alterar nenhum campo", "o sequence permanece
\* igual": a touch leaves the columns as they are.
TouchOnlyStamps == [][\A p \in Reqs : Writes(p, {"touch"}) => col' = col]_vars

\* "cada update incrementa SEQUENCE", "sequence bumpa 1 vez": a text saved by
\* EventRepo::update raises sequence.
SavesRaiseSequence ==
  [][\A p \in Reqs : Writes(p, {"cleanup", "attendee", "to_cancel"}) => col'.seq = col.seq + 1]_vars

\* "reject stale REPLYs ... organizer keeps the latest view": a REPLY passes the
\* gate only if it is not older than the attendee's last one that passed.
LatestReply ==
  [][\A a \in People :
       heard[a] # None => \/ heard'[a].seq > heard[a].seq
                          \/ heard'[a].seq = heard[a].seq /\ heard'[a].stamp >= heard[a].stamp]_vars

=============================================================================
