--------------------------- MODULE EventRowProofs ---------------------------
(***************************************************************************)
(* Proofs about EventRow, for any number of requests in flight.            *)
(*                                                                         *)
(* What makes the properties inductive is what a request carries between   *)
(* its read and its write: a text that differs from the one it read only   *)
(* in the facets the request is about, and that cancels and overrides no   *)
(* occurrence at once unless a client's own body did.                      *)
(***************************************************************************)
EXTENDS EventRow, TLAPS

Columns == [rrule : Rules \cup {None}, text : Texts, desc : Texts, status : Statuses]
Proposal == [status : {"pending", "accepted", "rejected"}, text : Texts]
ReqRecord ==
  [op : AllOps \cup {"accepted", "rejected"}, pc : {"get", "columns", "write", "resolve"},
   sets : SUBSET Facets, base : Raw \cup {None}, new : Raw \cup {None}, id : Nat,
   prop : Props \cup {None}]

Types ==
  /\ load \in Loads
  /\ raw \in Raw \cup {None}
  /\ col \in [idx : Columns, seq : Nat]
  /\ id \in Nat
  /\ req \in [Reqs -> ReqRecord \cup {None}]
  /\ prop \in [Props -> Proposal \cup {None}]
  /\ lost \subseteq Facets /\ both \subseteq Insts /\ applied \subseteq Props

\* new is a text computed from r by a request about the facets in sets.
Edited(r, sets, new) ==
  /\ new \in Raw
  /\ Coexisting(new) \subseteq Coexisting(r)
  /\ \A f \in Facets \ sets : Facet(new, f) = Facet(r, f)

\* What the request of p carries.
Carried(p) ==
  req[p] # None /\ req[p].new # None =>
    /\ req[p].base \in Raw
    /\ Coexisting(req[p].new) \subseteq both
    /\ \A f \in Facets \ req[p].sets : Facet(req[p].new, f) = Facet(req[p].base, f)

\* A request past its read, or about a proposal, names what it needs: an acceptance
\* about to be recorded has written the times, if its row is still there.
Names(q, r, n, done) ==
  /\ q.id <= n
  /\ q.pc # "write" \/ q.prop # None => q.prop \in Props /\ q.op \in {"accepted", "rejected"}
  /\ q.pc = "resolve" /\ q.op = "accepted" /\ r # None /\ q.id = n => q.prop \in done

Backed(p) == req[p] # None => Names(req[p], raw, id, applied)

IInv ==
  /\ Types
  /\ \A p \in Reqs : Carried(p) /\ Backed(p)
  /\ ExclusiveExceptions /\ AckedEditsKept /\ AcceptedApplied

-----------------------------------------------------------------------------
(* What a request names.                                                   *)

\* A request that has just read the row names it, and needs no times written yet.
LEMMA NamesRead ==
  ASSUME NEW q, NEW r, NEW n \in Nat, NEW done, q.id = n,
         q.pc # "write" \/ q.prop # None => q.prop \in Props /\ q.op \in {"accepted", "rejected"},
         ~(q.pc = "resolve" /\ q.op = "accepted")
  PROVE  Names(q, r, n, done)
BY DEF Names

\* It names what it needs after a statement of another request, which only a new row
\* numbers anew.
LEMMA NamesStored ==
  ASSUME NEW q, NEW r, NEW s, NEW n \in Nat, NEW m \in Nat, NEW done, NEW more,
         q.id \in Nat, Names(q, r, n, done),
         r = None => m = n + 1, r # None => m = n, done \subseteq more
  PROVE  Names(q, s, m, more)
BY DEF Names

\* After its own write it names the times it wrote.
LEMMA NamesWritten ==
  ASSUME NEW q, NEW w, NEW r, NEW s, NEW n \in Nat, NEW m \in Nat, NEW done, NEW more,
         q.id \in Nat, Names(q, r, n, done), n <= m,
         w.id = q.id, w.prop = q.prop, w.op = q.op, q.pc # "write" \/ q.prop # None,
         w.prop \in more
  PROVE  Names(w, s, m, more)
BY DEF Names

-----------------------------------------------------------------------------
(* The edits of a text.                                                    *)

\* The CASE of UPDATE ... SET sequence counts a change of the columns (Revised).
LEMMA RevisedSeq ==
  ASSUME NEW c, NEW new
  PROVE  /\ Revised(c, new).idx = new
         /\ Revised(c, new).seq
              = IF [c.idx EXCEPT !.desc = new.desc] = new THEN c.seq ELSE c.seq + 1
BY DEF Revised

\* A facet that two texts agree on has the same value in both (Facet).
LEMMA FacetSame ==
  ASSUME NEW r, NEW s, NEW f \in Facets,
         f \in Insts => (f \in r.exdates <=> f \in s.exdates) /\ r.over[f] = s.over[f],
         r.zoned = s.zoned,
         f \in People => r.att[f] = s.att[f],
         f = "rule" => r.rrule = s.rrule,
         f = "text" => r.text = s.text /\ r.desc = s.desc,
         f = "status" => r.status = s.status,
         f = "seq" => r.seq = s.seq,
         f = "stamp" => r.stamp = s.stamp
  PROVE  Facet(r, f) = Facet(s, f)
<1>1. \/ f \notin Insts
      \/ <<f \in r.exdates, r.over[f], f \in r.zoned.ex, f \in r.zoned.over>>
           = <<f \in s.exdates, s.over[f], f \in s.zoned.ex, f \in s.zoned.over>>
  OBVIOUS
<1> QED BY <1>1 DEF Facet, Facets

\* Cancelling an occurrence that is not overridden (inject_exdate_line).
LEMMA InjectExdate ==
  ASSUME NEW r \in Raw, NEW i \in Insts, r.over[i] = None
  PROVE  Edited(r, {i}, inject_exdate_line(r, i))
<1> DEFINE new == inject_exdate_line(r, i)
<1>1. new \in Raw
  BY DEF Raw, inject_exdate_line
<1>2. Coexisting(new) \subseteq Coexisting(r)
  BY DEF Raw, inject_exdate_line, Coexisting
<1>3. ASSUME NEW f \in Facets \ {i} PROVE Facet(new, f) = Facet(r, f)
  <2>1. /\ f \in new.exdates <=> f \in r.exdates
        /\ new.over = r.over /\ new.att = r.att
        /\ new.rrule = r.rrule /\ new.text = r.text /\ new.status = r.status
        /\ new.desc = r.desc /\ new.zoned = r.zoned /\ new.seq = r.seq /\ new.stamp = r.stamp
    BY DEF Raw, inject_exdate_line
  <2> QED BY <2>1, FacetSame, Zenon
<1> QED BY <1>1, <1>2, <1>3 DEF Edited

\* Clearing all cancelled occurrences (strip_exdate_lines).
LEMMA StripExdates ==
  ASSUME NEW r \in Raw
  PROVE  Edited(r, r.exdates, strip_exdate_lines(r))
<1> DEFINE new == strip_exdate_lines(r)
<1>1. new \in Raw
  BY DEF Raw, strip_exdate_lines
<1>2. Coexisting(new) \subseteq Coexisting(r)
  BY DEF Raw, strip_exdate_lines, Coexisting
<1>3. ASSUME NEW f \in Facets \ r.exdates PROVE Facet(new, f) = Facet(r, f)
  <2>1. /\ f \in new.exdates <=> f \in r.exdates
        /\ new.over = r.over /\ new.att = r.att
        /\ new.rrule = r.rrule /\ new.text = r.text /\ new.status = r.status
        /\ new.desc = r.desc /\ new.zoned = r.zoned /\ new.seq = r.seq /\ new.stamp = r.stamp
    BY DEF Raw, strip_exdate_lines
  <2> QED BY <2>1, FacetSame
<1> QED BY <1>1, <1>2, <1>3 DEF Edited

\* Overriding an occurrence that is not cancelled (inject_before_end_vcalendar).
LEMMA InjectOverride ==
  ASSUME NEW r \in Raw, NEW i \in Insts, NEW t \in Texts, i \notin r.exdates
  PROVE  Edited(r, {i}, inject_before_end_vcalendar(r, i, t))
<1> DEFINE new == inject_before_end_vcalendar(r, i, t)
<1>1. new \in Raw
  BY DEF Raw, inject_before_end_vcalendar
<1>2. Coexisting(new) \subseteq Coexisting(r)
  BY DEF Raw, inject_before_end_vcalendar, Coexisting
<1>3. ASSUME NEW f \in Facets \ {i} PROVE Facet(new, f) = Facet(r, f)
  <2>1. /\ new.exdates = r.exdates
        /\ f \in Insts => new.over[f] = r.over[f]
        /\ new.att = r.att
        /\ new.rrule = r.rrule /\ new.text = r.text /\ new.status = r.status
        /\ new.desc = r.desc /\ new.zoned = r.zoned /\ new.seq = r.seq /\ new.stamp = r.stamp
    BY DEF Raw, inject_before_end_vcalendar
  <2> QED BY <2>1, FacetSame, Zenon
<1> QED BY <1>1, <1>2, <1>3 DEF Edited

\* Removing overrides (remove_recurrence_id_override_block).
LEMMA RemoveOverrides ==
  ASSUME NEW r \in Raw, NEW S
  PROVE  Edited(r, S, remove_recurrence_id_override_block(r, S))
<1> DEFINE new == remove_recurrence_id_override_block(r, S)
<1>1. new \in Raw
  BY DEF Raw, remove_recurrence_id_override_block
<1>2. Coexisting(new) \subseteq Coexisting(r)
  BY DEF Raw, remove_recurrence_id_override_block, Coexisting
<1>3. ASSUME NEW f \in Facets \ S PROVE Facet(new, f) = Facet(r, f)
  <2>1. /\ new.exdates = r.exdates
        /\ f \in Insts => new.over[f] = r.over[f]
        /\ new.att = r.att
        /\ new.rrule = r.rrule /\ new.text = r.text /\ new.status = r.status
        /\ new.desc = r.desc /\ new.zoned = r.zoned /\ new.seq = r.seq /\ new.stamp = r.stamp
    BY DEF Raw, remove_recurrence_id_override_block
  <2> QED BY <2>1, FacetSame, Zenon
<1> QED BY <1>1, <1>2, <1>3 DEF Edited

\* Rewording overrides that exist (patch_recurrence_id_override_block).
LEMMA PatchOverride ==
  ASSUME NEW r \in Raw, NEW S \in SUBSET Overridden(r), NEW t \in Texts
  PROVE  Edited(r, S, patch_recurrence_id_override_block(r, S, t))
<1> DEFINE new == patch_recurrence_id_override_block(r, S, t)
<1>1. new \in Raw
  BY DEF Raw, patch_recurrence_id_override_block
<1>2. Coexisting(new) \subseteq Coexisting(r)
  BY DEF Raw, patch_recurrence_id_override_block, Coexisting, Overridden
<1>3. ASSUME NEW f \in Facets \ S PROVE Facet(new, f) = Facet(r, f)
  <2>1. /\ new.exdates = r.exdates
        /\ f \in Insts => new.over[f] = r.over[f]
        /\ new.att = r.att
        /\ new.rrule = r.rrule /\ new.text = r.text /\ new.status = r.status
        /\ new.desc = r.desc /\ new.zoned = r.zoned /\ new.seq = r.seq /\ new.stamp = r.stamp
    BY DEF Raw, patch_recurrence_id_override_block
  <2> QED BY <2>1, FacetSame, Zenon
<1> QED BY <1>1, <1>2, <1>3 DEF Edited

\* Turning an override into a cancellation (migrate_override_to_cancel).
LEMMA OverrideToCancel ==
  ASSUME NEW r \in Raw, NEW i \in Insts
  PROVE  Edited(r, {i}, inject_exdate_line(remove_recurrence_id_override_block(r, {i}), i))
<1> DEFINE mid == remove_recurrence_id_override_block(r, {i})
           new == inject_exdate_line(mid, i)
<1>1. mid \in Raw /\ mid.over[i] = None
  BY DEF Raw, remove_recurrence_id_override_block
<1>2. Edited(mid, {i}, new)
  BY <1>1, InjectExdate
<1>3. Edited(r, {i}, mid)
  BY RemoveOverrides
<1> HIDE DEF mid, new
<1>4. Edited(r, {i}, new)
  BY <1>2, <1>3 DEF Edited
<1> QED BY <1>4 DEF mid, new

\* The edits of one field of the text: DTSTAMP, an attendee's PARTSTAT, STATUS, and
\* the properties kept under text.
LEMMA EditField ==
  ASSUME NEW r \in Raw
  PROVE  /\ Edited(r, {}, r)
         /\ Edited(r, {"stamp"}, r)
         /\ Edited(r, {"stamp"}, [r EXCEPT !.stamp = @ + 1])
         /\ \A a \in People, s \in Partstats \cup {None} :
              Edited(r, {a}, [r EXCEPT !.att[a] = s])
         /\ \A s \in Statuses : Edited(r, {"status"}, [r EXCEPT !.status = s])
         /\ \A t \in Texts : Edited(r, {"text"}, [r EXCEPT !.text = t])
<1>1. Edited(r, {}, r) /\ Edited(r, {"stamp"}, r)
  BY DEF Edited
<1>2. Edited(r, {"stamp"}, [r EXCEPT !.stamp = @ + 1])
  <2> DEFINE new == [r EXCEPT !.stamp = @ + 1]
  <2>1. /\ new \in Raw
        /\ new.exdates = r.exdates /\ new.over = r.over /\ new.att = r.att
        /\ new.rrule = r.rrule /\ new.text = r.text /\ new.status = r.status
        /\ new.desc = r.desc /\ new.zoned = r.zoned /\ new.seq = r.seq
    BY DEF Raw
  <2> HIDE DEF new
  <2>2. \A f \in Facets \ {"stamp"} : Facet(new, f) = Facet(r, f)
    BY <2>1, FacetSame
  <2> QED BY <2>1, <2>2 DEF Edited, Coexisting, new
<1>3. ASSUME NEW a \in People, NEW s \in Partstats \cup {None}
      PROVE  Edited(r, {a}, [r EXCEPT !.att[a] = s])
  <2> DEFINE new == [r EXCEPT !.att[a] = s]
  <2>1. /\ new \in Raw
        /\ new.exdates = r.exdates /\ new.over = r.over
        /\ \A b \in People \ {a} : new.att[b] = r.att[b]
        /\ new.rrule = r.rrule /\ new.text = r.text /\ new.status = r.status
        /\ new.desc = r.desc /\ new.zoned = r.zoned /\ new.seq = r.seq /\ new.stamp = r.stamp
    BY DEF Raw
  <2> HIDE DEF new
  <2>2. \A f \in Facets \ {a} : Facet(new, f) = Facet(r, f)
    BY <2>1, FacetSame
  <2> QED BY <2>1, <2>2 DEF Edited, Coexisting, new
<1>4. ASSUME NEW s \in Statuses PROVE Edited(r, {"status"}, [r EXCEPT !.status = s])
  <2> DEFINE new == [r EXCEPT !.status = s]
  <2>1. /\ new \in Raw
        /\ new.exdates = r.exdates /\ new.over = r.over /\ new.att = r.att
        /\ new.rrule = r.rrule /\ new.text = r.text
        /\ new.desc = r.desc /\ new.zoned = r.zoned /\ new.seq = r.seq /\ new.stamp = r.stamp
    BY DEF Raw
  <2> HIDE DEF new
  <2>2. \A f \in Facets \ {"status"} : Facet(new, f) = Facet(r, f)
    BY <2>1, FacetSame
  <2> QED BY <2>1, <2>2 DEF Edited, Coexisting, new
<1>5. ASSUME NEW t \in Texts PROVE Edited(r, {"text"}, [r EXCEPT !.text = t])
  <2> DEFINE new == [r EXCEPT !.text = t]
  <2>1. /\ new \in Raw
        /\ new.exdates = r.exdates /\ new.over = r.over /\ new.att = r.att
        /\ new.rrule = r.rrule /\ new.status = r.status
        /\ new.zoned = r.zoned /\ new.seq = r.seq /\ new.stamp = r.stamp
    BY DEF Raw
  <2> HIDE DEF new
  <2>2. \A f \in Facets \ {"text"} : Facet(new, f) = Facet(r, f)
    BY <2>1, FacetSame
  <2> QED BY <2>1, <2>2 DEF Edited, Coexisting, new
<1> QED BY <1>1, <1>2, <1>3, <1>4, <1>5, Zenon

-----------------------------------------------------------------------------
(* The first half of a handler.                                            *)

\* A request that has read the row and computed a text that is an edit of it, or
\* none, keeps the invariant (Reading).
LEMMA ReadingKeeps ==
  ASSUME IInv, NEW p \in Reqs, NEW op \in AllOps, NEW sets \in SUBSET Facets, NEW new,
         Reading(p, op, sets, new), load' = load,
         new = None \/ Edited(raw, sets, new)
  PROVE  IInv'
<1>1. raw \in Raw /\ id \in Nat /\ req \in [Reqs -> ReqRecord \cup {None}]
  BY Zenon DEF IInv, Types, Reading
<1>2. new \in Raw \cup {None}
  BY DEF Edited
<1>u. UNCHANGED <<raw, col, id, prop, load, want, lost, both, applied>>
  BY DEF Reading
<1> DEFINE q == [op |-> op, pc |-> "write", sets |-> sets, base |-> raw, new |-> new,
                 id |-> id, prop |-> None]
<1>3. q \in ReqRecord
  BY <1>1, <1>2, Zenon DEF ReqRecord
<1>4. req' = [req EXCEPT ![p] = q]
  BY DEF Reading
<1>5. /\ q.pc = "write" /\ q.sets = sets /\ q.base = raw /\ q.new = new /\ q.id = id
      /\ q.prop = None
  OBVIOUS
<1> HIDE DEF q
<1>6. Types'
  BY <1>3, <1>4, <1>u, Zenon DEF IInv, Types
<1>7. ASSUME NEW o \in Reqs PROVE Carried(o)' /\ Backed(o)'
  <2>1. CASE o = p
    <3>1. req'[o] = q
      BY <1>1, <1>4, <2>1
    <3>2. Coexisting(raw) \subseteq both
      BY Zenon DEF IInv, ExclusiveExceptions, Reading
    <3>3. Carried(o)'
      BY <1>1, <1>5, <1>u, <3>1, <3>2, Zenon DEF Carried, Edited
    <3>4. Names(q, raw, id, applied)
      BY <1>1, <1>5, NamesRead, Zenon
    <3>5. Backed(o)'
      BY <1>u, <3>1, <3>4, Zenon DEF Backed
    <3> QED BY <3>3, <3>5
  <2>2. CASE o # p
    <3>1. req'[o] = req[o]
      BY <1>1, <1>4, <2>2
    <3>2. Carried(o) /\ Backed(o)
      BY DEF IInv
    <3> QED BY <3>1, <3>2, <1>u, Zenon DEF Carried, Backed
  <2> QED BY <2>1, <2>2
<1>8. ExclusiveExceptions' /\ AckedEditsKept' /\ AcceptedApplied'
  BY <1>u, Zenon DEF IInv, ExclusiveExceptions, AckedEditsKept, AcceptedApplied
<1> QED BY <1>6, <1>7, <1>8 DEF IInv

\* Most handlers leave the record of the REPLYs alone.
LEMMA ReadKeeps ==
  ASSUME IInv, NEW p \in Reqs, NEW op \in AllOps, NEW sets \in SUBSET Facets, NEW new,
         Read(p, op, sets, new), load' = load,
         new = None \/ Edited(raw, sets, new)
  PROVE  IInv'
BY ReadingKeeps, Zenon DEF Read

\* Every handler that edits exceptions reads the row and computes an edit of it.
LEMMA ExceptionsKeep ==
  ASSUME IInv, NEW p \in Reqs, raw # None, req[p] = None, Exceptions(p), load' = load
  PROVE  IInv'
<1>1. raw \in Raw
  BY DEF IInv, Types
<1>2. raw.exdates \subseteq Insts /\ Insts \subseteq Facets /\ Overridden(raw) \subseteq Insts
  BY <1>1 DEF Raw, Facets, Overridden
<1>3. ASSUME clear_exdates(p) PROVE IInv'
  BY <1>1, <1>2, <1>3, ReadKeeps, StripExdates, Zenon DEF clear_exdates, AllOps
<1>4. ASSUME touch(p) PROVE IInv'
  <2>1. PICK new : /\ Read(p, "touch", {"stamp"}, new)
                   /\ new = raw \/ new = [raw EXCEPT !.stamp = @ + 1]
    BY <1>4 DEF touch, touch_master, touch_all, touch_override, touch_overrides_bulk,
                touch_overrides_by_range
  <2>2. {"stamp"} \in SUBSET Facets
    BY DEF Facets
  <2> QED BY <1>1, <2>1, <2>2, ReadKeeps, EditField, Zenon DEF AllOps
<1>5. ASSUME events_by_range_cleanup_orphans(p) PROVE IInv'
  <2> DEFINE ex == Orphans(raw.exdates, col.idx.rrule)
             ov == Orphans(Overridden(raw), col.idx.rrule)
             new == IF ex # {} THEN None ELSE remove_recurrence_id_override_block(raw, ov)
  <2>1. Read(p, "cleanup", ex \cup ov, new) /\ ex \cup ov \in SUBSET Facets
    BY <1>2, <1>5, Zenon DEF events_by_range_cleanup_orphans, Orphans
  <2>2. new = None \/ Edited(raw, ex \cup ov, new)
    BY <1>1, RemoveOverrides, Zenon DEF Edited
  <2> HIDE DEF ex, ov, new
  <2> QED BY <2>1, <2>2, ReadKeeps, Zenon DEF AllOps
<1>6. ASSUME NEW i \in Insts, cancel_event_instance(p, i) PROVE IInv'
  BY <1>1, <1>2, <1>6, ReadKeeps, InjectExdate, Zenon DEF cancel_event_instance, AllOps
<1>7. ASSUME NEW i \in Insts, delete_exdate(p, i) PROVE IInv'
  <2>1. remove_exdate_value(raw, i) = None \/ Edited(raw, {i}, remove_exdate_value(raw, i))
    BY <1>1 DEF remove_exdate_value, Edited
  <2> QED BY <1>2, <1>7, <2>1, ReadKeeps, Zenon DEF delete_exdate, AllOps
<1>8. ASSUME NEW i \in Insts, delete_override(p, i) PROVE IInv'
  BY <1>1, <1>2, <1>8, ReadKeeps, RemoveOverrides, Zenon DEF delete_override, AllOps
<1>9. ASSUME NEW i \in Insts, migrate_override_to_cancel(p, i) PROVE IInv'
  BY <1>1, <1>2, <1>9, ReadKeeps, OverrideToCancel, Zenon DEF migrate_override_to_cancel, AllOps
<1>10. ASSUME NEW i \in Insts, NEW t \in Texts, override_event_instance(p, i, t) PROVE IInv'
  BY <1>1, <1>2, <1>10, ReadKeeps, InjectOverride, Zenon DEF override_event_instance, AllOps
<1>11. ASSUME NEW i \in Insts, NEW t \in Texts, migrate_cancel_to_override(p, i, t)
       PROVE  IInv'
  <2>1. i \in raw.exdates
    BY <1>11 DEF migrate_cancel_to_override
  <2>2. remove_exdate_value(raw, i) = None
    BY <2>1 DEF remove_exdate_value
  <2>3. Read(p, "to_override", {i}, None)
    BY <1>11, <2>2 DEF migrate_cancel_to_override
  <2> QED BY <1>2, <2>3, ReadKeeps, Zenon DEF AllOps
<1>12. ASSUME NEW S \in patch_override \cup patch_overrides_by_range, NEW t \in Texts,
              PatchOverrides(p, S, t)
       PROVE  IInv'
  <2>1. S \in SUBSET Overridden(raw)
    BY <1>12 DEF patch_override, patch_overrides_by_range
  <2> QED BY <1>1, <1>2, <1>12, <2>1, ReadKeeps, PatchOverride, Zenon DEF PatchOverrides, AllOps
<1> QED BY <1>3, <1>4, <1>5, <1>6, <1>7, <1>8, <1>9, <1>10, <1>11, <1>12, Zenon DEF Exceptions

\* A step that only changes the request of p, to none or to one that carries no
\* text and is not about to record an acceptance, keeps the invariant.
LEMMA RequestKeeps ==
  ASSUME IInv, NEW p \in Reqs, NEW q,
         q = None \/ (q \in ReqRecord /\ q.new = None /\ q.id = id /\ q.prop \in Props
                        /\ q.op \in {"accepted", "rejected"} /\ ~(q.pc = "resolve" /\ q.op = "accepted")),
         req' = [req EXCEPT ![p] = q],
         UNCHANGED <<raw, col, id, prop, load, want, lost, both, applied>>
  PROVE  IInv'
<1>1. req \in [Reqs -> ReqRecord \cup {None}] /\ id \in Nat
  BY DEF IInv, Types
<1>2. Types'
  BY Zenon DEF IInv, Types
<1>3. ASSUME NEW o \in Reqs PROVE Carried(o)' /\ Backed(o)'
  <2>1. CASE o = p
    <3>1. req'[o] = q
      BY <1>1, <2>1
    <3>2. q # None => q.new = None /\ Names(q, raw, id, applied)
      BY <1>1, NamesRead, Zenon
    <3> QED BY <3>1, <3>2, Zenon DEF Carried, Backed
  <2>2. CASE o # p
    <3>1. req'[o] = req[o]
      BY <1>1, <2>2
    <3>2. Carried(o) /\ Backed(o)
      BY DEF IInv
    <3>3. UNCHANGED <<raw, id, both, applied>>
      OBVIOUS
    <3> QED BY <3>1, <3>2, <3>3, Zenon DEF Carried, Backed
  <2> QED BY <2>1, <2>2
<1>4. ExclusiveExceptions' /\ AckedEditsKept' /\ AcceptedApplied'
  BY Zenon DEF IInv, ExclusiveExceptions, AckedEditsKept, AcceptedApplied
<1> QED BY <1>2, <1>3, <1>4, Zenon DEF IInv

\* accept_counter computes the text with the proposed times.
LEMMA ApplyKeeps ==
  ASSUME IInv, NEW p \in Reqs, apply_proposed_times(p), load' = load
  PROVE  IInv'
<1>1. /\ raw \in Raw /\ id \in Nat /\ req \in [Reqs -> ReqRecord \cup {None}]
      /\ prop \in [Props -> Proposal \cup {None}]
  BY Zenon DEF IInv, Types, apply_proposed_times
<1>2. UNCHANGED <<raw, col, id, prop, load, want, lost, both, applied>>
  BY DEF apply_proposed_times
<1>3. /\ req[p] \in ReqRecord /\ req[p].id = id /\ req[p].pc = "get"
      /\ prop[req[p].prop] # None
  BY <1>1, Zenon DEF apply_proposed_times
<1>4. req[p].prop \in Props /\ req[p].op \in {"accepted", "rejected"}
  BY <1>3, Zenon DEF IInv, Backed, Names, apply_proposed_times
<1>5. prop[req[p].prop].text \in Texts
  BY <1>1, <1>3, <1>4, Zenon DEF Proposal
<1> DEFINE new == [raw EXCEPT !.text = prop[req[p].prop].text]
           q == [req[p] EXCEPT !.pc = "write", !.sets = {"text"}, !.base = raw, !.new = new]
<1>6. Edited(raw, {"text"}, new)
  BY <1>1, <1>5, EditField, Zenon
<1>7. req' = [req EXCEPT ![p] = q]
  BY DEF apply_proposed_times
<1> HIDE DEF new
<1>8. q \in ReqRecord
  BY <1>1, <1>3, <1>6, Zenon DEF ReqRecord, Edited, Facets
<1>9. /\ q.pc = "write" /\ q.sets = {"text"} /\ q.base = raw /\ q.new = new /\ q.id = id
      /\ q.prop = req[p].prop /\ q.op = req[p].op
  BY <1>3 DEF ReqRecord
<1> HIDE DEF q
<1>10. Types'
  BY <1>7, <1>8, <1>2, Zenon DEF IInv, Types
<1>11. ASSUME NEW o \in Reqs PROVE Carried(o)' /\ Backed(o)'
  <2>1. CASE o = p
    <3>1. req'[o] = q
      BY <1>1, <1>7, <2>1
    <3>2. Coexisting(raw) \subseteq both
      BY DEF IInv, ExclusiveExceptions, apply_proposed_times
    <3>3. Carried(o)'
      BY <1>1, <1>6, <1>9, <1>2, <3>1, <3>2, Zenon DEF Carried, Edited
    <3>4. Names(q, raw, id, applied)
      BY <1>1, <1>4, <1>9, NamesRead, Zenon
    <3>5. Backed(o)'
      BY <1>2, <3>1, <3>4, Zenon DEF Backed
    <3> QED BY <3>3, <3>5
  <2>2. CASE o # p
    <3>1. req'[o] = req[o]
      BY <1>1, <1>7, <2>2
    <3>2. Carried(o) /\ Backed(o)
      BY DEF IInv
    <3> QED BY <3>1, <3>2, <1>2, Zenon DEF Carried, Backed
  <2> QED BY <2>1, <2>2
<1>12. ExclusiveExceptions' /\ AckedEditsKept' /\ AcceptedApplied'
  BY <1>2, Zenon DEF IInv, ExclusiveExceptions, AckedEditsKept, AcceptedApplied
<1> QED BY <1>10, <1>11, <1>12 DEF IInv

\* The admin's accept writes the proposed times to the columns.
LEMMA AdminApplyKeeps ==
  ASSUME IInv, NEW p \in Reqs, admin_apply(p), load' = load
  PROVE  IInv'
<1>1. /\ col.idx \in Columns /\ col.seq \in Nat /\ id \in Nat
      /\ req \in [Reqs -> ReqRecord \cup {None}] /\ prop \in [Props -> Proposal \cup {None}]
  BY DEF IInv, Types
<1>2. /\ UNCHANGED <<raw, id, prop, load, want, lost, both>>
      /\ req' = [req EXCEPT ![p].pc = "resolve"]
      /\ applied' = applied \cup {req[p].prop}
  BY DEF admin_apply
<1>3. req[p] \in ReqRecord /\ req[p] # None /\ req[p].pc = "columns" /\ prop[req[p].prop] # None
  BY <1>1, Zenon DEF admin_apply
<1>4. /\ Carried(p) /\ Names(req[p], raw, id, applied)
      /\ req[p].prop \in Props /\ req[p].op \in {"accepted", "rejected"}
  BY <1>3, Zenon DEF IInv, Backed, Names
<1>5. prop[req[p].prop].text \in Texts
  BY <1>1, <1>3, <1>4, Zenon DEF Proposal
<1>6. col' \in [idx : Columns, seq : Nat]
  <2> DEFINE new == [col.idx EXCEPT !.text = prop[req[p].prop].text]
  <2>1. new \in Columns
    BY <1>1, <1>5 DEF Columns
  <2>2. col' = Revised(col, new)
    BY DEF admin_apply
  <2> HIDE DEF new
  <2> QED BY <1>1, <2>1, <2>2 DEF Revised
<1> DEFINE q == [req[p] EXCEPT !.pc = "resolve"]
<1>7. /\ q \in ReqRecord /\ q.new = req[p].new /\ q.base = req[p].base /\ q.sets = req[p].sets
      /\ q.id = req[p].id /\ q.prop = req[p].prop /\ q.op = req[p].op
  BY <1>3, Zenon DEF ReqRecord
<1>8. req' = [req EXCEPT ![p] = q]
  BY <1>2
<1> HIDE DEF q
<1>9. Types'
  <2>1. req' \in [Reqs -> ReqRecord \cup {None}]
    BY <1>1, <1>7, <1>8, Zenon
  <2>2. applied' \subseteq Props
    BY <1>2, <1>4, Zenon DEF IInv, Types
  <2> QED BY <1>2, <1>6, <2>1, <2>2, Zenon DEF IInv, Types
<1>10. ASSUME NEW o \in Reqs PROVE Carried(o)' /\ Backed(o)'
  <2>1. CASE o = p
    <3>1. req'[o] = q
      BY <1>1, <1>8, <2>1, Zenon
    <3>2. Carried(o)'
      BY <1>2, <1>3, <1>4, <1>7, <3>1, Zenon DEF Carried
    <3>3. req[p].id \in Nat /\ req[p].pc # "write" /\ q.prop \in applied'
      BY <1>2, <1>3, <1>7, Zenon DEF ReqRecord
    <3>4. id <= id
      BY <1>1
    <3>5. Names(q, raw, id, applied')
      BY <1>1, <1>4, <1>7, <3>3, <3>4, NamesWritten, Zenon
    <3> QED BY <1>2, <3>1, <3>2, <3>5, Zenon DEF Backed
  <2>2. CASE o # p
    <3>1. req'[o] = req[o]
      BY <1>1, <1>8, <2>2, Zenon
    <3>2. Carried(o) /\ Backed(o)
      BY DEF IInv
    <3>3. req[o] # None => Names(req[o], raw, id, applied')
      BY <1>2, <3>2, Zenon DEF Backed, Names
    <3> QED BY <1>2, <3>1, <3>2, <3>3, Zenon DEF Carried, Backed
  <2> QED BY <2>1, <2>2
<1>11. ExclusiveExceptions' /\ AckedEditsKept' /\ AcceptedApplied'
  BY <1>2, Zenon DEF IInv, ExclusiveExceptions, AckedEditsKept, AcceptedApplied
<1> QED BY <1>9, <1>10, <1>11 DEF IInv

\* CounterRepo::resolve records an acceptance only when its times are written.
LEMMA ResolveKeeps ==
  ASSUME IInv, NEW p \in Reqs, resolve(p), raw # None, load' = load
  PROVE  IInv'
<1>1. /\ id \in Nat /\ req \in [Reqs -> ReqRecord \cup {None}]
      /\ prop \in [Props -> Proposal \cup {None}]
  BY DEF IInv, Types
<1>2. UNCHANGED <<raw, col, id, load, want, lost, both, applied>>
  BY DEF resolve
<1>3. /\ req[p] \in ReqRecord /\ req[p].pc = "resolve"
      /\ req[p].prop \in Props /\ req[p].op \in {"accepted", "rejected"}
      /\ req[p].id = id /\ req[p].op = "accepted" => req[p].prop \in applied
  BY <1>1, Zenon DEF resolve, IInv, Backed, Names
<1> DEFINE q == req[p].prop
           v == req[p].op
<1>4. UNCHANGED prop \/ (id = req[p].id /\ Pending(q) /\ prop' = [prop EXCEPT ![q].status = v])
  BY Zenon DEF resolve, Resolved
<1>5. prop' \in [Props -> Proposal \cup {None}]
  BY <1>1, <1>3, <1>4, ZenonT(60) DEF Pending, Proposal
<1>6. req' = [req EXCEPT ![p] = None]
  BY DEF resolve
<1>7. Types'
  BY <1>1, <1>2, <1>5, <1>6, Zenon DEF IInv, Types
<1>8. ASSUME NEW o \in Reqs PROVE Carried(o)' /\ Backed(o)'
  <2>1. CASE o = p
    BY <1>1, <1>6, <2>1, Zenon DEF Carried, Backed
  <2>2. CASE o # p
    <3>1. req'[o] = req[o]
      BY <1>1, <1>6, <2>2
    <3>2. Carried(o) /\ Backed(o)
      BY DEF IInv
    <3> QED BY <3>1, <3>2, <1>2, Zenon DEF Carried, Backed
  <2> QED BY <2>1, <2>2
<1>9. AcceptedApplied'
  <2> SUFFICES ASSUME NEW s \in Props, prop'[s] # None, prop'[s].status = "accepted"
               PROVE  s \in applied
    BY <1>2 DEF AcceptedApplied
  <2>1. CASE prop'[s] = prop[s]
    BY <2>1 DEF IInv, AcceptedApplied
  <2>2. CASE prop'[s] # prop[s]
    <3>1. s = q /\ id = req[p].id /\ Pending(q) /\ prop' = [prop EXCEPT ![q].status = v]
      BY <1>1, <1>4, <2>2, Zenon
    <3>2. prop'[s].status = v
      BY <1>1, <1>3, <3>1, Zenon DEF Pending, Proposal
    <3> QED BY <1>3, <3>1, <3>2, Zenon
  <2> QED BY <2>1, <2>2
<1>10. ExclusiveExceptions' /\ AckedEditsKept'
  BY <1>2 DEF IInv, ExclusiveExceptions, AckedEditsKept
<1> QED BY <1>7, <1>8, <1>9, <1>10, Zenon DEF IInv

\* The handlers of iTIP messages and of counter-proposals.
LEMMA SchedulingKeeps ==
  ASSUME IInv, NEW p \in Reqs, raw # None, Scheduling(p), load' = load
  PROVE  IInv'
<1>1. raw \in Raw /\ id \in Nat /\ req \in [Reqs -> ReqRecord \cup {None}]
  BY DEF IInv, Types
<1>2. People \subseteq Facets /\ "status" \in Facets
  BY DEF Facets
<1>3. ASSUME NEW a \in People, NEW s \in Partstats \cup {None}, NEW op \in AllOps,
             Reading(p, op, {a}, [raw EXCEPT !.att[a] = s])
      PROVE  IInv'
  BY <1>1, <1>2, <1>3, ReadingKeeps, EditField, Zenon
<1>4. ASSUME NEW a \in People, events_by_range_set_attendees(p, a) PROVE IInv'
  <2> DEFINE s == IF raw.att[a] = None THEN "NEEDS-ACTION" ELSE None
  <2>1. s \in Partstats \cup {None}
    BY DEF Partstats
  <2>2. Reading(p, "attendee", {a}, [raw EXCEPT !.att[a] = s])
    <3>1. [raw EXCEPT !.att[a] = IF @ = None THEN "NEEDS-ACTION" ELSE None]
            = [raw EXCEPT !.att[a] = s]
      BY <1>1 DEF Raw
    <3> QED BY <1>4, <3>1 DEF events_by_range_set_attendees, Read
  <2> HIDE DEF s
  <2> QED BY <1>3, <2>1, <2>2, Zenon DEF AllOps
<1>5. ASSUME NEW a \in People, NEW s \in Partstats, rsvp(p, a, s) PROVE IInv'
  BY <1>3, <1>5, Zenon DEF rsvp, Read, AllOps
<1>6. ASSUME NEW a \in People, NEW s \in Partstats, NEW n, NEW t, handle_reply(p, a, s, n, t)
      PROVE  IInv'
  BY <1>3, <1>6, Zenon DEF handle_reply, AllOps
<1>7. ASSUME NEW n, handle_cancel(p, n) PROVE IInv'
  BY <1>1, <1>2, <1>7, ReadKeeps, EditField, Zenon DEF handle_cancel, AllOps, Statuses
<1>8. ASSUME NEW q \in Props, NEW t \in Texts, handle_counter(q, t) PROVE IInv'
  <2>1. UNCHANGED <<raw, col, id, req, load, want, lost, both, applied>>
    BY <1>8 DEF handle_counter
  <2> DEFINE new == [status |-> "pending", text |-> t]
  <2>2. prop' = [prop EXCEPT ![q] = new] /\ prop \in [Props -> Proposal \cup {None}]
    BY <1>8, Zenon DEF handle_counter, IInv, Types
  <2>3. new \in Proposal /\ new.status = "pending"
    BY DEF Proposal
  <2> HIDE DEF new
  <2>4. Types'
    BY <2>1, <2>2, <2>3, Zenon DEF IInv, Types
  <2>5. ASSUME NEW o \in Reqs PROVE Carried(o)' /\ Backed(o)'
    BY <2>1, Zenon DEF IInv, Carried, Backed
  <2>6. AcceptedApplied'
    BY <2>1, <2>2, <2>3, Zenon DEF IInv, AcceptedApplied
  <2>7. ExclusiveExceptions' /\ AckedEditsKept'
    BY <2>1 DEF IInv, ExclusiveExceptions, AckedEditsKept
  <2> QED BY <2>4, <2>5, <2>6, <2>7, Zenon DEF IInv
<1>9. ASSUME NEW q \in Props, accept_counter(p, q) PROVE IInv'
  <2> DEFINE r == About("accepted", "get", q)
  <2>1. /\ r \in ReqRecord /\ r.new = None /\ r.id = id /\ r.prop \in Props
        /\ r.op \in {"accepted", "rejected"} /\ r.pc = "get"
    BY <1>1, Zenon DEF About, ReqRecord
  <2> HIDE DEF r
  <2>2. req' = [req EXCEPT ![p] = r]
    BY <1>9 DEF accept_counter, r
  <2>3. UNCHANGED <<raw, col, id, prop, load, want, lost, both, applied>>
    BY <1>9 DEF accept_counter
  <2> QED BY <2>1, <2>2, <2>3, RequestKeeps, Zenon
<1>10. ASSUME NEW q \in Props, reject_counter(p, q) PROVE IInv'
  <2> DEFINE r == About("rejected", "resolve", q)
  <2>1. /\ r \in ReqRecord /\ r.new = None /\ r.id = id /\ r.prop \in Props
        /\ r.op = "rejected"
    BY <1>1, Zenon DEF About, ReqRecord
  <2> HIDE DEF r
  <2>2. req' = [req EXCEPT ![p] = r]
    BY <1>10 DEF reject_counter, r
  <2>3. UNCHANGED <<raw, col, id, prop, load, want, lost, both, applied>>
    BY <1>10 DEF reject_counter
  <2> QED BY <2>1, <2>2, <2>3, RequestKeeps, Zenon
<1>11. ASSUME NEW q \in Props, admin_accept(p, q) PROVE IInv'
  <2> DEFINE r == About("accepted", "columns", q)
  <2>1. /\ r \in ReqRecord /\ r.new = None /\ r.id = id /\ r.prop \in Props
        /\ r.op \in {"accepted", "rejected"} /\ r.pc = "columns"
    BY <1>1, Zenon DEF About, ReqRecord
  <2> HIDE DEF r
  <2>2. req' = [req EXCEPT ![p] = r]
    BY <1>11 DEF admin_accept, r
  <2>3. UNCHANGED <<raw, col, id, prop, load, want, lost, both, applied>>
    BY <1>11 DEF admin_accept
  <2> QED BY <2>1, <2>2, <2>3, RequestKeeps, Zenon
<1> QED BY <1>4, <1>5, <1>6, <1>7, <1>8, <1>9, <1>10, <1>11, ApplyKeeps, AdminApplyKeeps,
           ResolveKeeps, Zenon DEF Scheduling

-----------------------------------------------------------------------------
(* Writes.                                                                 *)

\* Writing a text leaves columns and id of the right type, the columns those of
\* the text, and a new row an id above all former ones (Store).
LEMMA StoreTypes ==
  ASSUME Types, NEW r \in Raw, Store(r)
  PROVE  /\ raw' = r
         /\ col' \in [idx : Columns, seq : Nat] /\ col'.idx = Indexed(r)
         /\ id' \in Nat /\ id <= id'
         /\ raw = None => id' = id + 1
         /\ raw # None => id' = id
<1>1. Indexed(r) \in Columns /\ r.seq \in Nat
  BY DEF Raw, Indexed, Columns
<1>2. col.seq \in Nat /\ id \in Nat
  BY DEF Types
<1>3. /\ raw' = r
      /\ raw = None => id' = id + 1 /\ col' = [idx |-> Indexed(r), seq |-> r.seq]
      /\ raw # None => id' = id /\ col' = Revised(col, Indexed(r))
  BY Zenon DEF Store
<1>4. Revised(col, Indexed(r)) \in [idx : Columns, seq : Nat]
  BY <1>1, <1>2 DEF Revised
<1>5. id' \in Nat /\ id <= id'
  BY <1>2, <1>3
<1>6. col' \in [idx : Columns, seq : Nat] /\ col'.idx = Indexed(r)
  BY <1>1, <1>3, <1>4, RevisedSeq
<1> QED BY <1>3, <1>5, <1>6, Zenon

\* A client's whole body (CalDAV PUT, REST PUT).
LEMMA PutKeeps ==
  ASSUME IInv, NEW b \in Raw, Put(b), load' = load
  PROVE  IInv'
<1>1. Types /\ Store(b)
  BY DEF IInv, Put
<1>2. /\ raw' = b
      /\ col' \in [idx : Columns, seq : Nat] /\ col'.idx = Indexed(b)
      /\ id' \in Nat /\ id <= id'
      /\ raw = None => id' = id + 1
      /\ raw # None => id' = id
  BY <1>1, StoreTypes
<1>3. /\ UNCHANGED <<req, prop, applied, load>> /\ lost' = {}
      /\ want' = [f \in Facets |-> Facet(b, f)] /\ both' = both \cup Coexisting(b)
  BY DEF Put
<1>4. Types'
  BY <1>1, <1>2, <1>3, Zenon DEF Types, Coexisting, Raw
<1>5. ASSUME NEW o \in Reqs PROVE Carried(o)' /\ Backed(o)'
  <2>1. Carried(o) /\ Backed(o)
    BY DEF IInv
  <2>2. Carried(o)'
    BY <1>3, <2>1, Zenon DEF Carried
  <2>3. req[o] # None => req[o].id \in Nat
    BY <1>1 DEF Types, ReqRecord
  <2>4. id \in Nat
    BY <1>1 DEF Types
  <2>5. req[o] # None => Names(req[o], raw', id', applied)
    BY <1>2, <2>1, <2>3, <2>4, NamesStored, Zenon DEF Backed
  <2>6. Backed(o)'
    BY <1>3, <2>5, Zenon DEF Backed
  <2> QED BY <2>2, <2>6
<1>6. ExclusiveExceptions' /\ AckedEditsKept' /\ AcceptedApplied'
  BY <1>2, <1>3, Zenon DEF IInv, ExclusiveExceptions, AckedEditsKept,
                    AcceptedApplied
<1> QED BY <1>4, <1>5, <1>6 DEF IInv

\* The second half of a handler: the text it carries replaces the row's.
LEMMA WriteKeeps ==
  ASSUME IInv, NEW p \in Reqs, Write(p), load' = load
  PROVE  IInv'
<1> DEFINE r == req[p]
<1>1. /\ Types /\ r \in ReqRecord /\ r.pc = "write" /\ r.new \in Raw /\ Store(r.new)
      /\ r # None /\ r.new # None
  BY Zenon DEF IInv, Types, Write, ReqRecord
<1>2. /\ raw' = r.new
      /\ col' \in [idx : Columns, seq : Nat] /\ col'.idx = Indexed(r.new)
      /\ id' \in Nat /\ id <= id'
      /\ raw = None => id' = id + 1
      /\ raw # None => id' = id
  BY <1>1, StoreTypes, Zenon
<1>3. Carried(p) /\ Backed(p)
  BY DEF IInv
<1> DEFINE q == IF r.prop = None THEN None ELSE [r EXCEPT !.pc = "resolve"]
<1>4. /\ want' = [f \in Facets |-> IF f \in r.sets THEN Facet(r.new, f) ELSE want[f]]
      /\ lost' = IF raw = None THEN Facets
                 ELSE (lost \ r.sets)
                      \cup {f \in Facets \ r.sets : Facet(raw, f) # Facet(r.base, f)}
      /\ applied' = IF r.prop = None THEN applied ELSE applied \cup {r.prop}
      /\ req' = [req EXCEPT ![p] = q]
      /\ UNCHANGED <<prop, both, load>>
  BY Zenon DEF Write
<1>5. id \in Nat /\ req \in [Reqs -> ReqRecord \cup {None}] /\ applied \subseteq applied'
  BY <1>1, <1>4, Zenon DEF Types
<1>6. q \in ReqRecord \cup {None}
  BY <1>1, Zenon DEF ReqRecord
<1>7. q # None => /\ q.new = r.new /\ q.base = r.base /\ q.sets = r.sets
                  /\ q.id = r.id /\ q.prop = r.prop /\ q.op = r.op
                  /\ q.prop \in applied'
                  /\ r.prop # None
  BY <1>1, <1>4, Zenon DEF ReqRecord
<1> HIDE DEF q
<1>8. Types'
  <2>1. lost' \subseteq Facets
    BY <1>1, <1>4, Zenon DEF Types
  <2>2. applied' \subseteq Props
    BY <1>1, <1>3, <1>4, Zenon DEF Types, Backed, Names
  <2> QED BY <1>1, <1>2, <1>4, <1>6, <2>1, <2>2, Zenon DEF Types
<1>9. ASSUME NEW o \in Reqs PROVE Carried(o)' /\ Backed(o)'
  <2>1. CASE o = p
    <3>1. req'[o] = q
      BY <1>4, <1>5, <2>1, Zenon
    <3>2. Carried(o)'
      BY <1>1, <1>3, <1>4, <1>7, <3>1, Zenon DEF Carried
    <3>3. r.id \in Nat
      BY <1>1, Zenon DEF ReqRecord
    <3>4. Names(r, raw, id, applied)
      BY <1>1, <1>3, Zenon DEF Backed
    <3>5. q # None => Names(q, raw', id', applied')
      BY <1>2, <1>5, <1>7, <3>3, <3>4, NamesWritten, Zenon
    <3>6. Backed(o)'
      BY <3>1, <3>5, Zenon DEF Backed
    <3> QED BY <3>2, <3>6
  <2>2. CASE o # p
    <3>1. req'[o] = req[o]
      BY <1>4, <1>5, <2>2, Zenon
    <3>2. Carried(o) /\ Backed(o)
      BY DEF IInv
    <3>3. Carried(o)'
      BY <1>4, <3>1, <3>2, Zenon DEF Carried
    <3>4. req[o] # None => req[o].id \in Nat
      BY <1>5 DEF ReqRecord
    <3>5. ASSUME req[o] # None PROVE Names(req[o], raw', id', applied')
      <4>1. req[o].id \in Nat /\ Names(req[o], raw, id, applied)
        BY <3>2, <3>4, <3>5, Zenon DEF Backed
      <4>2. /\ id \in Nat /\ id' \in Nat /\ applied \subseteq applied'
            /\ raw = None => id' = id + 1
            /\ raw # None => id' = id
        BY <1>2, <1>5, Zenon
      <4> HIDE DEF r
      <4> QED BY <4>1, <4>2, NamesStored, Zenon
    <3>6. Backed(o)'
      BY <3>1, <3>5, Zenon DEF Backed
    <3> QED BY <3>3, <3>6
  <2> QED BY <2>1, <2>2
<1>10. ExclusiveExceptions'
  BY <1>1, <1>2, <1>3, <1>4, Zenon DEF ExclusiveExceptions, Carried
<1>11. AckedEditsKept'
  <2> SUFFICES ASSUME NEW f \in Facets \ lost' PROVE Facet(r.new, f) = want'[f]
    BY <1>2 DEF AckedEditsKept
  <2>1. CASE f \in r.sets
    BY <1>4, <2>1, Zenon
  <2>2. CASE f \notin r.sets
    <3>1. raw # None /\ f \notin lost /\ Facet(raw, f) = Facet(r.base, f)
      BY <1>4, <2>2, Zenon
    <3>2. want'[f] = want[f] /\ Facet(raw, f) = want[f]
      BY <1>4, <2>2, <3>1, Zenon DEF IInv, AckedEditsKept
    <3>3. Facet(r.new, f) = Facet(r.base, f)
      BY <1>1, <1>3, <2>2, Zenon DEF Carried
    <3> QED BY <3>1, <3>2, <3>3, Zenon
  <2> QED BY <2>1, <2>2
<1>12. AcceptedApplied'
  BY <1>4, <1>5, Zenon DEF IInv, AcceptedApplied
<1> QED BY <1>8, <1>9, <1>10, <1>11, <1>12, Zenon DEF IInv

\* The statements on the row alone, and the whole bodies.
LEMMA WholeKeeps ==
  ASSUME IInv, Whole, load' = load
  PROVE  IInv'
<1>1. ASSUME NEW b \in load.bodies, Put(b) PROVE IInv'
  <2>1. b \in Raw
    BY EventRowAssumption, Zenon DEF IInv, Types
  <2> QED BY <1>1, <2>1, PutKeeps
<1>2. ASSUME NEW idx \in Columns, NEW n \in Nat, col' = [idx |-> idx, seq |-> n],
             raw # None,
             UNCHANGED <<raw, id, req, prop, want, lost, both, applied>>
      PROVE  IInv'
  <2>1. Types'
    BY <1>2, Zenon DEF IInv, Types
  <2>2. ASSUME NEW o \in Reqs PROVE Carried(o)' /\ Backed(o)'
    BY <1>2, Zenon DEF IInv, Carried, Backed
  <2>3. ExclusiveExceptions' /\ AckedEditsKept' /\ AcceptedApplied'
    BY <1>2, Zenon DEF IInv, ExclusiveExceptions, AckedEditsKept, AcceptedApplied
  <2> QED BY <2>1, <2>2, <2>3 DEF IInv
<1>3. ASSUME NEW t \in Texts, NEW d \in Texts, NEW s \in Statuses, PatchFields(t, d, s)
      PROVE  IInv'
  <2> DEFINE idx == [col.idx EXCEPT !.text = t, !.desc = d, !.status = s]
  <2>1. col.idx \in Columns /\ col.seq \in Nat
    BY DEF IInv, Types
  <2>2. idx \in Columns
    BY <2>1, Zenon DEF Columns
  <2> DEFINE n == IF [col.idx EXCEPT !.desc = idx.desc] = idx THEN col.seq ELSE col.seq + 1
  <2>3. n \in Nat
    BY <2>1
  <2>4. col' = [idx |-> idx, seq |-> n]
    BY <1>3, Zenon DEF PatchFields, Revised
  <2> HIDE DEF idx, n
  <2>5. /\ raw # None
        /\ UNCHANGED <<raw, id, req, prop, want, lost, both, applied>>
    BY <1>3 DEF PatchFields
  <2> QED BY <1>2, <2>2, <2>3, <2>4, <2>5, Zenon
<1>4. ASSUME NEW idx \in Ranged, SetRange(idx) PROVE IInv'
  <2>1. col \in [idx : Columns, seq : Nat]
    BY DEF IInv, Types
  <2>2. idx \in Columns
    <3>1. idx \in events_by_range_set_rrule \cup events_by_range_clear_rrule
                   \cup events_by_range_set_status \cup Reworded
            => idx \in Columns
      BY <2>1 DEF events_by_range_set_rrule, events_by_range_clear_rrule,
         events_by_range_set_status, Reworded, Columns
    <3>2. idx \in events_by_range_set_description => idx \in Columns
      BY <2>1 DEF events_by_range_set_description, Columns
    <3>3. ASSUME idx \in events_by_range_set_text_fields PROVE idx \in Columns
      <4>1. PICK t \in Texts, d \in Texts : idx = [col.idx EXCEPT !.text = t, !.desc = d]
        BY <3>3 DEF events_by_range_set_text_fields
      <4> QED BY <2>1, <4>1 DEF Columns
    <3> QED BY <3>1, <3>2, <3>3, Zenon DEF Ranged, events_by_range_set_summary,
         events_by_range_set_location, events_by_range_set_organizer_email,
         events_by_range_set_class, events_by_range_set_transparency
  <2>3. col' = [idx |-> idx, seq |-> col.seq] /\ col.seq \in Nat
    BY <1>4, <2>1 DEF SetRange
  <2>4. /\ raw # None
        /\ UNCHANGED <<raw, id, req, prop, want, lost, both, applied>>
    BY <1>4 DEF SetRange
  <2> QED BY <1>2, <2>2, <2>3, <2>4, Zenon
<1>5. ASSUME Delete PROVE IInv'
  <2>1. /\ raw' = None /\ prop' = [q \in Props |-> None] /\ applied' = {}
        /\ UNCHANGED <<col, id, req, want, lost, both>>
    BY <1>5 DEF Delete
  <2>2. Types'
    BY <2>1, Zenon DEF IInv, Types
  <2>3. ASSUME NEW o \in Reqs PROVE Carried(o)' /\ Backed(o)'
    BY <2>1, Zenon DEF IInv, Carried, Backed, Names
  <2>4. ExclusiveExceptions' /\ AckedEditsKept' /\ AcceptedApplied'
    BY <2>1 DEF ExclusiveExceptions, AckedEditsKept, AcceptedApplied
  <2> QED BY <2>2, <2>3, <2>4 DEF IInv
<1> QED BY <1>1, <1>3, <1>4, <1>5, Zenon DEF Whole

-----------------------------------------------------------------------------
(* The theorems.                                                           *)

\* The invariant holds of a freshly stored row (Init).
LEMMA InitIInv == Init => IInv
<1> SUFFICES ASSUME Init PROVE IInv
  OBVIOUS
<1>1. raw \in Raw /\ load \in Loads
  BY EventRowAssumption, Zenon DEF Init
<1>2. Indexed(raw) \in Columns /\ raw.seq \in Nat /\ Coexisting(raw) \subseteq Insts
  BY <1>1 DEF Raw, Indexed, Columns, Coexisting
<1>3. Types
  BY <1>1, <1>2, Zenon DEF Init, Types
<1>4. \A p \in Reqs : Carried(p) /\ Backed(p)
  BY DEF Init, Carried, Backed
<1>5. ExclusiveExceptions /\ AckedEditsKept /\ AcceptedApplied
  BY DEF Init, ExclusiveExceptions, AckedEditsKept, AcceptedApplied
<1> QED BY <1>3, <1>4, <1>5 DEF IInv

\* Every step of a handler and every statement keeps the invariant (Next).
LEMMA NextIInv == IInv /\ [Next]_vars => IInv'
<1> SUFFICES ASSUME IInv, [Next]_vars PROVE IInv'
  OBVIOUS
<1>1. ASSUME Whole, load' = load PROVE IInv'
  BY <1>1, WholeKeeps
<1>2. ASSUME NEW p \in Reqs, load' = load,
             \/ raw # None /\ req[p] = None /\ Exceptions(p)
             \/ raw # None /\ Scheduling(p)
             \/ Write(p)
      PROVE  IInv'
  BY <1>2, ExceptionsKeep, SchedulingKeeps, WriteKeeps, Zenon
<1>3. ASSUME NEW p \in Reqs, load' = load, Abandon(p) PROVE IInv'
  BY <1>3, RequestKeeps, ZenonT(30) DEF Abandon
<1>4. CASE UNCHANGED vars
  <2>1. Types'
    BY <1>4, Zenon DEF IInv, Types, vars
  <2>2. ASSUME NEW p \in Reqs PROVE Carried(p)' /\ Backed(p)'
    BY <1>4, ZenonT(30) DEF IInv, Carried, Backed, vars
  <2>3. ExclusiveExceptions' /\ AckedEditsKept' /\ AcceptedApplied'
    BY <1>4, Zenon DEF IInv, ExclusiveExceptions, AckedEditsKept,
                AcceptedApplied, vars
  <2> QED BY <2>1, <2>2, <2>3 DEF IInv
<1> QED BY <1>1, <1>2, <1>3, <1>4, Zenon DEF Next

\* The inductive invariant holds throughout.
THEOREM Invariance == Spec => []IInv
BY InitIInv, NextIInv, PTL DEF Spec

\* Whatever requests write over each other, no occurrence is both cancelled and
\* overridden unless a client's own body said so, in the forms of EXDATE and
\* RECURRENCE-ID that the handlers of api/events.rs read and write.
THEOREM ExceptionsExclusive == Spec => []ExclusiveExceptions
<1>1. IInv => ExclusiveExceptions
  BY DEF IInv
<1> QED BY <1>1, Invariance, PTL

\* An acknowledged edit of the text stays until a request that read the row before
\* it writes the whole text back (EventRepo::update, replace_by_uid).
THEOREM EditsKept == Spec => []AckedEditsKept
<1>1. IInv => AckedEditsKept
  BY DEF IInv
<1> QED BY <1>1, Invariance, PTL

\* A proposal is marked accepted only after its times were written
\* (accept_counter, CounterRepo::resolve).
THEOREM AcceptanceApplied == Spec => []AcceptedApplied
<1>1. IInv => AcceptedApplied
  BY DEF IInv
<1> QED BY <1>1, Invariance, PTL

\* While the row lives, sequence counts the changes of its columns but description,
\* whoever makes them, but for the events-by-range statements (the CASE of
\* UPDATE ... SET sequence).
THEOREM SequenceRaised == Spec => SequenceSignals
<1> DEFINE Same == [col.idx EXCEPT !.desc = col'.idx.desc] = col'.idx
           Signals == raw # None /\ raw' # None /\ ~bulk'
                        => col'.seq = IF Same THEN col.seq ELSE col.seq + 1
<1>1. IInv /\ [Next]_vars => [Signals]_vars
  <2> SUFFICES ASSUME IInv, Next, raw # None, raw' # None, ~bulk'
               PROVE  col'.seq = IF Same THEN col.seq ELSE col.seq + 1
    BY Zenon
  <2>1. ASSUME NEW new, col' = Revised(col, new)
        PROVE  col'.seq = IF Same THEN col.seq ELSE col.seq + 1
    <3>1. col'.idx = new
      BY <2>1, RevisedSeq, Zenon
    <3>2. col'.seq = IF [col.idx EXCEPT !.desc = new.desc] = new THEN col.seq ELSE col.seq + 1
      BY <2>1, RevisedSeq, Zenon
    <3> QED BY <3>1, <3>2
  <2>2. ASSUME col' = col PROVE col'.seq = IF Same THEN col.seq ELSE col.seq + 1
    <3>1. col.idx \in Columns
      BY DEF IInv, Types
    <3>2. [col.idx EXCEPT !.desc = col.idx.desc] = col.idx
      BY <3>1 DEF Columns
    <3> QED BY <2>2, <3>2, Zenon
  <2>3. ASSUME NEW r, Store(r) PROVE col' = Revised(col, Indexed(r))
    BY <2>3, Zenon DEF Store
  <2>4. ASSUME Whole PROVE col' = col \/ \E new : col' = Revised(col, new)
    <3>1. ASSUME NEW idx, SetRange(idx) PROVE FALSE
      BY <3>1 DEF SetRange
    <3> QED BY <2>3, <2>4, <3>1, Zenon DEF Whole, Put, PatchFields, Delete
  <2>5. ASSUME NEW p \in Reqs, Write(p) PROVE \E new : col' = Revised(col, new)
    BY <2>3, <2>5, Zenon DEF Write
  <2>6. ASSUME NEW p \in Reqs, Exceptions(p) PROVE col' = col
    BY <2>6, Zenon DEF Exceptions, clear_exdates, touch, events_by_range_cleanup_orphans,
       cancel_event_instance, delete_exdate, delete_override, migrate_override_to_cancel,
       override_event_instance, migrate_cancel_to_override, PatchOverrides, Read, Reading
  <2>7. ASSUME NEW p \in Reqs, Scheduling(p) PROVE col' = col \/ \E new : col' = Revised(col, new)
    BY <2>7, Zenon DEF Scheduling, events_by_range_set_attendees, rsvp, handle_reply,
       handle_cancel, Read, Reading, handle_counter, accept_counter, reject_counter,
       admin_accept, admin_apply, apply_proposed_times, resolve
  <2>8. ASSUME NEW p \in Reqs, Abandon(p) PROVE col' = col
    BY <2>8 DEF Abandon
  <2>9. col' = col \/ \E new : col' = Revised(col, new)
    BY <2>4, <2>5, <2>6, <2>7, <2>8, Zenon DEF Next
  <2> QED BY <2>1, <2>2, <2>9, Zenon
<1> QED BY <1>1, Invariance, PTL DEF Spec, SequenceSignals
=============================================================================
