------------------------------- MODULE CalDav -------------------------------
(***************************************************************************)
(* CalDAV collections of expresso-calendar: the tables calendars,          *)
(* calendar_events and calendar_event_tombstones with their trigger, every *)
(* writer of an event row, COPY and MOVE, the tombstone collector, and the *)
(* sync-collection REPORT (RFC 6578) as seen by one client of the calendar *)
(* Home.                                                                   *)
(*                                                                         *)
(* An event row is identified by (calendar, uid).  Its content is a tag: a *)
(* write of a new body makes a new tag, and the etag, a hash of the body,  *)
(* is that tag.  The trigger calendar_events_touch updates the calendar    *)
(* row, so writers of one calendar are serialized by its row lock and one  *)
(* statement is one step; a REPORT reads the ctag, the changed rows and    *)
(* the tombstones in three transactions, COPY and MOVE are three as well.  *)
(***************************************************************************)
EXTENDS Naturals, FiniteSets, FiniteSetsExt

CONSTANTS
  Cals,       \* calendars
  Home,       \* the calendar the client synchronizes
  Uids,       \* event UIDs
  MaxLives,   \* bound on how often a calendar is created with the same UUID
  ListLimit,  \* cap on the rows of EventRepo::list
  Loads,      \* workloads: the kinds of request of a behaviour (does), the bound
              \* on the ctag of each calendar (ctags) and MAX_SYNC_ROWS, the cap
              \* on the rows of one delta query (rows)
  None

Kinds == {"write", "collection", "purge", "copy", "sync"}

ASSUME CalDavAssumption ==
  /\ IsFiniteSet(Cals) /\ Home \in Cals
  /\ IsFiniteSet(Uids) /\ None \notin Uids
  /\ {MaxLives, ListLimit} \subseteq Nat \ {0}
  /\ IsFiniteSet(Loads)
  /\ \A l \in Loads :
       /\ l.does \subseteq Kinds
       /\ l.ctags \in [Cals -> Nat \ {0}]
       /\ l.rows \in Nat \ {0}

VARIABLES
  cal,     \* ctag of each calendar, 0 when the calendar does not exist
  ev,      \* ev[c][u]: the row of uid u in calendar c, or None
  tomb,    \* calendar_event_tombstones
  dav,     \* the COPY or MOVE request being processed, or None
  client,  \* sync token and local copy of the client
  sync,    \* the sync-collection REPORT being processed
  load,    \* the workload of this behaviour
  lives,   \* history: number of times each calendar was created
  blind    \* history: uids of Home whose fate the client was not told

vars == <<cal, ev, tomb, dav, client, sync, load, lives, blind>>

Ctags == 1 .. Max({l.ctags[c] : l \in Loads, c \in Cals})
Tags == Cals \X (1 .. MaxLives) \X Ctags
Row == [etag : Tags, raw : Tags, ctag : Ctags]
Tombstone == [cal : Cals, uid : Uids, ctag : Ctags]
Idle == [pc |-> "idle", from |-> 0, cur |-> 0, life |-> 0, tok |-> 0,
         out |-> [u \in Uids |-> None], gone |-> {}, blind |-> {}]

Init ==
  /\ cal = [c \in Cals |-> 1]
  /\ ev = [c \in Cals |-> [u \in Uids |-> None]]
  /\ tomb = {}
  /\ dav = None
  /\ client = [tok |-> None, view |-> [u \in Uids |-> None], life |-> 0]
  /\ sync = Idle
  /\ load \in Loads
  /\ lives = [c \in Cals |-> 1]
  /\ blind = {}

Live(c) == cal[c] > 0
Members(c) == {u \in Uids : ev[c][u] # None}
Room(c, n) == Live(c) /\ cal[c] + n <= load.ctags[c]
NewTag(c, n) == <<c, lives[c], cal[c] + n>>

-----------------------------------------------------------------------------
(* Writers of calendar_events.                                             *)

\* Mutant: the trigger stamps all rows of one statement with the same ctag.
StampsOnce(c, S) ==
  {[u \in S |-> cal[c] + 1]}

\* calendar_events_touch: each of the rows S, in some order, takes the next
\* value of the ctag of calendar c.
Stamps(c, S) ==
  {f \in [S -> cal[c] + 1 .. cal[c] + Cardinality(S)] :
     \A u, v \in S : f[u] = f[v] => u = v}

Bump(c, n) == Room(c, n) /\ cal' = [cal EXCEPT ![c] = @ + n]

\* Rows of Home that leave it without a tombstone, or whose tombstone is gone.
Untold(S) ==
  /\ blind' = blind \cup S
  /\ sync' = IF sync.pc = "idle" THEN sync ELSE [sync EXCEPT !.blind = @ \cup S]

Told == UNCHANGED <<blind, sync>>

\* EventRepo::create: a second row with the uid violates the unique index.
Create(c, u) ==
  /\ ev[c][u] = None
  /\ Bump(c, 1)
  /\ LET t == NewTag(c, 1)
     IN  ev' = [ev EXCEPT ![c][u] = [etag |-> t, raw |-> t, ctag |-> cal[c] + 1]]
  /\ Told
  /\ UNCHANGED <<tomb, dav, client, lives>>

\* INSERT ... ON CONFLICT DO UPDATE fires the BEFORE INSERT trigger and, when
\* the row exists, the BEFORE UPDATE trigger too.
UpsertBumps(c, u) == IF ev[c][u] = None THEN 1 ELSE 2

\* EventRepo::replace_by_uid, with the body's tag.
ReplaceByUid(c, u, raw) ==
  LET n == UpsertBumps(c, u)
  IN  /\ Bump(c, n)
      /\ ev' = [ev EXCEPT ![c][u] = [etag |-> raw, raw |-> raw, ctag |-> cal[c] + n]]

\* CalDAV PUT.
Put(c, u) ==
  /\ ReplaceByUid(c, u, NewTag(c, UpsertBumps(c, u)))
  /\ Told
  /\ UNCHANGED <<tomb, dav, client, lives>>

\* EventRepo::update: the new body may carry another UID, and the row follows
\* it.  No tombstone is written for the old one.
Update(c, u, v) ==
  /\ ev[c][u] # None
  /\ v = u \/ ev[c][v] = None
  /\ Bump(c, 1)
  /\ LET t == NewTag(c, 1)
         row == [etag |-> t, raw |-> t, ctag |-> cal[c] + 1]
     IN  ev' = [ev EXCEPT ![c] = [@ EXCEPT ![u] = None, ![v] = row]]
  /\ IF v # u /\ c = Home THEN Untold({u}) ELSE Told
  /\ UNCHANGED <<tomb, dav, client, lives>>

\* EventRepo::patch_fields: a random etag, the body stays.
PatchFields(c, u) ==
  /\ ev[c][u] # None
  /\ Bump(c, 1)
  /\ ev' = [ev EXCEPT ![c][u] = [@ EXCEPT !.etag = NewTag(c, 1), !.ctag = cal[c] + 1]]
  /\ Told
  /\ UNCHANGED <<tomb, dav, client, lives>>

\* The set_*_range and clear_rrule_range statements: columns of the rows S
\* change, etag and body do not.
SetRange(c, S) ==
  /\ S # {} /\ S \subseteq Members(c)
  /\ Bump(c, Cardinality(S))
  /\ \E f \in Stamps(c, S) :
       ev' = [ev EXCEPT ![c] = [u \in Uids |->
                IF u \in S THEN [@[u] EXCEPT !.ctag = f[u]] ELSE @[u]]]
  /\ Told
  /\ UNCHANGED <<tomb, dav, client, lives>>

\* DELETE of the rows S: the trigger writes one tombstone per row.
DeleteRows(c, S) ==
  /\ S # {} /\ S \subseteq Members(c)
  /\ Bump(c, Cardinality(S))
  /\ ev' = [ev EXCEPT ![c] = [u \in Uids |-> IF u \in S THEN None ELSE @[u]]]
  /\ \E f \in Stamps(c, S) :
       tomb' = tomb \cup {[cal |-> c, uid |-> u, ctag |-> f[u]] : u \in S}

\* EventRepo::delete, delete_by_uid and delete_range.
Delete(c, S) ==
  /\ DeleteRows(c, S)
  /\ Told
  /\ UNCHANGED <<dav, client, lives>>

\* EventRepo::move_range: one UPDATE of calendar_id; the trigger touches the
\* destination only.  A uid that exists there fails the statement.
MoveRange(c, d, S) ==
  /\ S # {} /\ S \subseteq Members(c)
  /\ c # d => S \cap Members(d) = {}
  /\ Bump(d, Cardinality(S))
  /\ \E f \in Stamps(d, S) :
       LET left == [ev EXCEPT ![c] = [u \in Uids |-> IF u \in S THEN None ELSE @[u]]]
       IN  ev' = [left EXCEPT ![d] = [u \in Uids |->
                    IF u \in S THEN [ev[c][u] EXCEPT !.ctag = f[u]] ELSE @[u]]]
  /\ IF c = Home /\ c # d THEN Untold(S) ELSE Told
  /\ UNCHANGED <<tomb, dav, client, lives>>

\* CalendarRepo::delete.  With events left the cascade fires the trigger, which
\* finds no calendar row and fails on the tombstone's NOT NULL ctag.
DeleteCalendar(c) ==
  /\ Live(c) /\ Members(c) = {}
  /\ cal' = [cal EXCEPT ![c] = 0]
  /\ Told
  /\ UNCHANGED <<ev, tomb, dav, client, lives>>

\* MKCALENDAR with the UUID of a deleted calendar: the ctag starts over.
MkCalendar(c) ==
  /\ ~Live(c) /\ lives[c] < MaxLives
  /\ cal' = [cal EXCEPT ![c] = 1]
  /\ lives' = [lives EXCEPT ![c] = @ + 1]
  /\ Told
  /\ UNCHANGED <<ev, tomb, dav, client>>

KnownTo(tok) == IF tok = None THEN 0 ELSE tok

\* tombstone_gc::purge_once: tombstones older than the retention window, that
\* is those of each calendar up to some ctag.
PurgeOnce(cut) ==
  LET old == {t \in tomb : t.ctag <= cut[t.cal]}
  IN  /\ old # {}
      /\ tomb' = tomb \ old
      /\ Untold({t.uid : t \in {o \in old : o.cal = Home /\ o.ctag > KnownTo(client.tok)}})
      /\ UNCHANGED <<cal, ev, dav, client, lives>>

-----------------------------------------------------------------------------
(* COPY and MOVE.                                                          *)

\* process: the source row is read, the destination is written later, and a
\* MOVE deletes the source last unless it is the row the URI names.
BeginCopy(c, u, d, v, move) ==
  /\ dav = None
  /\ ev[c][u] # None
  /\ dav' = [src |-> c, dst |-> d, uid |-> u, todo |-> {[uid |-> u, raw |-> ev[c][u].raw]},
             drop |-> IF move /\ ~(c = d /\ u = v) THEN "event" ELSE "none"]
  /\ Told
  /\ UNCHANGED <<cal, ev, tomb, client, lives>>

\* process_collection: EventRepo::list of the source, at most ListLimit rows;
\* the destination is created when it does not exist.
BeginCollection(c, d, move) ==
  /\ dav = None
  /\ Live(c)
  /\ \E S \in SUBSET Members(c) :
       /\ Cardinality(S) = Min({Cardinality(Members(c)), ListLimit})
       /\ dav' = [src |-> c, dst |-> d, uid |-> None,
                  todo |-> {[uid |-> u, raw |-> ev[c][u].raw] : u \in S},
                  drop |-> IF move /\ c # d THEN "calendar" ELSE "none"]
  /\ \/ Live(d) /\ UNCHANGED <<cal, lives>>
     \/ /\ ~Live(d) /\ lives[d] < MaxLives
        /\ cal' = [cal EXCEPT ![d] = 1]
        /\ lives' = [lives EXCEPT ![d] = @ + 1]
  /\ Told
  /\ UNCHANGED <<ev, tomb, client>>

\* One replace_by_uid of the request.
WriteCopy ==
  /\ dav # None
  /\ \E t \in dav.todo :
       /\ ReplaceByUid(dav.dst, t.uid, t.raw)
       /\ dav' = [dav EXCEPT !.todo = @ \ {t}]
  /\ Told
  /\ UNCHANGED <<tomb, client, lives>>

\* The last statement of a MOVE, and the answer.
FinishCopy ==
  /\ dav # None /\ dav.todo = {}
  /\ dav' = None
  /\ CASE dav.drop = "none" -> UNCHANGED <<cal, ev, tomb>>
       [] dav.drop = "event" ->
            IF ev[dav.src][dav.uid] # None THEN DeleteRows(dav.src, {dav.uid})
                                           ELSE UNCHANGED <<cal, ev, tomb>>
       [] dav.drop = "calendar" ->
            /\ cal' = IF Members(dav.src) = {} THEN [cal EXCEPT ![dav.src] = 0] ELSE cal
            /\ UNCHANGED <<ev, tomb>>
  /\ Told
  /\ UNCHANGED <<client, lives>>

\* A failing statement, or a lost connection, ends the request half way.
AbortCopy ==
  /\ dav # None
  /\ dav' = None
  /\ Told
  /\ UNCHANGED <<cal, ev, tomb, client, lives>>

-----------------------------------------------------------------------------
(* The sync-collection REPORT.                                             *)

\* life is that of the calendar the client's first full listing was of: a token
\* does not tell the calendar from one created later with the same UUID.
Begun(pc) ==
  [Idle EXCEPT !.pc = pc, !.from = KnownTo(client.tok), !.cur = cal[Home],
               !.tok = cal[Home],
               !.life = IF client.tok = None THEN lives[Home] ELSE client.life]

\* sync::handle up to its first query: the ctag is read and compared with the
\* client's token.  A client told that its token is no longer valid forgets it.
SyncBegin ==
  /\ sync.pc = "idle"
  /\ CASE ~Live(Home) ->
            /\ client' = [client EXCEPT !.tok = None, !.view = [u \in Uids |-> None]]
            /\ blind' = {}
            /\ UNCHANGED sync
       [] Live(Home) /\ client.tok = None ->
            sync' = Begun("initial") /\ UNCHANGED <<client, blind>>
       [] Live(Home) /\ client.tok # None /\ client.tok < cal[Home] ->
            sync' = Begun("changed") /\ UNCHANGED <<client, blind>>
       [] Live(Home) /\ client.tok # None /\ client.tok > cal[Home] ->
            /\ client' = [client EXCEPT !.tok = None]
            /\ UNCHANGED <<sync, blind>>
       [] OTHER -> UNCHANGED <<client, sync, blind>>
  /\ UNCHANGED <<cal, ev, tomb, dav, lives>>

\* Mutant: the newest rows instead of the oldest.
Newest(S, n) == {r \in S : Cardinality({q \in S : q.ctag > r.ctag}) < n}

\* The rows of S that ORDER BY ctag LIMIT n returns.
Oldest(S, n) == {r \in S : Cardinality({q \in S : q.ctag < r.ctag}) < n}

\* Mutant: the current ctag even when the delta was capped.
PartialTokenCurrent(rows) == sync.cur

\* Mutant: last_emitted keeps the value it started from.
PartialTokenFrom(rows) == sync.from

\* The token of a capped delta: the ctag of the last row emitted.
PartialToken(rows) == Max({r.ctag : r \in rows})

ChangedRows ==
  {[uid |-> u, etag |-> ev[Home][u].etag, ctag |-> ev[Home][u].ctag] : u \in
     {m \in Members(Home) : ev[Home][m].ctag > sync.from}}

TombstonesSince(from) == {t \in tomb : t.cal = Home /\ t.ctag > from}

Listed(rows) ==
  [u \in Uids |-> IF \E r \in rows : r.uid = u
                  THEN (CHOOSE r \in rows : r.uid = u).etag ELSE None]

\* write_changed_since.  A delta that hits the cap is answered at once; the
\* tombstones it passes over are remembered in blind.
WriteChangedSince ==
  /\ sync.pc = "changed"
  /\ LET rows == Oldest(ChangedRows, load.rows)
         truncated == Cardinality(rows) = load.rows
         last == PartialToken(rows)
         passed == {t.uid : t \in {o \in TombstonesSince(sync.from) : o.ctag <= last}}
     IN  sync' = IF truncated
                 THEN [sync EXCEPT !.pc = "answer", !.out = Listed(rows), !.tok = last,
                                   !.blind = @ \cup (passed \ Members(Home))]
                 ELSE [sync EXCEPT !.pc = "tombstones", !.out = Listed(rows)]
  /\ UNCHANGED <<cal, ev, tomb, dav, client, lives, blind>>

\* write_tombstones_since.  The client takes the answer in document order, so
\* for a uid reported as a member and as deleted the deletion wins.  A uid is
\* reported as deleted although it is a member when it was created again after
\* the tombstone was written, in this calendar or in one with the same UUID.
WriteTombstonesSince ==
  /\ sync.pc = "tombstones"
  /\ LET all == TombstonesSince(sync.from)
         gone == {t.uid : t \in Oldest(all, load.rows)}
         cut == {t.uid : t \in all} \ gone
     IN  sync' = [sync EXCEPT !.pc = "answer", !.gone = gone,
                              !.blind = @ \cup (cut \ Members(Home))
                                          \cup (gone \cap Members(Home))]
  /\ UNCHANGED <<cal, ev, tomb, dav, client, lives, blind>>

\* The initial REPORT: EventRepo::list, at most ListLimit rows.
WriteInitial ==
  /\ sync.pc = "initial"
  /\ \E S \in SUBSET Members(Home) :
       /\ Cardinality(S) = Min({Cardinality(Members(Home)), ListLimit})
       /\ sync' = [sync EXCEPT !.pc = "listed",
                     !.out = [u \in Uids |-> IF u \in S THEN ev[Home][u].etag ELSE None],
                     !.blind = @ \cup (Members(Home) \ S)]
  /\ UNCHANGED <<cal, ev, tomb, dav, client, lives, blind>>

\* The answer arrives and the client applies it.
Applied(u) ==
  CASE sync.pc = "answer" /\ u \in sync.gone -> None
    [] sync.pc = "answer" /\ u \notin sync.gone /\ sync.out[u] = None -> client.view[u]
    [] OTHER -> sync.out[u]

SyncAnswer ==
  /\ sync.pc \in {"answer", "listed"}
  /\ client' = [tok |-> sync.tok, view |-> [u \in Uids |-> Applied(u)], life |-> sync.life]
  /\ blind' = sync.blind \cup
       (IF sync.pc = "listed" THEN {}
        ELSE {u \in blind : u \notin sync.gone /\ sync.out[u] = None})
  /\ sync' = Idle
  /\ UNCHANGED <<cal, ev, tomb, dav, lives>>

\* The answer is lost, or the REPORT failed: it only reads, so when does not
\* matter.  The client keeps its token and asks again.
SyncLost ==
  /\ sync.pc \in {"answer", "listed"}
  /\ sync' = Idle
  /\ UNCHANGED <<cal, ev, tomb, dav, client, lives, blind>>

-----------------------------------------------------------------------------
Write ==
  /\ "write" \in load.does
  /\ \E c \in Cals :
       \/ \E u \in Uids : Create(c, u) \/ Put(c, u) \/ PatchFields(c, u)
       \/ \E u, v \in Uids : Update(c, u, v)
       \/ \E S \in SUBSET Uids : SetRange(c, S) \/ Delete(c, S)
       \/ \E d \in Cals, S \in SUBSET Uids : MoveRange(c, d, S)

Collection ==
  /\ "collection" \in load.does
  /\ \E c \in Cals : DeleteCalendar(c) \/ MkCalendar(c)

Purge ==
  /\ "purge" \in load.does
  /\ \E cut \in [Cals -> {0} \cup {t.ctag : t \in tomb}] : PurgeOnce(cut)

Copy ==
  /\ "copy" \in load.does
  /\ \/ \E c, d \in Cals, u, v \in Uids, move \in BOOLEAN : BeginCopy(c, u, d, v, move)
     \/ \E c, d \in Cals, move \in BOOLEAN : BeginCollection(c, d, move)
     \/ WriteCopy
     \/ FinishCopy
     \/ AbortCopy

Sync ==
  /\ "sync" \in load.does
  /\ \/ SyncBegin
     \/ WriteChangedSince
     \/ WriteTombstonesSince
     \/ WriteInitial
     \/ SyncAnswer
     \/ SyncLost

Next == (Write \/ Collection \/ Purge \/ Copy \/ Sync) /\ UNCHANGED load

Spec == Init /\ [][Next]_vars

\* The client polls, the server finishes a REPORT it has begun, and the
\* connection does not fail for ever.
FairSpec ==
  /\ Spec
  /\ WF_vars(Sync /\ SyncBegin /\ UNCHANGED load)
  /\ WF_vars(Sync /\ (WriteChangedSince \/ WriteTombstonesSince \/ WriteInitial) /\ UNCHANGED load)
  /\ SF_vars(Sync /\ SyncAnswer /\ UNCHANGED load)

-----------------------------------------------------------------------------
\* Types of the state; no row carries a ctag its calendar has not reached.
TypeOK ==
  /\ cal \in [Cals -> {0} \cup Ctags]
  /\ ev \in [Cals -> [Uids -> Row \cup {None}]]
  /\ \A c \in Cals, u \in Uids : ev[c][u] # None => ev[c][u].ctag <= cal[c]
  /\ tomb \subseteq Tombstone
  /\ client.tok \in {None} \cup Ctags
  /\ client.view \in [Uids -> Tags \cup {None}]
  /\ lives \in [Cals -> 1 .. MaxLives]
  /\ blind \subseteq Uids /\ sync.blind \subseteq Uids

\* A client whose token is the collection's ctag has exactly the collection's
\* members with their etags, whatever writers, the collector and lost answers
\* did between the three reads of its REPORTs.  Excepted are the uids the
\* protocol never told it about (blind): a row moved to another calendar or
\* renamed by an update leaves no tombstone, a tombstone was purged before the
\* client asked, passed over by a capped delta or cut off, the uid was created
\* again after a tombstone of the delta, or EventRepo::list was cut off.  Three of
\* these are against comments of sync.rs: DeferredTombstonesCovered,
\* TombstonesDrained and InitialComplete below.
CurrentClientExact ==
  (Live(Home) /\ client.tok = cal[Home] /\ client.life = lives[Home]) =>
    \A u \in Uids \ blind :
      client.view[u] = IF ev[Home][u] = None THEN None ELSE ev[Home][u].etag

\* The ctag a row or a tombstone carries identifies one change of the
\* collection: no two share it, so that a token splits the changes into those a
\* client has seen and those it has not.
ChangesOrdered ==
  \A c \in Cals : Live(c) =>
    /\ \A u, v \in Members(c) : ev[c][u].ctag = ev[c][v].ctag => u = v
    /\ \A t \in tomb, u \in Members(c) :
         t.cal = c /\ t.ctag = ev[c][u].ctag => lives[c] > 1
    /\ \A s, t \in tomb : s.cal = c /\ t.cal = c /\ s.ctag = t.ctag => s = t \/ lives[c] > 1

\* A client that keeps asking reaches the collection's ctag once the writers
\* pause: a capped delta always advances the token.
SyncCatchesUp == <>[]("sync" \in load.does /\ Live(Home) => client.tok = cal[Home])

\* The last step of a MOVE deletes the source row, not the row the MOVE has
\* just written.
MoveKeepsEvent ==
  [][dav # None /\ dav.todo = {} /\ dav' = None /\ dav.drop = "event"
       /\ ev[dav.dst][dav.uid] # None
     => ev'[dav.dst][dav.uid] # None]_vars

-----------------------------------------------------------------------------
(* What the comments of sync.rs say of three of the exceptions of          *)
(* CurrentClientExact: each is violated on MCCalDavClaims.cfg.             *)

\* "defer tombstones to the next round (the next from-ctag covers them)": none of
\* a uid that stays deleted lies below the token a capped delta hands out.
DeferredTombstonesCovered ==
  [][sync.pc = "changed" /\ sync'.pc = "answer" =>
       \A t \in TombstonesSince(sync.from) :
         t.uid \in Members(Home) \/ t.ctag > sync'.tok]_vars

\* "A client that hits the cap keeps an older token and re-syncs to drain the
\* rest": a tombstone the cap cuts off lies above the token handed out.
TombstonesDrained ==
  [][sync.pc = "tombstones" /\ sync'.pc = "answer" =>
       \A t \in TombstonesSince(sync.from) :
         t.uid \in Members(Home) \cup sync'.gone \/ t.ctag > sync'.tok]_vars

\* "initial sync: emit all current events", "full resend": the answer without a
\* token lists every member.
InitialComplete ==
  [][sync.pc = "initial" /\ sync'.pc = "listed" =>
       \A u \in Members(Home) : sync'.out[u] # None]_vars
=============================================================================
