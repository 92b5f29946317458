# Expresso: TLA+ specifications

Expresso is a groupware suite: about twenty Rust services over PostgreSQL,
Redis, NATS and a directory of blobs. This directory holds TLA+ models of its
drive, mail and calendar services, the TLC instances that check them, and TLAPS
proofs about nine of them. `PROJECT.json` lists every run, the source lines
behind every definition, the hazards and the findings.

To check: `tlc -config MCWopiLock.cfg MCWopiLock`; to prove:
`tlapm WopiLockProofs.tla`.

## The system

| Part | Source (under `src/services`) | Here |
|---|---|---|
| drive: WOPI locks | `expresso-drive/src/{api/wopi,domain/wopi_lock}.rs` | `WopiLock` |
| drive: content and versions | `api/files.rs`, `domain/{file,version}.rs`, `main.rs` | `DriveContent` |
| drive: resumable uploads | `api/uploads.rs`, `domain/upload.rs`, `main.rs` | `DriveUpload` |
| drive: share links | `api/shares.rs`, `domain/share.rs` | `DriveShare`, `DownloadCap` |
| drive: folder tree | `api/files.rs`, `domain/file.rs` | `DriveTree` |
| drive: tenant quota | `domain/quota.rs` | `DriveQuota` |
| mail: message store | `expresso-mail`: IMAP, POP3, ActiveSync, REST and LMTP writers, and the counters' trigger | `MailStore` |
| mail: inbound sessions | `lmtp.rs`, `smtp/{session,submission}.rs`, `ingest.rs`, `scanner.rs` | `SmtpSession` |
| mail: scheduled send | `api/{compose,drafts}.rs`, `lib.rs` | `ScheduledSend` |
| the two together | | `MailFlow` |
| calendar: collections | `expresso-calendar/src/caldav`, `domain/{calendar,event,tombstone_gc}.rs`, migrations | `CalDav` |
| calendar: event text | `api/{events,scheduling}.rs`, `domain/{counter,event,ical,itip}.rs`, `expresso-admin/src/counter.rs` | `EventRow` |
| the rest | see the last section | not modelled |

The drive's parts meet in the tables `drive_files` and `drive_file_versions`
and in the blob directory. A WOPI PutFile passes the lock check (`WopiLock`)
and then writes content (`DriveContent`); a resumable upload (`DriveUpload`)
ends in the same write; both are limited by the quota (`DriveQuota`). Purging
a node of the tree (`DriveTree`) removes its content, its lock and its links.
Each of these modules keeps the state its properties need and takes the others'
effect as an action of its own (`PurgeFile`, `PutWrite`, `FinalizePromote`).

A scheduled message is relayed by a polling worker to the site's mail server,
which hands it back to the LMTP listener for the local recipients. `MailFlow`
composes the two components this way. `MailStore` refines the last step, the
insert into a mailbox, into the transactions that race for its UIDs and
counters. `CalDav` has many events and treats a body as a tag, `EventRow` has
one event and looks into its body.

## How code becomes actions

The services are asynchronous and keep nothing in memory between requests, so
a step is one database transaction, one SQL statement where a transaction has
several that matter, or one file-system call. Requests interleave between
steps. Four facts about the platform are built in:

* `now()` is the time at which a transaction began (`req[c].now` in `WopiLock`
  and `DriveShare`).
* Transactions run at READ COMMITTED: every statement sees what is committed
  when it starts, and an `UPDATE` that waited for a row writes the values it
  had computed before (`MailStore`'s counters). An upsert whose `WHERE` rejects
  the row still locks it; an `UPDATE` that matches no row locks nothing.
* A handler's future is dropped when its client goes away, and a server may
  restart: `Cancel`, `Abandon` or `Fault` ends a request between any two steps.
  Open transactions roll back; blobs and committed rows stay.
* The background workers query tables under row-level security without a
  tenant. The models assume that the service's role sees all rows, as the
  drive's `domain/upload.rs:107` says. If it does not, the workers do nothing.

Left out everywhere: access tokens, hashing, MIME types, the search index,
audit logs, metrics. Permissions appear by their outcome: the gate may refuse
any request in `DriveContent`, and in `DriveTree`, whose callers own every
node, it refuses nodes that are not live.

**Workloads.** All operations of a component at once are out of TLC's reach. The
larger modules have a constant `Loads`: a behaviour chooses one workload at
first (the variable `load`) and uses only its operations, and a run takes all
workloads of its instance. A workload only restricts what the environment asks
for. The proofs hold for every set of workloads, one that allows everything
included.

**History variables** (`acked`, `released`, `cut`, `overlapped`, `drifted`,
`unsure`, `twice`, `tooLate`, `lost`, `bulk`, `heard`, `blind`, `overtaken` and the
like) record what a property talks about. No guard of an action reads one, other
than to bound it (`extra` of `DriveQuota`).

## Modules

**WopiLock**: the lock row of one file. `acquire_or_refresh`,
`unlock_and_relock`, `release` and `get_active` are the repository functions,
`ConflictReply` and `UnlockReread` the second reads after a refusal, `PutCheck`
and `PutWrite` the halves of `put_file_impl`.

**DriveContent**: the files of one folder, their versions and blobs. The
write handlers (upload, finalize, PutFile, restore version) share their steps:
`StoreBlob`, `find_by_name`, `require_write`, `next_no`, `insert_version`,
`update_content`, `insert`. Deletes are a statement followed by `Unlink`. A
storage key stands for its content. A bulk copy is several copies in a row.

**DriveUpload**: one tus session, its `.part` file as an inode that stays
writable through an open handle after a rename, PATCH requests, DELETE and the
hourly worker. Promotion into `drive_files` succeeds or fails as a whole.

**DriveShare**: one link, its file and its downloads, with cap, expiry and
password. **DownloadCap** is the abstract promise: a limit fixed once, and no
more grants than that. `ImplementsCap` is the refinement.

**DriveTree**: rows with parent and name, the rename history, single and bulk
operations. `Cascade` is the effect of `parent_id ON DELETE CASCADE`.

**DriveQuota**: sizes only. Requests check, then write; nothing is reserved. Copies,
restores from the trash and `restore_version` change what is counted and check
nothing; `extra` is what they have added since the last check that passed.

**MailStore**: the rows of `messages` and the counters of `mailboxes`. Writers
that allocate a UID lock the mailbox row first; flag changes, deletes and
re-filing reach it only in the trigger. `refresh` has two steps, the query and
the `UPDATE`, since the row lock is waited for in between. Id lists lie within
one mailbox; a flag change is a write of the row.

**SmtpSession**: the commands of the LMTP, SMTP and submission listeners with
their envelope, and `ingest::process`, one recipient per transaction, with the
alias chain of `resolve_recipient`. The other end is external: it keeps the
recipients of a 4xx answer and tries again. A message may be refused at MAIL FROM
(its declared size, or on the submission port a sender who is not the user) or in
the middle of DATA. As the listeners advertise PIPELINING, RCPT and DATA may
already be on their way after a refused MAIL FROM, which leaves the envelope as it
is; and what is left of a message after the 552 is read as commands (`TextLine`).
**ScheduledSend**: `deliver_at` of each message, the polling workers and the
two ways to cancel. **MailFlow**: both, and the relay between them.

**CalDav**: the tables of calendars, events and tombstones with the trigger
`calendar_events_touch`, all writers of rows, COPY and MOVE, the collector of
tombstones, and the sync-collection REPORT with its three reads and one client.
Deleting a calendar that has events always fails, because the trigger inserts
tombstones with a NULL ctag once the calendar's row is gone. The model has that
failure by its guard, although the calendar's `domain/calendar.rs:224` says
"Delete calendar and cascade events."

**EventRow**: `ical_raw` of one event with the indexed columns, and the handlers
that read the text, edit it and write it back later. Of the text the model keeps
rule, description, other fields, exceptions, overrides, PARTSTAT, STATUS, SEQUENCE
and DTSTAMP. Exceptions come in two forms: the handlers read and write
`EXDATE:<UTC>` and `RECURRENCE-ID:<UTC>`; a client's body may also have lines with
parameters, such as `EXDATE;TZID=...` (`zoned`), which they neither see nor change.
Floating EXDATE values are left out. `admin_accept` and `admin_apply` are the accept
of the admin console, which writes the columns and not the text; its reject has the
effect of `reject_counter`. It changes neither etag nor ctag, so `CalDav` does not
see it.

## Runs that pass

| Run | Shows | Instance | States |
|---|---|---|---|
| `wopi_lock` | an active lock is never taken from its token; a refused LOCK names its blocker; PutFile's check admits only the holder; requests are answered | 2 clients, 2 tokens, lifetime 1, clock 0..1 | 126,179 |
| `drive_content` | a needed blob is missing only after a delete released its key; acknowledged content stays reachable | 2 requests, 2 files, 3 keys, 5 workloads | 928,916 |
| `drive_upload` | no holes; one promotion; what is promoted was acknowledged unless PATCHes overlapped; a complete upload is in some request's hands; sessions end | 3 PATCHes, 2 at a time, 2 units | 567,036 |
| `drive_share` | the cap holds; refinement; dead links serve nobody who comes later | 3 downloads, cap 2 and none | 385,265 |
| `drive_tree` | what is in the trash keeps its name, place and history, also from requests let through before; the history is a chain | 2 requests, 2 folders and a file, 2 names, 4 workloads | 345,553 |
| `drive_quota` | bounded overshoot of checked writes | 2 requests, 2 files, sizes 0 and 1, quota 2, 2 bytes unchecked | 950,382 |
| `mail_store` | no message is lost, or doubled by MOVE; `next_uid` is free and `message_count` exact unless a refresh was overtaken | 2 transactions, 2 mailboxes, 3 rows, 6 workloads | 737,824 |
| `mail_flow` | what is acknowledged was handled; recipients are the message's own; second copies and second relays have a cause; cancellations in time are kept; nothing is forgotten; everything is settled | 2 sessions, 2 jobs, 5 addresses with 2 aliases, 2 workers, 4 messages, 1 failure, 7 workloads | 368,742 |
| `caldav_sync` | a client whose token is current has exactly the calendar, but for changes the code never reports; changes are ordered; the client catches up | 2 calendars, 2 UIDs, ctags to 5, 4 workloads | 232,500 |
| `event_row` | exceptions of an occurrence exclude each other; acknowledged edits are lost only to stale read-modify-write; accepted means applied; sequence rises with the columns | 2 requests, 2 occurrences, 2 rules, 6 workloads | 695,187 |

Why these bounds: a race here needs two requests, and a third (uploads,
downloads) to act on what a race of two left behind. A lifetime of 1 in a
clock of 1 lets a lock expire and be taken over while a transaction that began
before is still open; longer runs of the clock are covered by the proofs. Two
units make a PATCH in the middle possible, and three downloads compete for two
uses. Three message rows are a delivery, its copy and a later one. Two
recipients after each other make a partly delivered batch. Version numbers,
renames, ctags, failures and the clock are bounded in guards by constants. For
what is not proved below these small instances are the only evidence.

Some properties are conditional on a history variable, and TLC refutes each of
them without its condition: `PromotedIsAcked` (`overlapped`), `CompleteInHand`
(`cut`), `AckedReachable` (writers that overlapped), `HistoryMatchesName`
(`drifted`), `OvershootBounded` (`extra`), `NoLeftoverRecipients` and
`CopiesExplained` (messages that were turned down), `ScheduledSent` (rows that cannot be sent, and those they starve),
`NextUidFree` and `CountExact` (`overtaken`), `CurrentClientExact` (`blind`),
`AckedEditsKept` (`lost`), `SequenceSignals` (`bulk`: the statements over a range
leave sequence alone, as documented). The condition says exactly which case the code
does not exclude. Where a comment of the code claims it without the condition,
the claim is among the findings below.

Deadlock is not checked where the instance really ends: the clock or the ctags
run out, downloads are one-shot, all mail is settled.

## Fairness

* `WopiLock`: weak fairness of a request's steps, since the runtime goes on
  polling a handler that is not dropped; strong fairness of the statements
  that may wait for a row lock, since PostgreSQL queues the waiting
  transactions. There is none for `Abandon` or for new requests.
* `DriveUpload`: weak fairness of the worker's loop and of the passing of
  `expires_at`; strong fairness of `purge_expired`: a purge that is tried every
  hour does not fail for ever. Nothing forces a client to send or to finish
  anything.
* `MailFlow`: weak fairness of the passing of `deliver_at`, of each worker's loop
  and of each session's server and client side. Failures and cut connections
  are not fair, and their number is bounded below the client's attempts.
* `CalDav`: the client asks again and again and its REPORT goes on (weak), and
  an answer is not lost for ever (strong). Writers are not fair; the bound on
  the ctag makes them pause.

## Findings

Two runs show a statement of the repository that the code does not keep;
`PROJECT.json` quotes the statements. They are counterexamples of the models;
none was reproduced on a running service.

| Run | The code |
|---|---|
| `dav_move` | a MOVE within a calendar to another name rewrites the event and then deletes that very row |
| `mail_scheduled_cc` | a scheduled message is relayed to its To addressees only |

More instances, which are not among the runs of `PROJECT.json`, end in
counterexamples in the same way. Two of them have several properties:
`tlc -continue -config MCEventRowClaims.cfg MCEventRow` reports the violations of
all of them, and so for `MCCalDavClaims`.

| Instance | Property | Statement | The code |
|---|---|---|---|
| `MCWopiLockPut` | `PutHonoursLock` | `api/wopi.rs:346` | PutFile writes after the lock it checked has changed |
| `MCDriveContentOverwrite` | `AckedKept` | `api/files.rs:2009` | of two overlapping overwrites, one acknowledged content is lost |
| `MCDriveContentVersion` | `LiveNotDeleted` | `api/files.rs:2460` | after a restore, the version and the file share a key, and deleting the version unlinks the live content |
| `MCDriveUploadRace` | `AckedBytesKept` | `domain/upload.rs:125` | a PATCH refused by the compare-and-set has written already |
| `MCDriveTreeMove` | `NotInsideItself` | `api/files.rs:1059` | a folder may be moved below its own child |
| `MCDriveTreeRename` | `NoDrift` | `migrations/20260911000000:5` | of two overlapping renames, the second records a name that was no longer the present one |
| `MCMailStoreCounters` | `CountersSynchronized` | `migrations/20260417143000:70` | an overtaken refresh leaves stale counters |
| `MCMailFlowCancel` | `CancelledNotSent` | `api/compose.rs:1196` | a cancelled message may be in a worker's batch already |
| `MCMailFlowRelay` | `SubmissionRelays` | `smtp/submission.rs:429` | what the submission port accepts for an unknown recipient is not relayed |
| `MCMailFlowPipeline` | `OwnRecipients` | `lmtp.rs:217` offers PIPELINING | after a refused MAIL FROM, pipelined commands go on with the envelope of the transaction before |
| `MCMailFlowRelayed` | `ScheduledRelayed` | `api/compose.rs:558` | a message with Cc recipients only is passed over on every tick |
| `MCMailFlowStarve` | `AddressedRelayed` | `api/compose.rs:558` | such messages fill the batch, and one with a To recipient behind them is never reached |
| `MCMailFlowStore` | `AddressedRelayed` | `api/compose.rs:558` | a body kept in the object store is not found by the worker (`lib.rs:316`) |
| `MCCalDavClaims` | `DeferredTombstonesCovered` | `caldav/sync.rs:70` | a capped delta passes over tombstones below its token |
| `MCCalDavClaims` | `TombstonesDrained` | `caldav/sync.rs:28` | tombstones past the cap are cut off, and the token handed out is the newest |
| `MCCalDavClaims` | `InitialComplete` | `caldav/sync.rs:6`, `:95` | the initial list is cut off at the cap |
| `MCEventRowClaims` | `DeleteExdateRemoves` | `api/events.rs:6096` | deleting one EXDATE panics at the first EXDATE line and removes nothing |
| `MCEventRowClaims` | `RejectedNotApplied` | `api/scheduling.rs:597` | a proposal rejected while it is being accepted is applied |
| `MCEventRowClaims` | `ConflictsRefused` | `api/events.rs:5317`, `:6332` | an EXDATE or RECURRENCE-ID with parameters does not count as a conflict |
| `MCEventRowClaims` | `TouchOnlyStamps` | `api/events.rs:7982`, `:8068` | a touch brings the columns back to the text: later column edits are lost, and sequence rises |
| `MCEventRowClaims` | `SavesRaiseSequence` | `api/events.rs:7348`, `:7451`, `:9805`, `:10212` | a save that leaves every column but the description as it was keeps sequence |
| `MCEventRowClaims` | `LatestReply` | `api/scheduling.rs:290` | replies are compared with the stored text, not with earlier replies, so an older one may replace a newer one |

An attempt to prove `CompleteInHand` for every size found one more divergence: an
upload of no bytes is complete when it is created (`api/uploads.rs:209` accepts
it), but nothing promotes it until an empty PATCH comes, while
`migrations/20260605000000_drive_uploads.sql:4` says that an upload is promoted
when `offset == total_size`. The property therefore asks for `Total > 0`.

## What is proved

Everything below holds for every value of the constants that satisfies the
modules' assumptions: any number of requests, files, sessions, messages, workers
and failures, and any workloads. The assumptions are that the sets TLC takes as
numbers are numbers, that `None` and its like lie outside the sets they extend,
that caps, lifetimes and limits are positive where the code makes them so,
and finiteness of `Downloads`, `Msgs`, `Addrs` and `Insts`. TLC evaluates them in
every run. Each proof has the same shape: an inductive invariant `IInv`, checked
by TLC on the run's instance first; `Init => IInv`; one lemma per action or group
of actions for `IInv /\ [Next]_vars => IInv'`; and a theorem for each property.

**WopiLockProofs**: `NotStolen`, `RefusalNamesBlocker`, `AdmittedUnlocked`.
`NotStolen` needs `NowBehindClock`: a transaction began no later than now, so a
lock it takes for expired has expired. `RefusalNamesBlocker` needs
`BlockerHeld`: from the refusal to the second read, the refused request holds
the row's lock, and the row is active at its time and carries another token.

**DriveShareProofs**: `CapRespected` and `Refinement`. The heart of `IInv` is
`CountExact`, that `download_count` is the number of counted downloads, with
`ServedCounted` (who is past the counter was counted) and `NotYetCounted` (who
is before it was not, so no download counts twice). In `Refinement` an answer
with content is a `Grant`, the insert a `Publish`, every other step stutters.

**DriveUploadProofs**: `Filling`, `OnePromotion`, `AckedContent` and
`CompletionInHand`. `Sound` says what a request knows at each step: its chunk
fits, it has written what it is about to answer for, and past the rename it
alone has the file and `.part` is gone. `OneRenamed` makes the promotion unique.
`Alone` ties the bytes to the acknowledged ones while PATCHes come one at a
time. `InHand` adds to the property that `.part` exists or a request is
promoting: this is why of several requests that finalize at once one can rename.

**DriveContentProofs**: `MissingReleased` and `AckedStays`. `Shape` gives what a
request knows at each step, `Safe` that what it points to is on disk or was
released, and that an unshared writer still sees the content it will archive.
`Fresh` says that the new content of a pending write is its own, so that the
clean-up after a failed write removes nothing anybody needs. `Apart` says that
writers of one file know of each other. `StepKeeps` is the frame lemma: what a
step of some requests must leave alone so that the others keep all this.

**EventRowProofs**: `ExceptionsExclusive`, `EditsKept`, `AcceptanceApplied` and the
action property `SequenceRaised`. The first is about the forms of exceptions that the
handlers read and write. `Carried` says what a
request has in hand between read and write: a text that differs from the one
it read only in the facets it is about, and that cancels and overrides no
occurrence unless a client's own body did. `Edited` is the same of the
pure edits, one lemma for each (`override_event_instance`,
`remove_recurrence_id_override_block` and so on). `Backed` says that an acceptance
about to be recorded has written its times, if the row is still there.

**DriveTreeProofs**: `HistoryChained` and the action property `TrashKept`. `Knows`
says that a rename past its read still has the node's name unless another rename
of the node began, and `Apart` that such renames know of each other. Histories grow
by `ChainExtends`. `TrashKept` needs no invariant on requests: no statement but
restore and purge matches a trashed row, whatever its request was told before.

**SmtpSessionProofs, MailFlowProofs**: the sessions' invariant, in the first, and the
workers', in the second, with the lemmas that the component's steps keep them; the
second composes them, for any interleaving of the two and the relay in between.
`CancelKept`, `ResendsExplained` and `NoneForgotten` rest on `Withdrawn` (a message
cancelled in time is in no batch and will not be found again), `MarksSent` (who
is about to clear `deliver_at` has relayed) and `RelayedOnce` (a message not at
risk is held by one worker at most). `AckedAreHandled`, `RecipientsNamed` and
`CopiesAreExplained` rest on `SessOK` (the envelope's recipients are the message's,
unless it was turned down, and `process` has handled those it is done with), `OneActive` (one live session
per job) and `CopyOK` (a single copy belongs to a recipient the client has let go
of, or to the session that is about to answer). The lemma `Ordered`, that every
set of recipients or messages has a first element, follows from `NatLessThanWellFounded`
of the library.

Only model-checked:

* liveness (`RequestsAnswered`, `SessionsEnd`, `JobsSettled`, `ScheduledSent`,
  `SyncCatchesUp`) and `DeadLinkNotServed`, a nested temporal formula. The
  prover has neither fairness nor `ENABLED`;
* `OvershootBounded`, whose sums over files and versions need induction over
  data;
* the properties of `MailStore` and `CalDav`, and `SettledReceived` of `MailFlow`.
  Nothing stands in the way of these but the work.

## Not modelled, and why

Folder quotas, check-out locks, stars, comments, tags and reactions of the drive
are single statements that guard none of the operations above. Orphan blobs
after a crash are states of `DriveContent`, but nothing promises to collect
them. Statements over several mailboxes, creation and renaming of mailboxes,
untagged IMAP responses, snooze and vacation are left out of the mail models;
Sieve, scanner and DMARC appear by their verdict. Alarms, iMIP publishing and
the event bus of the calendar are not modelled, nor are contacts, whose
collections work like the calendar's. Notifications, auth, chat, meet,
compliance and the core libraries are not modelled yet. Front ends, parsers,
encoders and wrappers of external services have no state worth checking.
