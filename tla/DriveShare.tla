------------------------------ MODULE DriveShare ----------------------------
(***************************************************************************)
(* A public share link of the drive (api/shares.rs, domain/share.rs and    *)
(* the SQL functions drive_share_resolve and drive_share_consume): one     *)
(* file, one link on it, and the anonymous downloads that use the link     *)
(* while its owner revokes it, trashes, restores or purges the file.       *)
(*                                                                         *)
(* Each step of a download is one database statement or one file access.   *)
(* A download acts on the row as it was when resolved.  Links do not       *)
(* interact.  Passwords are right or wrong; hashing is left out.           *)
(***************************************************************************)
EXTENDS Naturals, FiniteSets

CONSTANTS
  Downloads,  \* GET /drive/share/:token requests
  Caps,       \* values of max_downloads
  Ttls,       \* values of expires_in_seconds
  MaxTime,    \* bound on the clock
  None,       \* no row
  Unlimited   \* max_downloads IS NULL

\* create_inner rejects other values; the clock only counts up to MaxTime.
ASSUME CapsAssumption == Caps \subseteq Nat \ {0} /\ Unlimited \notin Nat
ASSUME DownloadsAssumption == IsFiniteSet(Downloads)
ASSUME TimeAssumption == Ttls \subseteq Nat \ {0} /\ MaxTime \in Nat

VARIABLES
  share,    \* the drive_shares row
  file,     \* the file: "live", "trashed", "purged"
  clock,
  creator,  \* the request that publishes the link
  req,      \* the downloads
  consumed  \* history: downloads that drive_share_consume counted

vars == <<share, file, clock, creator, req, consumed>>

Limits == Caps \cup {Unlimited}

\* A row removed by ON DELETE CASCADE keeps its last value, for the history.
Share == [state : {"live", "revoked", "deleted"}, expires : Nat, cap : Limits,
          count : Nat, protected : BOOLEAN]

Pcs == {"new", "gate", "begin", "consume", "fetch", "read", "served", "refused"}

ASSUME NoneAssumption == None \notin Share /\ None \notin Limits

Request == [pc : Pcs, row : Share \cup {None}, now : Nat]

\* Every variable has its type, and the counter of a capped link stays within
\* its cap.
TypeOK ==
  /\ share \in Share \cup {None}
  /\ share # None => share.cap = Unlimited \/ share.count <= share.cap
  /\ file \in {"live", "trashed", "purged"}
  /\ clock \in Nat
  /\ creator \in [pc : {"idle", "insert", "done"}, expires : Nat]
  /\ req \in [Downloads -> Request]
  /\ consumed \subseteq Downloads

Init ==
  /\ share = None /\ file = "live" /\ clock = 0
  /\ creator = [pc |-> "idle", expires |-> 0]
  /\ req = [d \in Downloads |-> [pc |-> "new", row |-> None, now |-> 0]]
  /\ consumed = {}

(***************************************************************************)
(* Publishing the link: the file must be live when it is checked; expiry   *)
(* is computed before the row is inserted.                                 *)
(***************************************************************************)
CreateCheck(ttl) ==
  /\ creator.pc = "idle" /\ file = "live"
  /\ creator' = [pc |-> "insert", expires |-> clock + ttl]
  /\ UNCHANGED <<share, file, clock, req, consumed>>

\* The foreign key refuses the row when the file was purged meanwhile.
insert(cap, protected) ==
  /\ creator.pc = "insert"
  /\ creator' = [creator EXCEPT !.pc = "done"]
  /\ share' = IF file = "purged" THEN None
              ELSE [state |-> "live", expires |-> creator.expires, cap |-> cap,
                    count |-> 0, protected |-> protected]
  /\ UNCHANGED <<file, clock, req, consumed>>

revoke ==
  /\ share # None /\ share.state = "live"
  /\ share' = [share EXCEPT !.state = "revoked"]
  /\ UNCHANGED <<file, clock, creator, req, consumed>>

(***************************************************************************)
(* The public download.                                                    *)
(***************************************************************************)
Goto(d, pc) == req' = [req EXCEPT ![d].pc = pc]
RowThere == share # None /\ share.state # "deleted"

resolve(d) ==
  /\ req[d].pc = "new" /\ creator.pc = "done"
  /\ \/ RowThere /\ req' = [req EXCEPT ![d] = [pc |-> "gate", row |-> share, now |-> 0]]
     \/ ~RowThere /\ Goto(d, "refused")
  /\ UNCHANGED <<share, file, clock, creator, consumed>>

\* revoked_at is that of the resolved row, the time is that of the service.
GateOpenToRevoked(row) == row.expires >= clock
GateOpen(row) == row.state # "revoked" /\ row.expires >= clock

public_download_gate(d, passwordOk) ==
  /\ req[d].pc = "gate"
  /\ LET row == req[d].row IN
     IF GateOpen(row) /\ (row.protected => passwordOk)
     THEN Goto(d, IF row.cap = Unlimited THEN "fetch" ELSE "begin")
     ELSE Goto(d, "refused")
  /\ UNCHANGED <<share, file, clock, creator, consumed>>

\* now() in drive_share_consume is the time its transaction began; its UPDATE
\* may have waited for the row since.
ConsumeBegin(d) ==
  /\ req[d].pc = "begin"
  /\ req' = [req EXCEPT ![d].pc = "consume", ![d].now = clock]
  /\ UNCHANGED <<share, file, clock, creator, consumed>>

ConsumableAsResolved(d) ==
  share.state = "live" /\ share.expires > req[d].now /\ req[d].row.count < share.cap
ConsumableOnePast(d) ==
  share.state = "live" /\ share.expires > req[d].now /\ share.count <= share.cap
Consumable(d) ==
  share.state = "live" /\ share.expires > req[d].now /\ share.count < share.cap

try_consume_download(d) ==
  /\ req[d].pc = "consume"
  /\ \/ /\ Consumable(d)
        /\ share' = [share EXCEPT !.count = @ + 1]
        /\ consumed' = consumed \cup {d}
        /\ Goto(d, "fetch")
     \/ /\ ~Consumable(d)
        /\ Goto(d, "refused")
        /\ UNCHANGED <<share, consumed>>
  /\ UNCHANGED <<file, clock, creator>>

FetchFile(d) ==
  /\ req[d].pc = "fetch"
  /\ Goto(d, IF file = "live" THEN "read" ELSE "refused")
  /\ UNCHANGED <<share, file, clock, creator, consumed>>

\* The blob may be unreadable by now.
Serve(d) ==
  /\ req[d].pc = "read"
  /\ \E answer \in {"served", "refused"} : Goto(d, answer)
  /\ UNCHANGED <<share, file, clock, creator, consumed>>

\* The connection drops, or the server restarts, between two steps.
Cancel(d) ==
  /\ req[d].pc \notin {"new", "served", "refused"}
  /\ Goto(d, "refused")
  /\ UNCHANGED <<share, file, clock, creator, consumed>>

(***************************************************************************)
(* The file's own life, and time.                                          *)
(***************************************************************************)
TrashFile ==
  /\ file = "live" /\ file' = "trashed"
  /\ UNCHANGED <<share, clock, creator, req, consumed>>

RestoreFile ==
  /\ file = "trashed" /\ file' = "live"
  /\ UNCHANGED <<share, clock, creator, req, consumed>>

\* From the trash, or live when it expires (purge_expired_files).
PurgeFile ==
  /\ file # "purged" /\ file' = "purged"
  /\ share' = IF share = None THEN None ELSE [share EXCEPT !.state = "deleted"]
  /\ UNCHANGED <<clock, creator, req, consumed>>

Tick ==
  /\ clock < MaxTime /\ clock' = clock + 1
  /\ UNCHANGED <<share, file, creator, req, consumed>>

Step(d) ==
  \/ resolve(d)
  \/ \E passwordOk \in BOOLEAN : public_download_gate(d, passwordOk)
  \/ ConsumeBegin(d) \/ try_consume_download(d) \/ FetchFile(d) \/ Serve(d) \/ Cancel(d)

Next ==
  \/ \E ttl \in Ttls : CreateCheck(ttl)
  \/ \E cap \in Limits, protected \in BOOLEAN : insert(cap, protected)
  \/ revoke \/ TrashFile \/ RestoreFile \/ PurgeFile \/ Tick
  \/ \E d \in Downloads : Step(d)

Spec == Init /\ [][Next]_vars

-----------------------------------------------------------------------------
Served == {d \in Downloads : req[d].pc = "served"}

\* However downloads race, a link with max_downloads is never served more
\* often than that (share.rs:153-157), and every one served was counted.
CapHolds ==
  (share # None /\ share.cap # Unlimited) =>
     Served \subseteq consumed /\ Cardinality(consumed) <= share.cap

\* The link implements the promise of DownloadCap: to the owner, its limit is
\* fixed at creation and each answer with content is one grant under it.
Promise == INSTANCE DownloadCap WITH
  limit <- IF share = None THEN None ELSE share.cap,
  granted <- Cardinality(Served)
ImplementsCap == Promise!Spec

\* A download that begins after the link was revoked, removed with its file,
\* or past its expiry gets nothing, with or without a cap: public_download
\* decides on the row it resolved.
Dead == share # None /\ (share.state # "live" \/ share.expires < clock)
DeadLinkNotServed ==
  \A d \in Downloads : [](Dead /\ req[d].pc = "new" => [](req[d].pc # "served"))

=============================================================================
