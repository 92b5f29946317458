-------------------------- MODULE DriveUploadProofs -------------------------
(***************************************************************************)
(* Proofs about DriveUpload, for uploads of any size and any number of     *)
(* PATCH requests in flight.                                               *)
(***************************************************************************)
EXTENDS DriveUpload, TLAPS

Finalizing == {"hash", "rename", "promote", "finish"}
Renamed == {"promote", "finish"}

\* What holds of a request: its chunk fits, it has written what it is about to
\* answer for, and past the rename it alone has the file.
Sound(p) ==
  LET t == patch[p]
  IN  /\ t.at + t.len <= Total
      /\ t.pc # "new" => row # "none"
      /\ t.pc = "written" => \A u \in Range(p) : bytes[u] # None
      /\ t.pc \in Finalizing => offset = Total
      /\ t.pc \in {"rename", "promote", "finish"} => t.sha \in Content
      /\ t.pc \in Renamed => ~part
      /\ t.pc = "promote" => promoted = {}
      /\ t.pc = "finish" => promoted # {}

OneRenamed == \A p, q \in Patches : patch[p].pc \in Renamed /\ patch[q].pc \in Renamed => p = q

Filled == \A u \in Units : u < offset => bytes[u] # None

PromotedLast == promoted # {} => ~part /\ offset = Total /\ row # "none"

\* While requests come one at a time, the one in flight is at the offset, and the
\* bytes are those answered for.
Alone ==
  ~overlapped =>
    /\ \A p, q \in InFlight : p = q
    /\ \A u \in Units : u < offset => bytes[u] = acked[u]
    /\ \A p \in Patches :
         /\ patch[p].pc \in {"read", "opened", "written"} => patch[p].at = offset
         /\ patch[p].pc = "written" => \A u \in Range(p) : bytes[u] = p
         /\ patch[p].pc \in {"rename", "promote", "finish"} => patch[p].sha = bytes

\* Until a request fails or the session ends, the .part file is there or a request has
\* renamed it, and a complete upload is in some request's hands.
Undisturbed == row = "open" /\ promoted = {} /\ ~cut /\ ~expired /\ aborter = "idle"
InHand ==
  Undisturbed =>
    /\ part \/ \E p \in Patches : patch[p].pc = "promote"
    /\ Total > 0 /\ offset = Total => \E p \in Patches : patch[p].pc \in {"hash", "rename", "promote"}

IInv ==
  /\ TypeOK
  /\ row = "none" => offset = 0
  /\ gc.listed => expired
  /\ \A p \in Patches : Sound(p)
  /\ OneRenamed /\ Filled /\ PromotedLast /\ PromotedOnce
  /\ Alone /\ PromotedIsAcked /\ InHand

\* Every unit is below the size of the upload.
LEMMA AllUnits == \A u \in Units : u < Total
BY TotalAssumption DEF Units

\* No unit is below the offset of a new session.
LEMMA NoUnits == \A u \in Units : ~(u < 0)
BY DEF Units

\* Contents that agree on every unit are the same.
LEMMA SameContent ==
  ASSUME NEW f \in Content, NEW g \in Content, \A u \in Units : f[u] = g[u]
  PROVE  f = g
BY DEF Content

\* The offset after a chunk that fits.
LEMMA Advanced ==
  ASSUME NEW a \in 0..Total, NEW l \in 0..Total, a + l <= Total
  PROVE  a \in Nat /\ l \in Nat /\ Total \in Nat /\ a + l \in 0..Total /\ a <= a + l
BY TotalAssumption

\* A chunk covers what lies between the offset it is written at and the one after it.
LEMMA ChunkCovers ==
  ASSUME NEW p, patch[p].at \in 0..Total, patch[p].len \in 0..Total, NEW u \in Units
  PROVE  /\ u < patch[p].at + patch[p].len => u < patch[p].at \/ u \in Range(p)
         /\ u < patch[p].at => u \notin Range(p)
BY TotalAssumption DEF Range, Units

\* A step of a request that takes it no further back, and that takes up nothing but the
\* bytes of the file, leaves a session without overlaps as it was.
LEMMA AloneKept ==
  ASSUME Alone, UNCHANGED <<offset, bytes, acked, overlapped>>,
         \A q \in Patches : Range(q)' = Range(q),
         \A q \in InFlight' : q \in InFlight,
         \A q \in Patches :
           /\ patch'[q].at = patch[q].at
           /\ patch'[q].pc \in {"read", "opened", "written"} => patch[q].pc \in {"read", "opened", "written"}
           /\ patch'[q].pc = "written" => patch[q].pc = "written"
           /\ patch'[q].pc \in {"rename", "promote", "finish"}
                => \/ patch'[q].sha = bytes
                   \/ patch[q].pc \in {"rename", "promote", "finish"} /\ patch'[q].sha = patch[q].sha
  PROVE  Alone'
BY Zenon DEF Alone

\* A step that leaves the requests and what they wrote alone (POST, DELETE, the worker,
\* time): the .part file does not come back, and nothing is disturbed silently.
LEMMA AroundKeeps ==
  ASSUME IInv, UNCHANGED <<offset, bytes, patch, acked, promoted, overlapped, cut>>,
         TypeOK', expired => expired', gc'.listed => expired',
         row # "none" => row' # "none" /\ (part' => part),
         Undisturbed' => (Undisturbed /\ part' = part) \/ (row = "none" /\ part'),
         row' = "none" => row = "none"
  PROVE  IInv'
<1>1. TypeOK
  BY DEF IInv
<1>2. ASSUME NEW p \in Patches PROVE Sound(p)'
  <2>1. Sound(p) /\ patch[p] \in Patch
    BY <1>1, Zenon DEF IInv, TypeOK
  <2>2. Range(p)' = Range(p)
    BY DEF Range
  <2> QED BY <2>1, <2>2, Zenon DEF Sound, Renamed
<1>3. OneRenamed' /\ Filled' /\ PromotedOnce' /\ PromotedIsAcked'
  BY DEF IInv, OneRenamed, Filled, PromotedOnce, PromotedIsAcked
<1>4. PromotedLast'
  BY DEF IInv, PromotedLast
<1>5. Alone'
  BY Zenon DEF IInv, Alone, InFlight, Range
<1>6. InHand'
  <2> SUFFICES ASSUME Undisturbed' PROVE InHand'
    BY DEF InHand
  <2>1. CASE Undisturbed /\ part' = part
    BY <2>1 DEF IInv, InHand
  <2>2. CASE row = "none" /\ part'
    <3>1. offset = 0
      BY <2>2 DEF IInv
    <3> QED BY <2>2, <3>1, TotalAssumption DEF InHand
  <2> QED BY <2>1, <2>2
<1> QED BY <1>2, <1>3, <1>4, <1>5, <1>6, Zenon DEF IInv

\* POST, DELETE, the worker and time keep the invariant.
LEMMA AroundSteps ==
  ASSUME IInv, CreatePart \/ create_upload \/ Expire \/ Abort \/ Collect
  PROVE  IInv'
<1>1. TypeOK /\ (gc.listed => expired)
  BY DEF IInv
<1>2. CASE CreatePart
  <2>1. TypeOK'
    BY <1>1, <1>2 DEF CreatePart, TypeOK
  <2> QED BY <1>1, <1>2, <2>1, AroundKeeps, Zenon DEF CreatePart, Undisturbed
<1>3. CASE create_upload
  <2>1. TypeOK'
    BY <1>1, <1>3 DEF create_upload, TypeOK, RowStates
  <2> QED BY <1>1, <1>3, <2>1, AroundKeeps DEF create_upload, Undisturbed
<1>4. CASE Expire
  <2>1. TypeOK'
    BY <1>1, <1>4 DEF Expire, TypeOK
  <2> QED BY <1>1, <1>4, <2>1, AroundKeeps, Zenon DEF Expire, Undisturbed
<1>5. CASE Abort
  <2>1. TypeOK'
    BY <1>1, <1>5, ZenonT(60) DEF Abort, AbortRead, AbortUnlink, AbortDelete, TypeOK, RowStates
  <2>2. UNCHANGED <<offset, bytes, patch, acked, promoted, overlapped, cut, expired, gc>>
    BY <1>5, Zenon DEF Abort, AbortRead, AbortUnlink, AbortDelete
  <2>3. aborter' # "idle" /\ (part' => part) /\ (row' = row \/ row' = "aborted")
    BY <1>5 DEF Abort, AbortRead, AbortUnlink, AbortDelete
  <2> QED BY <1>1, <2>1, <2>2, <2>3, AroundKeeps DEF Undisturbed
<1>6. CASE Collect
  <2>1. UNCHANGED <<offset, bytes, patch, acked, promoted, overlapped, cut, expired, aborter, final>>
    BY <1>6, Zenon DEF Collect, list_expired_keys, purge_expired, PurgeFails, GcUnlink
  <2>2. gc' \in [pc : {"idle", "purge", "unlink"}, listed : BOOLEAN] /\ (gc'.listed => expired)
    <3>1. CASE list_expired_keys
      <4>1. PICK b \in {Due, FALSE} : gc' = [pc |-> "purge", listed |-> b]
        BY <3>1, Zenon DEF list_expired_keys
      <4>2. b \in BOOLEAN /\ (b => expired)
        BY <1>1, Zenon DEF Due, TypeOK
      <4> QED BY <4>1, <4>2
    <3>2. CASE purge_expired
      BY <1>1, <3>2 DEF purge_expired, TypeOK
    <3>3. CASE PurgeFails \/ GcUnlink
      <4>1. gc' = [pc |-> "idle", listed |-> FALSE]
        BY <3>3, Zenon DEF PurgeFails, GcUnlink
      <4>2. gc' \in [pc : {"idle", "purge", "unlink"}, listed : BOOLEAN]
        BY <4>1
      <4>3. ~gc'.listed
        BY <4>1
      <4> QED BY <4>2, <4>3
    <3> QED BY <1>6, <3>1, <3>2, <3>3 DEF Collect
  <2>3. /\ row' = row \/ (row' = "purged" /\ expired)
        /\ part' = part \/ (part' = FALSE /\ expired)
    BY <1>1, <1>6, Zenon DEF Collect, list_expired_keys, purge_expired, PurgeFails, GcUnlink, Due
  <2>4. TypeOK'
    BY <1>1, <2>1, <2>2, <2>3, ZenonT(60) DEF TypeOK, RowStates
  <2> QED BY <1>1, <2>1, <2>2, <2>3, <2>4, AroundKeeps DEF Undisturbed
<1> QED BY <1>2, <1>3, <1>4, <1>5, <1>6

\* Goto changes where a request is and nothing else.
LEMMA GotoIs ==
  ASSUME TypeOK, NEW p \in Patches, NEW x \in Pcs, Goto(p, x)
  PROVE  /\ patch' \in [Patches -> Patch] /\ patch'[p].pc = x
         /\ patch'[p].at = patch[p].at /\ patch'[p].len = patch[p].len
         /\ patch'[p].sha = patch[p].sha
         /\ \A q \in Patches \ {p} : patch'[q] = patch[q]
BY DEF TypeOK, Goto, Patch

\* The hash records what the file holds.
LEMMA HashedIs ==
  ASSUME TypeOK, NEW p \in Patches, NEW c \in Content,
         patch' = [patch EXCEPT ![p].pc = "rename", ![p].sha = c]
  PROVE  /\ patch' \in [Patches -> Patch] /\ patch'[p].pc = "rename"
         /\ patch'[p].at = patch[p].at /\ patch'[p].len = patch[p].len
         /\ patch'[p].sha = c
         /\ \A q \in Patches \ {p} : patch'[q] = patch[q]
BY DEF TypeOK, Patch, Pcs

\* The types of a request's fields.
LEMMA PatchTypes ==
  ASSUME TypeOK, NEW p \in Patches
  PROVE  /\ patch[p] \in Patch /\ patch[p].pc \in Pcs
         /\ patch[p].at \in 0..Total /\ patch[p].len \in 0..Total
         /\ patch[p].sha \in Content \cup {None}
BY DEF TypeOK, Patch

\* A request that stops, and one that fails: only the others are left to look at.
LEMMA StopKeeps ==
  ASSUME IInv, NEW p \in Patches, patch[p].pc # "new", Fail(p), TypeOK',
         UNCHANGED <<offset, bytes, acked, promoted, overlapped, expired, gc, aborter>>,
         row' = row \/ (row = "open" /\ row' # "none" /\ ~Undisturbed'),
         part' = part,
         Undisturbed' => Undisturbed /\ (patch[p].pc \in {"hash", "rename"} => ~part)
                           /\ patch[p].pc # "promote"
  PROVE  IInv'
<1>1. TypeOK
  BY DEF IInv
<1>2. /\ patch'[p].pc = "done" /\ patch'[p].at = patch[p].at /\ patch'[p].len = patch[p].len
      /\ \A q \in Patches \ {p} : patch'[q] = patch[q]
  BY <1>1, GotoIs, Zenon DEF Fail, Pcs
<1>3. \A q \in Patches : Range(q)' = Range(q)
  BY <1>2, Zenon DEF Range
<1>4. ASSUME NEW q \in Patches PROVE Sound(q)'
  <2>1. Sound(q)
    BY DEF IInv
  <2>2. CASE q = p
    BY <1>2, <2>1, <2>2, Zenon DEF Sound, Finalizing, Renamed, IInv
  <2>3. CASE q # p
    BY <1>2, <1>3, <2>1, <2>3, Zenon DEF Sound
  <2> QED BY <2>2, <2>3
<1>5. OneRenamed' /\ Filled' /\ PromotedOnce' /\ PromotedIsAcked'
  BY <1>2, Zenon DEF IInv, OneRenamed, Filled, PromotedOnce, PromotedIsAcked, Renamed
<1>6. PromotedLast'
  BY DEF IInv, PromotedLast
<1>7. Alone'
  <2>1. \A q \in InFlight' : q \in InFlight
    BY <1>2 DEF InFlight
  <2>2. Alone
    BY Zenon DEF IInv
  <2> QED BY <1>2, <1>3, <2>1, <2>2, AloneKept, Zenon
<1>8. InHand'
  <2> SUFFICES ASSUME Undisturbed' PROVE InHand'
    BY DEF InHand
  <2>1. Undisturbed /\ (patch[p].pc \in {"hash", "rename"} => ~part) /\ patch[p].pc # "promote"
    OBVIOUS
  <2>2. part \/ \E q \in Patches : q # p /\ patch[q].pc = "promote"
    BY <2>1, Zenon DEF IInv, InHand
  <2>3. Total > 0 /\ offset = Total => \E q \in Patches : q # p /\ patch[q].pc \in {"hash", "rename", "promote"}
    BY <2>1, <2>2, Zenon DEF IInv, InHand
  <2> QED BY <1>2, <2>2, <2>3, Zenon DEF InHand
<1>9. (row' = "none" => offset' = 0) /\ (gc'.listed => expired')
  BY DEF IInv
<1> QED BY <1>4, <1>5, <1>6, <1>7, <1>8, <1>9, Zenon DEF IInv

\* A request moves on, and neither the file nor the row does.
LEMMA MoveKeeps ==
  ASSUME IInv, NEW p \in Patches, NEW x \in {"opened", "rename"},
         x = "opened" => patch[p].pc = "read" /\ Goto(p, x),
         x = "rename" => patch[p].pc = "hash" /\ part /\ patch' = [patch EXCEPT ![p].pc = "rename", ![p].sha = bytes],
         UNCHANGED <<row, offset, expired, bytes, part, final, aborter, gc, acked, promoted, overlapped, cut>>
  PROVE  IInv'
<1>1. TypeOK
  BY DEF IInv
<1>2. /\ patch' \in [Patches -> Patch]
      /\ patch'[p].pc = x /\ patch'[p].at = patch[p].at /\ patch'[p].len = patch[p].len
      /\ x = "rename" => patch'[p].sha = bytes
      /\ \A q \in Patches \ {p} : patch'[q] = patch[q]
  <2>1. CASE x = "opened"
    BY <1>1, <2>1, GotoIs, Zenon DEF Pcs
  <2>2. CASE x = "rename"
    <3>1. bytes \in Content
      BY <1>1, Zenon DEF TypeOK
    <3>2. patch' = [patch EXCEPT ![p].pc = "rename", ![p].sha = bytes]
      BY <2>2, Zenon
    <3> QED BY <1>1, <2>2, <3>1, <3>2, HashedIs, Zenon
  <2> QED BY <2>1, <2>2
<1>3. \A q \in Patches : Range(q)' = Range(q)
  BY <1>2, Zenon DEF Range
<1>4. TypeOK'
  BY <1>1, <1>2, ZenonT(60) DEF TypeOK
<1>5. ASSUME NEW q \in Patches PROVE Sound(q)'
  <2>1. Sound(q)
    BY DEF IInv
  <2>2. CASE q = p
    BY <1>1, <1>2, <2>1, <2>2, Zenon DEF Sound, Finalizing, Renamed, TypeOK
  <2>3. CASE q # p
    BY <1>2, <1>3, <2>1, <2>3, Zenon DEF Sound
  <2> QED BY <2>2, <2>3
<1>6. OneRenamed' /\ Filled' /\ PromotedOnce' /\ PromotedIsAcked' /\ PromotedLast'
  <2>1. OneRenamed'
    BY <1>2, Zenon DEF IInv, OneRenamed, Renamed
  <2> QED BY <2>1, Zenon DEF IInv, Filled, PromotedOnce, PromotedIsAcked, PromotedLast
<1>7. Alone'
  <2>1. \A q \in InFlight' : q \in InFlight
    BY <1>2, Zenon DEF InFlight
  <2>2. Alone
    BY Zenon DEF IInv
  <2>3. x = "opened" => patch[p].pc = "read"
    OBVIOUS
  <2> QED BY <1>2, <1>3, <2>1, <2>2, <2>3, AloneKept, Zenon
<1>8. InHand'
  <2> SUFFICES ASSUME Undisturbed' PROVE InHand'
    BY DEF InHand
  <2>1. Undisturbed
    BY DEF Undisturbed
  <2>2. \A q \in Patches : patch[q].pc = "promote" => patch'[q].pc = "promote"
    BY <1>2
  <2>3. \A q \in Patches : patch[q].pc \in {"hash", "rename", "promote"}
                             => patch'[q].pc \in {"hash", "rename", "promote"}
    BY <1>2
  <2> QED BY <2>1, <2>2, <2>3, Zenon DEF IInv, InHand
<1>9. (row' = "none" => offset' = 0) /\ (gc'.listed => expired')
  BY DEF IInv
<1> QED BY <1>4, <1>5, <1>6, <1>7, <1>8, <1>9, Zenon DEF IInv

\* patch_upload reads the session: the chunk it is to write starts at the offset.
LEMMA ReadKeeps ==
  ASSUME IInv, NEW p \in Patches, NEW len \in 0..Total, PatchRead(p, len)
  PROVE  IInv'
<1>1. TypeOK
  BY DEF IInv
<1> DEFINE t == [NewPatch EXCEPT !.pc = "read", !.at = offset, !.len = len]
<1>2. /\ patch[p].pc = "new" /\ row = "open" /\ offset + len <= Total
      /\ patch' = [patch EXCEPT ![p] = t]
      /\ overlapped' = (overlapped \/ InFlight # {})
      /\ UNCHANGED <<row, offset, expired, bytes, part, final, aborter, gc, acked, promoted, cut>>
  BY DEF PatchRead, Fits
<1>3. t \in Patch /\ t.pc = "read" /\ t.at = offset /\ t.len = len
  BY <1>1, Zenon DEF NewPatch, Patch, Pcs, TypeOK
<1> HIDE DEF t
<1>4. /\ patch' \in [Patches -> Patch] /\ patch'[p] = t
      /\ \A q \in Patches \ {p} : patch'[q] = patch[q]
  BY <1>1, <1>2, <1>3, Zenon DEF TypeOK
<1>5. \A q \in Patches \ {p} : Range(q)' = Range(q)
  BY <1>4 DEF Range
<1>6. overlapped' \in BOOLEAN
  BY <1>2
<1>7. TypeOK'
  BY <1>1, <1>2, <1>4, <1>6, Zenon DEF TypeOK
<1>8. ASSUME NEW q \in Patches PROVE Sound(q)'
  <2>1. Sound(q)
    BY DEF IInv
  <2>2. CASE q = p
    BY <1>2, <1>3, <1>4, <2>2, Zenon DEF Sound, Finalizing, Renamed
  <2>3. CASE q # p
    BY <1>2, <1>4, <1>5, <2>1, <2>3, ZenonT(60) DEF Sound
  <2> QED BY <2>2, <2>3
<1>9. OneRenamed' /\ Filled' /\ PromotedOnce' /\ PromotedLast'
  BY <1>2, <1>3, <1>4, Zenon DEF IInv, OneRenamed, Filled, PromotedOnce, PromotedLast, Renamed
<1>10. Alone' /\ PromotedIsAcked'
  <2>1. ~overlapped' => ~overlapped /\ InFlight = {}
    BY <1>2, Zenon
  <2>2. InFlight = {} => \A q \in InFlight' : q = p
    BY <1>4 DEF InFlight
  <2>3. PromotedIsAcked'
    BY <1>2, <2>1 DEF IInv, PromotedIsAcked
  <2>4. ~overlapped' => \A u \in Units : u < offset' => bytes'[u] = acked'[u]
    BY <1>2, <2>1, Zenon DEF IInv, Alone
  <2>5. ~overlapped' => \A q \in Patches : patch'[q].pc \in {"new", "done"} \/ q = p
    BY <2>1, <2>2 DEF InFlight
  <2> QED BY <1>2, <1>3, <1>4, <2>1, <2>2, <2>3, <2>4, <2>5, ZenonT(60) DEF Alone
<1>11. InHand'
  <2> SUFFICES ASSUME Undisturbed' PROVE InHand'
    BY DEF InHand
  <2>1. Undisturbed
    BY <1>2 DEF Undisturbed
  <2>2. \A q \in Patches : patch[q].pc \in {"hash", "rename", "promote"} => q # p /\ patch'[q] = patch[q]
    BY <1>2, <1>4
  <2> QED BY <1>2, <2>1, <2>2, Zenon DEF IInv, InHand
<1>12. (row' = "none" => offset' = 0) /\ (gc'.listed => expired')
  BY <1>2 DEF IInv
<1> QED BY <1>7, <1>8, <1>9, <1>10, <1>11, <1>12, Zenon DEF IInv

\* A request at the end of the upload has nothing to write.
LEMMA NothingLeft ==
  ASSUME TypeOK, NEW p \in Patches, Sound(p), patch[p].at = Total
  PROVE  patch[p].len = 0 /\ Range(p) = {}
<1>1. patch[p].at \in Nat /\ patch[p].len \in Nat /\ Total \in Nat
  BY PatchTypes, TotalAssumption
<1>2. patch[p].at + patch[p].len <= Total
  BY DEF Sound
<1>3. patch[p].len = 0
  BY <1>1, <1>2
<1> QED BY <1>1, <1>3 DEF Range, Units

\* A write touches only its own range, which nobody has answered for while PATCHes
\* come one at a time.
LEMMA WriteKeeps ==
  ASSUME IInv, NEW p \in Patches, PatchWrite(p)
  PROVE  IInv'
<1>1. TypeOK /\ Sound(p)
  BY DEF IInv
<1>2. /\ patch[p].pc = "opened" /\ Goto(p, "written")
      /\ bytes' = [u \in Units |-> IF u \in Range(p) THEN p ELSE bytes[u]]
      /\ UNCHANGED <<row, offset, expired, part, final, aborter, gc, acked, promoted, overlapped, cut>>
  BY DEF PatchWrite, Written
<1>3. /\ patch' \in [Patches -> Patch] /\ patch'[p].pc = "written"
      /\ patch'[p].at = patch[p].at /\ patch'[p].len = patch[p].len
      /\ \A q \in Patches \ {p} : patch'[q] = patch[q]
  BY <1>1, <1>2, GotoIs, Zenon DEF Pcs
<1>4. \A q \in Patches : Range(q)' = Range(q)
  BY <1>3 DEF Range
<1>5. bytes \in [Units -> Patches \cup {None}] /\ bytes' \in [Units -> Patches \cup {None}]
  BY <1>1, <1>2 DEF TypeOK, Content
<1>6. TypeOK'
  BY <1>1, <1>2, <1>3, <1>5, ZenonT(60) DEF TypeOK, Content
<1>7. \A u \in Units : bytes'[u] = IF u \in Range(p) THEN p ELSE bytes[u]
  BY <1>2
<1>8. \A u \in Units : bytes[u] # None => bytes'[u] # None
  BY <1>7, PatchesAssumption
<1>9. \A q \in Patches : Range(q) \subseteq Units
  BY DEF Range
<1>10. ASSUME NEW q \in Patches PROVE Sound(q)'
  <2>1. Sound(q)
    BY DEF IInv
  <2>2. CASE q = p
    <3>1. \A u \in Range(p) : bytes'[u] # None
      BY <1>7, <1>9, PatchesAssumption
    <3> QED BY <1>2, <1>3, <1>4, <2>1, <2>2, <3>1, Zenon DEF Sound, Finalizing, Renamed
  <2>3. CASE q # p
    <3>1. patch'[q].pc = "written" => \A u \in Range(q) : bytes'[u] # None
      BY <1>3, <1>8, <1>9, <2>1, <2>3, Zenon DEF Sound
    <3> QED BY <1>2, <1>3, <1>4, <2>1, <2>3, <3>1, Zenon DEF Sound
  <2> QED BY <2>2, <2>3
<1>11. OneRenamed' /\ PromotedOnce' /\ PromotedLast'
  BY <1>2, <1>3, ZenonT(60) DEF IInv, OneRenamed, PromotedOnce, PromotedLast, Renamed
<1>12. Filled'
  BY <1>2, <1>8 DEF IInv, Filled
<1>13. ~overlapped => patch[p].at = offset /\ \A q \in InFlight : q = p
  BY <1>2, Zenon DEF IInv, Alone, InFlight
<1>14. PromotedIsAcked'
  <2> SUFFICES ASSUME ~overlapped, promoted # {} PROVE bytes' = bytes
    BY <1>2 DEF IInv, PromotedIsAcked
  <2>1. offset = Total
    BY DEF IInv, PromotedLast
  <2>2. Range(p) = {}
    BY <1>1, <1>13, <2>1, NothingLeft
  <2> QED BY <1>2, <1>5, <2>2
<1>15. Alone'
  <2> SUFFICES ASSUME ~overlapped' PROVE Alone'
    BY DEF Alone
  <2>1. ~overlapped /\ \A q \in InFlight : q = p
    BY <1>2, <1>13
  <2>2. \A q \in InFlight' : q = p
    BY <1>3, <2>1 DEF InFlight
  <2>3. ASSUME NEW u \in Units, u < offset' PROVE bytes'[u] = acked'[u]
    <3>1. u \notin Range(p)
      <4>1. patch[p].at \in 0..Total /\ patch[p].len \in 0..Total
        BY <1>1, PatchTypes, Zenon
      <4>2. u < patch[p].at
        BY <1>2, <1>13, <2>1, <2>3, Zenon
      <4> QED BY <4>1, <4>2, ChunkCovers, Zenon
    <3> QED BY <1>2, <1>7, <2>1, <2>3, <3>1, Zenon DEF IInv, Alone
  <2>4. \A q \in Patches : q # p => patch'[q].pc \in {"new", "done"}
    BY <2>2 DEF InFlight
  <2>5. \A u \in Range(p)' : bytes'[u] = p
    BY <1>4, <1>7, <1>9
  <2> QED BY <1>2, <1>3, <1>13, <2>1, <2>2, <2>3, <2>4, <2>5, ZenonT(60) DEF Alone
<1>16. InHand'
  <2> SUFFICES ASSUME Undisturbed' PROVE InHand'
    BY DEF InHand
  <2>1. Undisturbed
    BY <1>2 DEF Undisturbed
  <2>2. \A q \in Patches : patch[q].pc \in {"hash", "rename", "promote"} => patch'[q] = patch[q]
    BY <1>2, <1>3, Zenon
  <2> QED BY <1>2, <2>1, <2>2, Zenon DEF IInv, InHand
<1>17. (row' = "none" => offset' = 0) /\ (gc'.listed => expired')
  BY <1>2 DEF IInv
<1> QED BY <1>6, <1>10, <1>11, <1>12, <1>14, <1>15, <1>16, <1>17, Zenon DEF IInv

\* advance_offset answers for what was just written.
LEMMA AdvanceKeeps ==
  ASSUME IInv, NEW p \in Patches, patch[p].pc = "written", CasMatches(p),
         offset' = patch[p].at + patch[p].len,
         acked' = [u \in Units |-> IF u \in Range(p) THEN p ELSE acked[u]],
         Goto(p, IF offset' = Total THEN "hash" ELSE "done"),
         UNCHANGED <<row, expired, bytes, part, final, aborter, gc, promoted, overlapped, cut>>
  PROVE  IInv'
<1>1. TypeOK /\ Sound(p)
  BY DEF IInv
<1>2. row = "open" /\ offset = patch[p].at
  BY DEF CasMatches
<1>3. PICK x \in {"hash", "done"} : Goto(p, x) /\ (offset' = Total => x = "hash") /\ (x = "hash" => offset' = Total)
  OBVIOUS
<1>4. /\ patch' \in [Patches -> Patch] /\ patch'[p].pc = x
      /\ patch'[p].at = patch[p].at /\ patch'[p].len = patch[p].len
      /\ \A q \in Patches \ {p} : patch'[q] = patch[q]
  BY <1>1, <1>3, GotoIs, Zenon DEF Pcs
<1>5. \A q \in Patches : Range(q)' = Range(q)
  BY <1>4, Zenon DEF Range
<1>6. /\ offset \in Nat /\ offset' \in 0..Total /\ offset <= offset' /\ offset' <= Total
      /\ patch[p].len \in Nat /\ Total \in Nat
  <2>1. patch[p].at \in 0..Total /\ patch[p].len \in 0..Total
    BY <1>1, PatchTypes, Zenon
  <2>2. patch[p].at + patch[p].len <= Total
    BY <1>1, Zenon DEF Sound
  <2> QED BY <1>2, <2>1, <2>2, Advanced, Zenon
<1>7. offset = Total => offset' = Total /\ Range(p) = {}
  <2> SUFFICES ASSUME offset = Total PROVE offset' = Total /\ Range(p) = {}
    OBVIOUS
  <2>1. patch[p].len = 0 /\ Range(p) = {}
    BY <1>1, <1>2, NothingLeft, Zenon
  <2> QED BY <1>2, <1>6, <2>1
<1>8. acked \in [Units -> Patches \cup {None}] /\ acked' \in [Units -> Patches \cup {None}]
  BY <1>1, Zenon DEF TypeOK, Content
<1>9. TypeOK'
  BY <1>1, <1>4, <1>6, <1>8, ZenonT(60) DEF TypeOK, Content
<1>10. \A u \in Units : u < offset' => u < offset \/ u \in Range(p)
  <2>1. patch[p].at \in 0..Total /\ patch[p].len \in 0..Total
    BY <1>1, PatchTypes, Zenon
  <2> QED BY <1>2, <2>1, ChunkCovers, Zenon
<1>11. ASSUME NEW q \in Patches PROVE Sound(q)'
  <2>1. Sound(q)
    BY DEF IInv
  <2>2. CASE q = p
    BY <1>2, <1>3, <1>4, <2>1, <2>2, Zenon DEF Sound, Finalizing, Renamed
  <2>3. CASE q # p
    BY <1>2, <1>4, <1>5, <1>7, <2>1, <2>3, Zenon DEF Sound
  <2> QED BY <2>2, <2>3
<1>12. OneRenamed' /\ PromotedOnce' /\ PromotedLast'
  BY <1>3, <1>4, <1>7, ZenonT(60) DEF IInv, OneRenamed, PromotedOnce, PromotedLast, Renamed
<1>13. Filled'
  BY <1>1, <1>10, Zenon DEF IInv, Filled, Sound
<1>14. PromotedIsAcked'
  <2> SUFFICES ASSUME ~overlapped, promoted # {} PROVE acked' = acked
    BY Zenon DEF IInv, PromotedIsAcked
  <2>1. Range(p) = {}
    BY <1>7, Zenon DEF IInv, PromotedLast
  <2> QED BY <1>8, <2>1, Zenon
<1>15. Alone'
  <2> SUFFICES ASSUME ~overlapped PROVE Alone'
    BY Zenon DEF Alone
  <2>1. /\ \A q \in InFlight : q = p
        /\ \A u \in Units : u < offset => bytes[u] = acked[u]
        /\ \A u \in Range(p) : bytes[u] = p
    BY Zenon DEF IInv, Alone, InFlight
  <2>2. \A q \in Patches : q # p => patch'[q].pc \in {"new", "done"}
    BY <1>4, <2>1, Zenon DEF InFlight
  <2>3. \A q \in InFlight' : q = p
    BY <2>2 DEF InFlight
  <2>4. \A u \in Units : u < offset' => bytes'[u] = acked'[u]
    BY <1>10, <2>1, Zenon
  <2>5. patch'[p].pc \in {"hash", "done"}
    BY <1>3, <1>4, Zenon
  <2> QED BY <2>2, <2>3, <2>4, <2>5, Zenon DEF Alone
<1>16. InHand'
  <2> SUFFICES ASSUME Undisturbed' PROVE InHand'
    BY Zenon DEF InHand
  <2>1. Undisturbed
    BY DEF Undisturbed
  <2>2. \A q \in Patches : patch[q].pc = "promote" => patch'[q] = patch[q]
    BY <1>4, Zenon
  <2>3. part' \/ \E q \in Patches : patch'[q].pc = "promote"
    BY <2>1, <2>2, Zenon DEF IInv, InHand
  <2>4. offset' = Total => patch'[p].pc = "hash"
    BY <1>3, <1>4, Zenon
  <2> QED BY <2>3, <2>4, Zenon DEF InHand
<1>17. (row' = "none" => offset' = 0) /\ (gc'.listed => expired')
  BY <1>2, Zenon DEF IInv
<1> QED BY <1>9, <1>11, <1>12, <1>13, <1>14, <1>15, <1>16, <1>17, Zenon DEF IInv

\* The rename succeeds once: it takes the .part file away.
LEMMA RenameKeeps ==
  ASSUME IInv, NEW p \in Patches, patch[p].pc = "rename", part, part' = FALSE, final' = TRUE,
         Goto(p, "promote"),
         UNCHANGED <<row, offset, expired, bytes, aborter, gc, acked, promoted, overlapped, cut>>
  PROVE  IInv'
<1>1. TypeOK /\ Sound(p)
  BY DEF IInv
<1>2. /\ patch' \in [Patches -> Patch] /\ patch'[p].pc = "promote"
      /\ patch'[p].at = patch[p].at /\ patch'[p].len = patch[p].len /\ patch'[p].sha = patch[p].sha
      /\ \A q \in Patches \ {p} : patch'[q] = patch[q]
  BY <1>1, GotoIs, Zenon DEF Pcs
<1>3. \A q \in Patches : Range(q)' = Range(q)
  BY <1>2, Zenon DEF Range
<1>4. TypeOK'
  BY <1>1, <1>2, Zenon DEF TypeOK
<1>5. promoted = {}
  BY DEF IInv, PromotedLast
<1>6. \A q \in Patches : patch[q].pc \notin Renamed
  BY Zenon DEF IInv, Sound
<1>7. ASSUME NEW q \in Patches PROVE Sound(q)'
  <2>1. Sound(q)
    BY DEF IInv
  <2>2. CASE q = p
    BY <1>2, <1>5, <2>1, <2>2, Zenon DEF Sound, Finalizing, Renamed
  <2>3. CASE q # p
    BY <1>2, <1>3, <2>1, <2>3, Zenon DEF Sound
  <2> QED BY <2>2, <2>3
<1>8. OneRenamed'
  BY <1>2, <1>6, Zenon DEF OneRenamed
<1>9. Filled' /\ PromotedOnce' /\ PromotedIsAcked' /\ PromotedLast'
  BY <1>5 DEF IInv, Filled, PromotedOnce, PromotedIsAcked, PromotedLast
<1>10. Alone'
  <2>1. \A q \in InFlight' : q \in InFlight
    BY <1>2, Zenon DEF InFlight
  <2>2. Alone
    BY Zenon DEF IInv
  <2> QED BY <1>2, <1>3, <2>1, <2>2, AloneKept, Zenon
<1>11. InHand'
  BY <1>2 DEF InHand
<1>12. (row' = "none" => offset' = 0) /\ (gc'.listed => expired')
  BY DEF IInv
<1> QED BY <1>4, <1>7, <1>8, <1>9, <1>10, <1>11, <1>12, Zenon DEF IInv

\* The promotion finds no earlier one.
LEMMA PromoteKeeps ==
  ASSUME IInv, NEW p \in Patches, patch[p].pc = "promote",
         promoted' = promoted \cup {[by |-> p, sha |-> patch[p].sha]}, Goto(p, "finish"),
         UNCHANGED <<row, offset, expired, bytes, part, final, aborter, gc, acked, overlapped, cut>>
  PROVE  IInv'
<1>1. TypeOK /\ Sound(p)
  BY DEF IInv
<1>2. /\ patch' \in [Patches -> Patch] /\ patch'[p].pc = "finish"
      /\ patch'[p].at = patch[p].at /\ patch'[p].len = patch[p].len /\ patch'[p].sha = patch[p].sha
      /\ \A q \in Patches \ {p} : patch'[q] = patch[q]
  BY <1>1, GotoIs, Zenon DEF Pcs
<1>3. \A q \in Patches : Range(q)' = Range(q)
  BY <1>2, Zenon DEF Range
<1>4. /\ ~part /\ offset = Total /\ row # "none" /\ promoted = {}
      /\ patch[p].sha \in Content
  BY <1>1, Zenon DEF Sound, Finalizing, Renamed
<1> DEFINE file == [by |-> p, sha |-> patch[p].sha]
<1>5. file \in [by : Patches, sha : Content] /\ file.sha = patch[p].sha
  BY <1>4
<1>6. promoted' = {file}
  BY <1>4
<1> HIDE DEF file
<1>7. TypeOK'
  BY <1>1, <1>2, <1>5, <1>6, ZenonT(60) DEF TypeOK
<1>8. ASSUME NEW q \in Patches PROVE Sound(q)'
  <2>1. Sound(q)
    BY DEF IInv
  <2>2. CASE q = p
    BY <1>2, <1>4, <1>6, <2>1, <2>2, Zenon DEF Sound, Finalizing, Renamed
  <2>3. CASE q # p
    <3>1. patch[q].pc # "promote"
      BY <2>3, Zenon DEF IInv, OneRenamed, Renamed
    <3> QED BY <1>2, <1>3, <1>6, <2>1, <2>3, <3>1, Zenon DEF Sound
  <2> QED BY <2>2, <2>3
<1>9. OneRenamed' /\ Filled' /\ PromotedOnce' /\ PromotedLast'
  <2>1. OneRenamed'
    BY <1>2, Zenon DEF IInv, OneRenamed, Renamed
  <2>2. PromotedOnce' /\ PromotedLast'
    BY <1>4, <1>6, Zenon DEF PromotedOnce, PromotedLast
  <2>3. Filled'
    BY Zenon DEF IInv, Filled
  <2> QED BY <2>1, <2>2, <2>3, Zenon
<1>10. PromotedIsAcked'
  <2> SUFFICES ASSUME ~overlapped PROVE file.sha = acked /\ file.sha = bytes
    BY <1>6 DEF PromotedIsAcked
  <2>1. patch[p].sha = bytes /\ \A u \in Units : u < offset => bytes[u] = acked[u]
    BY Zenon DEF IInv, Alone
  <2>2. \A u \in Units : u < offset
    BY <1>4, AllUnits, Zenon
  <2>3. bytes \in Content /\ acked \in Content
    BY <1>1, Zenon DEF TypeOK
  <2>4. bytes = acked
    BY <2>1, <2>2, <2>3, SameContent, Zenon
  <2> QED BY <1>5, <2>1, <2>4, Zenon
<1>11. Alone'
  <2>1. \A q \in InFlight' : q \in InFlight
    BY <1>2, Zenon DEF InFlight
  <2>2. Alone
    BY Zenon DEF IInv
  <2> QED BY <1>2, <1>3, <2>1, <2>2, AloneKept, Zenon
<1>12. InHand'
  BY <1>6, Zenon DEF InHand, Undisturbed
<1>13. (row' = "none" => offset' = 0) /\ (gc'.listed => expired')
  BY DEF IInv
<1> QED BY <1>7, <1>8, <1>9, <1>10, <1>11, <1>12, <1>13, Zenon DEF IInv

\* Every step of a PATCH keeps the invariant, the failing ones included.
LEMMA PatchStepKeeps ==
  ASSUME IInv, NEW p \in Patches, PatchStep(p) \/ Cancel(p)
  PROVE  IInv'
<1>1. TypeOK /\ Sound(p)
  BY DEF IInv
<1>2. Fail(p) => patch' \in [Patches -> Patch]
  BY <1>1, GotoIs, Zenon DEF Fail, Pcs
<1>3. CASE PatchOpen(p)
  <2>1. CASE part /\ Goto(p, "opened")
    BY <1>3, <2>1, MoveKeeps, ZenonT(30) DEF PatchOpen
  <2>2. CASE ~part /\ Fail(p)
    <3>1. TypeOK'
      BY <1>1, <1>2, <1>3, <2>2, Zenon DEF TypeOK, PatchOpen
    <3> QED BY <1>3, <2>2, <3>1, StopKeeps, Zenon DEF PatchOpen, Undisturbed
  <2> QED BY <1>3, <2>1, <2>2 DEF PatchOpen
<1>4. CASE PatchWrite(p)
  BY <1>4, WriteKeeps
<1>5. CASE advance_offset(p)
  <2>1. CASE CasMatches(p)
    BY <1>5, <2>1, AdvanceKeeps, Zenon DEF advance_offset
  <2>2. CASE ~CasMatches(p)
    <3>1. TypeOK'
      BY <1>1, <1>2, <1>5, <2>2 DEF TypeOK, advance_offset
    <3> QED BY <1>5, <2>2, <3>1, StopKeeps, Zenon DEF advance_offset, Undisturbed
  <2> QED BY <2>1, <2>2
<1>6. CASE FinalizeHash(p)
  <2>1. CASE part
    BY <1>6, <2>1, MoveKeeps, Zenon DEF FinalizeHash
  <2>2. CASE ~part
    <3>1. TypeOK'
      BY <1>1, <1>2, <1>6, <2>2, Zenon DEF TypeOK, FinalizeHash
    <3> QED BY <1>6, <2>2, <3>1, StopKeeps, Zenon DEF FinalizeHash, Undisturbed
  <2> QED BY <2>1, <2>2
<1>7. CASE FinalizeRename(p)
  <2>1. CASE part
    BY <1>7, <2>1, RenameKeeps, Zenon DEF FinalizeRename, RenamePart
  <2>2. CASE ~part
    <3>1. TypeOK'
      BY <1>1, <1>2, <1>7, <2>2, ZenonT(60) DEF TypeOK, FinalizeRename
    <3> QED BY <1>7, <2>2, <3>1, StopKeeps, Zenon DEF FinalizeRename, Undisturbed
  <2> QED BY <2>1, <2>2
<1>8. CASE FinalizePromote(p)
  <2>1. CASE Goto(p, "finish") /\ promoted' = promoted \cup {[by |-> p, sha |-> patch[p].sha]}
               /\ UNCHANGED <<final, cut>>
    BY <1>8, <2>1, PromoteKeeps, Zenon DEF FinalizePromote
  <2>2. CASE (final' = FALSE \/ UNCHANGED final) /\ Fail(p) /\ cut' = TRUE /\ UNCHANGED promoted
    <3>1. TypeOK'
      BY <1>1, <1>2, <1>8, <2>2, ZenonT(30) DEF TypeOK, FinalizePromote
    <3> QED BY <1>8, <2>2, <3>1, StopKeeps, Zenon DEF FinalizePromote, Undisturbed
  <2> QED BY <1>8, <2>1, <2>2, Zenon DEF FinalizePromote
<1>9. CASE FinalizeFinish(p)
  <2>1. TypeOK'
    BY <1>1, <1>2, <1>9 DEF TypeOK, FinalizeFinish, RowStates
  <2>2. promoted # {}
    BY <1>1, <1>9 DEF Sound, FinalizeFinish
  <2> QED BY <1>9, <2>1, <2>2, StopKeeps, Zenon DEF FinalizeFinish, Undisturbed
<1>10. CASE Cancel(p)
  <2>1. TypeOK'
    BY <1>1, <1>2, <1>10, ZenonT(60) DEF TypeOK, Cancel
  <2> QED BY <1>10, <2>1, StopKeeps, Zenon DEF Cancel, InFlight, Undisturbed
<1> QED BY <1>3, <1>4, <1>5, <1>6, <1>7, <1>8, <1>9, <1>10, Zenon DEF PatchStep

\* The invariant holds before the session exists.
LEMMA InitIInv == Init => IInv
<1> SUFFICES ASSUME Init PROVE IInv
  OBVIOUS
<1>1. Empty \in Content /\ NewPatch \in Patch /\ NewPatch.pc = "new" /\ NewPatch.at = 0 /\ NewPatch.len = 0
  <2>1. Empty \in Content
    BY Zenon DEF Empty, Content
  <2>2. 0 \in 0..Total
    BY TotalAssumption
  <2> QED BY <2>1, <2>2 DEF NewPatch, Patch, Pcs
<1>2. patch \in [Patches -> Patch] /\ \A p \in Patches : patch[p] = NewPatch
  BY <1>1 DEF Init
<1>3. gc \in [pc : {"idle", "purge", "unlink"}, listed : BOOLEAN] /\ ~gc.listed
  <2>1. gc = [pc |-> "idle", listed |-> FALSE]
    BY DEF Init
  <2>2. gc \in [pc : {"idle", "purge", "unlink"}, listed : BOOLEAN]
    BY <2>1
  <2>3. ~gc.listed
    BY <2>1
  <2> QED BY <2>2, <2>3
<1>4. TypeOK
  <2>1. offset \in 0..Total /\ row \in RowStates
    BY TotalAssumption DEF Init, RowStates
  <2>2. expired \in BOOLEAN /\ part \in BOOLEAN /\ final \in BOOLEAN /\ overlapped \in BOOLEAN /\ cut \in BOOLEAN
    BY Zenon DEF Init
  <2> QED BY <1>1, <1>2, <1>3, <2>1, <2>2, Zenon DEF Init, TypeOK
<1>5. \A p \in Patches : Sound(p)
  <2>1. 0 + 0 <= Total
    BY TotalAssumption
  <2> QED BY <1>1, <1>2, <2>1, Zenon DEF Init, Sound, Finalizing, Renamed
<1>6. InFlight = {} /\ \A u \in Units : ~(u < offset)
  <2>1. InFlight = {}
    BY <1>1, <1>2, Zenon DEF InFlight
  <2> QED BY <2>1, NoUnits, Zenon DEF Init
<1>7. OneRenamed /\ Filled /\ PromotedLast /\ PromotedOnce /\ Alone /\ PromotedIsAcked
  BY <1>1, <1>2, <1>6, Zenon DEF Init, OneRenamed, Filled, PromotedLast, PromotedOnce, Alone, PromotedIsAcked, Renamed
<1>8. InHand
  BY DEF Init, InHand, Undisturbed
<1> QED BY <1>3, <1>4, <1>5, <1>7, <1>8, Zenon DEF IInv, Init

\* Every step keeps the invariant.
LEMMA NextIInv == IInv /\ [Next]_vars => IInv'
<1> SUFFICES ASSUME IInv, [Next]_vars PROVE IInv'
  OBVIOUS
<1>1. CASE CreatePart \/ create_upload \/ Expire \/ Abort \/ Collect
  BY <1>1, AroundSteps
<1>2. CASE \E p \in Patches, len \in 0..Total : PatchRead(p, len)
  BY <1>2, ReadKeeps
<1>3. CASE \E p \in Patches : PatchStep(p) \/ Cancel(p)
  BY <1>3, PatchStepKeeps
<1>4. CASE UNCHANGED vars
  <2>1. TypeOK'
    BY <1>4, ZenonT(60) DEF vars, TypeOK, IInv
  <2>2. UNCHANGED <<row, offset, expired, bytes, part, patch, aborter, gc, acked, promoted, overlapped, cut>>
    BY <1>4 DEF vars
  <2> QED BY <2>1, <2>2, AroundKeeps, Zenon DEF IInv, Undisturbed
<1> QED BY <1>1, <1>2, <1>3, <1>4 DEF Next

\* The inductive invariant, for uploads of any size and any PATCH requests.
THEOREM Invariance == Spec => []IInv
BY InitIInv, NextIInv, PTL DEF Spec

\* Below the acknowledged offset some PATCH wrote every unit, however PATCHes race and
\* wherever they are cut off (patch_upload writes first and advances afterwards).
THEOREM Filling == Spec => []NoHoles
<1>1. IInv => NoHoles
  BY DEF IInv, Filled, NoHoles
<1> QED BY <1>1, Invariance, PTL

\* A session becomes a file at most once, however many PATCHes run finalize_upload:
\* the rename of the .part file lets one through.
THEOREM OnePromotion == Spec => []PromotedOnce
<1>1. IInv => PromotedOnce
  BY DEF IInv
<1> QED BY <1>1, Invariance, PTL

\* While PATCHes come one at a time the promoted file is what was acknowledged and
\* what is on disk.
THEOREM AckedContent == Spec => []PromotedIsAcked
<1>1. IInv => PromotedIsAcked
  BY DEF IInv
<1> QED BY <1>1, Invariance, PTL

\* An upload whose last byte was acknowledged is a file or in some request's hands,
\* unless a request was cut off or failed, or the session was aborted or expired.
THEOREM CompletionInHand == Spec => []CompleteInHand
<1>1. IInv => CompleteInHand
  BY DEF IInv, InHand, Undisturbed, CompleteInHand
<1> QED BY <1>1, Invariance, PTL
=============================================================================
