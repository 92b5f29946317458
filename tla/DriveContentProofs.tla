-------------------------- MODULE DriveContentProofs ------------------------
(***************************************************************************)
(* Proofs about DriveContent, for any files, names, keys and requests.     *)
(***************************************************************************)
EXTENDS DriveContent, TLAPS

\* What a request knows at each step.
NewContent == {"upload", "finalize", "put"}
Shape(q) ==
  /\ q.pc = "idle" => q = Idle
  /\ q.pc = "store" => /\ q.op \in NewContent /\ q.key = None
                       /\ q.op = "put" => q.file \in Files /\ q.prev \in Keys
                       /\ q.op # "put" => q.file = None /\ q.name \in Names
  /\ q.pc \in {"find", "insert"} => q.op \in {"upload", "finalize"} /\ q.key \in Keys
                                    /\ q.file = None /\ q.name \in Names
  /\ q.pc = "gate" => /\ q.op \in {"upload", "restore_version", "purge"}
                      /\ q.file \in Files /\ q.prev \in Keys
                      /\ q.op = "upload" => q.key \in Keys
  /\ q.pc = "target" => q.op = "restore_version" /\ q.file \in Files /\ q.prev \in Keys
  /\ q.pc \in {"number", "archive", "swap"} => /\ q.op \in Writers /\ q.file \in Files
                                               /\ q.prev \in Keys /\ q.key \in Keys
  /\ q.pc = "archive" => q.no \in 1..MaxVersion
  /\ q.pc = "delete" => q.op \in {"purge", "delete_version"} /\ q.file \in Files

VersionKeys == {v.key : v \in versions}

\* What a request points to is on disk or was deleted, and is still the file's content
\* when nobody else wrote the file in the meantime.
Safe(r) ==
  LET q == req[r]
  IN  /\ q.doomed \subseteq released
      /\ q.key # None => q.key \in blobs \cup released
      /\ q.prev # None => q.prev \in blobs \cup released
      /\ q.file # None => file[q.file].state # "free"
      /\ q.pc = "swap" => q.prev \in VersionKeys \cup released
      /\ q.op \in Writers /\ q.file # None /\ ~q.shared => file[q.file].key = q.prev

\* The new content of a write that has not succeeded yet belongs to it alone.
Fresh(r) ==
  LET q == req[r]
  IN  q.op \in NewContent /\ q.key # None =>
        /\ q.key \in blobs /\ q.key \notin Referenced /\ q.key \notin released
        /\ \A o \in Requests : req[o].prev # q.key /\ (o # r => req[o].key # q.key)

\* Requests that write the same file know of each other.
Apart ==
  \A r, o \in Requests :
     r # o /\ req[r].op \in Writers /\ req[o].op \in Writers
           /\ req[r].file = req[o].file /\ req[r].file # None
       => req[r].shared

IInv ==
  /\ TypeOK /\ load \in Loads
  /\ released \subseteq used
  /\ \A f \in Files : file[f].state # "free" => file[f].key \in Keys
  /\ \A r \in Requests : Shape(req[r]) /\ Safe(r) /\ Fresh(r)
  /\ Apart /\ MissingOnlyIfReleased /\ AckedReachable

-----------------------------------------------------------------------------
Own(r) == req[r].op \in NewContent /\ req[r].key # None

\* What a step leaves to a request that does not take it.
Bystander(o) ==
  /\ \/ req'[o] = req[o]
     \/ req[o].pc # "idle" /\ req'[o] = [req[o] EXCEPT !.shared = TRUE]
  /\ req[o].key # None => req[o].key \in blobs' \cup released'
  /\ req[o].prev # None => req[o].prev \in blobs' \cup released'
  /\ req[o].op \in Writers /\ req[o].file # None /\ ~req'[o].shared
       => file'[req[o].file].key = file[req[o].file].key
  /\ Own(o) => req[o].key \in blobs' /\ req[o].key \notin Referenced' /\ req[o].key \notin released'

\* A request that learns of another writer changes in nothing else.
LEMMA SharedIs ==
  ASSUME NEW q \in Request, NEW s, s = [q EXCEPT !.shared = TRUE]
  PROVE  /\ s \in Request /\ s.pc = q.pc /\ s.op = q.op /\ s.file = q.file /\ s.name = q.name
         /\ s.key = q.key /\ s.prev = q.prev /\ s.no = q.no /\ s.doomed = q.doomed /\ s.shared
BY Zenon DEF Request

\* What a request knows does not depend on whom it knows of.
LEMMA ShapeSame ==
  ASSUME NEW q, NEW s, Shape(q), q.pc = "idle" => s = q,
         s.pc = q.pc, s.op = q.op, s.file = q.file, s.name = q.name,
         s.key = q.key, s.prev = q.prev, s.no = q.no
  PROVE  Shape(s)
BY DEF Shape

\* A request that keeps its file and its contents, none of which was lost, stays safe.
LEMMA SafeKept ==
  ASSUME NEW r, Safe(r), released \subseteq released', VersionKeys \subseteq VersionKeys' \cup released',
         req'[r].op = req[r].op, req'[r].file = req[r].file,
         req'[r].key = req[r].key, req'[r].prev = req[r].prev,
         req[r].shared => req'[r].shared, req'[r].pc = "swap" => req[r].pc = "swap",
         req'[r].doomed \subseteq released',
         req[r].key # None => req[r].key \in blobs' \cup released',
         req[r].prev # None => req[r].prev \in blobs' \cup released',
         req[r].file # None => file'[req[r].file].state # "free",
         req[r].op \in Writers /\ req[r].file # None /\ ~req'[r].shared
           => file'[req[r].file].key = file[req[r].file].key
  PROVE  Safe(r)'
<1>1. /\ req'[r].key # None => req'[r].key \in blobs' \cup released'
      /\ req'[r].prev # None => req'[r].prev \in blobs' \cup released'
      /\ req'[r].file # None => file'[req'[r].file].state # "free"
  BY Zenon
<1>2. req'[r].pc = "swap" => req'[r].prev \in VersionKeys' \cup released'
  BY Zenon DEF Safe
<1>3. req'[r].op \in Writers /\ req'[r].file # None /\ ~req'[r].shared
        => file'[req'[r].file].key = req'[r].prev
  BY Zenon DEF Safe
<1> QED BY <1>1, <1>2, <1>3, Zenon DEF Safe

\* New content that stays on disk, and that nobody else takes up, stays the request's.
LEMMA FreshKept ==
  ASSUME NEW r, req'[r].op = req[r].op, req'[r].key = req[r].key,
         Own(r) => /\ req[r].key \in blobs' /\ req[r].key \notin Referenced' /\ req[r].key \notin released'
                   /\ \A o \in Requests : req'[o].prev # req[r].key /\ (o # r => req'[o].key # req[r].key)
  PROVE  Fresh(r)'
BY Zenon DEF Fresh, Own

\* Nobody else holds new content.
LEMMA FreshAlone ==
  ASSUME NEW o \in Requests, Fresh(o), Own(o)
  PROVE  /\ req[o].key \in blobs /\ req[o].key \notin Referenced /\ req[o].key \notin released
         /\ \A p \in Requests : req[p].prev # req[o].key /\ (p # o => req[p].key # req[o].key)
BY Zenon DEF Fresh, Own

\* Writers of one file that keep their file still know of each other.
LEMMA ApartKept ==
  ASSUME Apart,
         \A o \in Requests : req'[o].op = req[o].op /\ req'[o].file = req[o].file,
         \A o \in Requests : req[o].shared => req'[o].shared
  PROVE  Apart'
<1> SUFFICES ASSUME NEW r \in Requests, NEW o \in Requests, r # o,
                    req'[r].op \in Writers, req'[o].op \in Writers,
                    req'[r].file = req'[o].file, req'[r].file # None
             PROVE  req'[r].shared
  BY Zenon DEF Apart
<1>1. req[r].op \in Writers /\ req[o].op \in Writers /\ req[r].file = req[o].file /\ req[r].file # None
  BY Zenon
<1>2. req[r].shared
  BY <1>1, Zenon DEF Apart
<1> QED BY <1>2, Zenon

\* The frame of every step: R is the request that takes it, if one does.
LEMMA StepKeeps ==
  ASSUME IInv, NEW R \in SUBSET Requests, TypeOK', load' = load, released' \subseteq used',
         released \subseteq released', VersionKeys \subseteq VersionKeys' \cup released',
         \A f \in Files : file[f].state # "free" => file'[f].state # "free",
         \A f \in Files : file'[f].state # "free" => file'[f].key \in Keys,
         \A o \in Requests \ R : Bystander(o),
         \A r \in R : Shape(req[r])' /\ Safe(r)' /\ Fresh(r)',
         \A o \in Requests \ R, r \in R : Own(o) => req'[r].key # req[o].key /\ req'[r].prev # req[o].key,
         Apart', MissingOnlyIfReleased', AckedReachable'
  PROVE  IInv'
<1>1. TypeOK /\ \A o \in Requests : req[o] \in Request /\ Shape(req[o]) /\ Safe(o) /\ Fresh(o)
  BY Zenon DEF IInv, TypeOK
<1>2. ASSUME NEW o \in Requests \ R
      PROVE  /\ req'[o].pc = req[o].pc /\ req'[o].op = req[o].op /\ req'[o].file = req[o].file
             /\ req'[o].name = req[o].name /\ req'[o].key = req[o].key /\ req'[o].prev = req[o].prev
             /\ req'[o].no = req[o].no /\ req'[o].doomed = req[o].doomed
             /\ req[o].shared => req'[o].shared
             /\ req[o].pc = "idle" => req'[o] = req[o]
  <2>1. req[o] \in Request
    BY <1>1, Zenon
  <2>2. req'[o] = req[o] \/ (req[o].pc # "idle" /\ req'[o] = [req[o] EXCEPT !.shared = TRUE])
    BY <1>2, Zenon DEF Bystander
  <2>3. CASE req'[o] = req[o]
    BY <2>3, Zenon
  <2>4. CASE req[o].pc # "idle" /\ req'[o] = [req[o] EXCEPT !.shared = TRUE]
    <3> DEFINE q == req[o]
               s == req'[o]
    <3>1. q \in Request /\ s = [q EXCEPT !.shared = TRUE]
      BY <2>1, <2>4, Zenon
    <3> HIDE DEF q, s
    <3>2. /\ s.pc = q.pc /\ s.op = q.op /\ s.file = q.file /\ s.name = q.name
          /\ s.key = q.key /\ s.prev = q.prev /\ s.no = q.no /\ s.doomed = q.doomed /\ s.shared
      BY <3>1, SharedIs, ZenonT(60)
    <3> QED BY <2>4, <3>2, Zenon DEF q, s
  <2> QED BY <2>2, <2>3, <2>4, Zenon
<1>3. ASSUME NEW o \in Requests PROVE Shape(req[o])' /\ Safe(o)'
  <2>1. CASE o \in R
    BY <2>1
  <2>2. CASE o \notin R
    <3>1. Bystander(o)
      BY <2>2
    <3>2. Shape(req'[o])
      <4>1. Shape(req[o]) /\ o \in Requests \ R
        BY <1>1, <2>2, Zenon
      <4>2. /\ req'[o].pc = req[o].pc /\ req'[o].op = req[o].op /\ req'[o].file = req[o].file
            /\ req'[o].name = req[o].name /\ req'[o].key = req[o].key /\ req'[o].prev = req[o].prev
            /\ req'[o].no = req[o].no
            /\ req[o].pc = "idle" => req'[o] = req[o]
        BY <1>2, <4>1, Zenon
      <4> QED BY <4>1, <4>2, ShapeSame, Zenon
    <3>3. req[o].file # None => file'[req[o].file].state # "free"
      BY <1>1, Zenon DEF Safe, Request
    <3>4. /\ req'[o].pc = req[o].pc /\ req'[o].op = req[o].op /\ req'[o].file = req[o].file
          /\ req'[o].key = req[o].key /\ req'[o].prev = req[o].prev
          /\ req'[o].doomed = req[o].doomed /\ (req[o].shared => req'[o].shared)
      BY <1>2, <2>2, Zenon
    <3>5. Safe(o) /\ req'[o].doomed \subseteq released'
      BY <1>1, <3>4, Zenon DEF Safe
    <3>6. /\ req[o].key # None => req[o].key \in blobs' \cup released'
          /\ req[o].prev # None => req[o].prev \in blobs' \cup released'
          /\ req[o].op \in Writers /\ req[o].file # None /\ ~req'[o].shared
               => file'[req[o].file].key = file[req[o].file].key
      BY <3>1, Zenon DEF Bystander
    <3>7. Safe(o)'
      BY <3>3, <3>4, <3>5, <3>6, SafeKept, Zenon
    <3> QED BY <3>2, <3>7, Zenon
  <2> QED BY <2>1, <2>2, Zenon
<1>4. ASSUME NEW o \in Requests PROVE Fresh(o)'
  <2>1. CASE o \in R
    BY <2>1
  <2>2. CASE o \notin R
    <3>1. Bystander(o) /\ Fresh(o)
      BY <1>1, <2>2, Zenon
    <3>2. SUFFICES ASSUME Own(o)
                   PROVE  \A p \in Requests : req'[p].prev # req[o].key /\ (p # o => req'[p].key # req[o].key)
      <4>1. req'[o].op = req[o].op /\ req'[o].key = req[o].key
        BY <1>2, <2>2, Zenon
      <4>2. Own(o) => /\ req[o].key \in blobs' /\ req[o].key \notin Referenced'
                      /\ req[o].key \notin released'
        BY <3>1, Zenon DEF Bystander
      <4> QED BY <4>1, <4>2, FreshKept, Zenon
    <3>3. \A p \in Requests \ R : req'[p].prev # req[o].key /\ (p # o => req'[p].key # req[o].key)
      <4>1. \A p \in Requests : req[p].prev # req[o].key /\ (p # o => req[p].key # req[o].key)
        BY <3>1, <3>2, FreshAlone, Zenon
      <4>2. \A p \in Requests \ R : req'[p].prev = req[p].prev /\ req'[p].key = req[p].key
        BY <1>2, Zenon
      <4> QED BY <4>1, <4>2, Zenon
    <3> QED BY <2>2, <3>2, <3>3, Zenon
  <2> QED BY <2>1, <2>2
<1> QED BY <1>3, <1>4, Zenon DEF IInv

\* The same for a step of one request.
LEMMA OneKeeps ==
  ASSUME IInv, NEW r \in Requests, TypeOK', load' = load, released' \subseteq used',
         released \subseteq released', VersionKeys \subseteq VersionKeys' \cup released',
         \A f \in Files : file[f].state # "free" => file'[f].state # "free",
         \A f \in Files : file'[f].state # "free" => file'[f].key \in Keys,
         \A o \in Requests \ {r} : Bystander(o),
         Shape(req[r])', Safe(r)', Fresh(r)',
         \A o \in Requests \ {r} : Own(o) => req'[r].key # req[o].key /\ req'[r].prev # req[o].key,
         Apart', MissingOnlyIfReleased', AckedReachable'
  PROVE  IInv'
<1>1. {r} \in SUBSET Requests
  OBVIOUS
<1>2. \A o \in {r} : Shape(req[o])' /\ Safe(o)' /\ Fresh(o)'
  OBVIOUS
<1>3. \A o \in Requests \ {r}, p \in {r} : Own(o) => req'[p].key # req[o].key /\ req'[p].prev # req[o].key
  OBVIOUS
<1> QED BY <1>1, <1>2, <1>3, StepKeeps, Zenon

\* A request that has not begun holds nothing.
LEMMA IdleIs ==
  /\ Idle \in Request /\ Idle.pc = "idle" /\ Idle.op = None /\ Idle.file = None
  /\ Idle.key = None /\ Idle.prev = None /\ Idle.doomed = {} /\ Idle.shared = FALSE
  /\ Shape(Idle)
<1>1. 0 \in 0..MaxVersion
  BY BoundAssumption
<1>2. FALSE \in BOOLEAN
  OBVIOUS
<1>3. Idle \in Request
  BY <1>1, <1>2, Zenon DEF Idle, Request, Pcs
<1>4. Shape(Idle)
  BY Zenon DEF Idle, Shape
<1> QED BY <1>3, <1>4, Zenon DEF Idle

\* A request that ends, with success or not.  What it removes is its own new blob or
\* a deleted one; what it changes is the file it writes or a new one.
LEMMA EndKeeps ==
  ASSUME IInv, NEW r \in Requests, End(r), UNCHANGED <<versions, used, released, load>>,
         file' \in [Files -> FileRow], blobs' \subseteq blobs, acked' \subseteq Keys, raced' \subseteq Keys,
         \A k \in blobs \ blobs' : k \in released \/ (Own(r) /\ k = req[r].key),
         \A f \in Files : file[f].state # "free" => file'[f].state # "free",
         \A f \in Files : file'[f].state # "free" => file'[f].key \in Keys,
         \A f \in Files : \/ file'[f].key = file[f].key \/ file[f].state = "free"
                          \/ f = req[r].file /\ req[r].op \in Writers,
         \A k \in Referenced' : k \in Referenced \/ (k = req[r].key /\ k \in Keys /\ blobs' = blobs),
         AckedReachable'
  PROVE  IInv'
<1>1. TypeOK /\ Safe(r) /\ Fresh(r) /\ Apart /\ MissingOnlyIfReleased /\ released \subseteq used
  BY Zenon DEF IInv
<1>2. req' \in [Requests -> Request] /\ req'[r] = Idle /\ \A o \in Requests \ {r} : req'[o] = req[o]
  BY <1>1, IdleIs, Zenon DEF End, TypeOK
<1>3. TypeOK'
  BY <1>1, <1>2, Zenon DEF TypeOK
<1>4. VersionKeys' = VersionKeys
  BY DEF VersionKeys
<1>5. Own(r) => req[r].key \in Keys
  BY <1>1, Zenon DEF Own, TypeOK, Request
<1>6. ASSUME NEW o \in Requests \ {r} PROVE Bystander(o)
  <2>1. Safe(o) /\ Fresh(o) /\ req[o] \in Request
    BY <1>1, Zenon DEF IInv, TypeOK
  <2>2. Own(r) => req[o].key # req[r].key /\ req[o].prev # req[r].key
    BY <1>1, Zenon DEF Fresh, Own
  <2>3. Own(o) => req[o].key # req[r].key
    BY <2>1, Zenon DEF Fresh, Own
  <2>4. /\ req[o].key # None => req[o].key \in blobs' \cup released'
        /\ req[o].prev # None => req[o].prev \in blobs' \cup released'
    BY <2>1, <2>2, Zenon DEF Safe
  <2>5. Own(o) => req[o].key \in blobs' /\ req[o].key \notin Referenced' /\ req[o].key \notin released'
    BY <2>1, <2>3, Zenon DEF Fresh, Own
  <2>6. req[o].op \in Writers /\ req[o].file # None /\ ~req[o].shared
          => file'[req[o].file].key = file[req[o].file].key
    <3> SUFFICES ASSUME req[o].op \in Writers, req[o].file # None, ~req[o].shared
                 PROVE  file'[req[o].file].key = file[req[o].file].key
      BY Zenon
    <3>1. req[o].file \in Files /\ file[req[o].file].state # "free"
      BY <2>1, Zenon DEF Safe, Request
    <3>2. ~(req[o].file = req[r].file /\ req[r].op \in Writers)
      BY <1>1, Zenon DEF Apart
    <3> QED BY <3>1, <3>2, Zenon
  <2> QED BY <1>2, <2>4, <2>5, <2>6, Zenon DEF Bystander
<1>7. Shape(req[r])' /\ Safe(r)' /\ Fresh(r)'
  BY <1>2, IdleIs, Zenon DEF Safe, Fresh
<1>8. \A o \in Requests \ {r} : Own(o) => req'[r].key # req[o].key /\ req'[r].prev # req[o].key
  BY <1>2, IdleIs, Zenon DEF Own
<1>9. Apart'
  BY <1>1, <1>2, IdleIs, ZenonT(60) DEF Apart
<1>10. MissingOnlyIfReleased'
  <2> SUFFICES ASSUME NEW k \in Referenced', k \notin blobs' PROVE k \in released
    BY DEF MissingOnlyIfReleased
  <2>1. CASE k \in Referenced
    BY <1>1, <2>1, Zenon DEF MissingOnlyIfReleased, Fresh, Own
  <2>2. CASE k = req[r].key /\ k \in Keys /\ blobs' = blobs
    BY <1>1, <2>2, NoneAssumption, Zenon DEF Safe
  <2> QED BY <2>1, <2>2, Zenon
<1>11. released' \subseteq used' /\ released \subseteq released' /\ VersionKeys \subseteq VersionKeys' \cup released'
  BY <1>1, <1>4, Zenon
<1> QED BY <1>3, <1>6, <1>7, <1>8, <1>9, <1>10, <1>11, OneKeeps, Zenon

\* While the tables stand still, so does what they refer to.
LEMMA SameRows ==
  ASSUME UNCHANGED <<file, versions>>
  PROVE  Referenced' = Referenced /\ VersionKeys' = VersionKeys
BY DEF Referenced, RowKeys, Rows, VersionKeys

\* A request that fails, is refused or is cut off: it may remove its own new blob
\* (upload_inner, put_file_impl, find_by_name's conflict).
LEMMA FailKeeps ==
  ASSUME IInv, NEW r \in Requests, End(r),
         UNCHANGED <<file, versions, used, acked, released, raced, load>>,
         blobs' = blobs \/ (Own(r) /\ blobs' = blobs \ {req[r].key})
  PROVE  IInv'
<1>1. /\ file \in [Files -> FileRow] /\ acked \subseteq Keys /\ raced \subseteq Keys /\ AckedReachable
      /\ \A f \in Files : file[f].state # "free" => file[f].key \in Keys
  BY DEF IInv, TypeOK
<1>2. Referenced' = Referenced
  BY SameRows
<1>3. AckedReachable'
  BY <1>1, <1>2 DEF AckedReachable
<1>4. blobs' \subseteq blobs /\ \A k \in blobs \ blobs' : Own(r) /\ k = req[r].key
  OBVIOUS
<1> QED BY <1>1, <1>2, <1>3, <1>4, EndKeeps, Zenon

\* A request that moves on to a step in which it knows more.
LEMMA MoveKeeps ==
  ASSUME IInv, NEW r \in Requests, NEW t \in Request, req' = [req EXCEPT ![r] = t],
         UNCHANGED <<file, versions, blobs, used, acked, released, raced, load>>,
         Shape(t), t.pc # "swap", t.doomed \subseteq released,
         t.key = req[r].key \/ (t.op \notin NewContent /\ t.key \in Referenced),
         t.prev = req[r].prev \/ (t.prev \in Referenced /\ t.op \notin Writers),
         t.op = req[r].op \/ t.key = None,
         t.file = req[r].file \/ (t.op \notin Writers /\ t.file \in Files /\ Live(t.file)),
         t.file # None /\ t.op \in Writers => t.op = req[r].op /\ t.shared = req[r].shared
  PROVE  IInv'
<1>1. TypeOK /\ Safe(r) /\ Fresh(r) /\ Apart /\ MissingOnlyIfReleased /\ AckedReachable
      /\ \A o \in Requests : Safe(o) /\ Fresh(o)
  BY Zenon DEF IInv
<1>2. req' \in [Requests -> Request] /\ req'[r] = t /\ \A o \in Requests \ {r} : req'[o] = req[o]
  BY <1>1, Zenon DEF TypeOK
<1>3. TypeOK'
  BY <1>1, <1>2, Zenon DEF TypeOK
<1>4. Referenced' = Referenced /\ VersionKeys' = VersionKeys
  BY SameRows, Zenon
<1>5. \A o \in Requests \ {r} : Bystander(o)
  BY <1>1, <1>2, <1>4, Zenon DEF Bystander, Safe, Fresh, Own
<1>6. Safe(r)'
  <2>1. t.key # None => t.key \in blobs \cup released
    BY <1>1, Zenon DEF Safe, MissingOnlyIfReleased
  <2>2. t.prev # None => t.prev \in blobs \cup released
    BY <1>1, Zenon DEF Safe, MissingOnlyIfReleased
  <2>3. t.file # None => file[t.file].state # "free"
    BY <1>1, Zenon DEF Safe, Live
  <2>4. t.op \in Writers /\ t.file # None /\ ~t.shared => file[t.file].key = t.prev
    BY <1>1, Zenon DEF Safe
  <2> QED BY <1>2, <1>4, <2>1, <2>2, <2>3, <2>4, Zenon DEF Safe
<1>7. Fresh(r)'
  <2> SUFFICES ASSUME t.op \in NewContent, t.key # None
               PROVE  /\ t.key \in blobs /\ t.key \notin Referenced /\ t.key \notin released
                      /\ \A o \in Requests : req'[o].prev # t.key /\ (o # r => req'[o].key # t.key)
    BY <1>2, <1>4, Zenon DEF Fresh
  <2>1. t.key = req[r].key /\ Own(r) /\ t.prev = req[r].prev
    BY Zenon DEF Own, NewContent, Writers
  <2> QED BY <1>1, <1>2, <2>1, ZenonT(60) DEF Fresh, Own
<1>8. \A o \in Requests \ {r} : Own(o) => req'[r].key # req[o].key /\ req'[r].prev # req[o].key
  BY <1>1, <1>2 DEF Fresh, Own
<1>9. Apart'
  BY <1>1, <1>2 DEF Apart
<1>10. MissingOnlyIfReleased' /\ AckedReachable'
  BY <1>1, <1>4, Zenon DEF MissingOnlyIfReleased, AckedReachable
<1>11. /\ released' \subseteq used' /\ released \subseteq released' /\ VersionKeys \subseteq VersionKeys' \cup released'
       /\ \A f \in Files : file'[f].state # "free" => file'[f].key \in Keys
  BY <1>4, Zenon DEF IInv
<1>12. Shape(req[r])'
  BY <1>2
<1> QED BY <1>3, <1>5, <1>6, <1>7, <1>8, <1>9, <1>10, <1>11, <1>12, OneKeeps, Zenon

\* A request that takes the file it is to write: from here on it knows of every other
\* request that writes it, and they of it.
LEMMA TargetKeeps ==
  ASSUME IInv, NEW r \in Requests, NEW q \in Request, Target(r, q),
         UNCHANGED <<file, versions, blobs, used, acked, released, raced, load>>,
         Shape(q), q.pc \notin {"idle", "swap"}, q.doomed \subseteq released, q.op \in Writers,
         q.file \in Files, Live(q.file), q.prev = file[q.file].key,
         q.key = req[r].key, q.op = req[r].op \/ q.key = None
  PROVE  IInv'
<1>1. /\ TypeOK /\ Fresh(r) /\ Safe(r) /\ Apart /\ MissingOnlyIfReleased /\ AckedReachable
      /\ \A o \in Requests : Safe(o) /\ Fresh(o) /\ Shape(req[o]) /\ req[o] \in Request
  BY Zenon DEF IInv, TypeOK
<1> DEFINE others == {o \in Requests \ {r} : req[o].file = q.file /\ req[o].op \in Writers}
           t == [q EXCEPT !.shared = others # {}]
<1>2. /\ \A o \in Requests : req'[o] = CASE o = r -> t
                                         [] o \in others -> [req[o] EXCEPT !.shared = TRUE]
                                         [] OTHER -> req[o]
      /\ req' = [o \in Requests |-> req'[o]]
  BY Zenon DEF Target
<1>3. /\ t \in Request /\ t.pc = q.pc /\ t.op = q.op /\ t.file = q.file /\ t.name = q.name
      /\ t.key = q.key /\ t.prev = q.prev /\ t.no = q.no /\ t.doomed = q.doomed
      /\ t.shared = (others # {})
  <2>1. (others # {}) \in BOOLEAN
    OBVIOUS
  <2> HIDE DEF others
  <2> QED BY <2>1, Zenon DEF Request
<1>4. q.file # None
  BY NoneAssumption
<1>5. \A o \in others : /\ req[o].pc # "idle" /\ [req[o] EXCEPT !.shared = TRUE] \in Request
                        /\ [req[o] EXCEPT !.shared = TRUE].shared
                        /\ [req[o] EXCEPT !.shared = TRUE].op = req[o].op
                        /\ [req[o] EXCEPT !.shared = TRUE].file = req[o].file
  <2> SUFFICES ASSUME NEW o \in others
               PROVE  /\ req[o].pc # "idle" /\ [req[o] EXCEPT !.shared = TRUE] \in Request
                      /\ [req[o] EXCEPT !.shared = TRUE].shared
                      /\ [req[o] EXCEPT !.shared = TRUE].op = req[o].op
                      /\ [req[o] EXCEPT !.shared = TRUE].file = req[o].file
    BY Zenon
  <2>1. req[o] \in Request /\ Shape(req[o]) /\ req[o].file = q.file
    BY <1>1, Zenon
  <2>2. req[o].pc # "idle"
    BY <1>4, <2>1, IdleIs, Zenon DEF Shape
  <2> DEFINE s == [req[o] EXCEPT !.shared = TRUE]
  <2>3. s = [req[o] EXCEPT !.shared = TRUE]
    BY Zenon
  <2> HIDE DEF s
  <2>4. s \in Request /\ s.shared /\ s.op = req[o].op /\ s.file = req[o].file
    BY <2>1, <2>3, SharedIs, ZenonT(60)
  <2> QED BY <2>2, <2>3, <2>4, Zenon
<1>6. \A o \in Requests \ {r} : o \notin others => req[o].file # q.file \/ req[o].op \notin Writers
  OBVIOUS
<1>7. others \subseteq Requests \ {r}
  OBVIOUS
<1> HIDE DEF t, others
<1>8. /\ req'[r] = t
      /\ \A o \in others : req'[o] = [req[o] EXCEPT !.shared = TRUE]
      /\ \A o \in Requests \ {r} : o \notin others => req'[o] = req[o]
  BY <1>2, <1>7, Zenon
<1>9. req' \in [Requests -> Request]
  <2>1. ASSUME NEW o \in Requests PROVE req'[o] \in Request
    <3>1. CASE o = r
      BY <1>3, <1>8, <3>1, Zenon
    <3>2. CASE o \in others
      BY <1>5, <1>8, <3>2, Zenon
    <3>3. CASE o # r /\ o \notin others
      <4>1. req'[o] = req[o]
        BY <1>8, <3>3, Zenon
      <4> QED BY <1>1, <4>1, Zenon
    <3> QED BY <3>1, <3>2, <3>3, Zenon
  <2> QED BY <1>2, <2>1, Zenon
<1>10. TypeOK'
  BY <1>1, <1>9, Zenon DEF TypeOK
<1>11. Referenced' = Referenced /\ VersionKeys' = VersionKeys
  BY SameRows
<1>12. \A o \in Requests \ {r} : Bystander(o)
  <2> TAKE o \in Requests \ {r}
  <2>1. \/ req'[o] = req[o]
        \/ req[o].pc # "idle" /\ req'[o] = [req[o] EXCEPT !.shared = TRUE]
    BY <1>5, <1>8, Zenon
  <2> QED BY <1>1, <1>11, <2>1, Zenon DEF Bystander, Safe, Fresh, Own
<1>13. q.prev \in Referenced
  BY Zenon DEF Referenced, RowKeys, Rows, Live
<1>14. Shape(t)
  BY <1>3, Zenon DEF Shape
<1>15. Safe(r)'
  <2>1. t.prev \in blobs \cup released
    BY <1>1, <1>3, <1>13, Zenon DEF MissingOnlyIfReleased
  <2>2. t.key # None => t.key \in blobs \cup released
    BY <1>1, <1>3, Zenon DEF Safe
  <2> QED BY <1>3, <1>8, <2>1, <2>2, Zenon DEF Safe, Live
<1>16. Fresh(r)'
  <2> SUFFICES ASSUME q.op \in NewContent, q.key # None
               PROVE  /\ q.key \in blobs /\ q.key \notin Referenced /\ q.key \notin released
                      /\ \A o \in Requests : req'[o].prev # q.key /\ (o # r => req'[o].key # q.key)
    BY <1>3, <1>8, <1>11, ZenonT(60) DEF Fresh
  <2>1. /\ q.key \in blobs /\ q.key \notin Referenced /\ q.key \notin released
        /\ \A o \in Requests \ {r} : req[o].prev # q.key /\ req[o].key # q.key
    BY <1>1, Zenon DEF Fresh
  <2>2. ASSUME NEW o \in Requests \ {r}
        PROVE  req'[o].prev = req[o].prev /\ req'[o].key = req[o].key
    <3>1. req[o] \in Request
      BY <1>1, Zenon
    <3>2. req'[o] = req[o] \/ req'[o] = [req[o] EXCEPT !.shared = TRUE]
      BY <1>8, Zenon
    <3>3. CASE req'[o] = req[o]
      BY <3>3, Zenon
    <3>4. CASE req'[o] = [req[o] EXCEPT !.shared = TRUE]
      <4> DEFINE p == req[o]
                 s == req'[o]
      <4>1. p \in Request /\ s = [p EXCEPT !.shared = TRUE]
        BY <3>1, <3>4, Zenon
      <4> HIDE DEF p, s
      <4>2. s.key = p.key /\ s.prev = p.prev
        BY <4>1, SharedIs, ZenonT(60)
      <4> QED BY <4>2, Zenon DEF p, s
    <3> QED BY <3>2, <3>3, <3>4, Zenon
  <2>3. req'[r].prev # q.key
    BY <1>3, <1>8, <1>13, <2>1, Zenon
  <2> QED BY <2>1, <2>2, <2>3, Zenon
<1>17. \A o \in Requests \ {r} : Own(o) => req'[r].key # req[o].key /\ req'[r].prev # req[o].key
  <2> SUFFICES ASSUME NEW o \in Requests \ {r}, Own(o)
               PROVE  req'[r].key # req[o].key /\ req'[r].prev # req[o].key
    BY Zenon
  <2>1. Fresh(o)
    BY <1>1, Zenon
  <2>2. req[o].key \notin Referenced /\ req[r].key # req[o].key
    BY <2>1, FreshAlone, Zenon
  <2> QED BY <1>3, <1>8, <1>13, <2>2, Zenon
<1>18. Apart'
  <2>1. ASSUME NEW o \in Requests \ {r}
        PROVE  /\ req'[o].op = req[o].op /\ req'[o].file = req[o].file
               /\ req[o].shared => req'[o].shared
               /\ o \in others => req'[o].shared
    <3>1. CASE o \in others
      BY <1>5, <1>8, <3>1, Zenon
    <3>2. CASE o \notin others
      BY <1>8, <3>2, Zenon
    <3> QED BY <3>1, <3>2, Zenon
  <2>2. ASSUME NEW o \in Requests \ {r}, req[o].op \in Writers, req[o].file = q.file
        PROVE  o \in others /\ t.shared
    BY <1>3, <1>6, <2>2, Zenon
  <2> QED BY <1>1, <1>3, <1>8, <2>1, <2>2 DEF Apart
<1>19. MissingOnlyIfReleased' /\ AckedReachable'
  BY <1>1, <1>11, Zenon DEF MissingOnlyIfReleased, AckedReachable
<1>20. /\ released' \subseteq used' /\ released \subseteq released' /\ VersionKeys \subseteq VersionKeys' \cup released'
       /\ \A f \in Files : file'[f].state # "free" => file'[f].key \in Keys
  BY <1>11, Zenon DEF IInv
<1>21. Shape(req[r])'
  BY <1>8, <1>14, Zenon
<1> QED BY <1>10, <1>12, <1>15, <1>16, <1>17, <1>18, <1>19, <1>20, <1>21, OneKeeps, Zenon

\* A new request holds the content of a live file at most.
LEMMA BeginKeeps ==
  ASSUME IInv, NEW r \in Requests,
         \/ \E op \in {"upload", "finalize"}, name \in load.names : BeginByName(r, op, name)
         \/ \E op \in {"put", "restore_version", "delete_version", "purge"}, f \in Files :
              BeginById(r, op, f)
  PROVE  IInv'
<1>1. TypeOK /\ Shape(req[r]) /\ load \in Loads
  BY DEF IInv
<1>2. CASE \E op \in {"upload", "finalize"}, name \in load.names : BeginByName(r, op, name)
  <2>1. PICK op \in {"upload", "finalize"}, name \in load.names : BeginByName(r, op, name)
    BY <1>2
  <2>2. name \in Names
    BY <1>1, BoundAssumption
  <2> DEFINE t == [Idle EXCEPT !.pc = "store", !.op = op, !.name = name]
  <2>3. /\ t \in Request /\ t.pc = "store" /\ t.op = op /\ t.name = name /\ t.file = None
        /\ t.key = None /\ t.prev = None /\ t.doomed = {}
    BY <2>2, IdleIs, Zenon DEF Request, Pcs, AllOps
  <2>4. /\ req[r] = Idle /\ req' = [req EXCEPT ![r] = t]
        /\ UNCHANGED <<file, versions, blobs, used, acked, released, raced, load>>
    BY <1>1, <2>1, Zenon DEF BeginByName, Free, Shape
  <2> HIDE DEF t
  <2>5. Shape(t)
    BY <2>2, <2>3, Zenon DEF Shape, NewContent
  <2> QED BY <2>3, <2>4, <2>5, IdleIs, MoveKeeps, Zenon
<1>3. CASE \E op \in {"put", "restore_version", "delete_version", "purge"}, f \in Files :
             BeginById(r, op, f)
  <2>1. PICK op \in {"put", "restore_version", "delete_version", "purge"}, f \in Files :
               BeginById(r, op, f)
    BY <1>3
  <2> DEFINE q == [Idle EXCEPT !.pc = FirstPc(op), !.op = op, !.file = f, !.prev = file[f].key]
  <2>2. /\ req[r] = Idle /\ Live(f)
        /\ IF op \in Writers THEN Target(r, q) ELSE req' = [req EXCEPT ![r] = q]
        /\ UNCHANGED <<file, versions, blobs, used, acked, released, raced, load>>
    BY <1>1, <2>1, Zenon DEF BeginById, Free, Shape
  <2>3. file[f].key \in Keys /\ file[f].key \in Referenced
    BY <2>2, Zenon DEF IInv, Live, Referenced, RowKeys, Rows
  <2>4. /\ op = "put" => FirstPc(op) = "store"
        /\ op \in {"restore_version", "purge"} => FirstPc(op) = "gate"
        /\ op = "delete_version" => FirstPc(op) = "delete"
    BY DEF FirstPc
  <2>5. /\ q \in Request /\ q.pc = FirstPc(op) /\ q.op = op /\ q.file = f
        /\ q.key = None /\ q.prev = file[f].key /\ q.doomed = {}
    BY <2>3, <2>4, IdleIs, ZenonT(60) DEF Request, Pcs, AllOps
  <2> HIDE DEF q
  <2>6. Shape(q)
    BY <2>3, <2>4, <2>5, Zenon DEF Shape, NewContent
  <2>7. CASE op \in Writers
    <3>1. q.pc \notin {"idle", "swap"}
      BY <2>4, <2>5
    <3> QED BY <2>2, <2>5, <2>6, <2>7, <3>1, IdleIs, TargetKeeps, Zenon
  <2>8. CASE op \notin Writers
    <3>1. q.pc # "swap"
      BY <2>4, <2>5
    <3>2. q.prev \in Referenced
      BY <2>3, <2>5
    <3> QED BY <2>2, <2>5, <2>6, <2>8, <3>1, <3>2, IdleIs, MoveKeeps, Zenon
  <2> QED BY <2>7, <2>8
<1> QED BY <1>2, <1>3

MovesTo(r, t) ==
  /\ req' = [req EXCEPT ![r] = t]
  /\ UNCHANGED <<file, versions, blobs, used, acked, released, raced, load>>

\* Goto changes where a request is and nothing else.
LEMMA GotoMoves ==
  ASSUME TypeOK, NEW r \in Requests, NEW x \in Pcs, Goto(r, x),
         UNCHANGED <<file, versions, blobs, used, acked, released, raced, load>>
  PROVE  MovesTo(r, [req[r] EXCEPT !.pc = x])
BY DEF MovesTo, Goto, TypeOK

\* A request that moves on with what it has.
LEMMA PcKeeps ==
  ASSUME IInv, NEW r \in Requests, NEW x \in Pcs \ {"swap"},
         MovesTo(r, [req[r] EXCEPT !.pc = x]), Shape([req[r] EXCEPT !.pc = x])
  PROVE  IInv'
<1> DEFINE t == [req[r] EXCEPT !.pc = x]
<1>1. req[r] \in Request /\ Safe(r)
  BY DEF IInv, TypeOK
<1>2. /\ t \in Request /\ t.pc = x /\ t.op = req[r].op /\ t.file = req[r].file
      /\ t.key = req[r].key /\ t.prev = req[r].prev /\ t.doomed = req[r].doomed
      /\ t.shared = req[r].shared
  BY <1>1 DEF Request
<1>3. Shape(t) /\ MovesTo(r, t)
  OBVIOUS
<1> HIDE DEF t
<1>4. t.doomed \subseteq released
  BY <1>1, <1>2, Zenon DEF Safe
<1> QED BY <1>2, <1>3, <1>4, MoveKeeps, ZenonT(30) DEF MovesTo

\* The name, the gate, the version to promote and the next number.
LEMMA ReadsKeep ==
  ASSUME IInv, NEW r \in Requests,
         find_by_name(r) \/ require_write(r) \/ FetchTarget(r) \/ next_no(r)
  PROVE  IInv'
<1> DEFINE q == req[r]
<1>1. TypeOK /\ Shape(q) /\ Safe(r) /\ Fresh(r) /\ q \in Request
  BY DEF IInv, TypeOK
<1>2. \A k \in Keys : k # None
  BY NoneAssumption
<1>3. CASE find_by_name(r)
  <2>1. q.pc = "find" /\ q.op \in {"upload", "finalize"} /\ q.key \in Keys /\ q.name \in Names
    BY <1>1, <1>3, ZenonT(30) DEF find_by_name, Shape
  <2>2. CASE q.name \in FolderNames /\ blobs' = blobs \ {q.key} /\ End(r)
    BY <1>2, <1>3, <2>1, <2>2, FailKeeps, Zenon DEF find_by_name, Own, NewContent
  <2>3. ASSUME NEW f \in Files, Live(f),
               Target(r, [q EXCEPT !.file = f, !.prev = file[f].key,
                                   !.pc = IF q.op = "upload" THEN "gate" ELSE "number"]),
               UNCHANGED blobs
        PROVE  IInv'
    <3> DEFINE x == IF q.op = "upload" THEN "gate" ELSE "number"
               t == [q EXCEPT !.file = f, !.prev = file[f].key, !.pc = x]
    <3>1. file[f].key \in Keys /\ q.doomed \subseteq released
      BY <1>1, <2>3, Zenon DEF IInv, Live, Safe
    <3>2. x \in Pcs /\ x \in {"gate", "number"} /\ (x = "gate" => q.op = "upload")
      BY DEF Pcs
    <3>3. Target(r, t)
      BY <2>3
    <3> HIDE DEF x
    <3>4. /\ t \in Request /\ t.pc = x /\ t.op = q.op
          /\ t.file = f /\ t.key = q.key /\ t.prev = file[f].key /\ t.doomed = q.doomed
      BY <1>1, <3>1, <3>2, Zenon DEF Request
    <3> HIDE DEF t
    <3>6. Shape(t) /\ t.pc \notin {"idle", "swap"} /\ t.op \in Writers
      BY <2>1, <3>1, <3>2, <3>4, Zenon DEF Shape, NewContent, Writers
    <3>5. UNCHANGED <<file, versions, blobs, used, acked, released, raced, load>>
      BY <1>3, <2>3, Zenon DEF find_by_name
    <3> QED BY <2>3, <3>1, <3>3, <3>4, <3>5, <3>6, TargetKeeps, Zenon
  <2>4. CASE Goto(r, "insert") /\ UNCHANGED blobs
    <3>1. MovesTo(r, [q EXCEPT !.pc = "insert"])
      BY <1>1, <1>3, <2>4, GotoMoves, Zenon DEF find_by_name, Pcs
    <3>2. Shape([q EXCEPT !.pc = "insert"])
      <4> DEFINE t == [q EXCEPT !.pc = "insert"]
      <4>1. t.pc = "insert" /\ t.op = q.op /\ t.key = q.key /\ t.name = q.name /\ t.file = q.file
        BY <1>1 DEF Request
      <4>2. q.file = None
        BY <1>1, <2>1, Zenon DEF Shape
      <4> HIDE DEF t
      <4>3. Shape(t)
        BY <2>1, <4>1, <4>2, Zenon DEF Shape
      <4> QED BY <4>3 DEF t
    <3> QED BY <3>1, <3>2, <1>1, PcKeeps, Zenon DEF Pcs
  <2> QED BY <1>3, <2>2, <2>3, <2>4, Zenon DEF find_by_name
<1>4. CASE require_write(r)
  <2>1. q.pc = "gate" /\ q.op \in {"upload", "restore_version", "purge"} /\ (q.op = "upload" => q.key \in Keys)
    BY <1>1, <1>4, Zenon DEF require_write, Shape
  <2>2. CASE Live(q.file) /\ Goto(r, AfterGate(q.op)) /\ UNCHANGED blobs
    <3>1. /\ q.op = "upload" => AfterGate(q.op) = "number"
          /\ q.op = "restore_version" => AfterGate(q.op) = "target"
          /\ q.op = "purge" => AfterGate(q.op) = "delete"
      BY DEF AfterGate
    <3>2. PICK x \in {"number", "target", "delete"} :
                 /\ Goto(r, x) /\ (x = "number" => q.op = "upload")
                 /\ x = "target" => q.op = "restore_version"
                 /\ x = "delete" => q.op = "purge"
      BY <2>1, <2>2, <3>1, Zenon
    <3>3. MovesTo(r, [q EXCEPT !.pc = x])
      BY <1>1, <1>4, <2>2, <3>2, GotoMoves, Zenon DEF require_write, Pcs
    <3>4. Shape([q EXCEPT !.pc = x])
      <4> DEFINE t == [q EXCEPT !.pc = x]
      <4>1. t.pc = x /\ t.op = q.op /\ t.key = q.key /\ t.prev = q.prev /\ t.file = q.file
        BY <1>1 DEF Request
      <4>2. q.file \in Files /\ q.prev \in Keys
        BY <1>1, <2>1, Zenon DEF Shape
      <4> HIDE DEF t
      <4>3. Shape(t)
        BY <2>1, <3>2, <4>1, <4>2, Zenon DEF Shape, Writers
      <4> QED BY <4>3 DEF t
    <3> QED BY <3>2, <3>3, <3>4, <1>1, PcKeeps, Zenon DEF Pcs
  <2>3. CASE blobs' = blobs \ FailedWriteBlobs(q) /\ End(r)
    <3>1. blobs' = blobs \/ (Own(r) /\ blobs' = blobs \ {q.key})
      BY <1>2, <2>1, <2>3, Zenon DEF FailedWriteBlobs, Own, NewContent
    <3> QED BY <1>4, <2>3, <3>1, FailKeeps, Zenon DEF require_write
  <2> QED BY <1>4, <2>2, <2>3, Zenon DEF require_write
<1>5. CASE FetchTarget(r)
  <2>1. q.pc = "target" /\ q.op = "restore_version" /\ q.file \in Files /\ q.prev \in Keys
    BY <1>1, <1>5, Zenon DEF FetchTarget, Shape
  <2>2. ASSUME NEW v \in VersionsOf(q.file),
               req' = [req EXCEPT ![r].key = v.key, ![r].pc = "number"]
        PROVE  IInv'
    <3> DEFINE t == [q EXCEPT !.key = v.key, !.pc = "number"]
    <3>1. v \in versions /\ v.key \in Keys /\ v.key \in Referenced
      BY <1>1, <2>2, Zenon DEF VersionsOf, TypeOK, Version, Referenced
    <3>2. req' = [req EXCEPT ![r] = t]
      BY <1>1, <2>2, Zenon DEF TypeOK
    <3>3. /\ t \in Request /\ t.pc = "number" /\ t.op = q.op /\ t.file = q.file
          /\ t.key = v.key /\ t.prev = q.prev /\ t.doomed = q.doomed /\ t.shared = q.shared
      BY <1>1, <3>1, Zenon DEF Request, Pcs
    <3> HIDE DEF t
    <3>4. Shape(t)
      BY <2>1, <3>1, <3>3, Zenon DEF Shape, Writers
    <3>5. t.op \notin NewContent /\ t.doomed \subseteq released
      BY <1>1, <2>1, <3>3, Zenon DEF NewContent, Safe
    <3> QED BY <1>5, <3>1, <3>2, <3>3, <3>4, <3>5, MoveKeeps, Zenon DEF FetchTarget
  <2>3. CASE End(r)
    BY <1>5, <2>3, FailKeeps, Zenon DEF FetchTarget
  <2> QED BY <1>5, <2>2, <2>3, Zenon DEF FetchTarget
<1>6. CASE next_no(r)
  <2>1. q.pc = "number"
    BY <1>6, Zenon DEF next_no
  <2>2. PICK n \in 0..MaxVersion : /\ IsNextNo(q.file, n)
                                   /\ req' = [req EXCEPT ![r].no = n, ![r].pc = "archive"]
    BY <1>6, Zenon DEF next_no
  <2>3. n \in 1..MaxVersion
    <3>1. VersionsOf(q.file) \subseteq Version
      BY <1>1 DEF VersionsOf, TypeOK
    <3>2. MaxVersion \in Nat
      BY BoundAssumption
    <3>3. n = 1 \/ \E v \in VersionsOf(q.file) : n = v.no + 1
      BY <2>2 DEF IsNextNo
    <3> QED BY <3>1, <3>2, <3>3 DEF Version
  <2> DEFINE t == [q EXCEPT !.no = n, !.pc = "archive"]
  <2>4. req' = [req EXCEPT ![r] = t]
    BY <1>1, <2>2, Zenon DEF TypeOK
  <2>5. /\ t \in Request /\ t.pc = "archive" /\ t.op = q.op /\ t.file = q.file /\ t.no = n
        /\ t.key = q.key /\ t.prev = q.prev /\ t.doomed = q.doomed /\ t.shared = q.shared
    BY <1>1, Zenon DEF Request, Pcs
  <2> HIDE DEF t
  <2>6. Shape(t) /\ t.doomed \subseteq released
    BY <1>1, <2>1, <2>3, <2>5, Zenon DEF Shape, Safe
  <2> QED BY <1>6, <2>4, <2>5, <2>6, MoveKeeps, Zenon DEF next_no
<1> QED BY <1>3, <1>4, <1>5, <1>6

\* A blob stored under a new key is nobody else's.
LEMMA StoreKeeps ==
  ASSUME IInv, NEW r \in Requests, StoreBlob(r)
  PROVE  IInv'
<1> DEFINE q == req[r]
           x == IF q.op = "put" THEN "number" ELSE "find"
<1>1. /\ TypeOK /\ Shape(q) /\ Safe(r) /\ q \in Request /\ Apart /\ MissingOnlyIfReleased /\ AckedReachable
      /\ released \subseteq used /\ \A o \in Requests : Safe(o) /\ Fresh(o)
  BY DEF IInv, TypeOK
<1>2. q.pc = "store" /\ q.op \in NewContent
  BY <1>1, Zenon DEF StoreBlob, Shape
<1>3. PICK k \in Keys \ used :
             /\ blobs' = blobs \cup {k} /\ used' = used \cup {k}
             /\ req' = [req EXCEPT ![r].key = k, ![r].pc = x]
  BY Zenon DEF StoreBlob
<1>4. UNCHANGED <<file, versions, acked, released, raced, load>>
  BY DEF StoreBlob
<1> DEFINE t == [q EXCEPT !.key = k, !.pc = x]
<1>5. req' = [req EXCEPT ![r] = t]
  BY <1>1, <1>3, Zenon DEF TypeOK
<1>6. x \in Pcs /\ x \in {"number", "find"} /\ (x = "number" => q.op = "put") /\ (x = "find" => q.op # "put")
  BY DEF Pcs
<1> HIDE DEF x
<1>7. /\ t \in Request /\ t.pc = x /\ t.op = q.op /\ t.file = q.file /\ t.name = q.name
      /\ t.key = k /\ t.prev = q.prev /\ t.doomed = q.doomed /\ t.shared = q.shared
  BY <1>1, <1>3, <1>6, Zenon DEF Request
<1> HIDE DEF t
<1>8. Shape(t)
  <2>1. /\ q.op = "put" => q.file \in Files /\ q.prev \in Keys
        /\ q.op # "put" => q.file = None /\ q.name \in Names
    BY <1>1, <1>2, Zenon DEF Shape
  <2> QED BY <1>2, <1>3, <1>6, <1>7, <2>1, Zenon DEF Shape, NewContent, Writers
<1>9. req' \in [Requests -> Request] /\ req'[r] = t /\ \A o \in Requests \ {r} : req'[o] = req[o]
  BY <1>1, <1>5, <1>7, Zenon DEF TypeOK
<1>10. TypeOK'
  BY <1>1, <1>3, <1>4, <1>9, Zenon DEF TypeOK
<1>11. Referenced' = Referenced /\ VersionKeys' = VersionKeys
  BY <1>4, SameRows
<1>12. /\ k # None /\ k \notin blobs /\ k \notin released /\ k \notin Referenced
       /\ \A o \in Requests : req[o].key # k /\ req[o].prev # k
  <2>1. k # None /\ k \notin blobs \cup released
    BY <1>1, <1>3, NoneAssumption, Zenon DEF TypeOK
  <2> QED BY <1>1, <2>1, Zenon DEF MissingOnlyIfReleased, Safe
<1>13. \A o \in Requests \ {r} : Bystander(o)
  BY <1>1, <1>3, <1>4, <1>9, <1>11, Zenon DEF Bystander, Safe, Fresh, Own
<1>14. Safe(r)'
  <2>1. /\ t.doomed \subseteq released'
        /\ t.key # None => t.key \in blobs' \cup released'
        /\ t.prev # None => t.prev \in blobs' \cup released'
        /\ t.file # None => file'[t.file].state # "free"
    BY <1>1, <1>3, <1>4, <1>7, Zenon DEF Safe
  <2>2. t.pc # "swap"
    BY <1>6, <1>7, Zenon
  <2>3. t.op \in Writers /\ t.file # None /\ ~t.shared => file'[t.file].key = t.prev
    BY <1>1, <1>4, <1>7, Zenon DEF Safe
  <2> QED BY <1>9, <2>1, <2>2, <2>3, Zenon DEF Safe
<1>15. Fresh(r)'
  <2>1. t.key \in blobs' /\ t.key \notin Referenced' /\ t.key \notin released'
    BY <1>3, <1>4, <1>7, <1>11, <1>12, Zenon
  <2>2. ASSUME NEW o \in Requests
        PROVE  req'[o].prev # t.key /\ (o # r => req'[o].key # t.key)
    <3>1. req'[o] = req[o] \/ (o = r /\ req'[o] = t)
      BY <1>9, Zenon
    <3> QED BY <1>7, <1>12, <3>1, Zenon
  <2> QED BY <1>9, <2>1, <2>2, Zenon DEF Fresh
<1>16. \A o \in Requests \ {r} : Own(o) => req'[r].key # req[o].key /\ req'[r].prev # req[o].key
  BY <1>1, <1>7, <1>9, <1>12, Zenon DEF Fresh, Own
<1>17. Apart'
  BY <1>1, <1>7, <1>9 DEF Apart
<1>18. MissingOnlyIfReleased' /\ AckedReachable'
  BY <1>1, <1>3, <1>4, <1>11, Zenon DEF MissingOnlyIfReleased, AckedReachable
<1>19. /\ released' \subseteq used' /\ released \subseteq released' /\ VersionKeys \subseteq VersionKeys' \cup released'
       /\ \A f \in Files : file[f].state # "free" => file'[f].state # "free"
       /\ \A f \in Files : file'[f].state # "free" => file'[f].key \in Keys
  BY <1>1, <1>3, <1>4, <1>11, Zenon DEF IInv
<1>20. Shape(req[r])' /\ load' = load
  BY <1>4, <1>8, <1>9, Zenon
<1> QED BY <1>10, <1>13, <1>14, <1>15, <1>16, <1>17, <1>18, <1>19, <1>20, OneKeeps, Zenon

\* What insert_version archives is on disk or was deleted, so the new row is safe.
LEMMA ArchiveKeeps ==
  ASSUME IInv, NEW r \in Requests, insert_version(r)
  PROVE  IInv'
<1> DEFINE q == req[r]
           fits == file[q.file].state # "gone" /\ \A w \in VersionsOf(q.file) : w.no # q.no
           v == [file |-> q.file, no |-> q.no, key |-> q.prev]
<1>1. /\ TypeOK /\ Shape(q) /\ Safe(r) /\ Fresh(r) /\ q \in Request /\ Apart
      /\ MissingOnlyIfReleased /\ AckedReachable /\ \A o \in Requests : Safe(o) /\ Fresh(o)
  BY DEF IInv, TypeOK
<1>2. CASE ~fits
  BY <1>2, FailKeeps, Zenon DEF insert_version
<1>3. CASE fits
  <2>1. q.pc = "archive" /\ versions' = versions \cup {v} /\ Goto(r, "swap")
    BY <1>3, Zenon DEF insert_version
  <2>2. UNCHANGED <<file, blobs, used, acked, released, raced, load>>
    BY Zenon DEF insert_version
  <2>3. /\ q.op \in Writers /\ q.file \in Files /\ q.prev \in Keys /\ q.key \in Keys
        /\ q.no \in 1..MaxVersion
    BY <1>1, <2>1, Zenon DEF Shape
  <2>4. v \in Version /\ v.key = q.prev
    BY <2>3, Zenon DEF Version
  <2> DEFINE t == [q EXCEPT !.pc = "swap"]
  <2>5. /\ t \in Request /\ t.pc = "swap" /\ t.op = q.op /\ t.file = q.file
        /\ t.key = q.key /\ t.prev = q.prev /\ t.doomed = q.doomed /\ t.shared = q.shared
    BY <1>1, Zenon DEF Request, Pcs
  <2>6. req' = [req EXCEPT ![r] = t]
    BY <1>1, <2>1, Zenon DEF Goto, TypeOK
  <2> HIDE DEF t, v, fits
  <2>7. req' \in [Requests -> Request] /\ req'[r] = t /\ \A o \in Requests \ {r} : req'[o] = req[o]
    BY <1>1, <2>5, <2>6, Zenon DEF TypeOK
  <2>8. TypeOK'
    BY <1>1, <2>1, <2>2, <2>4, <2>7, Zenon DEF TypeOK
  <2>9. VersionKeys' = VersionKeys \cup {q.prev}
    BY <2>1, <2>4 DEF VersionKeys
  <2>10. Referenced' = Referenced \cup {q.prev}
    <3>1. RowKeys(Rows)' = RowKeys(Rows)
      BY <2>2 DEF RowKeys, Rows
    <3> QED BY <2>9, <3>1 DEF Referenced, VersionKeys
  <2>11. q.prev # None /\ q.key # None
    BY <2>3, NoneAssumption
  <2>12. Shape(t)
    BY <2>3, <2>5, Zenon DEF Shape
  <2>13. \A o \in Requests \ {r} : Bystander(o)
    BY <1>1, <2>2, <2>7, <2>10, Zenon DEF Bystander, Safe, Fresh, Own
  <2>14. Safe(r)'
    BY <1>1, <2>2, <2>5, <2>7, <2>9, Zenon DEF Safe
  <2>15. Fresh(r)'
    <3>1. \A o \in Requests : req'[o].prev = req[o].prev /\ req'[o].key = req[o].key
      BY <2>5, <2>7, Zenon
    <3>2. req'[r].op = req[r].op /\ req'[r].key = req[r].key
      BY <2>5, <2>7, Zenon
    <3>3. Own(r) => /\ req[r].key \in blobs /\ req[r].key \notin Referenced /\ req[r].key \notin released
                    /\ \A o \in Requests : req[o].prev # req[r].key /\ (o # r => req[o].key # req[r].key)
      BY <1>1, FreshAlone, Zenon
    <3> QED BY <2>2, <2>10, <3>1, <3>2, <3>3, FreshKept, Zenon
  <2>16. \A o \in Requests \ {r} : Own(o) => req'[r].key # req[o].key /\ req'[r].prev # req[o].key
    BY <1>1, <2>5, <2>7, ZenonT(60) DEF Fresh, Own
  <2>17. Apart'
    BY <1>1, <2>5, <2>7, ApartKept, Zenon
  <2>18. MissingOnlyIfReleased' /\ AckedReachable'
    BY <1>1, <2>2, <2>10, <2>11, Zenon DEF MissingOnlyIfReleased, AckedReachable, Safe
  <2>19. /\ released' \subseteq used' /\ released \subseteq released' /\ VersionKeys \subseteq VersionKeys' \cup released'
         /\ \A f \in Files : file[f].state # "free" => file'[f].state # "free"
         /\ \A f \in Files : file'[f].state # "free" => file'[f].key \in Keys
    BY <2>2, <2>9, Zenon DEF IInv
  <2>20. Shape(req[r])' /\ load' = load
    BY <2>2, <2>7, <2>12
  <2> QED BY <2>8, <2>13, <2>14, <2>15, <2>16, <2>17, <2>18, <2>19, <2>20, OneKeeps, Zenon
<1> QED BY <1>2, <1>3, Zenon

\* update_content replaces content that insert_version archived, or that another
\* writer of the same file knew of.
LEMMA UpdateKeeps ==
  ASSUME IInv, NEW r \in Requests, update_content(r)
  PROVE  IInv'
<1> DEFINE q == req[r]
<1>1. TypeOK /\ Shape(q) /\ Safe(r) /\ Fresh(r) /\ q \in Request /\ AckedReachable
  BY DEF IInv, TypeOK
<1>2. q.pc = "swap" /\ End(r) /\ UNCHANGED <<versions, used, released, load>>
  BY Zenon DEF update_content
<1>3. q.op \in Writers /\ q.file \in Files /\ q.prev \in Keys /\ q.key \in Keys /\ q.key # None
  BY <1>1, <1>2, NoneAssumption, Zenon DEF Shape
<1>4. CASE ~Live(q.file)
  <2>1. blobs' = blobs \/ (Own(r) /\ blobs' = blobs \ {q.key})
    BY <1>3, <1>4, Zenon DEF update_content, FailedWriteBlobs, Own, NewContent
  <2> QED BY <1>2, <1>4, <2>1, FailKeeps, Zenon DEF update_content
<1>5. CASE Live(q.file)
  <2>1. /\ file' = [file EXCEPT ![q.file].key = q.key] /\ acked' = acked \cup {q.key}
        /\ raced' = (IF q.shared THEN raced \cup {file[q.file].key} ELSE raced) /\ blobs' = blobs
    BY <1>5, Zenon DEF update_content
  <2>2. file \in [Files -> FileRow] /\ file[q.file].key \in Keys
    BY <1>1, <1>3, <1>5, Zenon DEF TypeOK, IInv, Live
  <2>3. /\ file' \in [Files -> FileRow] /\ file'[q.file].key = q.key
        /\ \A f \in Files : file'[f].state = file[f].state
        /\ \A f \in Files \ {q.file} : file'[f] = file[f]
    <3> DEFINE f0 == file[q.file]
               f1 == [f0 EXCEPT !.key = q.key]
    <3>1. file' = [file EXCEPT ![q.file] = f1]
      BY <1>3, <2>1, <2>2, Zenon
    <3>2. f0 \in FileRow /\ f1 \in FileRow /\ f1.key = q.key /\ f1.state = f0.state
      BY <1>3, <2>2, Zenon DEF FileRow
    <3> HIDE DEF f1
    <3> QED BY <1>3, <2>2, <3>1, <3>2, Zenon
  <2>4. acked' \subseteq Keys /\ raced' \subseteq Keys
    BY <1>1, <1>3, <2>1, <2>2, Zenon DEF TypeOK
  <2>5. \A k \in Referenced' : k \in Referenced \/ k = q.key
    BY <1>2, <2>3, Zenon DEF Referenced, RowKeys, Rows
  <2>6. \A k \in Referenced : k \in Referenced' \/ k = file[q.file].key
    <3>1. ASSUME NEW f \in Rows
          PROVE  file[f].key \in Referenced' \/ file[f].key = file[q.file].key
      <4>1. CASE f = q.file
        BY <4>1, Zenon
      <4>2. CASE f # q.file
        <5>1. f \in Files \ {q.file} /\ f \in Rows' /\ file'[f].key = file[f].key
          BY <2>3, <4>2, Zenon DEF Rows
        <5> QED BY <5>1, Zenon DEF Referenced, RowKeys
      <4> QED BY <4>1, <4>2, Zenon
    <3>2. \A v \in versions : v.key \in Referenced'
      BY <1>2, Zenon DEF Referenced
    <3> QED BY <3>1, <3>2, Zenon DEF Referenced, RowKeys
  <2>7. q.key \in Referenced'
    BY <1>3, <1>5, <2>3, Zenon DEF Referenced, RowKeys, Rows, Live
  <2>8. file[q.file].key \in Referenced' \cup released \cup raced'
    <3>1. CASE q.shared
      BY <2>1, <3>1, Zenon
    <3>2. CASE ~q.shared
      <4>1. q.file # None
        BY <1>3, NoneAssumption
      <4>2. file[q.file].key = q.prev /\ q.prev \in VersionKeys \cup released
        BY <1>1, <1>2, <1>3, <3>2, <4>1, Zenon DEF Safe
      <4>3. VersionKeys \subseteq Referenced'
        BY <1>2 DEF VersionKeys, Referenced
      <4> QED BY <4>2, <4>3, Zenon
    <3> QED BY <3>1, <3>2, Zenon
  <2>9. AckedReachable'
    <3>1. raced \subseteq raced'
      BY <2>1, Zenon
    <3> QED BY <1>1, <1>2, <2>1, <2>6, <2>7, <2>8, <3>1, Zenon DEF AckedReachable
  <2>10. /\ \A f \in Files : file[f].state # "free" => file'[f].state # "free"
         /\ \A f \in Files : file'[f].state # "free" => file'[f].key \in Keys
         /\ \A f \in Files : \/ file'[f].key = file[f].key \/ file[f].state = "free"
                             \/ f = q.file /\ q.op \in Writers
    BY <1>3, <2>3, Zenon DEF IInv
  <2> QED BY <1>2, <1>3, <2>1, <2>3, <2>4, <2>5, <2>9, <2>10, EndKeeps, Zenon
<1> QED BY <1>4, <1>5

\* A new row refers to the new blob, which is on disk.
LEMMA InsertKeeps ==
  ASSUME IInv, NEW r \in Requests, insert(r)
  PROVE  IInv'
<1> DEFINE q == req[r]
<1>1. TypeOK /\ Shape(q) /\ Safe(r) /\ Fresh(r) /\ q \in Request /\ AckedReachable
  BY DEF IInv, TypeOK
<1>2. q.pc = "insert" /\ End(r) /\ UNCHANGED <<versions, used, released, raced, load>>
  BY Zenon DEF insert
<1>3. q.op \in {"upload", "finalize"} /\ q.key \in Keys /\ q.name \in Names /\ q.key # None
  BY <1>1, <1>2, NoneAssumption, Zenon DEF Shape
<1>4. CASE ~NameFree(q.name)
  <2>1. blobs' = blobs \/ (Own(r) /\ blobs' = blobs \ {q.key})
    BY <1>3, <1>4, Zenon DEF insert, FailedWriteBlobs, Own, NewContent
  <2> QED BY <1>2, <1>4, <2>1, FailKeeps, Zenon DEF insert
<1>5. CASE NameFree(q.name)
  <2>1. acked' = acked \cup {q.key} /\ blobs' = blobs
    BY <1>5, Zenon DEF insert
  <2> DEFINE new == [state |-> "live", name |-> q.name, key |-> q.key, expires |-> FALSE]
  <2>2. PICK f \in Files : file[f].state = "free" /\ file' = [file EXCEPT ![f] = new]
    BY <1>5, ZenonT(30) DEF insert
  <2>3. new \in FileRow /\ new.state = "live" /\ new.key = q.key
    BY <1>3 DEF FileRow, RowStates
  <2> HIDE DEF new
  <2>4. /\ file' \in [Files -> FileRow] /\ file'[f] = new
        /\ \A g \in Files \ {f} : file'[g] = file[g]
    BY <1>1, <2>2, <2>3, Zenon DEF TypeOK
  <2>5. Referenced' = Referenced \cup {q.key}
    <3>1. \A k : k \in RowKeys(Rows)' <=> k \in RowKeys(Rows) \/ k = q.key
      BY <2>2, <2>3, <2>4, Zenon DEF RowKeys, Rows
    <3> QED BY <1>2, <3>1 DEF Referenced
  <2>6. AckedReachable'
    BY <1>1, <1>2, <2>1, <2>5, Zenon DEF AckedReachable
  <2>7. /\ \A g \in Files : file[g].state # "free" => file'[g].state # "free"
        /\ \A g \in Files : file'[g].state # "free" => file'[g].key \in Keys
        /\ \A g \in Files : \/ file'[g].key = file[g].key \/ file[g].state = "free"
                            \/ g = q.file /\ q.op \in Writers
    BY <1>3, <2>2, <2>3, <2>4, Zenon DEF IInv
  <2>8. acked' \subseteq Keys /\ raced' \subseteq Keys
    BY <1>1, <1>2, <1>3, <2>1, Zenon DEF TypeOK
  <2> QED BY <1>2, <1>3, <2>1, <2>4, <2>5, <2>6, <2>7, <2>8, EndKeeps, Zenon
<1> QED BY <1>4, <1>5

\* A committed DELETE: what it takes from the tables it has released.
LEMMA ReleaseKeeps ==
  ASSUME IInv, NEW r \in Requests, NEW t \in Request, req' = [req EXCEPT ![r] = t],
         UNCHANGED <<blobs, used, acked, raced, load>>,
         file' \in [Files -> FileRow], versions' \subseteq versions,
         \A f \in Files : file'[f].key = file[f].key,
         \A f \in Files : (file[f].state = "free") <=> (file'[f].state = "free"),
         released \subseteq released', released' \subseteq released \cup Referenced,
         Referenced' \subseteq Referenced, Referenced \subseteq Referenced' \cup released',
         VersionKeys \subseteq VersionKeys' \cup released',
         t.pc = "unlink", t.doomed \subseteq released',
         t.op \notin Writers \/ (t.key = None /\ t.file = None),
         t.key = req[r].key, t.prev = req[r].prev, t.file = req[r].file
  PROVE  IInv'
<1>1. /\ TypeOK /\ Safe(r) /\ Fresh(r) /\ Apart /\ MissingOnlyIfReleased /\ AckedReachable
      /\ released \subseteq used /\ \A o \in Requests : Safe(o) /\ Fresh(o)
  BY Zenon DEF IInv
<1>2. req' \in [Requests -> Request] /\ req'[r] = t /\ \A o \in Requests \ {r} : req'[o] = req[o]
  BY <1>1, Zenon DEF TypeOK
<1>3. released' \subseteq used'
  BY <1>1, Zenon DEF MissingOnlyIfReleased, TypeOK
<1>4. TypeOK'
  BY <1>1, <1>2, <1>3, Zenon DEF TypeOK
<1>5. ASSUME NEW o \in Requests \ {r} PROVE Bystander(o)
  <2>1. req[o].file # None => req[o].file \in Files
    BY <1>1, Zenon DEF TypeOK, Request
  <2>2. Safe(o) /\ Fresh(o) /\ req'[o] = req[o]
    BY <1>1, <1>2, Zenon
  <2>3. Own(o) => /\ req[o].key \in blobs' /\ req[o].key \notin Referenced'
                  /\ req[o].key \notin released'
    BY <2>2, Zenon DEF Fresh, Own
  <2> QED BY <2>1, <2>2, <2>3, Zenon DEF Bystander, Safe
<1>6. Shape(t)
  BY Zenon DEF Shape
<1>7. Safe(r)'
  <2>1. t.file # None => file'[t.file].state # "free"
    BY <1>1, ZenonT(60) DEF Safe, Request
  <2> QED BY <1>1, <1>2, <2>1, ZenonT(60) DEF Safe
<1>8. Fresh(r)'
  BY <1>2, Zenon DEF Fresh, NewContent, Writers
<1>9. \A o \in Requests \ {r} : Own(o) => req'[r].key # req[o].key /\ req'[r].prev # req[o].key
  <2> SUFFICES ASSUME NEW o \in Requests \ {r}, Own(o)
               PROVE  req'[r].key # req[o].key /\ req'[r].prev # req[o].key
    BY Zenon
  <2>1. Fresh(o)
    BY <1>1, Zenon
  <2>2. req[r].key # req[o].key /\ req[r].prev # req[o].key
    BY <2>1, FreshAlone, Zenon
  <2> QED BY <1>2, <2>2, Zenon
<1>10. Apart'
  BY <1>1, <1>2, Zenon DEF Apart
<1>11. MissingOnlyIfReleased' /\ AckedReachable'
  BY <1>1, Zenon DEF MissingOnlyIfReleased, AckedReachable
<1>12. \A f \in Files : file'[f].state # "free" => file'[f].key \in Keys
  BY Zenon DEF IInv
<1>13. Shape(req[r])'
  BY <1>2, <1>6, Zenon
<1> QED BY <1>3, <1>4, <1>5, <1>7, <1>8, <1>9, <1>10, <1>11, <1>12, <1>13, OneKeeps, Zenon

\* What DeleteRows does to the tables.
LEMMA RowsReleased ==
  ASSUME TypeOK, NEW S \in SUBSET Files, \A f \in S : file[f].state \in {"live", "trashed"}, DeleteRows(S)
  PROVE  /\ file' \in [Files -> FileRow] /\ versions' \subseteq versions
         /\ \A f \in Files : file'[f].key = file[f].key
         /\ \A f \in Files : (file[f].state = "free") <=> (file'[f].state = "free")
         /\ released \subseteq released' /\ released' \subseteq released \cup Referenced
         /\ Referenced' \subseteq Referenced /\ Referenced \subseteq Referenced' \cup released'
         /\ VersionKeys \subseteq VersionKeys' \cup released'
         /\ RowKeys(S) \subseteq released'
<1>1. ASSUME NEW f \in Files
      PROVE  /\ file[f] \in FileRow /\ file'[f] \in FileRow /\ file'[f].key = file[f].key
             /\ f \in S => file'[f].state = "gone"
             /\ f \notin S => file'[f] = file[f]
  BY ZenonT(60) DEF DeleteRows, TypeOK, FileRow, RowStates
<1>2. file' \in [Files -> FileRow]
  <2>1. file' = [f \in Files |-> file'[f]]
    BY DEF DeleteRows
  <2> QED BY <1>1, <2>1
<1>3. /\ versions' = {v \in versions : v.file \notin S}
      /\ released' = released \cup {file[f].key : f \in S}
                              \cup {v.key : v \in {w \in versions : w.file \in S}}
  BY DEF DeleteRows
<1>4. \A f \in Files : (file[f].state = "free") <=> (file'[f].state = "free")
  BY <1>1
<1>5. released' \subseteq released \cup Referenced
  BY <1>3 DEF Referenced, RowKeys, Rows
<1>6. Referenced' \subseteq Referenced
  BY <1>1, <1>3 DEF Referenced, RowKeys, Rows
<1>7. VersionKeys \subseteq VersionKeys' \cup released'
  BY <1>3 DEF VersionKeys
<1>8. RowKeys(Rows) \subseteq RowKeys(Rows)' \cup released'
  BY <1>1, <1>3 DEF RowKeys, Rows
<1>9. Referenced \subseteq Referenced' \cup released'
  <2>1. Referenced = RowKeys(Rows) \cup VersionKeys /\ Referenced' = RowKeys(Rows)' \cup VersionKeys'
    BY DEF Referenced, VersionKeys
  <2> QED BY <1>7, <1>8, <2>1, Zenon
<1>10. RowKeys(S) \subseteq released'
  BY <1>3 DEF RowKeys
<1> QED BY <1>1, <1>2, <1>3, <1>4, <1>5, <1>6, <1>7, <1>9, <1>10, Zenon

\* purge and the two workers unlink only what their DELETE returned.
LEMMA PurgeKeeps ==
  ASSUME IInv, NEW r \in Requests,
         \/ purge(r)
         \/ \E S \in SUBSET Files : purge_trashed_older_than(r, S) \/ purge_expired_files(r, S)
  PROVE  IInv'
<1> DEFINE q == req[r]
<1>1. TypeOK /\ Shape(q) /\ q \in Request
  BY DEF IInv, TypeOK
<1>2. CASE purge(r)
  <2>1. q.pc = "delete" /\ q.op = "purge" /\ q.file \in Files
    BY <1>1, <1>2, Zenon DEF purge, Shape
  <2>2. CASE ~Trashed(q.file)
    BY <1>2, <2>2, FailKeeps, Zenon DEF purge
  <2>3. CASE Trashed(q.file)
    <3> DEFINE t == [q EXCEPT !.pc = "unlink", !.doomed = {file[q.file].key}]
    <3>1. /\ DeleteRows({q.file})
          /\ req' = [req EXCEPT ![r].pc = "unlink", ![r].doomed = {file[q.file].key}]
          /\ UNCHANGED <<blobs, used, acked, raced, load>>
      BY <1>2, <2>3, Zenon DEF purge
    <3>2. file[q.file].key \in Keys
      BY <2>1, <2>3, Zenon DEF IInv, Trashed
    <3>3. /\ t \in Request /\ t.pc = "unlink" /\ t.doomed = {file[q.file].key} /\ t.op = q.op
          /\ t.key = q.key /\ t.prev = q.prev /\ t.file = q.file
      BY <1>1, <3>2, ZenonT(60) DEF Request, Pcs
    <3>4. req' = [req EXCEPT ![r] = t]
      BY <1>1, <3>1, Zenon DEF TypeOK
    <3> HIDE DEF t
    <3>5. {q.file} \in SUBSET Files /\ \A f \in {q.file} : file[f].state \in {"live", "trashed"}
      BY <2>1, <2>3, Zenon DEF Trashed
    <3>6. t.doomed = RowKeys({q.file}) /\ t.op \notin Writers
      BY <2>1, <3>3, Zenon DEF RowKeys, Writers
    <3>7. /\ file' \in [Files -> FileRow] /\ versions' \subseteq versions
          /\ \A f \in Files : file'[f].key = file[f].key
          /\ \A f \in Files : (file[f].state = "free") <=> (file'[f].state = "free")
          /\ released \subseteq released' /\ released' \subseteq released \cup Referenced
          /\ Referenced' \subseteq Referenced /\ Referenced \subseteq Referenced' \cup released'
          /\ VersionKeys \subseteq VersionKeys' \cup released'
          /\ RowKeys({q.file}) \subseteq released'
      BY <1>1, <3>1, <3>5, RowsReleased, Zenon
    <3>8. t.doomed \subseteq released' /\ t.key = req[r].key /\ t.prev = req[r].prev /\ t.file = req[r].file
      BY <3>3, <3>6, <3>7, Zenon
    <3> HIDE DEF q
    <3> QED BY <3>1, <3>3, <3>4, <3>6, <3>7, <3>8, ReleaseKeeps, Zenon
  <2> QED BY <2>2, <2>3
<1>3. ASSUME NEW S \in SUBSET Files, purge_trashed_older_than(r, S) \/ purge_expired_files(r, S)
      PROVE  IInv'
  <2> DEFINE t == [Idle EXCEPT !.pc = "unlink", !.doomed = RowKeys(S)]
  <2>1. /\ q = Idle /\ DeleteRows(S) /\ req' = [req EXCEPT ![r] = t]
        /\ UNCHANGED <<blobs, used, acked, raced, load>>
        /\ \A f \in S : file[f].state \in {"live", "trashed"}
    BY <1>1, <1>3, Zenon DEF purge_trashed_older_than, purge_expired_files, Free, Shape, Live, Trashed
  <2>2. RowKeys(S) \subseteq Keys
    BY <2>1, Zenon DEF IInv, RowKeys
  <2>3. /\ t \in Request /\ t.pc = "unlink" /\ t.doomed = RowKeys(S)
        /\ t.key = None /\ t.prev = None /\ t.file = None
    BY <2>2, IdleIs, Zenon DEF Request, Pcs
  <2> HIDE DEF t
  <2>4. /\ file' \in [Files -> FileRow] /\ versions' \subseteq versions
        /\ \A f \in Files : file'[f].key = file[f].key
        /\ \A f \in Files : (file[f].state = "free") <=> (file'[f].state = "free")
        /\ released \subseteq released' /\ released' \subseteq released \cup Referenced
        /\ Referenced' \subseteq Referenced /\ Referenced \subseteq Referenced' \cup released'
        /\ VersionKeys \subseteq VersionKeys' \cup released'
        /\ RowKeys(S) \subseteq released'
    BY <1>1, <2>1, RowsReleased, Zenon
  <2>5. t.doomed \subseteq released' /\ t.key = req[r].key /\ t.prev = req[r].prev /\ t.file = req[r].file
    BY <2>1, <2>3, <2>4, IdleIs, Zenon
  <2> HIDE DEF q
  <2> QED BY <2>1, <2>3, <2>4, <2>5, ReleaseKeeps, Zenon
<1> QED BY <1>2, <1>3

\* delete_version unlinks only the version it deleted.
LEMMA DeleteVersionKeeps ==
  ASSUME IInv, NEW r \in Requests, delete_version(r)
  PROVE  IInv'
<1> DEFINE q == req[r]
<1>1. TypeOK /\ q \in Request /\ q.op = "delete_version"
  BY Zenon DEF IInv, TypeOK, delete_version
<1>2. UNCHANGED <<file, blobs, used, acked, raced, load>>
  BY DEF delete_version
<1>3. CASE End(r) /\ UNCHANGED <<versions, released>>
  BY <1>2, <1>3, FailKeeps
<1>4. ASSUME NEW v \in VersionsOf(q.file), versions' = versions \ {v}, released' = released \cup {v.key},
             req' = [req EXCEPT ![r].pc = "unlink", ![r].doomed = {v.key}]
      PROVE  IInv'
  <2>1. v \in versions /\ v.key \in Keys
    BY <1>1, <1>4, Zenon DEF VersionsOf, TypeOK, Version
  <2> DEFINE t == [q EXCEPT !.pc = "unlink", !.doomed = {v.key}]
  <2>2. /\ t \in Request /\ t.pc = "unlink" /\ t.doomed = {v.key} /\ t.op = q.op
        /\ t.key = q.key /\ t.prev = q.prev /\ t.file = q.file
    BY <1>1, <2>1, Zenon DEF Request, Pcs
  <2>3. req' = [req EXCEPT ![r] = t]
    BY <1>1, <1>4, Zenon DEF TypeOK
  <2> HIDE DEF t
  <2>4. RowKeys(Rows)' = RowKeys(Rows)
    BY <1>2 DEF RowKeys, Rows
  <2>5. /\ VersionKeys' \subseteq VersionKeys /\ VersionKeys \subseteq VersionKeys' \cup {v.key}
        /\ v.key \in VersionKeys
    BY <1>4, <2>1, Zenon DEF VersionKeys
  <2>6. Referenced = RowKeys(Rows) \cup VersionKeys /\ Referenced' = RowKeys(Rows)' \cup VersionKeys'
    BY DEF Referenced, VersionKeys
  <2>7. /\ Referenced' \subseteq Referenced /\ Referenced \subseteq Referenced' \cup released'
        /\ released' \subseteq released \cup Referenced /\ VersionKeys \subseteq VersionKeys' \cup released'
    BY <1>4, <2>4, <2>5, <2>6, Zenon
  <2>8. file' \in [Files -> FileRow]
    BY <1>1, <1>2 DEF TypeOK
  <2>9. t.op \notin Writers
    BY <1>1, <2>2, Zenon DEF Writers
  <2> QED BY <1>2, <1>4, <2>2, <2>3, <2>7, <2>8, <2>9, ReleaseKeeps, Zenon
<1> QED BY <1>3, <1>4, Zenon DEF delete_version

\* A deleted blob may go.
LEMMA UnlinkKeeps ==
  ASSUME IInv, NEW r \in Requests, Unlink(r)
  PROVE  IInv'
<1> DEFINE q == req[r]
<1>1. /\ TypeOK /\ Safe(r) /\ Fresh(r) /\ q \in Request /\ Apart /\ MissingOnlyIfReleased /\ AckedReachable
      /\ released \subseteq used /\ \A o \in Requests : Safe(o) /\ Fresh(o)
      /\ \A f \in Files : file[f].state # "free" => file[f].key \in Keys
  BY DEF IInv, TypeOK
<1>2. PICK k \in q.doomed :
             /\ blobs' = blobs \ {k}
             /\ req' = [req EXCEPT ![r] = IF q.doomed = {k} THEN Idle
                                          ELSE [q EXCEPT !.doomed = q.doomed \ {k}]]
  BY Zenon DEF Unlink
<1>3. q.pc = "unlink" /\ UNCHANGED <<file, versions, used, acked, released, raced, load>>
  BY DEF Unlink
<1>4. k \in released
  BY <1>1, Zenon DEF Safe
<1>5. Referenced' = Referenced /\ VersionKeys' = VersionKeys
  BY <1>3, SameRows
<1>6. MissingOnlyIfReleased' /\ AckedReachable'
  BY <1>1, <1>2, <1>3, <1>4, <1>5, Zenon DEF MissingOnlyIfReleased, AckedReachable
<1>7. CASE q.doomed = {k}
  <2>1. End(r)
    BY <1>2, <1>7 DEF End
  <2>2. file' \in [Files -> FileRow] /\ acked' \subseteq Keys /\ raced' \subseteq Keys
    BY <1>1, <1>3, Zenon DEF TypeOK
  <2>3. blobs' \subseteq blobs /\ \A b \in blobs \ blobs' : b \in released
    BY <1>2, <1>4
  <2> QED BY <1>1, <1>3, <1>5, <1>6, <2>1, <2>2, <2>3, EndKeeps, Zenon
<1>8. CASE q.doomed # {k}
  <2> DEFINE t == [q EXCEPT !.doomed = q.doomed \ {k}]
  <2>1. /\ t \in Request /\ t.pc = "unlink" /\ t.op = q.op /\ t.file = q.file
        /\ t.key = q.key /\ t.prev = q.prev /\ t.doomed \subseteq q.doomed /\ t.shared = q.shared
    BY <1>1, <1>3, Zenon DEF Request
  <2>2. req' = [req EXCEPT ![r] = t]
    BY <1>2, <1>8
  <2> HIDE DEF t
  <2>3. req' \in [Requests -> Request] /\ req'[r] = t /\ \A o \in Requests \ {r} : req'[o] = req[o]
    BY <1>1, <2>1, <2>2, Zenon DEF TypeOK
  <2>4. TypeOK'
    BY <1>1, <1>2, <1>3, <2>3, Zenon DEF TypeOK
  <2>5. \A o \in Requests \ {r} : Bystander(o)
    BY <1>1, <1>2, <1>3, <1>4, <1>5, <2>3, ZenonT(60) DEF Bystander, Safe, Fresh, Own
  <2>6. Shape(req[r])'
    BY <2>1, <2>3, Zenon DEF Shape
  <2>7. Safe(r)'
    <3>1. /\ q.doomed \subseteq released
          /\ q.key # None => q.key \in blobs' \cup released'
          /\ q.prev # None => q.prev \in blobs' \cup released'
          /\ q.file # None => file'[q.file].state # "free"
      BY <1>1, <1>2, <1>3, <1>4, Zenon DEF Safe
    <3>2. released \subseteq released' /\ VersionKeys \subseteq VersionKeys' \cup released'
      BY <1>3, <1>5, Zenon
    <3> QED BY <1>1, <1>3, <2>1, <2>3, <3>1, <3>2, SafeKept, Zenon
  <2>8. Fresh(r)'
    <3>1. \A o \in Requests : req'[o].prev = req[o].prev /\ req'[o].key = req[o].key
      BY <2>1, <2>3, Zenon
    <3>2. req'[r].op = req[r].op /\ req'[r].key = req[r].key
      BY <2>1, <2>3, Zenon
    <3>3. Own(r) => /\ req[r].key \in blobs /\ req[r].key \notin Referenced /\ req[r].key \notin released
                    /\ \A o \in Requests : req[o].prev # req[r].key /\ (o # r => req[o].key # req[r].key)
      BY <1>1, FreshAlone, Zenon
    <3>4. Own(r) => /\ req[r].key \in blobs' /\ req[r].key \notin Referenced' /\ req[r].key \notin released'
      BY <1>2, <1>3, <1>4, <1>5, <3>3, Zenon
    <3> QED BY <3>1, <3>2, <3>3, <3>4, FreshKept, Zenon
  <2>9. \A o \in Requests \ {r} : Own(o) => req'[r].key # req[o].key /\ req'[r].prev # req[o].key
    BY <1>1, <2>1, <2>3, ZenonT(60) DEF Fresh, Own
  <2>10. Apart'
    BY <1>1, <2>1, <2>3, ApartKept, Zenon
  <2>11. /\ released' \subseteq used' /\ released \subseteq released' /\ VersionKeys \subseteq VersionKeys' \cup released'
         /\ \A f \in Files : file[f].state # "free" => file'[f].state # "free"
         /\ \A f \in Files : file'[f].state # "free" => file'[f].key \in Keys
         /\ load' = load
    BY <1>1, <1>3, <1>5, Zenon
  <2> QED BY <1>6, <2>4, <2>5, <2>6, <2>7, <2>8, <2>9, <2>10, <2>11, OneKeeps, Zenon
<1> QED BY <1>7, <1>8

\* What the other statements do to the files: none is freed, none changes its content,
\* and a new one has content that was there.
Tame ==
  /\ file' \in [Files -> FileRow]
  /\ \A f \in Files : file[f].state # "free" => file'[f].state # "free" /\ file'[f].key = file[f].key
  /\ \A f \in Files : file'[f].state # "free" => file'[f].key \in Keys
  /\ \A f \in Files : file[f].state \in {"live", "trashed"} => file'[f].state \in {"live", "trashed"}
  /\ \A f \in Files : file'[f].state \in {"live", "trashed"} => file'[f].key \in Referenced

\* The statements that check what they need themselves keep the invariant.
LEMMA AtomicKeeps ==
  ASSUME IInv, Atomic
  PROVE  IInv'
<1>1. /\ TypeOK /\ Apart /\ MissingOnlyIfReleased /\ AckedReachable
      /\ released \subseteq used /\ \A o \in Requests : Safe(o) /\ Fresh(o) /\ req[o] \in Request
      /\ \A f \in Files : file[f].state # "free" => file[f].key \in Keys
  BY DEF IInv, TypeOK
<1>2. UNCHANGED <<versions, blobs, used, req, acked, released, raced, load>>
  BY Zenon DEF Atomic, bulk_trash, restore, set_expiry, copy_file
<1>3. Tame
  <2>1. ASSUME NEW S \in SUBSET Files, NEW x \in {"live", "trashed"}, SetState(S, x),
               \A f \in S : file[f].state \in {"live", "trashed"}
        PROVE  Tame
    <3>1. ASSUME NEW f \in Files
          PROVE  /\ file'[f] \in FileRow /\ file'[f].key = file[f].key
                 /\ f \in S => file'[f].state = x
                 /\ f \notin S => file'[f].state = file[f].state
      BY <1>1, <2>1, ZenonT(60) DEF SetState, TypeOK, FileRow, RowStates
    <3>2. file' = [f \in Files |-> file'[f]]
      BY <2>1 DEF SetState
    <3>3. file' \in [Files -> FileRow]
      BY <3>1, <3>2
    <3>4. \A f \in Files : (file'[f].state \in {"live", "trashed"}) => (file[f].key \in Referenced)
      BY <2>1, <3>1, Zenon DEF Referenced, RowKeys, Rows
    <3>5. \A f \in Files : (file'[f].state = "free") <=> (file[f].state = "free")
      BY <2>1, <3>1, Zenon
    <3> QED BY <1>1, <2>1, <3>1, <3>3, <3>4, <3>5, Zenon DEF Tame
  <2>2. ASSUME NEW f \in Files, set_expiry(f) PROVE Tame
    <3>1. file' = [file EXCEPT ![f].expires = ~@]
      BY <2>2 DEF set_expiry
    <3>2. (~file[f].expires) \in BOOLEAN
      OBVIOUS
    <3>3. /\ file' \in [Files -> FileRow] /\ file'[f].key = file[f].key /\ file'[f].state = file[f].state
          /\ \A g \in Files \ {f} : file'[g] = file[g]
      BY <1>1, <3>1, <3>2, ZenonT(60) DEF TypeOK, FileRow
    <3>4. \A g \in Files : (file[g].state \in {"live", "trashed"}) => (file[g].key \in Referenced)
      BY DEF Referenced, RowKeys, Rows
    <3> QED BY <1>1, <3>3, <3>4, Zenon DEF Tame
  <2>3. ASSUME NEW src \in Files, NEW name \in load.names, copy_file(src, name) PROVE Tame
    <3> DEFINE new == [state |-> "live", name |-> name, key |-> file[src].key, expires |-> FALSE]
    <3>1. PICK f \in Files : file[f].state = "free" /\ file' = [file EXCEPT ![f] = new]
      BY <2>3, Zenon DEF copy_file
    <3>2. file[src].key \in Keys /\ file[src].key \in Referenced
      BY <1>1, <2>3, Zenon DEF copy_file, Live, Referenced, RowKeys, Rows
    <3>3. name \in Names
      BY BoundAssumption DEF IInv
    <3>4. new \in FileRow /\ new.state = "live" /\ new.key = file[src].key
      BY <3>2, <3>3, Zenon DEF FileRow, RowStates
    <3> HIDE DEF new
    <3>5. /\ file' \in [Files -> FileRow] /\ file'[f] = new /\ \A g \in Files \ {f} : file'[g] = file[g]
      BY <1>1, <3>1, <3>4, Zenon DEF TypeOK
    <3>6. \A g \in Files : (file[g].state \in {"live", "trashed"}) => (file[g].key \in Referenced)
      BY Zenon DEF Referenced, RowKeys, Rows
    <3> QED BY <1>1, <3>1, <3>2, <3>4, <3>5, <3>6, Zenon DEF Tame
  <2>4. ASSUME NEW S \in SUBSET Files, bulk_trash(S) PROVE Tame
    BY <2>1, <2>4, Zenon DEF bulk_trash, Live
  <2>5. ASSUME NEW f \in Files, restore(f) PROVE Tame
    <3>1. {f} \in SUBSET Files /\ SetState({f}, "live") /\ \A g \in {f} : file[g].state \in {"live", "trashed"}
      BY <2>5 DEF restore, Trashed
    <3> QED BY <2>1, <3>1
  <2> QED BY <2>2, <2>3, <2>4, <2>5, Zenon DEF Atomic
<1>4. VersionKeys' = VersionKeys /\ RowKeys(Rows) \subseteq RowKeys(Rows)' /\ RowKeys(Rows)' \subseteq Referenced
  BY <1>2, <1>3, Zenon DEF VersionKeys, RowKeys, Rows, Tame
<1>5. Referenced = RowKeys(Rows) \cup VersionKeys /\ Referenced' = RowKeys(Rows)' \cup VersionKeys'
  BY DEF Referenced, VersionKeys
<1>6. Referenced' = Referenced
  BY <1>4, <1>5
<1>7. TypeOK'
  BY <1>1, <1>2, <1>3, Zenon DEF TypeOK, Tame
<1>8. ASSUME NEW o \in Requests PROVE Bystander(o)
  <2>1. req[o].file # None => file'[req[o].file].key = file[req[o].file].key
    BY <1>1, <1>3, Zenon DEF Safe, Request, Tame
  <2> QED BY <1>1, <1>2, <1>6, <2>1, Zenon DEF Bystander, Safe, Fresh, Own
<1>9. Apart' /\ MissingOnlyIfReleased' /\ AckedReachable'
  BY <1>1, <1>2, <1>6, Zenon DEF Apart, MissingOnlyIfReleased, AckedReachable
<1>10. /\ released' \subseteq used' /\ released \subseteq released' /\ VersionKeys \subseteq VersionKeys' \cup released'
       /\ \A f \in Files : file[f].state # "free" => file'[f].state # "free"
       /\ \A f \in Files : file'[f].state # "free" => file'[f].key \in Keys
       /\ load' = load
  BY <1>1, <1>2, <1>3, <1>4, Zenon DEF Tame
<1>11. {} \in SUBSET Requests
  OBVIOUS
<1>12. /\ \A o \in Requests \ {} : Bystander(o)
       /\ \A o \in {} : Shape(req[o])' /\ Safe(o)' /\ Fresh(o)'
       /\ \A o \in Requests \ {}, p \in {} : Own(o) => req'[p].key # req[o].key /\ req'[p].prev # req[o].key
  BY <1>8
<1> QED BY <1>7, <1>9, <1>10, <1>11, <1>12, StepKeeps, Zenon

-----------------------------------------------------------------------------
\* The invariant holds of an empty folder.
LEMMA InitIInv == Init => IInv
<1> SUFFICES ASSUME Init PROVE IInv
  OBVIOUS
<1>1. NoFile \in FileRow /\ NoFile.state = "free"
  BY DEF NoFile, FileRow, RowStates
<1>2. /\ file \in [Files -> FileRow] /\ \A f \in Files : file[f] = NoFile
      /\ req \in [Requests -> Request] /\ \A r \in Requests : req[r] = Idle
  BY <1>1, IdleIs DEF Init
<1>3. TypeOK /\ load \in Loads /\ released \subseteq used
  BY <1>2 DEF Init, TypeOK
<1>4. Referenced = {}
  BY <1>1, <1>2, Zenon DEF Init, Referenced, RowKeys, Rows
<1>5. \A r \in Requests : Shape(req[r]) /\ Safe(r) /\ Fresh(r)
  BY <1>2, IdleIs, Zenon DEF Safe, Fresh
<1>6. Apart /\ MissingOnlyIfReleased /\ AckedReachable
  BY <1>2, <1>4, IdleIs, Zenon DEF Init, Apart, MissingOnlyIfReleased, AckedReachable
<1> QED BY <1>1, <1>2, <1>3, <1>5, <1>6, Zenon DEF IInv

\* Every step keeps the invariant.
LEMMA NextIInv == IInv /\ [Next]_vars => IInv'
<1> SUFFICES ASSUME IInv, [Next]_vars PROVE IInv'
  OBVIOUS
<1>1. ASSUME NEW r \in Requests, Begin(r) PROVE IInv'
  BY <1>1, BeginKeeps, PurgeKeeps, Zenon DEF Begin
<1>2. ASSUME NEW r \in Requests, Step(r) PROVE IInv'
  BY <1>2, StoreKeeps, ReadsKeep, ArchiveKeeps, UpdateKeeps, InsertKeeps, PurgeKeeps,
     DeleteVersionKeeps, UnlinkKeeps, Zenon DEF Step
<1>3. ASSUME NEW r \in Requests, Cancel(r) PROVE IInv'
  BY <1>3, FailKeeps DEF Cancel
<1>4. CASE Atomic
  BY <1>4, AtomicKeeps
<1>5. CASE UNCHANGED vars
  <2>1. UNCHANGED <<file, versions, blobs, used, req, load, acked, released, raced>>
    BY <1>5 DEF vars
  <2>2. TypeOK' /\ load' = load /\ released' \subseteq used'
    BY <2>1, Zenon DEF IInv, TypeOK
  <2>3. Referenced' = Referenced
    BY <2>1, SameRows
  <2>4. Apart' /\ MissingOnlyIfReleased' /\ AckedReachable'
    BY <2>1, <2>3, Zenon DEF IInv, Apart, MissingOnlyIfReleased, AckedReachable
  <2>5. VersionKeys' = VersionKeys
    BY <2>1 DEF VersionKeys
  <2>6. ASSUME NEW r \in Requests PROVE Shape(req[r])' /\ Safe(r)' /\ Fresh(r)'
    <3>1. Shape(req[r]) /\ Safe(r) /\ Fresh(r)
      BY DEF IInv
    <3>2. Safe(r)'
      BY <2>1, <2>5, <3>1, Zenon DEF Safe
    <3>3. Fresh(r)'
      BY <2>1, <2>3, <3>1, Zenon DEF Fresh
    <3> QED BY <2>1, <3>1, <3>2, <3>3, Zenon
  <2> QED BY <2>1, <2>2, <2>4, <2>6, Zenon DEF IInv
<1> QED BY <1>1, <1>2, <1>3, <1>4, <1>5, Zenon DEF Next

\* The inductive invariant, for any files, keys and requests.
THEOREM Invariance == Spec => []IInv
BY InitIInv, NextIInv, PTL DEF Spec

\* Clean-ups, races and crashes never remove a blob that a row or a version points to;
\* only a committed DELETE does.
THEOREM MissingReleased == Spec => []MissingOnlyIfReleased
<1>1. IInv => MissingOnlyIfReleased
  BY Zenon DEF IInv
<1> QED BY <1>1, Invariance, PTL

\* Content answered for with success stays reachable until it is deleted, or replaced
\* by a write that overlapped another one of the same file.
THEOREM AckedStays == Spec => []AckedReachable
<1>1. IInv => AckedReachable
  BY DEF IInv
<1> QED BY <1>1, Invariance, PTL
=============================================================================
