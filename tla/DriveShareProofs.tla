--------------------------- MODULE DriveShareProofs -------------------------
(***************************************************************************)
(* A share link never serves more downloads than its cap, for any number   *)
(* of downloads, any caps and any times, and implements DownloadCap.       *)
(*                                                                         *)
(* The argument: download_count is the number of downloads counted         *)
(* (CountExact), a download of a capped link that got past                 *)
(* drive_share_consume is one of them (ServedCounted), and one that did    *)
(* not is not (NotYetCounted).                                             *)
(***************************************************************************)
EXTENDS DriveShare, FiniteSetTheorems, TLAPS

\* A download under way has resolved the link, whose cap never changes.
Resolved ==
  \A d \in Downloads : req[d].pc \notin {"new", "refused"} =>
     share # None /\ req[d].row \in Share /\ req[d].row.cap = share.cap

\* Only a limited link asks to consume.
OnlyCappedConsume ==
  \A d \in Downloads : req[d].pc \in {"begin", "consume"} => req[d].row.cap # Unlimited

ServedCounted ==
  \A d \in Downloads : req[d].pc \in {"fetch", "read", "served"} =>
     req[d].row.cap = Unlimited \/ d \in consumed

NotYetCounted ==
  \A d \in Downloads : req[d].pc \in {"new", "gate", "begin", "consume"} => d \notin consumed

\* There is no link before its creator has inserted it.
NoShareYet == (creator.pc # "done" => share = None) /\ (share = None => consumed = {})

CountExact ==
  /\ IsFiniteSet(consumed)
  /\ share # None /\ share.cap # Unlimited => share.count = Cardinality(consumed)

IInv ==
  /\ TypeOK /\ Resolved /\ OnlyCappedConsume /\ ServedCounted /\ NotYetCounted
  /\ NoShareYet /\ CountExact

-----------------------------------------------------------------------------
\* Init establishes the invariant.
LEMMA InitIInv == Init => IInv
<1> SUFFICES ASSUME Init PROVE IInv
  OBVIOUS
<1>1. TypeOK
  BY DEF Init, TypeOK, Request, Pcs
<1>2. IsFiniteSet(consumed) /\ Cardinality(consumed) = 0
  BY FS_EmptySet DEF Init
<1> QED
  BY <1>1, <1>2, Zenon DEF Init, IInv, Resolved, OnlyCappedConsume, ServedCounted, NotYetCounted,
     NoShareYet, CountExact

\* A step that moves one download to another pc, and nothing else, keeps the
\* types.
LEMMA GotoTyped ==
  ASSUME TypeOK, NEW d \in Downloads, NEW pc \in Pcs, Goto(d, pc)
  PROVE  req' \in [Downloads -> Request] /\ req'[d].pc = pc /\ req'[d].row = req[d].row
         /\ req'[d].now = req[d].now /\ \A e \in Downloads \ {d} : req'[e] = req[e]
<1> DEFINE new == [req[d] EXCEPT !.pc = pc]
<1>1. req \in [Downloads -> Request] /\ req[d] \in Request
  BY DEF TypeOK
<1>2. new \in Request /\ new.pc = pc /\ new.row = req[d].row /\ new.now = req[d].now
  BY <1>1 DEF Request
<1>3. req' = [req EXCEPT ![d] = new]
  BY DEF Goto
<1> HIDE DEF new
<1> QED
  BY <1>1, <1>2, <1>3, Zenon

\* What the creator, the owner and the clock do.
LEMMA OwnerStep ==
  ASSUME IInv,
         \/ \E ttl \in Ttls : CreateCheck(ttl)
         \/ \E cap \in Limits, protected \in BOOLEAN : insert(cap, protected)
         \/ revoke \/ TrashFile \/ RestoreFile \/ PurgeFile \/ Tick
  PROVE  IInv'
<1> USE DEF IInv
<1>1. ASSUME NEW ttl \in Ttls, CreateCheck(ttl) PROVE IInv'
  <2>1. clock + ttl \in Nat
    BY <1>1, TimeAssumption DEF TypeOK
  <2> QED
    BY <1>1, <2>1, Zenon DEF CreateCheck, TypeOK, Resolved, OnlyCappedConsume, ServedCounted,
       NotYetCounted, NoShareYet, CountExact
<1>2. ASSUME NEW cap \in Limits, NEW protected \in BOOLEAN, insert(cap, protected) PROVE IInv'
  <2>1. share = None /\ consumed = {} /\ consumed' = {} /\ req' = req
    BY <1>2, Zenon DEF insert, NoShareYet
  <2>2. share' = None \/ (/\ share' \in Share /\ share'.cap = cap /\ share'.count = 0)
    BY <1>2, Zenon DEF insert, Share, TypeOK
  <2>3. Cardinality(consumed') = 0 /\ IsFiniteSet(consumed')
    BY <2>1, FS_EmptySet, Zenon
  <2>4. TypeOK'
    BY <1>2, <2>1, <2>2, CapsAssumption DEF insert, TypeOK, Limits
  <2>5. creator'.pc = "done"
    BY <1>2, Zenon DEF insert, TypeOK
  <2>6. \A d \in Downloads : req[d].pc \in {"new", "refused"}
    BY <2>1 DEF Resolved
  <2> QED
    BY <2>1, <2>2, <2>3, <2>4, <2>5, <2>6, Zenon DEF Resolved, OnlyCappedConsume, ServedCounted,
       NotYetCounted, NoShareYet, CountExact
<1>3. ASSUME \/ revoke \/ PurgeFile PROVE IInv'
  <2>1. /\ share = None => share' = None
        /\ share # None => /\ share' \in Share /\ share'.cap = share.cap
                           /\ share'.count = share.count
    BY <1>3, Zenon DEF revoke, PurgeFile, TypeOK, Share
  <2>2. share # None => share' # None
    BY <2>1, NoneAssumption, Zenon
  <2> QED
    BY <1>3, <2>1, <2>2, Zenon DEF revoke, PurgeFile, TypeOK, Resolved, OnlyCappedConsume,
       ServedCounted, NotYetCounted, NoShareYet, CountExact
<1>4. ASSUME TrashFile \/ RestoreFile \/ Tick PROVE IInv'
  BY <1>4 DEF TrashFile, RestoreFile, Tick, TypeOK, Resolved, OnlyCappedConsume,
     ServedCounted, NotYetCounted, NoShareYet, CountExact
<1> QED
  BY <1>1, <1>2, <1>3, <1>4, Zenon

\* What a download does to everything but the counter.
LEMMA MoveStep ==
  ASSUME IInv, NEW d \in Downloads, NEW pc \in Pcs, Goto(d, pc),
         req[d].pc \notin {"new", "served", "refused"},
         UNCHANGED <<share, file, clock, creator, consumed>>,
         pc \in {"begin", "consume"} => req[d].pc \in {"gate", "begin"} /\ req[d].row.cap # Unlimited,
         pc \notin {"new", "gate"},
         pc \in {"fetch", "read", "served"} =>
           req[d].row.cap = Unlimited \/ req[d].pc \in {"fetch", "read"}
  PROVE  IInv'
<1>1. /\ req' \in [Downloads -> Request] /\ req'[d].pc = pc /\ req'[d].row = req[d].row
      /\ \A e \in Downloads \ {d} : req'[e] = req[e]
  BY GotoTyped, Zenon DEF IInv
<1>2. TypeOK'
  BY <1>1, Zenon DEF IInv, TypeOK
<1>3. Resolved' /\ OnlyCappedConsume' /\ ServedCounted' /\ NotYetCounted'
  BY <1>1 DEF IInv, Resolved, OnlyCappedConsume, ServedCounted, NotYetCounted, Pcs
<1> QED
  BY <1>2, <1>3, Zenon DEF IInv, NoShareYet, CountExact

\* Resolving the link.
LEMMA ResolveStep ==
  ASSUME IInv, NEW d \in Downloads, resolve(d)
  PROVE  IInv'
<1>1. CASE RowThere /\ req' = [req EXCEPT ![d] = [pc |-> "gate", row |-> share, now |-> 0]]
  <2>1. share \in Share /\ share # None
    BY <1>1, Zenon DEF IInv, TypeOK, RowThere
  <2>2. [pc |-> "gate", row |-> share, now |-> 0] \in Request
    BY <2>1 DEF Request, Pcs
  <2>3. /\ req' \in [Downloads -> Request] /\ req'[d].pc = "gate" /\ req'[d].row = share
        /\ \A e \in Downloads \ {d} : req'[e] = req[e]
    BY <1>1, <2>2, Zenon DEF IInv, TypeOK
  <2> QED
    BY <2>1, <2>3 DEF resolve, IInv, TypeOK, Resolved, OnlyCappedConsume, ServedCounted,
       NotYetCounted, NoShareYet, CountExact
<1>2. CASE ~RowThere /\ Goto(d, "refused")
  <2>1. /\ req' \in [Downloads -> Request] /\ req'[d].pc = "refused"
        /\ \A e \in Downloads \ {d} : req'[e] = req[e]
    BY <1>2, GotoTyped, Zenon DEF IInv, Pcs
  <2> QED
    BY <2>1 DEF resolve, IInv, TypeOK, Resolved, OnlyCappedConsume, ServedCounted,
       NotYetCounted, NoShareYet, CountExact
<1> QED
  BY <1>1, <1>2, Zenon DEF resolve

\* Counting a download.
LEMMA ConsumeStep ==
  ASSUME IInv, NEW d \in Downloads, try_consume_download(d)
  PROVE  IInv'
<1>1. /\ share \in Share /\ share # None /\ share.cap = req[d].row.cap
      /\ share.cap # Unlimited /\ d \notin consumed
  BY Zenon DEF try_consume_download, IInv, Resolved, OnlyCappedConsume, NotYetCounted, TypeOK
<1>2. share.cap \in Nat /\ share.count \in Nat
  BY <1>1, CapsAssumption, Zenon DEF Share, Limits
<1>3. CASE Consumable(d) /\ share' = [share EXCEPT !.count = @ + 1]
           /\ consumed' = consumed \cup {d} /\ Goto(d, "fetch")
  <2>1. /\ req' \in [Downloads -> Request] /\ req'[d].pc = "fetch" /\ req'[d].row = req[d].row
        /\ \A e \in Downloads \ {d} : req'[e] = req[e]
    BY <1>3, GotoTyped, Zenon DEF IInv, Pcs
  <2>2. /\ share' \in Share /\ share'.cap = share.cap /\ share'.count = share.count + 1
        /\ share.count < share.cap
    BY <1>1, <1>2, <1>3 DEF Share, Consumable
  <2>3. share' # None
    BY <2>2, NoneAssumption
  <2>4. TypeOK'
    BY <1>2, <1>3, <2>1, <2>2 DEF try_consume_download, IInv, TypeOK
  <2>5. IsFiniteSet(consumed') /\ Cardinality(consumed') = Cardinality(consumed) + 1
    BY <1>1, <1>3, FS_AddElement, Zenon DEF IInv, CountExact
  <2>6. CountExact'
    BY <1>1, <2>2, <2>5, Zenon DEF IInv, CountExact
  <2>7. Resolved' /\ OnlyCappedConsume' /\ ServedCounted' /\ NotYetCounted'
    <3>1. Resolved'
      BY <1>1, <2>1, <2>2, <2>3, Zenon DEF IInv, Resolved, try_consume_download
    <3>2. OnlyCappedConsume'
      BY <2>1, Zenon DEF IInv, OnlyCappedConsume
    <3>3. ServedCounted'
      BY <1>3, <2>1, Zenon DEF IInv, ServedCounted
    <3>4. NotYetCounted'
      BY <1>3, <2>1, Zenon DEF IInv, NotYetCounted
    <3> QED
      BY <3>1, <3>2, <3>3, <3>4, Zenon
  <2>8. NoShareYet'
    BY <1>1, <2>3, Zenon DEF try_consume_download, IInv, NoShareYet
  <2> QED
    BY <2>4, <2>6, <2>7, <2>8, Zenon DEF IInv
<1>4. CASE Goto(d, "refused") /\ UNCHANGED <<share, consumed>>
  BY <1>4, MoveStep, Zenon DEF try_consume_download, Pcs
<1> QED
  BY <1>3, <1>4, Zenon DEF try_consume_download

\* Every step of a download.
LEMMA DownloadStep ==
  ASSUME IInv, NEW d \in Downloads, Step(d)
  PROVE  IInv'
<1>1. CASE resolve(d)
  BY <1>1, ResolveStep
<1>2. ASSUME NEW passwordOk \in BOOLEAN, public_download_gate(d, passwordOk) PROVE IInv'
  <2>1. PICK pc \in {"fetch", "begin", "refused"} :
          /\ Goto(d, pc)
          /\ pc = "fetch" => req[d].row.cap = Unlimited
          /\ pc = "begin" => req[d].row.cap # Unlimited
    BY <1>2, Zenon DEF public_download_gate
  <2> QED
    BY <1>2, <2>1, MoveStep, Zenon DEF public_download_gate, Pcs
<1>3. CASE ConsumeBegin(d)
  <2> DEFINE new == [req[d] EXCEPT !.pc = "consume", !.now = clock]
  <2>1. new \in Request /\ new.pc = "consume" /\ new.row = req[d].row
    BY Zenon DEF IInv, TypeOK, Request, Pcs
  <2>2. req' = [req EXCEPT ![d] = new]
    BY <1>3, Zenon DEF ConsumeBegin
  <2> HIDE DEF new
  <2>3. /\ req' \in [Downloads -> Request] /\ req'[d].pc = "consume" /\ req'[d].row = req[d].row
        /\ \A e \in Downloads \ {d} : req'[e] = req[e]
    BY <2>1, <2>2, Zenon DEF IInv, TypeOK
  <2> QED
    BY <1>3, <2>3 DEF ConsumeBegin, IInv, TypeOK, Resolved, OnlyCappedConsume, ServedCounted,
       NotYetCounted, NoShareYet, CountExact
<1>4. CASE try_consume_download(d)
  BY <1>4, ConsumeStep
<1>5. CASE FetchFile(d)
  <2>1. PICK pc \in {"read", "refused"} : Goto(d, pc)
    BY <1>5 DEF FetchFile
  <2> QED
    BY <1>5, <2>1, MoveStep, Zenon DEF FetchFile, Pcs
<1>6. CASE Serve(d)
  BY <1>6, MoveStep, Zenon DEF Serve, Pcs
<1>7. CASE Cancel(d)
  BY <1>7, MoveStep, Zenon DEF Cancel, Pcs
<1> QED
  BY <1>1, <1>2, <1>3, <1>4, <1>5, <1>6, <1>7, Zenon DEF Step

\* The invariant is inductive.
THEOREM Invariance == Spec => []IInv
<1>1. IInv /\ [Next]_vars => IInv'
  <2> SUFFICES ASSUME IInv, [Next]_vars PROVE IInv'
    OBVIOUS
  <2>1. CASE UNCHANGED vars
    BY <2>1, Zenon DEF vars, IInv, TypeOK, Resolved, OnlyCappedConsume, ServedCounted,
       NotYetCounted, NoShareYet, CountExact
  <2>2. CASE \E d \in Downloads : Step(d)
    BY <2>2, DownloadStep
  <2> QED
    BY <2>1, <2>2, OwnerStep, Zenon DEF Next
<1> QED
  BY InitIInv, <1>1, PTL DEF Spec

\* Types, and the counter within the cap, in every reachable state.
THEOREM TypeCorrect == Spec => []TypeOK
<1>1. IInv => TypeOK
  BY DEF IInv
<1> QED
  BY Invariance, <1>1, PTL

\* The downloads served are counted ones, and of those there are never more
\* than the cap.
LEMMA IInvCap == IInv => CapHolds
<1> SUFFICES ASSUME IInv, share # None, share.cap # Unlimited
             PROVE  Served \subseteq consumed /\ Cardinality(consumed) <= share.cap
  BY DEF CapHolds
<1>1. Cardinality(consumed) <= share.cap
  BY DEF IInv, CountExact, TypeOK
<1>2. Served \subseteq consumed
  BY DEF IInv, Served, ServedCounted, Resolved
<1> QED
  BY <1>1, <1>2

\* No link is served more often than max_downloads, however many downloads
\* race and wherever they are cut off.
THEOREM CapRespected == Spec => []CapHolds
BY Invariance, IInvCap, PTL

-----------------------------------------------------------------------------
\* A download step other than Serve answers nobody with content.
LEMMA OthersServeNobody ==
  ASSUME IInv, NEW d \in Downloads,
         \/ resolve(d) \/ (\E passwordOk \in BOOLEAN : public_download_gate(d, passwordOk))
         \/ ConsumeBegin(d) \/ try_consume_download(d) \/ FetchFile(d) \/ Cancel(d)
  PROVE  Served' = Served
<1>1. req[d].pc # "served"
  BY Zenon DEF resolve, public_download_gate, ConsumeBegin, try_consume_download, FetchFile, Cancel
<1>2. PICK new : req' = [req EXCEPT ![d] = new] /\ new.pc # "served"
  <2>1. CASE resolve(d)
    BY <2>1 DEF resolve, Goto, IInv, TypeOK, Request
  <2>2. CASE \E passwordOk \in BOOLEAN : public_download_gate(d, passwordOk)
    BY <2>2 DEF public_download_gate, Goto, IInv, TypeOK, Request
  <2>3. CASE ConsumeBegin(d)
    <3> DEFINE n == [req[d] EXCEPT !.pc = "consume", !.now = clock]
    <3>1. n.pc # "served"
      BY DEF IInv, TypeOK, Request
    <3>2. req' = [req EXCEPT ![d] = n]
      BY <2>3, Zenon DEF ConsumeBegin
    <3> QED
      BY <3>1, <3>2, Zenon
  <2>4. CASE try_consume_download(d)
    BY <2>4 DEF try_consume_download, Goto, IInv, TypeOK, Request
  <2>5. CASE FetchFile(d) \/ Cancel(d)
    BY <2>5 DEF FetchFile, Cancel, Goto, IInv, TypeOK, Request
  <2> QED
    BY <2>1, <2>2, <2>3, <2>4, <2>5, Zenon
<1> QED
  BY <1>1, <1>2, Zenon DEF Served, IInv, TypeOK

\* Serving a download is a grant the promise allows.
LEMMA ServeGrants ==
  ASSUME IInv, NEW d \in Downloads, Serve(d)
  PROVE  Promise!Grant \/ (share' = share /\ Served' = Served)
<1>1. PICK answer \in {"served", "refused"} : Goto(d, answer)
  BY DEF Serve
<1>2. /\ req'[d].pc = answer
      /\ \A e \in Downloads \ {d} : req'[e] = req[e]
  BY <1>1, GotoTyped, Zenon DEF IInv, Pcs
<1>3. share' = share /\ consumed' = consumed /\ req[d].pc = "read"
  BY DEF Serve
<1>4. CASE answer = "refused"
  BY <1>2, <1>3, <1>4, Zenon DEF Served
<1>5. CASE answer = "served"
  <2>1. Served' = Served \cup {d} /\ d \notin Served
    BY <1>2, <1>3, <1>5, Zenon DEF Served
  <2>2. share # None /\ share.cap # None
    BY <1>3, NoneAssumption, Zenon DEF IInv, Resolved, TypeOK, Share
  <2>3. IsFiniteSet(Served)
    BY DownloadsAssumption, FS_Subset, Zenon DEF Served
  <2>4. /\ Cardinality(Served \cup {d}) = Cardinality(Served) + 1
        /\ Cardinality(Served) \in Nat
    BY <2>1, <2>3, FS_AddElement, FS_CardinalityType, Zenon
  <2>5. ASSUME share.cap # Unlimited PROVE Cardinality(Served) < share.cap
    <3>1. Served \cup {d} \subseteq consumed /\ Cardinality(consumed) <= share.cap
      BY <1>3, <2>2, <2>5, IInvCap, Zenon DEF IInv, CapHolds, ServedCounted, Resolved
    <3>2. IsFiniteSet(consumed)
      BY DEF IInv, CountExact
    <3>3. Cardinality(Served \cup {d}) <= Cardinality(consumed)
      BY <3>1, <3>2, FS_Subset, Zenon
    <3>4. Cardinality(consumed) \in Nat /\ share.cap \in Nat
      BY <2>2, <2>5, <3>2, FS_CardinalityType, CapsAssumption, Zenon DEF IInv, TypeOK, Share, Limits
    <3> QED
      BY <2>4, <3>1, <3>3, <3>4
  <2> QED
    BY <1>3, <2>1, <2>2, <2>4, <2>5, Zenon DEF Promise!Grant
<1> QED
  BY <1>4, <1>5

\* The link implements DownloadCap: creating it publishes the limit, serving
\* a download is a grant, every other step is invisible to the owner.
THEOREM Refinement == Spec => ImplementsCap
<1>1. Init => Promise!Init
  <2> SUFFICES ASSUME Init PROVE Promise!Init
    OBVIOUS
  <2>1. Served = {}
    BY DEF Init, Served
  <2> QED
    BY <2>1, FS_EmptySet, Zenon DEF Init, Promise!Init
<1>2. IInv /\ IInv' /\ [Next]_vars => [Promise!Next]_Promise!vars
  <2> SUFFICES ASSUME IInv, IInv', [Next]_vars
               PROVE  Promise!Next \/ Promise!vars' = Promise!vars
    BY DEF Promise!vars
  <2>1. CASE UNCHANGED vars \/ (\E ttl \in Ttls : CreateCheck(ttl)) \/ TrashFile \/ RestoreFile \/ Tick
    BY <2>1, Zenon DEF vars, CreateCheck, TrashFile, RestoreFile, Tick, Promise!vars, Served
  <2>2. CASE revoke \/ PurgeFile
    <3>1. /\ share = None => share' = None
          /\ share # None => share' \in Share /\ share'.cap = share.cap
      BY <2>2, ZenonT(60) DEF revoke, PurgeFile, IInv, TypeOK, Share
    <3>2. Served' = Served
      BY <2>2 DEF revoke, PurgeFile, Served
    <3> QED
      BY <3>1, <3>2, NoneAssumption, Zenon DEF Promise!vars
  <2>3. ASSUME NEW cap \in Limits, NEW protected \in BOOLEAN, insert(cap, protected)
        PROVE  Promise!Next \/ Promise!vars' = Promise!vars
    <3>1. share = None /\ Served' = Served
      BY <2>3, Zenon DEF insert, IInv, NoShareYet, Served
    <3>2. CASE file = "purged"
      BY <2>3, <3>1, <3>2, Zenon DEF insert, Promise!vars
    <3>3. CASE file # "purged"
      <4>1. share' # None /\ share'.cap = cap
        BY <2>3, <3>3, NoneAssumption DEF insert, IInv, TypeOK, Share
      <4>2. Promise!Publish(cap)
        BY <3>1, <4>1, Zenon DEF Promise!Publish
      <4> QED
        BY <4>2 DEF Promise!Next
    <3> QED
      BY <3>2, <3>3
  <2>4. ASSUME NEW d \in Downloads, Step(d)
        PROVE  Promise!Next \/ Promise!vars' = Promise!vars
    <3>1. CASE Serve(d)
      BY <3>1, ServeGrants, Zenon DEF Promise!Next, Promise!vars
    <3>2. CASE ~Serve(d)
      <4>1. Served' = Served
        BY <2>4, <3>2, OthersServeNobody, Zenon DEF Step
      <4>2. share' = share \/ (share # None /\ share' = [share EXCEPT !.count = @ + 1])
        BY <2>4, <3>2, Zenon DEF Step, resolve, public_download_gate, ConsumeBegin, try_consume_download,
           FetchFile, Cancel, IInv, Resolved
      <4>3. (share' = None) = (share = None) /\ (share # None => share'.cap = share.cap)
        BY <4>2, NoneAssumption DEF IInv, TypeOK, Share
      <4> QED
        BY <4>1, <4>3, Zenon DEF Promise!vars
    <3> QED
      BY <3>1, <3>2
  <2> QED
    BY <2>1, <2>2, <2>3, <2>4, Zenon DEF Next
<1> QED
  BY <1>1, <1>2, Invariance, PTL DEF Spec, ImplementsCap, Promise!Spec
=============================================================================
