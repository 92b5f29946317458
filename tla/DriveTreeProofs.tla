-------------------------- MODULE DriveTreeProofs ---------------------------
(***************************************************************************)
(* Proofs about DriveTree, for trees of any size and any number of         *)
(* requests at once.                                                       *)
(*                                                                         *)
(* A rename reads the old name in one statement and writes in another.     *)
(* What makes the history inductive is that a request that shares its node *)
(* with no other rename still knows the node's name.                       *)
(***************************************************************************)
EXTENDS DriveTree, TLAPS

\* The table and the history, apart from the requests.
TableTypes ==
  /\ row \in [Nodes -> Row]
  /\ \A n \in Nodes : row[n].state \in {"live", "trashed"} <=> row[n].name # None
  /\ history \in [Nodes -> Seq(Rename)]
  /\ drifted \subseteq Nodes

\* An id without a row has no history.
Blank == \A n \in Nodes : row[n].state = "none" => history[n] = <<>>

Table == TableTypes /\ Blank /\ HistoryMatchesName

Renames(r) == req[r].op \in {"rename", "undo"}

\* What a request knows: a rename is of one node, and past its read it has the node's
\* name unless another rename of the node came in between.
Knows(r) ==
  LET q == req[r]
  IN  /\ q.pc = "target" => q.op \in {"move", "bulk_move"}
      /\ Renames(r) => q.name \in Names /\ \A m, n \in q.ids : m = n
      /\ Renames(r) /\ q.pc = "apply" =>
           q.old \in Names /\ (~q.shared => \A n \in q.ids \cap Stored : row[n].name = q.old)

\* Renames of the same node know of each other.
Apart ==
  \A r, o \in Requests :
    r # o /\ Renames(r) /\ Renames(o) /\ req[r].ids \cap req[o].ids # {} => req[r].shared

Requested ==
  /\ req \in [Requests -> Request]
  /\ \A r \in Requests : Knows(r)
  /\ Apart

IInv == Table /\ Requested

-----------------------------------------------------------------------------
(* The table.                                                              *)

\* A step that leaves the table alone.
LEMMA TableSame ==
  ASSUME Table, UNCHANGED <<row, history, drifted>>
  PROVE  Table'
BY DEF Table, TableTypes, Blank, HistoryMatchesName, Chained, Stored, Live, Trashed

\* An UPDATE of states and parents: names stay, and no row comes or goes (move_to,
\* bulk_trash, restore, bulk_restore).
LEMMA UpdateKeeps ==
  ASSUME Table, UNCHANGED <<history, drifted>>, row' \in [Nodes -> Row],
         \A n \in Nodes : /\ row'[n].name = row[n].name
                          /\ row'[n].state = "none" <=> row[n].state = "none"
  PROVE  Table'
<1>1. Stored' = Stored
  BY DEF Table, TableTypes, Row, Stored, Live, Trashed
<1>2. TableTypes'
  BY DEF Table, TableTypes, Row
<1>3. Blank'
  BY DEF Table, Blank
<1>4. HistoryMatchesName'
  <2> SUFFICES ASSUME NEW n \in Stored \ drifted PROVE Chained(n)'
    BY <1>1 DEF HistoryMatchesName
  <2>1. n \in Nodes
    BY DEF Stored, Live, Trashed
  <2>2. Chained(n)
    BY DEF Table, HistoryMatchesName
  <2> QED BY <2>1, <2>2, Zenon DEF Chained
<1> QED BY <1>2, <1>3, <1>4 DEF Table

\* A DELETE with its cascade (purge, purge_trashed_older_than, purge_expired_files): what
\* remains is what it was.
LEMMA PurgeKeeps ==
  ASSUME Table, NEW S \in SUBSET Nodes, Purge(S)
  PROVE  /\ Table'
         /\ \A n \in Nodes : n \in Stored' => n \in Stored /\ row'[n] = row[n]
<1> DEFINE gone == Cascade(S)
<1>1. gone \subseteq Nodes
  BY DEF Cascade
<1>2. /\ row' = [n \in Nodes |-> IF n \in gone THEN NoRow ELSE row[n]]
      /\ history' = [n \in Nodes |-> IF n \in gone THEN <<>> ELSE history[n]]
      /\ drifted' = drifted \ gone
  BY DEF Purge, Delete
<1> HIDE DEF gone
<1>3. /\ NoRow \in Row /\ NoRow.state = "none" /\ NoRow.name = None
      /\ <<>> \in Seq(Rename)
  BY DEF NoRow, Row
<1>4. \A n \in Nodes : n \in Stored' => n \notin gone /\ n \in Stored /\ row'[n] = row[n]
  BY <1>2, <1>3 DEF Stored, Live, Trashed
<1>5. TableTypes'
  BY <1>1, <1>2, <1>3 DEF Table, TableTypes
<1>6. Blank'
  BY <1>2 DEF Table, Blank
<1>7. HistoryMatchesName'
  <2> SUFFICES ASSUME NEW n \in Stored', n \notin drifted' PROVE Chained(n)'
    BY DEF HistoryMatchesName
  <2>1. n \in Nodes
    BY DEF Stored, Live, Trashed
  <2>2. n \notin gone /\ n \in Stored /\ row'[n] = row[n]
    BY <1>4, <2>1
  <2>3. Chained(n) /\ history'[n] = history[n]
    BY <1>2, <2>1, <2>2 DEF Table, HistoryMatchesName
  <2> QED BY <2>2, <2>3, Zenon DEF Chained
<1> QED BY <1>4, <1>5, <1>6, <1>7 DEF Table

\* An INSERT (mkdir, upload, copy).
LEMMA InsertKeeps ==
  ASSUME Table, NEW n \in Nodes, NEW parent \in Nodes \cup {Root}, NEW name \in Names,
         mkdir(n, parent, name)
  PROVE  /\ Table'
         /\ \A m \in Nodes : m # n => row'[m] = row[m]
<1> DEFINE new == [state |-> "live", parent |-> parent, name |-> name]
<1>1. /\ row[n] = NoRow /\ row' = [row EXCEPT ![n] = new]
      /\ UNCHANGED <<history, drifted>>
  BY DEF mkdir
<1>2. new \in Row /\ new.state = "live" /\ new.name # None
  BY RootAssumption DEF Row
<1> HIDE DEF new
<1>3. row \in [Nodes -> Row]
  BY DEF Table, TableTypes
<1>4. row' \in [Nodes -> Row] /\ row'[n] = new /\ \A m \in Nodes : m # n => row'[m] = row[m]
  BY <1>1, <1>2, <1>3
<1>5. row[n].state = "none"
  BY <1>1 DEF NoRow
<1>6. Stored' = Stored \cup {n} /\ n \notin Stored /\ Stored \subseteq Nodes
  BY <1>2, <1>4, <1>5, Zenon DEF Stored, Live, Trashed
<1>7. TableTypes'
  BY <1>1, <1>2, <1>4, Zenon DEF Table, TableTypes
<1>8. Blank'
  BY <1>1, <1>2, <1>4 DEF Table, Blank
<1>9. HistoryMatchesName'
  <2> SUFFICES ASSUME NEW m \in Stored', m \notin drifted PROVE Chained(m)'
    BY <1>1 DEF HistoryMatchesName
  <2>1. CASE m = n
    <3>1. history'[m] = <<>>
      BY <1>1, <1>5, <2>1 DEF Table, Blank
    <3> QED BY <3>1 DEF Chained
  <2>2. CASE m # n
    <3>1. m \in Stored /\ row'[m] = row[m] /\ history'[m] = history[m]
      BY <1>1, <1>4, <1>6, <2>2
    <3>2. Chained(m)
      BY <3>1 DEF Table, HistoryMatchesName
    <3> QED BY <3>1, <3>2, Zenon DEF Chained
  <2> QED BY <2>1, <2>2
<1> QED BY <1>4, <1>7, <1>8, <1>9 DEF Table

\* A history h is a chain from name to name that ends in last.
Chain(h, last) ==
  /\ \A i \in 1..(Len(h) - 1) : h[i].new = h[i + 1].old
  /\ h # <<>> => h[Len(h)].new = last

\* A chain stays one when a rename from its last name is added (Records).
LEMMA ChainExtends ==
  ASSUME NEW h \in Seq(Rename), NEW old \in Names, NEW new \in Names,
         Chain(h, old)
  PROVE  Chain(h \o Records(old, new), new)
<1> DEFINE g == h \o Records(old, new)
<1>1. CASE old = new
  <2>1. g = h
    BY <1>1 DEF Records
  <2> QED BY <1>1, <2>1
<1>2. CASE old # new
  <2>0. /\ \A i \in 1..(Len(h) - 1) : h[i].new = h[i + 1].old
        /\ h # <<>> => h[Len(h)].new = old
    BY DEF Chain
  <2> DEFINE e == [old |-> old, new |-> new]
             k == h \o <<e>>
  <2>1. e \in Rename /\ e.old = old /\ e.new = new
    BY DEF Rename
  <2>2. Records(old, new) = <<e>>
    BY <1>2 DEF Records
  <2> HIDE DEF e
  <2>3. /\ k \in Seq(Rename) /\ Len(k) = Len(h) + 1 /\ Len(h) \in Nat
        /\ \A i \in 1..Len(h) : k[i] = h[i]
        /\ k[Len(h) + 1] = e
    BY <2>1
  <2> HIDE DEF k
  <2>4. ASSUME NEW i \in 1..(Len(k) - 1) PROVE k[i].new = k[i + 1].old
    <3>1. CASE i < Len(h)
      <4>1. i \in 1..(Len(h) - 1) /\ i \in 1..Len(h) /\ i + 1 \in 1..Len(h)
        BY <2>3, <3>1
      <4> QED BY <2>0, <2>3, <4>1, Zenon
    <3>2. CASE i = Len(h)
      <4>1. h # <<>> /\ k[i] = h[i] /\ k[i + 1] = e
        BY <2>3, <3>2
      <4> QED BY <2>0, <2>1, <3>2, <4>1
    <3> QED BY <2>3, <3>1, <3>2
  <2>5. k[Len(k)].new = new
    BY <2>1, <2>3
  <2>6. g = k
    BY <2>2 DEF k
  <2> QED BY <2>4, <2>5, <2>6 DEF Chain
<1> QED BY <1>1, <1>2

\* What a rename adds to the history has its type.
LEMMA RecordsType ==
  ASSUME NEW old \in Names, NEW new \in Names
  PROVE  Records(old, new) \in Seq(Rename)
<1>1. [old |-> old, new |-> new] \in Rename
  BY DEF Rename
<1> QED BY <1>1 DEF Records

\* The UPDATE of a rename with its entry in the history: nodes it does not name keep theirs.
LEMMA RenameKeeps ==
  ASSUME Table, NEW r \in Requests, req[r] \in Request, Knows(r), rename(r)
  PROVE  /\ Table' /\ Stored' = Stored
         /\ \A m \in Nodes \ req[r].ids : row'[m].name = row[m].name
<1> DEFINE q == req[r]
<1>1. PICK n \in q.ids :
        LET rows == [row EXCEPT ![n].name = q.name]
            done == n \in Live /\ UniqueSiblings(rows)
        IN  /\ row' = IF done THEN rows ELSE row
            /\ history' = IF done THEN [history EXCEPT ![n] = @ \o Records(q.old, q.name)] ELSE history
            /\ drifted' = IF done /\ q.shared THEN drifted \cup {n} ELSE drifted
  BY Zenon DEF rename
<1>2. /\ n \in Nodes /\ q.name \in Names /\ q.old \in Names
      /\ ~q.shared => \A m \in q.ids \cap Stored : row[m].name = q.old
  BY Zenon DEF rename, Knows, Renames, Request
<1> DEFINE rows == [row EXCEPT ![n].name = q.name]
           done == n \in Live /\ UniqueSiblings(rows)
<1>3. CASE ~done
  <2>1. UNCHANGED <<row, history, drifted>>
    BY <1>1, <1>3, Zenon
  <2>2. Table'
    BY <2>1, TableSame
  <2> QED BY <2>1, <2>2 DEF Stored, Live, Trashed
<1>4. CASE done
  <2>1. /\ row \in [Nodes -> Row] /\ history \in [Nodes -> Seq(Rename)] /\ drifted \subseteq Nodes
        /\ n \in Live /\ Live \subseteq Stored /\ Stored \subseteq Nodes
    BY <1>4, Zenon DEF Table, TableTypes, Stored, Live, Trashed
  <2>2. /\ row' = rows
        /\ history' = [history EXCEPT ![n] = @ \o Records(q.old, q.name)]
        /\ drifted' = IF q.shared THEN drifted \cup {n} ELSE drifted
    BY <1>1, <1>4, Zenon
  <2>3. /\ row' \in [Nodes -> Row]
        /\ row'[n].name = q.name /\ row'[n].state = row[n].state /\ row'[n].parent = row[n].parent
        /\ \A m \in Nodes : m # n => row'[m] = row[m]
    BY <1>2, <2>1, <2>2, Zenon DEF Row
  <2>4. /\ history'[n] = history[n] \o Records(q.old, q.name)
        /\ \A m \in Nodes : m # n => history'[m] = history[m]
    BY <1>2, <2>1, <2>2, Zenon
  <2> HIDE DEF q, rows, done
  <2>5. Stored' = Stored
    BY <2>3 DEF Stored, Live, Trashed
  <2>6. Records(q.old, q.name) \in Seq(Rename)
    BY <1>2, RecordsType
  <2>7. TableTypes'
    <3>1. history' \in [Nodes -> Seq(Rename)]
      BY <2>1, <2>2, <2>6, <1>2
    <3>2. drifted' \subseteq Nodes
      BY <1>2, <2>1, <2>2, Zenon
    <3>3. \A m \in Nodes : row'[m].state \in {"live", "trashed"} <=> row'[m].name # None
      BY <1>2, <2>1, <2>3, RootAssumption, ZenonT(60) DEF Table, TableTypes, Live
    <3> QED BY <2>3, <3>1, <3>2, <3>3, Zenon DEF TableTypes
  <2>8. Blank'
    BY <2>1, <2>3, <2>4, Zenon DEF Table, Blank, Live
  <2>9. HistoryMatchesName'
    <3> SUFFICES ASSUME NEW m \in Stored, m \notin drifted' PROVE Chained(m)'
      BY <2>5 DEF HistoryMatchesName
    <3>1. Chained(m)
      BY <2>2, Zenon DEF Table, HistoryMatchesName
    <3>2. CASE m # n
      BY <2>1, <2>3, <2>4, <3>1, <3>2, Zenon DEF Chained
    <3>3. CASE m = n
      <4>1. ~q.shared
        BY <2>2, <3>3, Zenon
      <4>2. row[n].name = q.old
        BY <1>1, <1>2, <2>1, <4>1, Zenon
      <4>3. Chain(history[n], q.old)
        BY <3>1, <3>3, <4>2, Zenon DEF Chained, Chain
      <4>4. history[n] \in Seq(Rename)
        BY <2>1
      <4>5. Chain(history'[n], q.name)
        BY <1>2, <2>4, <4>3, <4>4, ChainExtends
      <4> QED BY <2>3, <3>3, <4>5, Zenon DEF Chained, Chain
    <3> QED BY <3>2, <3>3
  <2> QED BY <1>1, <2>3, <2>5, <2>7, <2>8, <2>9, Zenon DEF Table, q
<1> QED BY <1>3, <1>4

\* When a move is done, names stay and no row comes or goes.
LEMMA MoveKeeps ==
  ASSUME Table, NEW r \in Requests, req[r] \in Request, move_to(r)
  PROVE  Table' /\ Stored' = Stored /\ \A m \in Nodes : row'[m].name = row[m].name
<1>1. row \in [Nodes -> Row] /\ req[r].to \in Nodes \cup {Root} /\ UNCHANGED <<history, drifted>>
  BY Zenon DEF Table, TableTypes, Request, move_to
<1>2. CASE row' = row
  BY <1>1, <1>2, TableSame DEF Stored, Live, Trashed
<1>3. CASE row' # row
  <2>1. row' = MoveRows(r)
    BY <1>3 DEF move_to, Put
  <2>2. \A n \in Nodes : /\ row'[n] \in Row
                         /\ row'[n].name = row[n].name /\ row'[n].state = row[n].state
    BY <1>1, <2>1, ZenonT(60) DEF MoveRows, Row
  <2>3. row' \in [Nodes -> Row]
    BY <2>1, <2>2, Zenon DEF MoveRows
  <2>4. Table'
    BY <1>1, <2>1, <2>2, <2>3, UpdateKeeps, Zenon
  <2> QED BY <2>2, <2>4 DEF Stored, Live, Trashed
<1> QED BY <1>2, <1>3

\* Trashing changes the state of live nodes only.
LEMMA TrashKeeps ==
  ASSUME Table, NEW r \in Requests, bulk_trash(r)
  PROVE  Table' /\ Stored' = Stored /\ \A m \in Nodes : row'[m].name = row[m].name
<1>1. /\ row \in [Nodes -> Row] /\ UNCHANGED <<history, drifted>>
      /\ row' = [n \in Nodes |-> IF n \in req[r].ids \cap Live
                                 THEN [row[n] EXCEPT !.state = "trashed"] ELSE row[n]]
  BY DEF Table, TableTypes, bulk_trash
<1>2. \A n \in Nodes : /\ row'[n] \in Row /\ row'[n].name = row[n].name /\ row'[n].parent = row[n].parent
                       /\ row'[n].state = row[n].state \/ (row[n].state = "live" /\ row'[n].state = "trashed")
  BY <1>1, Zenon DEF Row, Live
<1>3. row' \in [Nodes -> Row]
  BY <1>1, <1>2
<1>4. Table'
  BY <1>1, <1>2, <1>3, UpdateKeeps, Zenon
<1> QED BY <1>2, <1>4 DEF Stored, Live, Trashed

\* Restoring changes the state of trashed nodes only.
LEMMA RestoreKeeps ==
  ASSUME Table, NEW S, Put(RestoreRows(S)), UNCHANGED <<history, drifted>>
  PROVE  Table' /\ Stored' = Stored /\ \A m \in Nodes : row'[m].name = row[m].name
<1>1. row \in [Nodes -> Row]
  BY DEF Table, TableTypes
<1>2. CASE row' = row
  BY <1>2, TableSame DEF Stored, Live, Trashed
<1>3. CASE row' # row
  <2>1. row' = RestoreRows(S)
    BY <1>3 DEF Put
  <2>2. \A n \in Nodes : /\ row'[n] \in Row
                         /\ row'[n].name = row[n].name /\ row'[n].parent = row[n].parent
                         /\ row'[n].state = row[n].state \/ (row[n].state = "trashed" /\ row'[n].state = "live")
    BY <1>1, <2>1, Zenon DEF RestoreRows, Row, Trashed
  <2>3. row' \in [Nodes -> Row]
    BY <2>1, <2>2 DEF RestoreRows
  <2>4. Table'
    BY <2>1, <2>2, <2>3, UpdateKeeps, Zenon
  <2> QED BY <2>2, <2>4 DEF Stored, Live, Trashed
<1> QED BY <1>2, <1>3

-----------------------------------------------------------------------------
(* The requests.                                                           *)

\* An idle request asks for nothing.
LEMMA IdleFields ==
  /\ Idle \in Request /\ Idle.pc = "idle" /\ Idle.op = None /\ Idle.shared = FALSE
  /\ Idle.op \notin AllOps /\ Idle.op \notin {"rename", "undo"}
<1>1. Idle \in Request
  BY DEF Idle, Request, Pcs
<1>2. Idle.pc = "idle" /\ Idle.op = None /\ Idle.shared = FALSE
  BY DEF Idle
<1>3. None \notin AllOps /\ None \notin {"rename", "undo"}
  BY RootAssumption DEF AllOps
<1> QED BY <1>1, <1>2, <1>3

\* Some requests end; the table changes, but no name that a request still relies on.
LEMMA EndKeeps ==
  ASSUME Requested, NEW R \in SUBSET Requests,
         req' = [o \in Requests |-> IF o \in R THEN Idle ELSE req[o]],
         \A o \in Requests \ R : Renames(o) /\ ~req[o].shared =>
           \A n \in req[o].ids : n \in Stored' => n \in Stored /\ row'[n].name = row[n].name
  PROVE  Requested'
<1>1. /\ \A o \in Requests \ R : req'[o] = req[o]
      /\ \A o \in R : req'[o] = Idle
  OBVIOUS
<1>2. req' \in [Requests -> Request]
  BY IdleFields DEF Requested
<1>3. ASSUME NEW o \in Requests PROVE Knows(o)'
  <2>1. CASE o \in R
    BY <1>1, <2>1, IdleFields, Zenon DEF Knows, Renames
  <2>2. CASE o \notin R
    <3>1. req'[o] = req[o] /\ Knows(o)
      BY <1>1, <2>2 DEF Requested
    <3>2. Renames(o) /\ req[o].pc = "apply" /\ ~req[o].shared =>
            \A n \in req[o].ids \cap Stored' : row'[n].name = req[o].old
      BY <2>2, <3>1, Zenon DEF Knows
    <3> QED BY <3>1, <3>2, ZenonT(60) DEF Knows, Renames
  <2> QED BY <2>1, <2>2
<1>4. Apart'
  <2> SUFFICES ASSUME NEW r \in Requests, NEW o \in Requests, r # o, Renames(r)', Renames(o)',
                      req'[r].ids \cap req'[o].ids # {}
               PROVE  req'[r].shared
    BY DEF Apart
  <2>1. r \notin R /\ o \notin R
    BY <1>1, IdleFields, Zenon DEF Renames
  <2>2. req'[r] = req[r] /\ req'[o] = req[o]
    BY <1>1, <2>1
  <2> QED BY <2>2, Zenon DEF Requested, Apart, Renames
<1> QED BY <1>2, <1>3, <1>4 DEF Requested

\* A request goes on without changing what it is about, and the table stays.
LEMMA GoOnKeeps ==
  ASSUME Requested, UNCHANGED row, NEW r \in Requests, NEW q \in Request,
         req' = [req EXCEPT ![r] = q],
         q.op = req[r].op, q.ids = req[r].ids, q.name = req[r].name, q.shared = req[r].shared,
         q.pc = "target" => q.op \in {"move", "bulk_move"},
         Renames(r) /\ q.pc = "apply" =>
           q.old \in Names /\ (~q.shared => \A n \in q.ids \cap Stored : row[n].name = q.old)
  PROVE  Requested'
<1>1. req \in [Requests -> Request]
  BY DEF Requested
<1>2. req'[r] = q /\ \A o \in Requests : o # r => req'[o] = req[o]
  BY <1>1
<1>3. req' \in [Requests -> Request]
  BY <1>1
<1>4. Stored' = Stored
  BY DEF Stored, Live, Trashed
<1>5. ASSUME NEW o \in Requests PROVE Knows(o)'
  <2>1. Knows(o)
    BY DEF Requested
  <2>2. CASE o = r
    BY <1>2, <1>4, <2>1, <2>2, ZenonT(60) DEF Knows, Renames
  <2>3. CASE o # r
    BY <1>2, <1>4, <2>1, <2>3, ZenonT(60) DEF Knows, Renames
  <2> QED BY <2>2, <2>3
<1>6. \A o \in Requests : /\ req'[o].op = req[o].op /\ req'[o].ids = req[o].ids
                          /\ req'[o].shared = req[o].shared
  BY <1>2, Zenon
<1>7. Apart'
  <2>1. Apart /\ \A o \in Requests : Renames(o)' => Renames(o)
    BY <1>6, Zenon DEF Requested, Renames
  <2> QED BY <1>6, <2>1, Zenon DEF Apart
<1> QED BY <1>3, <1>5, <1>7, Zenon DEF Requested

\* A request that learns of another rename changes in nothing else.
LEMMA SharedIs ==
  ASSUME NEW q \in Request
  PROVE  LET s == [q EXCEPT !.shared = TRUE]
         IN  /\ s \in Request /\ s.op = q.op /\ s.ids = q.ids /\ s.pc = q.pc
             /\ s.name = q.name /\ s.old = q.old /\ s.shared
BY DEF Request

\* A request begins; a rename and the renames of its node learn of each other.
LEMMA BeginKeeps ==
  ASSUME Requested, NEW r \in Requests, NEW op \in AllOps, NEW ids \in SUBSET Nodes,
         NEW to \in Nodes \cup {Root}, NEW name \in Names \cup {None},
         op \in {"rename", "undo"} => name \in Names /\ \A m, n \in ids : m = n,
         Begin(r, op, ids, to, name)
  PROVE  Requested'
<1> DEFINE others == IF op \in {"rename", "undo"} THEN UNION {Renaming(n) : n \in ids} ELSE {}
           q == [Idle EXCEPT !.op = op, !.pc = "gate", !.left = ids, !.ids = ids, !.to = to,
                             !.name = name, !.shared = others # {}]
<1>1. /\ req[r] = Idle /\ UNCHANGED row
      /\ req' = [o \in Requests |-> CASE o = r -> q
                                      [] o \in others -> [req[o] EXCEPT !.shared = TRUE]
                                      [] OTHER -> req[o]]
  BY Zenon DEF Begin
<1>2. q \in Request
  BY Zenon DEF Idle, Request, Pcs
<1>3. q.op = op /\ q.pc = "gate" /\ q.ids = ids /\ q.name = name
  BY DEF Idle
<1>4. others # {} => q.shared
  BY Zenon DEF Idle
<1>5. \A o \in Requests : o \in others <=>
        op \in {"rename", "undo"} /\ Renames(o) /\ ids \cap req[o].ids # {}
  BY DEF Renaming, Renames
<1> HIDE DEF q, others
<1>6. req \in [Requests -> Request]
  BY DEF Requested
<1>7. /\ req'[r] = q
      /\ \A o \in Requests : o # r /\ o \notin others => req'[o] = req[o]
      /\ \A o \in Requests : o # r /\ o \in others => req'[o] = [req[o] EXCEPT !.shared = TRUE]
  <2>1. r \notin others
    <3>1. Idle.op \notin {"rename", "undo"}
      BY IdleFields, Zenon
    <3> QED BY <1>1, <1>5, <3>1, Zenon DEF Renames
  <2>2. req'[r] = q
    BY <1>1, <2>1, Zenon
  <2>3. ASSUME NEW o \in Requests, o # r, o \notin others PROVE req'[o] = req[o]
    BY <1>1, <2>3, Zenon
  <2>4. ASSUME NEW o \in Requests, o # r, o \in others
        PROVE  req'[o] = [req[o] EXCEPT !.shared = TRUE]
    BY <1>1, <2>4, Zenon
  <2> QED BY <2>2, <2>3, <2>4
<1>8. ASSUME NEW o \in Requests, o # r
      PROVE  /\ req'[o] \in Request /\ req'[o].op = req[o].op /\ req'[o].ids = req[o].ids
             /\ req'[o].pc = req[o].pc /\ req'[o].name = req[o].name /\ req'[o].old = req[o].old
             /\ req[o].shared => req'[o].shared
             /\ o \in others => req'[o].shared
  <2>1. req[o] \in Request
    BY <1>6
  <2>2. CASE o \in others
    <3>1. req'[o] = [req[o] EXCEPT !.shared = TRUE]
      BY <1>7, <1>8, <2>2, Zenon
    <3> QED BY <2>1, <3>1, SharedIs, ZenonT(60)
  <2>3. CASE o \notin others
    BY <1>7, <1>8, <2>1, <2>3, Zenon
  <2> QED BY <2>2, <2>3, Zenon
<1>9. req' \in [Requests -> Request]
  <2>1. \A o \in Requests : req'[o] \in Request
    BY <1>2, <1>7, <1>8, Zenon
  <2>2. req' = [o \in Requests |-> req'[o]]
    BY <1>1
  <2> QED BY <2>1, <2>2
<1>10. Stored' = Stored
  BY <1>1 DEF Stored, Live, Trashed
<1>11. ASSUME NEW o \in Requests PROVE Knows(o)'
  <2>1. CASE o = r
    BY <1>3, <1>7, <2>1, Zenon DEF Knows, Renames
  <2>2. CASE o # r
    <3>1. Knows(o)
      BY DEF Requested
    <3> QED BY <1>1, <1>8, <1>10, <2>2, <3>1 DEF Knows, Renames
  <2> QED BY <2>1, <2>2
<1>12. Apart'
  <2> SUFFICES ASSUME NEW s \in Requests, NEW o \in Requests, s # o, Renames(s)', Renames(o)',
                      req'[s].ids \cap req'[o].ids # {}
               PROVE  req'[s].shared
    BY DEF Apart
  <2>1. CASE s = r
    <3>1. o \in others
      BY <1>3, <1>5, <1>7, <1>8, <2>1, Zenon DEF Renames
    <3> QED BY <1>4, <1>7, <2>1, <3>1, Zenon
  <2>2. CASE o = r
    <3>1. s \in others
      BY <1>3, <1>5, <1>7, <1>8, <2>2, Zenon DEF Renames
    <3> QED BY <1>8, <2>2, <3>1, Zenon
  <2>3. CASE s # r /\ o # r
    <3>1. req[s].shared
      BY <1>8, <2>3, Zenon DEF Requested, Apart, Renames
    <3> QED BY <1>8, <2>3, <3>1, Zenon
  <2> QED BY <2>1, <2>2, <2>3, Zenon
<1> QED BY <1>9, <1>11, <1>12 DEF Requested

\* A request ends, and the names of the nodes it is not renaming stay.
LEMMA EndsAlone ==
  ASSUME Requested, NEW r \in Requests, End(r),
         \A n \in Nodes : n \in Stored' /\ (Renames(r) => n \notin req[r].ids)
                            => n \in Stored /\ row'[n].name = row[n].name
  PROVE  Requested'
<1>1. req \in [Requests -> Request]
  BY DEF Requested
<1>2. req' = [o \in Requests |-> IF o \in {r} THEN Idle ELSE req[o]]
  BY <1>1, Zenon DEF End
<1>3. ASSUME NEW o \in Requests \ {r}, Renames(o), ~req[o].shared, NEW n \in req[o].ids, n \in Stored'
      PROVE  n \in Stored /\ row'[n].name = row[n].name
  <2>1. n \in Nodes
    BY <1>1 DEF Request
  <2>2. Renames(r) => n \notin req[r].ids
    BY <1>3 DEF Requested, Apart
  <2> QED BY <1>3, <2>1, <2>2
<1> QED BY <1>2, <1>3, EndKeeps, Zenon

\* A step of the table alone.
LEMMA NamesStay ==
  ASSUME Requested, UNCHANGED req,
         \A o \in Requests : \A n \in req[o].ids :
            n \in Stored' => n \in Stored /\ row'[n].name = row[n].name
  PROVE  Requested'
<1> DEFINE ended == {}
<1>1. req' = [o \in Requests |-> IF o \in ended THEN Idle ELSE req[o]]
  BY DEF Requested
<1>2. ended \in SUBSET Requests
  OBVIOUS
<1> HIDE DEF ended
<1> QED BY <1>1, <1>2, EndKeeps, Zenon

-----------------------------------------------------------------------------
(* The actions.                                                            *)

\* A request begins (BeginRequest).
LEMMA BeginIInv ==
  ASSUME IInv, NEW r \in Requests, BeginRequest(r) PROVE IInv'
<1>1. Table /\ Requested
  BY DEF IInv
<1>2. Stored \subseteq Nodes /\ history \in [Nodes -> Seq(Rename)]
  BY <1>1 DEF Stored, Live, Trashed, Table, TableTypes
<1>3. PICK op \in AllOps, ids \in SUBSET Nodes, to \in Nodes \cup {Root}, name \in Names \cup {None} :
        /\ op \in {"rename", "undo"} => name \in Names /\ \A m, n \in ids : m = n
        /\ Begin(r, op, ids, to, name)
  <2>1. CASE BeginMove(r)
    BY <1>2, <2>1 DEF BeginMove, AllOps
  <2>2. CASE BeginBulkMove(r)
    BY <1>2, <2>2 DEF BeginBulkMove, AllOps
  <2>3. CASE BeginRename(r)
    <3>1. PICK n \in Stored, name \in Names : Begin(r, "rename", {n}, Root, name)
      BY <2>3, Zenon DEF BeginRename
    <3> QED BY <1>2, <3>1, Zenon DEF AllOps
  <2>4. CASE BeginUndo(r)
    <3>1. PICK n \in Stored : \E i \in DOMAIN history[n] : Begin(r, "undo", {n}, Root, history[n][i].old)
      BY <2>4, Zenon DEF BeginUndo
    <3>2. PICK i \in DOMAIN history[n] : Begin(r, "undo", {n}, Root, history[n][i].old)
      BY <3>1
    <3>3. n \in Nodes /\ history[n] \in Seq(Rename)
      BY <1>2
    <3>4. history[n][i] \in Rename
      BY <3>3
    <3>5. history[n][i].old \in Names
      BY <3>4 DEF Rename
    <3> QED BY <3>2, <3>3, <3>5, Zenon DEF AllOps
  <2>5. CASE BeginTrash(r)
    BY <1>2, <2>5, Zenon DEF BeginTrash, AllOps
  <2>6. CASE BeginRestore(r)
    BY <1>2, <2>6 DEF BeginRestore, AllOps
  <2>7. CASE BeginPurge(r)
    BY <1>2, <2>7, Zenon DEF BeginPurge, AllOps
  <2> QED BY <2>1, <2>2, <2>3, <2>4, <2>5, <2>6, <2>7, Zenon DEF BeginRequest
<1>4. Requested'
  BY <1>1, <1>3, BeginKeeps
<1>5. Table'
  BY <1>1, <1>3, TableSame, Zenon DEF Begin
<1> QED BY <1>4, <1>5 DEF IInv

\* A request is refused, or dropped, or ends without having changed the table.
LEMMA EndIInv ==
  ASSUME IInv, NEW r \in Requests, End(r), UNCHANGED <<row, history, drifted>> PROVE IInv'
<1>1. Table'
  BY TableSame DEF IInv
<1>2. \A n \in Nodes : n \in Stored' => n \in Stored /\ row'[n].name = row[n].name
  BY DEF Stored, Live, Trashed
<1>3. Requested'
  BY <1>2, EndsAlone DEF IInv
<1> QED BY <1>1, <1>3 DEF IInv

\* A request moves to its next step.
LEMMA GotoIInv ==
  ASSUME IInv, NEW r \in Requests, NEW pc \in Pcs, Goto(r, pc), UNCHANGED <<row, history, drifted>>,
         pc # "target", pc = "apply" => ~Renames(r)
  PROVE  IInv'
<1> DEFINE q == [req[r] EXCEPT !.pc = pc]
<1>1. req \in [Requests -> Request]
  BY DEF IInv, Requested
<1>2. req' = [req EXCEPT ![r] = q]
  BY <1>1 DEF Goto
<1>3. /\ q \in Request /\ q.pc = pc /\ q.op = req[r].op /\ q.ids = req[r].ids
      /\ q.name = req[r].name
  BY <1>1 DEF Request
<1>4. q.shared = req[r].shared
  BY <1>1 DEF Request
<1> HIDE DEF q
<1>5. Requested'
  BY <1>2, <1>3, <1>4, GoOnKeeps, Zenon DEF IInv
<1>6. Table'
  BY TableSame DEF IInv
<1> QED BY <1>5, <1>6 DEF IInv

\* The gate (require_write) does not let a rename past its read of the old name.
LEMMA GateIInv ==
  ASSUME IInv, NEW r \in Requests, NEW n \in Nodes, require_write(r, n) PROVE IInv'
<1>1. req \in [Requests -> Request] /\ UNCHANGED <<row, history, drifted>>
  BY DEF IInv, Requested, require_write
<1>2. CASE n \notin Live
  BY <1>1, <1>2, GotoIInv DEF require_write, Pcs
<1>3. CASE n \in Live
  <2> DEFINE pc == IF req[r].left = {n} THEN AfterGate(req[r].op) ELSE "gate"
             q == [req[r] EXCEPT !.left = @ \ {n}, !.pc = pc]
  <2>1. req' = [req EXCEPT ![r] = q]
    BY <1>1, <1>3, Zenon DEF require_write
  <2>2. /\ pc \in Pcs
        /\ pc = "target" => req[r].op \in {"move", "bulk_move"}
        /\ pc = "apply" => ~Renames(r)
    BY DEF AfterGate, Renames, Pcs
  <2> HIDE DEF pc
  <2>3. /\ q \in Request /\ q.pc = pc /\ q.op = req[r].op /\ q.ids = req[r].ids
        /\ q.name = req[r].name
    BY <1>1, <2>2, ZenonT(60) DEF Request
  <2>4. q.shared = req[r].shared
    BY <1>1 DEF Request
  <2> HIDE DEF q
  <2>5. Requested'
    BY <1>1, <2>1, <2>2, <2>3, <2>4, GoOnKeeps, Zenon DEF IInv
  <2>6. Table'
    BY <1>1, TableSame DEF IInv
  <2> QED BY <2>5, <2>6 DEF IInv
<1> QED BY <1>2, <1>3

\* The gate of a move's destination.
LEMMA TargetIInv ==
  ASSUME IInv, NEW r \in Requests, GateTarget(r) PROVE IInv'
<1>1. UNCHANGED <<row, history, drifted>> /\ (Goto(r, "apply") \/ End(r))
  BY DEF GateTarget
<1>2. ~Renames(r)
  BY Zenon DEF GateTarget, IInv, Requested, Knows, Renames
<1>3. CASE Goto(r, "apply")
  <2>1. "apply" \in Pcs /\ "apply" # "target"
    BY DEF Pcs
  <2> QED BY <1>1, <1>2, <1>3, <2>1, GotoIInv, Zenon
<1>4. CASE End(r)
  BY <1>1, <1>4, EndIInv
<1> QED BY <1>1, <1>3, <1>4

\* A rename reads the old name of a live node.
LEMMA ReadIInv ==
  ASSUME IInv, NEW r \in Requests, RenameRead(r) PROVE IInv'
<1>1. req \in [Requests -> Request] /\ UNCHANGED <<row, history, drifted>> /\ Knows(r)
  BY DEF IInv, Requested, RenameRead
<1>2. PICK n \in req[r].ids :
        IF n \in Live THEN req' = [req EXCEPT ![r].pc = "apply", ![r].old = row[n].name] ELSE End(r)
  BY DEF RenameRead
<1>3. CASE n \notin Live
  BY <1>1, <1>2, <1>3, EndIInv
<1>4. CASE n \in Live
  <2> DEFINE q == [req[r] EXCEPT !.pc = "apply", !.old = row[n].name]
  <2>1. req' = [req EXCEPT ![r] = q]
    BY <1>1, <1>2, <1>4, Zenon
  <2>2. row[n].name \in Names
    BY <1>4 DEF IInv, Table, TableTypes, Row, Live
  <2>3. /\ q \in Request /\ q.pc = "apply" /\ q.old = row[n].name /\ q.op = req[r].op
        /\ q.ids = req[r].ids /\ q.name = req[r].name
    BY <1>1, <2>2, ZenonT(60) DEF Request, Pcs
  <2>4. q.shared = req[r].shared
    BY <1>1 DEF Request
  <2> HIDE DEF q
  <2>5. Renames(r) => \A m \in q.ids : row[m].name = q.old
    BY <1>1, <2>3, Zenon DEF Knows
  <2>6. Requested'
    BY <1>1, <2>1, <2>2, <2>3, <2>4, <2>5, GoOnKeeps, Zenon DEF IInv
  <2>7. Table'
    BY <1>1, TableSame DEF IInv
  <2> QED BY <2>6, <2>7 DEF IInv
<1> QED BY <1>3, <1>4

\* The statements at the end of a request.
LEMMA ApplyIInv ==
  ASSUME IInv, NEW r \in Requests,
         move_to(r) \/ rename(r) \/ bulk_trash(r) \/ bulk_restore(r) \/ purge(r)
  PROVE  IInv'
<1>1. Table /\ Requested /\ req[r] \in Request /\ Knows(r)
  BY DEF IInv, Requested
<1>2. End(r)
  BY Zenon DEF move_to, rename, bulk_trash, bulk_restore, purge
<1>3. Table' /\ \A n \in Nodes : n \in Stored' /\ (Renames(r) => n \notin req[r].ids)
                                   => n \in Stored /\ row'[n].name = row[n].name
  <2>1. CASE move_to(r)
    BY <1>1, <2>1, MoveKeeps, Zenon
  <2>2. CASE rename(r)
    <3>1. Renames(r)
      BY <2>2, Zenon DEF rename, Renames
    <3> QED BY <1>1, <2>2, <3>1, RenameKeeps, Zenon
  <2>3. CASE bulk_trash(r)
    BY <1>1, <2>3, TrashKeeps, Zenon
  <2>4. CASE bulk_restore(r)
    BY <1>1, <2>4, RestoreKeeps, Zenon DEF bulk_restore
  <2>5. CASE purge(r)
    <3>1. req[r].ids \cap Trashed \in SUBSET Nodes
      BY DEF Trashed
    <3> QED BY <1>1, <2>5, <3>1, PurgeKeeps, Zenon DEF purge
  <2> QED BY <2>1, <2>2, <2>3, <2>4, <2>5, Zenon
<1>4. Requested'
  BY <1>1, <1>2, <1>3, EndsAlone, Zenon
<1> QED BY <1>3, <1>4 DEF IInv

\* The statements of one-step requests and of the hourly worker.
LEMMA TableIInv ==
  ASSUME IInv,
         \/ \E n \in Nodes, parent \in Nodes \cup {Root}, name \in Names : mkdir(n, parent, name)
         \/ \E n \in Nodes : restore(n)
         \/ \E S \in SUBSET Trashed : purge_trashed_older_than(S)
         \/ \E S \in SUBSET Live : purge_expired_files(S)
  PROVE  IInv'
<1>1. Table /\ Requested /\ \A o \in Requests : req[o].ids \subseteq Nodes
  BY DEF IInv, Requested, Request
<1>2. UNCHANGED req
  BY Zenon DEF mkdir, restore, purge_trashed_older_than, purge_expired_files
<1>3. Table' /\ \A o \in Requests : \A n \in req[o].ids :
                  n \in Stored' => n \in Stored /\ row'[n].name = row[n].name
  <2>1. ASSUME NEW n \in Nodes, NEW parent \in Nodes \cup {Root}, NEW name \in Names,
               mkdir(n, parent, name)
        PROVE  <1>3!:
    <3>1. Table' /\ \A m \in Nodes : m # n => row'[m] = row[m]
      BY <1>1, <2>1, InsertKeeps, Zenon
    <3>2. \A o \in Requests : n \notin req[o].ids
      BY <2>1, Zenon DEF mkdir
    <3> QED BY <1>1, <3>1, <3>2, Zenon DEF Stored, Live, Trashed
  <2>2. ASSUME NEW n \in Nodes, restore(n) PROVE <1>3!:
    BY <1>1, <2>2, RestoreKeeps, Zenon DEF restore
  <2>3. ASSUME NEW S \in SUBSET Nodes, Purge(S) PROVE <1>3!:
    BY <1>1, <2>3, PurgeKeeps, Zenon
  <2>4. Trashed \subseteq Nodes /\ Live \subseteq Nodes
    BY DEF Trashed, Live
  <2> QED BY <2>1, <2>2, <2>3, <2>4, Zenon DEF purge_trashed_older_than, purge_expired_files
<1>4. Requested'
  BY <1>1, <1>2, <1>3, NamesStay, Zenon
<1> QED BY <1>3, <1>4 DEF IInv

-----------------------------------------------------------------------------
\* The invariant holds of an empty drive.
LEMMA InitIInv == Init => IInv
<1> SUFFICES ASSUME Init PROVE IInv
  OBVIOUS
<1>1. /\ row = [n \in Nodes |-> NoRow] /\ history = [n \in Nodes |-> <<>>]
      /\ req = [r \in Requests |-> Idle] /\ drifted = {}
  BY DEF Init
<1>2. NoRow \in Row /\ NoRow.state = "none" /\ NoRow.name = None
  BY DEF NoRow, Row
<1>3. Stored = {} /\ Live = {}
  BY <1>1, <1>2 DEF Stored, Live, Trashed
<1>4. Table
  BY <1>1, <1>2, <1>3
     DEF Table, TableTypes, Blank, HistoryMatchesName
<1>5. Requested
  BY <1>1, IdleFields, Zenon DEF Requested, Knows, Renames, Apart
<1> QED BY <1>4, <1>5 DEF IInv

\* Every step keeps the invariant.
LEMMA NextIInv == IInv /\ [Next]_vars => IInv'
<1> SUFFICES ASSUME IInv, [Next]_vars PROVE IInv'
  OBVIOUS
<1>1. CASE UNCHANGED vars
  <2>1. Table'
    BY <1>1, TableSame DEF IInv, vars
  <2>2. UNCHANGED <<row, req>>
    BY <1>1 DEF vars
  <2>3. Requested'
    BY <2>2, NamesStay DEF IInv, Stored, Live, Trashed
  <2> QED BY <2>1, <2>3 DEF IInv
<1>2. ASSUME NEW r \in Requests, Step(r) PROVE IInv'
  <2>1. CASE \E n \in Nodes : require_write(r, n)
    BY <2>1, GateIInv
  <2>2. CASE Answer403(r) \/ Cancel(r)
    BY <2>2, EndIInv DEF Answer403, Cancel
  <2>3. CASE GateTarget(r)
    BY <2>3, TargetIInv
  <2>4. CASE RenameRead(r)
    BY <2>4, ReadIInv
  <2>5. CASE move_to(r) \/ rename(r) \/ bulk_trash(r) \/ bulk_restore(r) \/ purge(r)
    BY <2>5, ApplyIInv
  <2> QED BY <1>2, <2>1, <2>2, <2>3, <2>4, <2>5, Zenon DEF Step
<1> QED BY <1>1, <1>2, BeginIInv, TableIInv, Zenon DEF Next

\* The invariant holds of every behaviour of the tree's handlers.
THEOREM Invariance == Spec => []IInv
BY InitIInv, NextIInv, PTL DEF Spec

\* The rename history of a node is a chain that ends in its present name, unless two
\* renames of it overlapped.
THEOREM HistoryChained == Spec => []HistoryMatchesName
<1>1. IInv => HistoryMatchesName
  BY DEF IInv, Table
<1> QED BY <1>1, Invariance, PTL

-----------------------------------------------------------------------------
(* The trash.                                                              *)

\* What a step may make of a node in the trash.
Untouched(n) ==
  \/ row'[n] = NoRow
  \/ /\ row'[n] \in {row[n], [row[n] EXCEPT !.state = "live"]}
     /\ history'[n] = history[n]

\* A node in the trash is not live, so statements about live nodes pass it over.
LEMMA TrashedNotLive == Trashed \cap Live = {}
BY DEF Trashed, Live

\* A restore brings a node back as it was (restore, bulk_restore).
LEMMA RestoreUntouched ==
  ASSUME NEW n \in Trashed, NEW S, Put(RestoreRows(S)), UNCHANGED history
  PROVE  Untouched(n)
<1>1. n \in Nodes
  BY DEF Trashed
<1>2. row' = row \/ row' = RestoreRows(S)
  BY DEF Put
<1>3. RestoreRows(S)[n] \in {row[n], [row[n] EXCEPT !.state = "live"]}
  BY <1>1 DEF RestoreRows
<1> QED BY <1>2, <1>3 DEF Untouched

\* A purge takes a node with its history, or neither.
LEMMA PurgeUntouched ==
  ASSUME NEW n \in Trashed, NEW S, Purge(S) PROVE Untouched(n)
<1>1. n \in Nodes
  BY DEF Trashed
<1>2. CASE n \in Cascade(S)
  BY <1>1, <1>2 DEF Purge, Delete, Untouched
<1>3. CASE n \notin Cascade(S)
  BY <1>1, <1>3 DEF Purge, Delete, Untouched
<1> QED BY <1>2, <1>3

\* No step of a request that was let through earlier touches a node in the trash.
LEMMA StepUntouched ==
  ASSUME IInv, NEW r \in Requests, Step(r), NEW n \in Trashed PROVE Untouched(n)
<1>1. n \in Nodes /\ n \notin Live
  BY TrashedNotLive DEF Trashed
<1>2. CASE UNCHANGED <<row, history>>
  BY <1>2 DEF Untouched
<1>3. CASE move_to(r)
  <2>1. MoveRows(r)[n] = row[n]
    BY <1>1 DEF MoveRows
  <2>2. UNCHANGED history /\ (row' = row \/ row' = MoveRows(r))
    BY <1>3 DEF move_to, Put
  <2> QED BY <2>1, <2>2 DEF Untouched
<1>4. CASE rename(r)
  <2>1. PICK m \in req[r].ids :
          LET rows == [row EXCEPT ![m].name = req[r].name]
              done == m \in Live /\ UniqueSiblings(rows)
          IN  /\ row' = IF done THEN rows ELSE row
              /\ history' = IF done THEN [history EXCEPT ![m] = @ \o Records(req[r].old, req[r].name)]
                            ELSE history
    BY <1>4, Zenon DEF rename
  <2>2. row \in [Nodes -> Row] /\ history \in [Nodes -> Seq(Rename)]
    BY DEF IInv, Table, TableTypes
  <2>3. m \in Live => m # n
    BY <1>1
  <2>4. row'[n] = row[n] /\ history'[n] = history[n]
    BY <1>1, <2>1, <2>2, <2>3, Zenon
  <2> QED BY <2>4 DEF Untouched
<1>5. CASE bulk_trash(r)
  <2>1. row'[n] = row[n] /\ UNCHANGED history
    BY <1>1, <1>5 DEF bulk_trash
  <2> QED BY <2>1 DEF Untouched
<1>6. CASE bulk_restore(r)
  BY <1>6, RestoreUntouched DEF bulk_restore
<1>7. CASE purge(r)
  BY <1>7, PurgeUntouched DEF purge
<1>8. UNCHANGED <<row, history>> \/ move_to(r) \/ rename(r) \/ bulk_trash(r) \/ bulk_restore(r) \/ purge(r)
  BY Zenon DEF Step, require_write, Answer403, GateTarget, RenameRead, Cancel
<1> QED BY <1>2, <1>3, <1>4, <1>5, <1>6, <1>7, <1>8, Zenon

\* What is in the trash keeps its name, place and history until it is restored as it
\* was or purged: requests that passed require_write before it was trashed included.
THEOREM TrashKept == Spec => TrashUntouched
<1>1. ASSUME IInv, [Next]_vars, NEW n \in Trashed PROVE Untouched(n)
  <2>1. CASE UNCHANGED <<row, history>>
    BY <2>1 DEF Untouched
  <2>2. ASSUME NEW r \in Requests, BeginRequest(r) PROVE UNCHANGED <<row, history>>
    BY <2>2, Zenon DEF BeginRequest, BeginMove, BeginBulkMove, BeginRename, BeginUndo, BeginTrash,
                       BeginRestore, BeginPurge, Begin
  <2>3. ASSUME NEW m \in Nodes, NEW parent \in Nodes \cup {Root}, NEW name \in Names,
               mkdir(m, parent, name)
        PROVE  Untouched(n)
    <3>1. m # n
      BY <2>3 DEF mkdir, NoRow, Trashed
    <3>2. row'[n] = row[n] /\ UNCHANGED history
      BY <2>3, <3>1 DEF mkdir, IInv, Table, TableTypes, Trashed
    <3> QED BY <3>2 DEF Untouched
  <2>4. ASSUME NEW m \in Nodes, restore(m) PROVE Untouched(n)
    BY <2>4, RestoreUntouched DEF restore
  <2>5. ASSUME NEW S, purge_trashed_older_than(S) \/ purge_expired_files(S) PROVE Untouched(n)
    BY <2>5, PurgeUntouched DEF purge_trashed_older_than, purge_expired_files
  <2>6. CASE UNCHANGED vars
    BY <2>1, <2>6 DEF vars
  <2> QED BY <1>1, <2>1, <2>2, <2>3, <2>4, <2>5, <2>6, StepUntouched, Zenon DEF Next
<1>2. IInv /\ [Next]_vars =>
        [\A n \in Trashed :
           \/ row'[n] = NoRow
           \/ /\ row'[n] \in {row[n], [row[n] EXCEPT !.state = "live"]}
              /\ history'[n] = history[n]]_vars
  BY <1>1 DEF Untouched
<1> QED BY <1>2, Invariance, PTL DEF Spec, TrashUntouched
=============================================================================
