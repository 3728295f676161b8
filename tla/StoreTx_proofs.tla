--------------------------- MODULE StoreTx_proofs ---------------------------
(***************************************************************************)
(* Proofs about StoreTx, for every number of servers and administrators,   *)
(* every session and every request: the statements of concurrent           *)
(* transactions implement the single steps of Store and with it the        *)
(* archive, what a request is answered was true while it ran, and each     *)
(* goes on to its answer by itself.                                        *)
(***************************************************************************)
EXTENDS StoreTx, FiniteSetTheorems, WellFoundedInduction, TLAPS

(***************************************************************************)
(* The shape of the tables and of a transaction.                           *)
(***************************************************************************)
IsTables(v) ==
    v = [sessions |-> v.sessions, chunks |-> v.chunks, events |-> v.events, fts |-> v.fts,
         nextSessionId |-> v.nextSessionId, nextEventId |-> v.nextEventId]

IsRow(r) ==
    r = [id |-> r.id, next |-> r.next, hash |-> r.hash, activity |-> r.activity, meta |-> r.meta]

IsTx(t) ==
    t = [pc |-> t.pc, key |-> t.key, request |-> t.request, at |-> t.at, view |-> t.view,
         writes |-> t.writes, stale |-> t.stale, right |-> t.right]

InTx(c) == Pc(c) \notin {"idle", "answered"}

(***************************************************************************)
(* What a transaction has written, told by the committed tables, which     *)
(* nobody else can change while it holds the lock.                         *)
(***************************************************************************)
EventsBelow(u, n) ==
    {Committed!EventAt(u, i) : i \in {i \in EventPositions(u.plain) : i < n}}

SearchRowOf(k, e) == [rowid |-> e.id, key |-> k, seq |-> e.seq, text |-> e.text]

RowsBelow(k, u, n) ==
    {SearchRowOf(k, e) : e \in {e \in EventsBelow(u, n) : e.text # Blank}}

WithEvents(k, u, n) == [db.events EXCEPT ![k] = @ \cup EventsBelow(u, n)]

(* The session row after it was selected or inserted.                      *)
Opened(k, u) ==
    IF Committed!Known(k) THEN db.sessions[k]
    ELSE [id |-> db.nextSessionId, next |-> 0, hash |-> << >>,
          activity |-> LastActivity(u.plain), meta |-> u.plain[1]]

RowIsOpened(k, u, v) ==
    /\ v.sessions = [db.sessions EXCEPT ![k] = Opened(k, u)]
    /\ v.nextEventId = db.nextEventId

OnlyRow(v) == v.chunks = db.chunks /\ v.events = db.events /\ v.fts = db.fts

ChunkIsIn(k, u, v) ==
    /\ Committed!IsNext(k, u) /\ Committed!PrefixMatches(k, u) /\ Committed!KeysFree(k, u)
    /\ v.chunks = [db.chunks EXCEPT ![k] = @ \cup {Committed!NewChunk(u)}]

AllIsIn(k, u, v) ==
    /\ v.sessions = [db.sessions EXCEPT ![k] = Committed!RowAfter(k, u)]
    /\ v.events = [db.events EXCEPT ![k] = @ \cup Committed!NewEvents(u)]
    /\ v.fts = db.fts \cup Committed!NewSearchRows(k, u)
    /\ v.nextEventId = db.nextEventId + Len(u.plain)

PutWrote(c, k, u, v) ==
    /\ IsTables(v)
    /\ Committed!MayOpen(k, u)
    /\ v.nextSessionId = IF Committed!Known(k) THEN db.nextSessionId ELSE db.nextSessionId + 1
    /\ Pc(c) # "committing" => RowIsOpened(k, u, v)
    /\ Pc(c) = "checking" => ~ Committed!Known(k) /\ OnlyRow(v)
    /\ Pc(c) # "checking" => ChunkIsIn(k, u, v)
    /\ Pc(c) \in {"inserting", "indexing"} => v.fts = db.fts \cup RowsBelow(k, u, conn[c].at)
    /\ Pc(c) = "inserting" => v.events = WithEvents(k, u, conn[c].at)
    /\ Pc(c) = "indexing" =>
          /\ Positions(c) # {} /\ Searchable(u.plain[Position(c)])
          /\ v.events = WithEvents(k, u, Position(c) + 1)
    /\ Pc(c) = "committing" => AllIsIn(k, u, v)

DeleteWrote(c, k, v) ==
    /\ IsTables(v)
    /\ v.fts = db.fts \ Committed!SearchRowsOf(k)
    /\ v.nextSessionId = db.nextSessionId /\ v.nextEventId = db.nextEventId
    /\ Pc(c) = "deleting" =>
          v.sessions = db.sessions /\ v.chunks = db.chunks /\ v.events = db.events
    /\ Pc(c) = "committing" =>
          /\ Committed!Known(k)
          /\ v.sessions = [db.sessions EXCEPT ![k] = NoRow]
          /\ v.chunks = [db.chunks EXCEPT ![k] = {}]
          /\ v.events = [db.events EXCEPT ![k] = {}]

(***************************************************************************)
(* The invariant.  A transaction that only read sees the committed tables, *)
(* or somebody committed since; one that writes holds the lock alone.  The *)
(* answer that is right now, and the one that was right in the snapshot of *)
(* a transaction that only read, are among the right ones.                 *)
(***************************************************************************)
PutPc == {"begun", "creating", "checking", "inserting", "indexing", "committing"}

DeletePc == {"begun", "deleting", "committing"}

Requested(c) ==
    /\ IsTx(conn[c])
    /\ K(c) \in Key
    /\ conn[c].at \in Nat
    /\ conn[c].writes \in BOOLEAN /\ conn[c].stale \in BOOLEAN
    /\ c \in ServerConn =>
          /\ U(c) \in Upload /\ Committed!Acceptable(K(c), U(c))
          /\ Pc(c) \in PutPc
    /\ c \notin ServerConn => Pc(c) \in DeletePc
    /\ \A k \in {K(c)}, u \in {U(c)} : Truth(c, k, u) \in conn[c].right

Reads(c) ==
    /\ Pc(c) \in {"begun", "creating", "checking"} => conn[c].at = 1
    /\ Pc(c) = "begun" => ~ conn[c].writes /\ ~ conn[c].stale
    /\ Pc(c) = "creating" => ~ conn[c].writes
    /\ Pc(c) \in {"creating", "checking"} /\ ~ conn[c].writes =>
          /\ ~ conn[c].stale => conn[c].view = db
          /\ \A k \in {K(c)}, u \in {U(c)} :
                /\ View(c)!Outcome(k, u) \in conn[c].right
                /\ View(c)!NextOffset(k) \in Nat
                /\ Pc(c) = "creating" <=> ~ View(c)!Known(k)

Wrote(c) ==
    /\ Pc(c) \in {"inserting", "indexing", "committing", "deleting"} => conn[c].writes
    /\ conn[c].writes =>
          /\ ~ conn[c].stale
          /\ \A k \in {K(c)}, u \in {U(c)}, v \in {conn[c].view} :
                IF c \in ServerConn THEN PutWrote(c, k, u, v) ELSE DeleteWrote(c, k, v)

AnswerIsRight(c) ==
    Pc(c) = "answered" =>
        conn[c].writes = FALSE /\ conn[c].answer \in conn[c].right \cup {"failed"}

ConnInv(c) ==
    /\ AnswerIsRight(c)
    /\ InTx(c) => Requested(c) /\ Reads(c) /\ Wrote(c)

TablesOK ==
    /\ IsTables(db)
    /\ db.sessions = [k \in Key |-> db.sessions[k]] /\ db.events = [k \in Key |-> db.events[k]]
    /\ \A k \in Key : Committed!Known(k) => IsRow(db.sessions[k]) /\ db.sessions[k].next \in Nat

TxInv ==
    /\ TablesOK
    /\ conn = [c \in Conn |-> conn[c]]
    /\ \A c \in Conn : ConnInv(c)
    /\ \A c, d \in Conn : Holds(c) /\ Holds(d) => c = d

-----------------------------------------------------------------------------
(* What does not change with the tables and the transaction.               *)
LEMMA SameTables ==
    ASSUME db' = db, NEW k, NEW u
    PROVE  /\ Committed!Known(k)' <=> Committed!Known(k)
           /\ Committed!MayOpen(k, u)' <=> Committed!MayOpen(k, u)
           /\ Committed!IsNext(k, u)' <=> Committed!IsNext(k, u)
           /\ Committed!PrefixMatches(k, u)' <=> Committed!PrefixMatches(k, u)
           /\ Committed!KeysFree(k, u)' <=> Committed!KeysFree(k, u)
           /\ Committed!IsReplay(k, u)' <=> Committed!IsReplay(k, u)
           /\ Committed!RowAfter(k, u)' = Committed!RowAfter(k, u)
           /\ Committed!NewEvents(u)' = Committed!NewEvents(u)
           /\ Committed!NewSearchRows(k, u)' = Committed!NewSearchRows(k, u)
           /\ Committed!SearchRowsOf(k)' = Committed!SearchRowsOf(k)
           /\ Committed!Outcome(k, u)' = Committed!Outcome(k, u)
           /\ Opened(k, u)' = Opened(k, u)
<1>1. /\ Committed!Known(k)' <=> Committed!Known(k)
      /\ Committed!NextOffset(k)' = Committed!NextOffset(k)
      /\ Committed!HashState(k)' = Committed!HashState(k)
  BY DEF Committed!Known, Committed!NextOffset, Committed!HashState
<1>2. /\ Committed!MayOpen(k, u)' <=> Committed!MayOpen(k, u)
      /\ Committed!IsNext(k, u)' <=> Committed!IsNext(k, u)
      /\ Committed!PrefixMatches(k, u)' <=> Committed!PrefixMatches(k, u)
      /\ Committed!KeysFree(k, u)' <=> Committed!KeysFree(k, u)
      /\ Committed!IsReplay(k, u)' <=> Committed!IsReplay(k, u)
  BY <1>1 DEF Committed!MayOpen, Committed!IsNext, Committed!PrefixMatches, Committed!KeysFree,
              Committed!IsReplay
<1>3. Committed!RowAfter(k, u)' = Committed!RowAfter(k, u)
  BY <1>1 DEF Committed!RowAfter, Committed!IdOf, Committed!ActivityAfter, Committed!MetaOf
<1>4. \A i : Committed!EventAt(u, i)' = Committed!EventAt(u, i)
  BY DEF Committed!EventAt, Committed!RowIdOf
<1>5. Committed!NewEvents(u)' = Committed!NewEvents(u)
  BY <1>4 DEF Committed!NewEvents
<1>6. Committed!NewSearchRows(k, u)' = Committed!NewSearchRows(k, u)
  BY <1>5 DEF Committed!NewSearchRows, Committed!SearchText
<1>7. Committed!SearchRowsOf(k)' = Committed!SearchRowsOf(k)
  BY DEF Committed!SearchRowsOf
<1>8. Committed!Outcome(k, u)' = Committed!Outcome(k, u)
  BY <1>2 DEF Committed!Outcome, Committed!Storable
<1>9. Opened(k, u)' = Opened(k, u)
  BY <1>1 DEF Opened
<1> QED
  BY <1>1, <1>2, <1>3, <1>5, <1>6, <1>7, <1>8, <1>9

LEMMA SameRows ==
    ASSUME db' = db, NEW k, NEW u, NEW n
    PROVE  /\ EventsBelow(u, n)' = EventsBelow(u, n)
           /\ RowsBelow(k, u, n)' = RowsBelow(k, u, n)
           /\ WithEvents(k, u, n)' = WithEvents(k, u, n)
<1>1. \A i : Committed!EventAt(u, i)' = Committed!EventAt(u, i)
  BY DEF Committed!EventAt, Committed!RowIdOf
<1>2. EventsBelow(u, n)' = EventsBelow(u, n)
  BY <1>1 DEF EventsBelow
<1> QED
  BY <1>2 DEF RowsBelow, WithEvents

LEMMA SameTruth ==
    ASSUME db' = db, NEW c, NEW k, NEW u
    PROVE  Truth(c, k, u)' = Truth(c, k, u)
BY SameTables DEF Truth

LEMMA SameView ==
    ASSUME NEW c \in Conn, NEW k, NEW u, conn'[c].view = conn[c].view
    PROVE  /\ View(c)!Outcome(k, u)' = View(c)!Outcome(k, u)
           /\ View(c)!NextOffset(k)' = View(c)!NextOffset(k)
           /\ View(c)!Known(k)' <=> View(c)!Known(k)
<1>1. /\ View(c)!Known(k)' <=> View(c)!Known(k)
      /\ View(c)!NextOffset(k)' = View(c)!NextOffset(k)
      /\ View(c)!HashState(k)' = View(c)!HashState(k)
  BY DEF View!Known, View!NextOffset, View!HashState
<1>2. /\ View(c)!MayOpen(k, u)' <=> View(c)!MayOpen(k, u)
      /\ View(c)!IsNext(k, u)' <=> View(c)!IsNext(k, u)
      /\ View(c)!PrefixMatches(k, u)' <=> View(c)!PrefixMatches(k, u)
      /\ View(c)!KeysFree(k, u)' <=> View(c)!KeysFree(k, u)
      /\ View(c)!IsReplay(k, u)' <=> View(c)!IsReplay(k, u)
      /\ View(c)!Acceptable(k, u)' <=> View(c)!Acceptable(k, u)
  BY <1>1 DEF View!MayOpen, View!IsNext, View!PrefixMatches, View!KeysFree, View!IsReplay,
              View!Acceptable, View!SessionOf
<1>3. View(c)!Outcome(k, u)' = View(c)!Outcome(k, u)
  BY <1>2 DEF View!Outcome, View!Storable
<1> QED
  BY <1>1, <1>3

LEMMA SameParts ==
    ASSUME db' = db, NEW k, NEW u, NEW v
    PROVE  /\ RowIsOpened(k, u, v)' <=> RowIsOpened(k, u, v)
           /\ OnlyRow(v)' <=> OnlyRow(v)
           /\ ChunkIsIn(k, u, v)' <=> ChunkIsIn(k, u, v)
           /\ AllIsIn(k, u, v)' <=> AllIsIn(k, u, v)
<1>1. RowIsOpened(k, u, v)' <=> RowIsOpened(k, u, v)
  BY SameTables DEF RowIsOpened
<1>2. OnlyRow(v)' <=> OnlyRow(v)
  BY DEF OnlyRow
<1>3. ChunkIsIn(k, u, v)' <=> ChunkIsIn(k, u, v)
  BY SameTables DEF ChunkIsIn, Committed!NewChunk
<1>4. AllIsIn(k, u, v)' <=> AllIsIn(k, u, v)
  <2>1. /\ Committed!RowAfter(k, u)' = Committed!RowAfter(k, u)
        /\ Committed!NewEvents(u)' = Committed!NewEvents(u)
        /\ Committed!NewSearchRows(k, u)' = Committed!NewSearchRows(k, u)
    BY SameTables
  <2>2. /\ db'.sessions = db.sessions /\ db'.events = db.events /\ db'.fts = db.fts
        /\ db'.nextEventId = db.nextEventId
    OBVIOUS
  <2> QED
    BY <2>1, <2>2 DEF AllIsIn
<1> QED
  BY <1>1, <1>2, <1>3, <1>4

LEMMA SamePut ==
    ASSUME db' = db, NEW c \in Conn, conn'[c] = conn[c], NEW k, NEW u, NEW v
    PROVE  /\ PutWrote(c, k, u, v)' <=> PutWrote(c, k, u, v)
           /\ DeleteWrote(c, k, v)' <=> DeleteWrote(c, k, v)
<1>1. Pc(c)' = Pc(c) /\ Positions(c)' = Positions(c) /\ U(c)' = U(c) /\ conn'[c].at = conn[c].at
  BY DEF Pc, Positions, U
<1>2. Position(c)' = Position(c)
  BY <1>1 DEF Position
<1>3. \A n : /\ RowsBelow(k, u, n)' = RowsBelow(k, u, n)
             /\ WithEvents(k, u, n)' = WithEvents(k, u, n)
  BY SameRows
<1>4. /\ RowIsOpened(k, u, v)' <=> RowIsOpened(k, u, v)
      /\ OnlyRow(v)' <=> OnlyRow(v)
      /\ ChunkIsIn(k, u, v)' <=> ChunkIsIn(k, u, v)
      /\ AllIsIn(k, u, v)' <=> AllIsIn(k, u, v)
  BY SameParts
<1>5. PutWrote(c, k, u, v)' <=> PutWrote(c, k, u, v)
  BY <1>1, <1>2, <1>3, <1>4, SameTables DEF PutWrote
<1>6. DeleteWrote(c, k, v)' <=> DeleteWrote(c, k, v)
  BY <1>1, SameTables DEF DeleteWrote
<1> QED
  BY <1>5, <1>6

LEMMA SameConn ==
    ASSUME db' = db, NEW c \in Conn, conn'[c] = conn[c], ConnInv(c)
    PROVE  ConnInv(c)'
<1>1. /\ Pc(c)' = Pc(c) /\ (InTx(c)' <=> InTx(c))
      /\ K(c)' = K(c) /\ U(c)' = U(c)
  BY DEF Pc, InTx, K, U
<1>2. AnswerIsRight(c)'
  BY <1>1 DEF ConnInv, AnswerIsRight
<1>3. ASSUME InTx(c)
      PROVE  Requested(c)'
  <2>1. Requested(c)
    BY <1>3 DEF ConnInv
  <2>2. \A k, u : Truth(c, k, u)' = Truth(c, k, u)
    BY SameTruth
  <2>3. \A k, u : Committed!Acceptable(k, u)' <=> Committed!Acceptable(k, u)
    BY DEF Committed!Acceptable, Committed!SessionOf
  <2> QED
    BY <1>1, <2>1, <2>2, <2>3 DEF Requested
<1>4. ASSUME InTx(c)
      PROVE  Reads(c)'
  <2>1. Reads(c)
    BY <1>4 DEF ConnInv
  <2>2. \A k, u : /\ View(c)!Outcome(k, u)' = View(c)!Outcome(k, u)
                  /\ View(c)!NextOffset(k)' = View(c)!NextOffset(k)
                  /\ View(c)!Known(k)' <=> View(c)!Known(k)
    BY SameView
  <2> QED
    BY <1>1, <2>1, <2>2 DEF Reads
<1>5. ASSUME InTx(c)
      PROVE  Wrote(c)'
  <2>1. Wrote(c)
    BY <1>5 DEF ConnInv
  <2>2. \A k, u, v : /\ PutWrote(c, k, u, v)' <=> PutWrote(c, k, u, v)
                     /\ DeleteWrote(c, k, v)' <=> DeleteWrote(c, k, v)
    BY SamePut
  <2> QED
    BY <1>1, <2>1, <2>2 DEF Wrote
<1> QED
  BY <1>1, <1>2, <1>3, <1>4, <1>5 DEF ConnInv

(* A step of one transaction that changes no table.                        *)
LEMMA LocalStep ==
    ASSUME TxInv, NEW c \in Conn, db' = db, NEW t, conn' = [conn EXCEPT ![c] = t],
           ConnInv(c)', Holds(c)' => Holds(c) \/ LockFree(c)
    PROVE  TxInv'
<1>1. \A d \in Conn : conn'[d] = IF d = c THEN t ELSE conn[d]
  BY DEF TxInv
<1>2. conn' = [d \in Conn |-> conn'[d]]
  BY DEF TxInv
<1>3. \A d \in Conn : ConnInv(d)'
  <2> SUFFICES ASSUME NEW d \in Conn, d # c
               PROVE  ConnInv(d)'
    OBVIOUS
  <2> QED
    BY <1>1, SameConn DEF TxInv
<1>4. \A d \in Conn : d # c => (Holds(d)' <=> Holds(d))
  BY <1>1 DEF Holds, Active, Pc
<1>5. ASSUME NEW d \in Conn, NEW e \in Conn, Holds(d)', Holds(e)'
      PROVE  d = e
  BY <1>4, <1>5 DEF TxInv, LockFree
<1>6. TablesOK'
  BY DEF TxInv, TablesOK, IsTables, IsRow, Committed!Known
<1> QED
  BY <1>2, <1>3, <1>5, <1>6 DEF TxInv

-----------------------------------------------------------------------------
(* The steps that begin and end a transaction.                             *)
LEMMA InitTxInv == Init => TxInv
<1> SUFFICES ASSUME Init PROVE TxInv
  OBVIOUS
<1>1. TablesOK
  BY DEF Init, TablesOK, IsTables, Committed!Known
<1>2. conn = [c \in Conn |-> conn[c]] /\ \A c \in Conn : Pc(c) = "idle"
  BY DEF Init, Idle, Pc
<1> QED
  BY <1>1, <1>2 DEF TxInv, ConnInv, AnswerIsRight, InTx, Holds, Active

LEMMA BeginTxInv ==
    ASSUME TxInv, NEW c \in Conn, NEW k \in Key, NEW u, Begin(c, k, u),
           c \in ServerConn => u \in Upload /\ Committed!Acceptable(k, u)
    PROVE  TxInv'
<1> DEFINE t == [pc |-> "begun", key |-> k, request |-> u, at |-> 1, view |-> << >>,
                 writes |-> FALSE, stale |-> FALSE, right |-> {Truth(c, k, u)}]
<1>1. conn' = [conn EXCEPT ![c] = t] /\ db' = db
  BY DEF Begin
<1>2. conn'[c] = t
  BY <1>1 DEF TxInv
<1>3. /\ Pc(c)' = "begun" /\ K(c)' = k /\ U(c)' = u /\ conn'[c].right = {Truth(c, k, u)}
      /\ conn'[c].writes = FALSE /\ conn'[c].stale = FALSE /\ conn'[c].at = 1
      /\ IsTx(conn'[c])
  BY <1>2 DEF Pc, K, U, IsTx
<1> HIDE DEF t
<1>4. Truth(c, k, u)' = Truth(c, k, u)
  BY <1>1, SameTruth
<1>6. Requested(c)'
  <2>1. Pc(c)' \in PutPc /\ Pc(c)' \in DeletePc
    BY <1>3 DEF PutPc, DeletePc
  <2>2. \A l \in {K(c)'}, w \in {U(c)'} : Truth(c, l, w)' \in conn'[c].right
    BY <1>3, <1>4
  <2>3. /\ IsTx(conn'[c]) /\ K(c)' \in Key /\ conn'[c].at \in Nat
        /\ conn'[c].writes \in BOOLEAN /\ conn'[c].stale \in BOOLEAN
    <3>1. conn'[c].at \in Nat
      BY <1>3
    <3>2. conn'[c].writes \in BOOLEAN /\ conn'[c].stale \in BOOLEAN
      BY <1>3
    <3>3. IsTx(conn'[c]) /\ K(c)' \in Key
      BY <1>3
    <3> QED
      BY <3>1, <3>2, <3>3
  <2>4. c \in ServerConn => U(c)' \in Upload /\ Committed!Acceptable(K(c), U(c))'
    <3>1. Committed!Acceptable(K(c), U(c))' <=> Committed!Acceptable(k, u)
      BY <1>3 DEF Committed!Acceptable, Committed!SessionOf
    <3> QED
      BY <1>3, <3>1
  <2> QED
    BY <2>1, <2>2, <2>3, <2>4 DEF Requested
<1>7. ConnInv(c)'
  BY <1>3, <1>6 DEF ConnInv, AnswerIsRight, InTx, Reads, Wrote
<1>8. ~ Holds(c)'
  BY <1>3 DEF Holds
<1> QED
  BY <1>1, <1>7, <1>8, LocalStep

LEMMA EndsTxInv ==
    ASSUME TxInv, NEW c \in Conn, NEW answer \in conn[c].right \cup {"failed"}, Ends(c, answer)
    PROVE  TxInv'
<1> DEFINE t == Answered(conn[c], answer)
<1>1. conn' = [conn EXCEPT ![c] = t] /\ db' = db
  BY DEF Ends
<1>2. conn'[c] = t
  BY <1>1 DEF TxInv
<1>3. /\ Pc(c)' = "answered" /\ conn'[c].right = conn[c].right /\ conn'[c].answer = answer
      /\ conn'[c].writes = FALSE
  BY <1>2 DEF Pc, Answered
<1> HIDE DEF t
<1>4. ConnInv(c)'
  BY <1>3 DEF ConnInv, AnswerIsRight, InTx
<1>5. ~ Holds(c)'
  BY <1>3 DEF Holds
<1> QED
  BY <1>1, <1>4, <1>5, LocalStep

LEMMA ReplyTxInv ==
    ASSUME TxInv, NEW c \in Conn, Reply(c)
    PROVE  TxInv'
<1>1. conn' = [conn EXCEPT ![c] = Idle] /\ db' = db
  BY DEF Reply
<1>2. Pc(c)' = "idle"
  BY <1>1 DEF TxInv, Pc, Idle
<1>3. ConnInv(c)' /\ ~ Holds(c)'
  BY <1>2 DEF ConnInv, AnswerIsRight, InTx, Holds, Active
<1> QED
  BY <1>1, <1>3, LocalStep

-----------------------------------------------------------------------------
(* Steps within a transaction: the request and the right answers stay.     *)
LEMMA StepRequested ==
    ASSUME NEW c \in Conn, Requested(c), db' = db,
           IsTx(conn'[c]), conn'[c].at \in Nat,
           conn'[c].writes \in BOOLEAN, conn'[c].stale = conn[c].stale,
           conn'[c].key = conn[c].key, conn'[c].request = conn[c].request,
           conn'[c].right = conn[c].right,
           c \in ServerConn => conn'[c].pc \in PutPc,
           c \notin ServerConn => conn'[c].pc \in DeletePc
    PROVE  Requested(c)' /\ K(c)' = K(c) /\ U(c)' = U(c)
<1>1. K(c)' = K(c) /\ U(c)' = U(c) /\ Pc(c)' = conn'[c].pc
  BY DEF K, U, Pc
<1>2. \A k, u : Truth(c, k, u)' = Truth(c, k, u)
  BY SameTruth
<1>3. \A k, u : Committed!Acceptable(k, u)' <=> Committed!Acceptable(k, u)
  BY DEF Committed!Acceptable, Committed!SessionOf
<1> QED
  BY <1>1, <1>2, <1>3 DEF Requested

(* A snapshot that is the committed tables answers like them.              *)
LEMMA ViewIsCommitted ==
    ASSUME NEW c \in Conn, NEW k, NEW u, conn[c].view = db
    PROVE  /\ View(c)!Outcome(k, u) = Committed!Outcome(k, u)
           /\ View(c)!Known(k) <=> Committed!Known(k)
           /\ View(c)!NextOffset(k) = Committed!NextOffset(k)
           /\ View(c)!HashState(k) = Committed!HashState(k)
           /\ View(c)!MayOpen(k, u) <=> Committed!MayOpen(k, u)
<1>1. /\ View(c)!Known(k) <=> Committed!Known(k)
      /\ View(c)!NextOffset(k) = Committed!NextOffset(k)
      /\ View(c)!HashState(k) = Committed!HashState(k)
  BY DEF View!Known, View!NextOffset, View!HashState,
         Committed!Known, Committed!NextOffset, Committed!HashState
<1>2. /\ View(c)!MayOpen(k, u) <=> Committed!MayOpen(k, u)
      /\ View(c)!IsNext(k, u) <=> Committed!IsNext(k, u)
      /\ View(c)!PrefixMatches(k, u) <=> Committed!PrefixMatches(k, u)
  BY <1>1 DEF View!MayOpen, View!IsNext, View!PrefixMatches,
              Committed!MayOpen, Committed!IsNext, Committed!PrefixMatches
<1>3. View(c)!KeysFree(k, u) <=> Committed!KeysFree(k, u)
  BY DEF View!KeysFree, View!EventPositions, View!IsEvent, View!EventKind,
         Committed!KeysFree, Committed!EventPositions, Committed!IsEvent, Committed!EventKind
<1>4. View(c)!IsReplay(k, u) <=> Committed!IsReplay(k, u)
  BY <1>1 DEF View!IsReplay, Committed!IsReplay
<1>5. View(c)!Acceptable(k, u) <=> Committed!Acceptable(k, u)
  BY DEF View!Acceptable, View!SessionOf, View!Parses, View!Valid, View!OpensSession,
         Committed!Acceptable, Committed!SessionOf, Committed!Parses, Committed!Valid,
         Committed!OpensSession
<1>6. View(c)!Outcome(k, u) = Committed!Outcome(k, u)
  BY <1>2, <1>3, <1>4, <1>5
     DEF View!Outcome, View!Storable, Committed!Outcome, Committed!Storable
<1> QED
  BY <1>1, <1>2, <1>6

ViewsAgree ==
    \A c \in Conn : conn[c].view = db =>
        \A k, u : /\ View(c)!Outcome(k, u) = Committed!Outcome(k, u)
                  /\ View(c)!NextOffset(k) = Committed!NextOffset(k)
                  /\ View(c)!Known(k) <=> Committed!Known(k)

LEMMA ViewsAgreeNow == ViewsAgree
BY ViewIsCommitted DEF ViewsAgree

LEMMA ViewsAgreeNext == ViewsAgree'
BY ViewsAgreeNow, PTL

LEMMA SelectSessionInv ==
    ASSUME TxInv, NEW c \in Conn, SelectSession(c)
    PROVE  TxInv'
<1> DEFINE pc == IF Committed!Known(K(c)) THEN "checking" ELSE "creating"
           t == [conn[c] EXCEPT !.pc = pc, !.view = db]
<1>1. conn' = [conn EXCEPT ![c] = t] /\ db' = db /\ Pc(c) = "begun" /\ c \in ServerConn
  BY DEF SelectSession, Putting
<1>2. Requested(c) /\ Reads(c) /\ IsTx(conn[c]) /\ ~ conn[c].writes /\ ~ conn[c].stale
  BY <1>1 DEF TxInv, ConnInv, InTx, Requested, Reads
<1>3. conn'[c] = t
  BY <1>1 DEF TxInv
<1>4. /\ conn'[c].pc = pc /\ conn'[c].view = db /\ conn'[c].at = conn[c].at
      /\ conn'[c].writes = conn[c].writes /\ conn'[c].stale = conn[c].stale
      /\ conn'[c].key = conn[c].key /\ conn'[c].request = conn[c].request
      /\ conn'[c].right = conn[c].right /\ IsTx(conn'[c])
  BY <1>2, <1>3 DEF IsTx
<1> HIDE DEF t
<1>5. pc \in PutPc /\ pc \in {"creating", "checking"} /\ Pc(c)' = pc
      /\ (pc = "creating" <=> ~ Committed!Known(K(c)))
  BY <1>4 DEF PutPc, Pc
<1> HIDE DEF pc
<1>6. Requested(c)' /\ K(c)' = K(c) /\ U(c)' = U(c)
  BY <1>1, <1>2, <1>4, <1>5, StepRequested DEF Requested
<1>7. \A k \in {K(c)}, u \in {U(c)} :
         /\ View(c)!Outcome(k, u)' \in conn[c].right
         /\ View(c)!NextOffset(k)' \in Nat
         /\ pc = "creating" <=> ~ View(c)!Known(k)'
  <2>1. \A k, u : /\ View(c)!Outcome(k, u)' = Committed!Outcome(k, u)'
                  /\ View(c)!NextOffset(k)' = Committed!NextOffset(k)'
                  /\ View(c)!Known(k)' <=> Committed!Known(k)'
    BY <1>1, <1>4, ViewsAgreeNext DEF ViewsAgree
  <2>2. \A k, u : /\ Committed!Outcome(k, u)' = Committed!Outcome(k, u)
                  /\ Committed!Known(k)' <=> Committed!Known(k)
    BY <1>1, SameTables
  <2>3. \A k \in {K(c)}, u \in {U(c)} : Committed!Outcome(k, u) \in conn[c].right
    BY <1>1, <1>2 DEF Requested, Truth
  <2>4. \A k \in {K(c)} : Committed!NextOffset(k)' \in Nat
    <3>1. TablesOK /\ K(c) \in Key
      BY <1>2 DEF TxInv, Requested
    <3> QED
      BY <1>1, <3>1 DEF TablesOK, Committed!NextOffset, Committed!Known
  <2> QED
    BY <1>5, <2>1, <2>2, <2>3, <2>4
<1>8. Reads(c)' /\ Wrote(c)'
  BY <1>1, <1>2, <1>4, <1>5, <1>6, <1>7 DEF Reads, Wrote
<1>9. ConnInv(c)'
  BY <1>5, <1>6, <1>8 DEF ConnInv, AnswerIsRight
<1>10. ~ Holds(c)'
  BY <1>2, <1>4 DEF Holds
<1> QED
  BY <1>1, <1>9, <1>10, LocalStep


-----------------------------------------------------------------------------
(* The parts of the invariant a step of a transaction uses.                *)
LEMMA TxParts ==
    ASSUME TxInv, NEW c \in Conn, InTx(c)
    PROVE  Requested(c) /\ Reads(c) /\ Wrote(c)
BY DEF TxInv, ConnInv

LEMMA UploadType ==
    ASSUME NEW u \in Upload
    PROVE  u.start \in Nat /\ u.end \in Nat /\ u.plain \in Seq(Record)
BY RequestAssumption DEF Committed!Request, Committed!Record, Record, Committed!Kind, Kind,
                         Committed!EventKind, EventKind

(* A session row that was inserted has the checkpoint of no row.           *)
LEMMA OpenedView ==
    ASSUME TablesOK, NEW c, NEW k \in Key, NEW u,
           conn[c].view.sessions = [db.sessions EXCEPT ![k] = Opened(k, u)]
    PROVE  /\ View(c)!NextOffset(k) = Committed!NextOffset(k)
           /\ View(c)!HashState(k) = Committed!HashState(k)
           /\ View(c)!IsNext(k, u) <=> Committed!IsNext(k, u)
           /\ View(c)!PrefixMatches(k, u) <=> Committed!PrefixMatches(k, u)
<1>1. conn[c].view.sessions[k] = Opened(k, u)
  <2>1. db.sessions = [l \in Key |-> db.sessions[l]]
    BY DEF TablesOK
  <2> QED
    BY <2>1
<1>2. /\ View(c)!NextOffset(k) = Committed!NextOffset(k)
      /\ View(c)!HashState(k) = Committed!HashState(k)
  BY <1>1 DEF Opened, View!NextOffset, View!HashState, View!Known,
              Committed!NextOffset, Committed!HashState, Committed!Known
<1> QED
  BY <1>2 DEF View!IsNext, View!PrefixMatches, Committed!IsNext, Committed!PrefixMatches

(* While it checks, a transaction that wrote opened the session.           *)
LEMMA CheckingView ==
    ASSUME TxInv, NEW c \in Conn, Putting(c, "checking"), conn[c].writes
    PROVE  \A k \in {K(c)}, u \in {U(c)} :
              /\ ~ Committed!Known(k)
              /\ PutWrote(c, k, u, conn[c].view)
              /\ View(c)!NextOffset(k) = 0
              /\ View(c)!IsNext(k, u) <=> Committed!IsNext(k, u)
              /\ View(c)!PrefixMatches(k, u) <=> Committed!PrefixMatches(k, u)
<1>1. c \in ServerConn /\ Pc(c) = "checking" /\ InTx(c)
  BY DEF Putting, InTx
<1> SUFFICES ASSUME NEW k, NEW u, k = K(c), u = U(c)
             PROVE  /\ ~ Committed!Known(k)
                    /\ PutWrote(c, k, u, conn[c].view)
                    /\ View(c)!NextOffset(k) = 0
                    /\ View(c)!IsNext(k, u) <=> Committed!IsNext(k, u)
                    /\ View(c)!PrefixMatches(k, u) <=> Committed!PrefixMatches(k, u)
  OBVIOUS
<1>2. PutWrote(c, k, u, conn[c].view) /\ k \in Key
  BY <1>1, TxParts DEF Wrote, Requested
<1>3. ~ Committed!Known(k) /\ conn[c].view.sessions = [db.sessions EXCEPT ![k] = Opened(k, u)]
  BY <1>1, <1>2 DEF PutWrote, RowIsOpened
<1>4. TablesOK
  BY DEF TxInv
<1>5. Committed!NextOffset(k) = 0
  BY <1>3 DEF Committed!NextOffset
<1> QED
  BY <1>2, <1>3, <1>4, <1>5, OpenedView

LEMMA ViewRefuses ==
    ASSUME NEW c \in Conn, NEW k, NEW u, ~ View(c)!Storable(k, u), ~ View(c)!IsReplay(k, u)
    PROVE  View(c)!Outcome(k, u) = "error"
BY DEF View!Outcome

LEMMA RejectNewInv ==
    ASSUME TxInv, NEW c \in Conn, RejectNew(c)
    PROVE  TxInv'
<1>1. /\ c \in ServerConn /\ Pc(c) = "creating" /\ InTx(c) /\ U(c).start # 0
      /\ Ends(c, "error")
  BY DEF RejectNew, Putting, InTx
<1>2. Requested(c) /\ Reads(c)
  BY <1>1, TxParts
<1>3. "error" \in conn[c].right
  <2> SUFFICES ASSUME NEW k, NEW u, k = K(c), u = U(c)
               PROVE  View(c)!Outcome(k, u) = "error"
    BY <1>1, <1>2 DEF Reads
  <2>1. ~ View(c)!Known(k) /\ u.start # 0 /\ u.start \in Nat
    BY <1>1, <1>2, UploadType DEF Reads, Requested
  <2>2. ~ View(c)!Storable(k, u)
    BY <2>1 DEF View!Storable, View!MayOpen
  <2>3. ~ View(c)!IsReplay(k, u)
    BY <2>1 DEF View!IsReplay, View!NextOffset
  <2> QED
    BY <2>2, <2>3, ViewRefuses
<1> QED
  BY <1>1, <1>3, EndsTxInv

LEMMA NoSessionIdInv ==
    ASSUME TxInv, NEW c \in Conn, NoSessionId(c)
    PROVE  TxInv'
BY EndsTxInv DEF NoSessionId

LEMMA CheckReplayInv ==
    ASSUME TxInv, NEW c \in Conn, CheckReplay(c)
    PROVE  TxInv'
<1>1. /\ Putting(c, "checking") /\ c \in ServerConn /\ Pc(c) = "checking" /\ InTx(c)
      /\ U(c).start < View(c)!NextOffset(K(c))
      /\ Ends(c, IF WasStored(c) THEN "duplicate" ELSE "error")
  BY DEF CheckReplay, Putting, InTx
<1>2. Requested(c) /\ Reads(c)
  BY <1>1, TxParts
<1>3. ~ conn[c].writes
  <2>1. U(c).start \in Nat
    BY <1>1, <1>2, UploadType DEF Requested
  <2>2. conn[c].writes => View(c)!NextOffset(K(c)) = 0
    BY <1>1, CheckingView
  <2> QED
    BY <1>1, <2>1, <2>2
<1>4. (IF WasStored(c) THEN "duplicate" ELSE "error") \in conn[c].right
  <2> SUFFICES ASSUME NEW k, NEW u, k = K(c), u = U(c)
               PROVE  View(c)!Outcome(k, u) =
                         IF View(c)!IsReplay(k, u) THEN "duplicate" ELSE "error"
    BY <1>1, <1>2, <1>3 DEF Reads, WasStored
  <2>1. u.start < View(c)!NextOffset(k) /\ u.start \in Nat
    BY <1>1, <1>2, UploadType DEF Requested
  <2>2. ~ View(c)!Storable(k, u)
    BY <2>1 DEF View!Storable, View!IsNext
  <2>3. View(c)!Acceptable(k, u)
    <3>1. Committed!Acceptable(k, u)
      BY <1>1, <1>2 DEF Requested
    <3> QED
      BY <3>1 DEF View!Acceptable, View!SessionOf, View!Parses, View!Valid, View!OpensSession,
                  Committed!Acceptable, Committed!SessionOf, Committed!Parses, Committed!Valid,
                  Committed!OpensSession
  <2> QED
    BY <2>2, <2>3 DEF View!Outcome
<1> QED
  BY <1>1, <1>4, EndsTxInv

LEMMA RejectChunkInv ==
    ASSUME TxInv, NEW c \in Conn, RejectChunk(c)
    PROVE  TxInv'
<1>1. /\ Putting(c, "checking") /\ c \in ServerConn /\ Pc(c) = "checking" /\ InTx(c)
      /\ U(c).start >= View(c)!NextOffset(K(c)) /\ ~ MayAppend(c)
      /\ Ends(c, "error")
  BY DEF RejectChunk, Putting, InTx
<1>2. Requested(c) /\ Reads(c) /\ U(c).start \in Nat
  BY <1>1, TxParts, UploadType DEF Requested
<1>3. ASSUME ~ conn[c].writes
      PROVE  "error" \in conn[c].right
  <2> SUFFICES ASSUME NEW k, NEW u, k = K(c), u = U(c)
               PROVE  View(c)!Outcome(k, u) = "error"
    BY <1>1, <1>2, <1>3 DEF Reads
  <2>1. ~ View(c)!Storable(k, u)
    BY <1>1 DEF MayAppend, View!Storable
  <2>2. ~ View(c)!IsReplay(k, u)
    <3>1. u.start >= View(c)!NextOffset(k) /\ u.start \in Nat
      BY <1>1, <1>2
    <3>2. View(c)!NextOffset(k) \in Nat
      BY <1>1, <1>2, <1>3 DEF Reads
    <3>3. ~ (u.start < View(c)!NextOffset(k))
      BY <3>1, <3>2
    <3> QED
      BY <3>3 DEF View!IsReplay
  <2> QED
    BY <2>1, <2>2, ViewRefuses
<1>4. ASSUME conn[c].writes
      PROVE  "error" \in conn[c].right
  <2> SUFFICES ASSUME NEW k, NEW u, k = K(c), u = U(c)
               PROVE  Committed!Outcome(k, u) = "error"
    BY <1>1, <1>2 DEF Requested, Truth
  <2>1. /\ ~ Committed!Known(k)
        /\ View(c)!IsNext(k, u) <=> Committed!IsNext(k, u)
        /\ View(c)!PrefixMatches(k, u) <=> Committed!PrefixMatches(k, u)
    BY <1>1, <1>4, CheckingView
  <2>2. ~ Committed!Storable(k, u)
    BY <1>1, <2>1 DEF MayAppend, Committed!Storable
  <2>3. ~ Committed!IsReplay(k, u)
    BY <1>2, <2>1 DEF Committed!IsReplay, Committed!NextOffset
  <2> QED
    BY <2>2, <2>3 DEF Committed!Outcome
<1> QED
  BY <1>1, <1>3, <1>4, EndsTxInv

LEMMA RowMissingInv ==
    ASSUME TxInv, NEW c \in Conn, RowMissing(c)
    PROVE  TxInv'
<1>1. /\ c \in AdminConn /\ c \notin ServerConn /\ Pc(c) = "deleting" /\ InTx(c)
      /\ ~ View(c)!Known(K(c)) /\ Ends(c, "missing")
  BY ConnAssumption DEF RowMissing, Deleting, InTx
<1>2. Requested(c) /\ Wrote(c)
  BY <1>1, TxParts
<1>3. "missing" \in conn[c].right
  <2> SUFFICES ASSUME NEW k, NEW u, k = K(c), u = U(c)
               PROVE  ~ Committed!Known(k)
    BY <1>1, <1>2 DEF Requested, Truth
  <2>1. conn[c].view.sessions = db.sessions
    BY <1>1, <1>2 DEF Wrote, DeleteWrote
  <2> QED
    BY <1>1, <2>1 DEF View!Known, Committed!Known
<1> QED
  BY <1>1, <1>3, EndsTxInv

LEMMA BusyInv ==
    ASSUME TxInv, NEW c \in Conn, Busy(c) \/ Fail(c)
    PROVE  TxInv'
BY EndsTxInv DEF Busy, Fail


-----------------------------------------------------------------------------
(* The events of a chunk are written one after another, in their order.    *)
LEMMA LeastPosition ==
    ASSUME NEW S \in SUBSET Nat, S # {}
    PROVE  \E s \in S : \A t \in S : s <= t
<1> DEFINE T == {0 .. s : s \in S}
<1>1. \A s \in S : IsFiniteSet(0 .. s) /\ 0 .. s \in SUBSET Nat
  BY FS_Interval
<1>2. T \subseteq FiniteSubsetsOf(Nat) /\ T # {}
  BY <1>1 DEF FiniteSubsetsOf
<1>3. \E x \in T : \A y \in T : ~ (<<y, x>> \in StrictSubsetOrdering(Nat))
  <2>1. IsWellFoundedOn(StrictSubsetOrdering(Nat), FiniteSubsetsOf(Nat))
    BY FS_StrictSubsetOrderingWellFounded, Zenon
  <2> HIDE DEF T
  <2> QED
    BY <1>2, <2>1, WFMin, Zenon
<1>4. PICK s \in S : \A t \in S : ~ (<<0 .. t, 0 .. s>> \in StrictSubsetOrdering(Nat))
  BY <1>3
<1>5. ASSUME NEW t \in S, t < s PROVE FALSE
  <2>1. 0 .. t \subseteq 0 .. s
    BY <1>5
  <2>2. 0 .. t # 0 .. s
    <3>1. s \in 0 .. s /\ s \notin 0 .. t
      BY <1>5
    <3> QED
      BY <3>1
  <2>3. 0 .. t \in SUBSET Nat /\ 0 .. s \in SUBSET Nat
    BY <1>1
  <2> QED
    BY <1>4, <2>1, <2>2, <2>3 DEF StrictSubsetOrdering
<1> QED
  BY <1>5

LEMMA PositionIsLeast ==
    ASSUME NEW c, U(c).plain \in Seq(Record), conn[c].at \in Nat, Positions(c) # {}
    PROVE  /\ Position(c) \in EventPositions(U(c).plain) /\ Position(c) \in Nat
           /\ conn[c].at <= Position(c)
           /\ \A i \in EventPositions(U(c).plain) :
                 i < Position(c) + 1 <=> i < conn[c].at \/ i = Position(c)
<1> DEFINE S == Positions(c)
           p == Position(c)
<1>1. EventPositions(U(c).plain) \subseteq Nat
  BY DEF EventPositions
<1>2. S \in SUBSET Nat /\ S # {} /\ S \subseteq EventPositions(U(c).plain) /\ \A i \in S : conn[c].at <= i
  BY <1>1 DEF Positions
<1>3. p \in S /\ \A j \in S : p <= j
  <2>1. \E s \in S : \A t \in S : s <= t
    <3> HIDE DEF S
    <3> QED
      BY <1>2, LeastPosition
  <2> QED
    BY <2>1 DEF Position
<1>4. ASSUME NEW i \in EventPositions(U(c).plain)
      PROVE  i < p + 1 <=> i < conn[c].at \/ i = p
  <2>1. i \in Nat /\ p \in Nat /\ conn[c].at \in Nat /\ conn[c].at <= p
    BY <1>1, <1>2, <1>3
  <2>2. i >= conn[c].at => p <= i
    BY <1>3 DEF Positions
  <2> HIDE DEF p
  <2> QED
    BY <2>1, <2>2
<1> QED
  BY <1>2, <1>3, <1>4

LEMMA EventsUpTo ==
    ASSUME NEW u, NEW p \in EventPositions(u.plain), NEW n,
           \A i \in EventPositions(u.plain) : i < p + 1 <=> i < n \/ i = p
    PROVE  EventsBelow(u, p + 1) = EventsBelow(u, n) \cup {Committed!EventAt(u, p)}
BY DEF EventsBelow

LEMMA EventText ==
    ASSUME NEW u, NEW i
    PROVE  Committed!EventAt(u, i).text = u.plain[i].text
BY DEF Committed!EventAt

LEMMA RowsUpTo ==
    ASSUME NEW k, NEW u, NEW p \in EventPositions(u.plain), NEW n,
           \A i \in EventPositions(u.plain) : i < p + 1 <=> i < n \/ i = p
    PROVE  RowsBelow(k, u, p + 1) =
              IF Searchable(u.plain[p])
              THEN RowsBelow(k, u, n) \cup {SearchRowOf(k, Committed!EventAt(u, p))}
              ELSE RowsBelow(k, u, n)
<1>1. EventsBelow(u, p + 1) = EventsBelow(u, n) \cup {Committed!EventAt(u, p)}
  BY EventsUpTo
<1>2. Searchable(u.plain[p]) <=> Committed!EventAt(u, p).text # Blank
  BY EventText DEF EventPositions, Searchable
<1> QED
  BY <1>1, <1>2 DEF RowsBelow

LEMMA NothingBelow ==
    ASSUME NEW k, NEW u, u.plain \in Seq(Record)
    PROVE  EventsBelow(u, 1) = {} /\ RowsBelow(k, u, 1) = {}
BY DEF EventsBelow, RowsBelow, EventPositions

LEMMA AllBelow ==
    ASSUME NEW k, NEW u, NEW n, \A i \in EventPositions(u.plain) : i < n
    PROVE  /\ EventsBelow(u, n) = Committed!NewEvents(u)
           /\ RowsBelow(k, u, n) = Committed!NewSearchRows(k, u)
<1>1. EventPositions(u.plain) = Committed!EventPositions(u.plain)
  BY DEF EventPositions, IsEvent, EventKind,
         Committed!EventPositions, Committed!IsEvent, Committed!EventKind
<1>2. EventsBelow(u, n) = Committed!NewEvents(u)
  BY <1>1 DEF EventsBelow, Committed!NewEvents
<1> QED
  BY <1>2 DEF RowsBelow, SearchRowOf, Committed!NewSearchRows, Committed!SearchText

(* The latest of one timestamp is that timestamp.                          *)
LEMMA ActivityOfOne ==
    ASSUME NEW u \in Upload
    PROVE  LET a == LastActivity(u.plain) IN Latest({a, a}) = a
<1> DEFINE S == {0} \cup {u.plain[i].at : i \in DOMAIN u.plain}
           a == LastActivity(u.plain)
<1>1. S \in SUBSET Time /\ S # {}
  <2>1. u.plain \in Seq(Record)
    BY UploadType
  <2>2. \A i \in DOMAIN u.plain : u.plain[i] \in Record
    BY <2>1
  <2>3. \A i \in DOMAIN u.plain : u.plain[i].at \in Time
    BY <2>2 DEF Record
  <2> QED
    BY <2>3, TimeAssumption
<1>2. a \in S
  <2>1. \E t \in S : \A v \in S : v <= t
    <3> HIDE DEF S
    <3> QED
      BY <1>1, TimeAssumption
  <2> QED
    BY <2>1 DEF LastActivity, Latest
<1>3. a \in Nat
  BY <1>1, <1>2, TimeAssumption
<1> HIDE DEF a
<1> QED
  BY <1>3 DEF Latest

LEMMA SameActivity ==
    ASSUME NEW plain, NEW S
    PROVE  Committed!Latest(S) = Latest(S) /\ Committed!LastActivity(plain) = LastActivity(plain)
BY DEF Committed!Latest, Latest, Committed!LastActivity, LastActivity


-----------------------------------------------------------------------------
(* A transaction that writes, or goes on writing, has the lock alone.      *)
LEMMA WriteStep ==
    ASSUME TxInv, NEW c \in Conn, InTx(c), MayWrite(c),
           db' = db, NEW t, conn' = [conn EXCEPT ![c] = t],
           IsTx(t), t.at \in Nat, t.writes = TRUE, t.stale = conn[c].stale,
           t.key = conn[c].key, t.request = conn[c].request, t.right = conn[c].right,
           t.pc = "checking" => t.at = 1,
           c \in ServerConn =>
               /\ t.pc \in {"checking", "inserting", "indexing", "committing"}
               /\ \A k \in {K(c)}, u \in {U(c)}, v \in {t.view} : PutWrote(c, k, u, v)',
           c \notin ServerConn =>
               /\ t.pc \in {"deleting", "committing"}
               /\ \A k \in {K(c)}, v \in {t.view} : DeleteWrote(c, k, v)'
    PROVE  TxInv'
<1>1. Requested(c) /\ Reads(c) /\ Wrote(c)
  BY TxParts
<1>2. conn'[c] = t
  BY DEF TxInv
<1>3. t.stale = FALSE
  <2>1. conn[c].writes => ~ conn[c].stale
    BY <1>1 DEF Wrote
  <2>2. ~ conn[c].stale
    BY <2>1 DEF MayWrite, Holds
  <2>3. conn[c].stale \in BOOLEAN
    BY <1>1 DEF Requested
  <2> QED
    BY <2>2, <2>3
<1>4. /\ c \in ServerConn => t.pc \in PutPc
      /\ c \notin ServerConn => t.pc \in DeletePc
  BY DEF PutPc, DeletePc
<1>5. Requested(c)' /\ K(c)' = K(c) /\ U(c)' = U(c)
  <2>1. t.writes \in BOOLEAN
    OBVIOUS
  <2> QED
    BY <1>1, <1>2, <1>4, <2>1, StepRequested
<1>6. Pc(c)' = t.pc /\ t.pc \in {"checking", "inserting", "indexing", "committing", "deleting"}
  BY <1>2 DEF Pc
<1>7. Reads(c)'
  BY <1>2, <1>6 DEF Reads
<1>8. Wrote(c)'
  BY <1>2, <1>3, <1>5, <1>6 DEF Wrote
<1>9. ConnInv(c)'
  BY <1>5, <1>6, <1>7, <1>8 DEF ConnInv, AnswerIsRight
<1> QED
  BY <1>9, LocalStep DEF MayWrite

AfterWrite(t, pc, w, view) == [t EXCEPT !.pc = pc, !.writes = w, !.view = view]

LEMMA TxAfterWrite ==
    ASSUME NEW s, IsTx(s), NEW pc, NEW w, NEW view, NEW t, t = AfterWrite(s, pc, w, view)
    PROVE  /\ t.pc = pc /\ t.view = view /\ t.at = s.at /\ t.writes = w
           /\ t.stale = s.stale /\ t.key = s.key /\ t.request = s.request
           /\ t.right = s.right /\ IsTx(t)
BY DEF IsTx, AfterWrite

LEMMA WritesInv ==
    ASSUME TxInv, NEW c \in Conn, InTx(c), NEW pc, NEW view, Writes(c, pc, view),
           pc = "checking" => conn[c].at = 1,
           c \in ServerConn =>
               /\ pc \in {"checking", "inserting", "indexing", "committing"}
               /\ \A k \in {K(c)}, u \in {U(c)} : PutWrote(c, k, u, view)',
           c \notin ServerConn =>
               /\ pc \in {"deleting", "committing"}
               /\ \A k \in {K(c)} : DeleteWrote(c, k, view)'
    PROVE  TxInv'
<1>1. Requested(c)
  BY TxParts
<1>2. IsTx(conn[c]) /\ conn[c].at \in Nat
  BY <1>1 DEF Requested
<1>3. PICK t : t = AfterWrite(conn[c], pc, TRUE, view)
  OBVIOUS
<1>4. /\ t.pc = pc /\ t.view = view /\ t.at = conn[c].at /\ t.writes = TRUE
      /\ t.stale = conn[c].stale /\ t.key = conn[c].key /\ t.request = conn[c].request
      /\ t.right = conn[c].right /\ IsTx(t)
  <2>1. PICK w : w = TRUE
    OBVIOUS
  <2>2. t = AfterWrite(conn[c], pc, w, view)
    BY <1>3, <2>1, Zenon
  <2>3. /\ t.pc = pc /\ t.view = view /\ t.at = conn[c].at /\ t.writes = w
        /\ t.stale = conn[c].stale /\ t.key = conn[c].key /\ t.request = conn[c].request
        /\ t.right = conn[c].right /\ IsTx(t)
    BY <1>2, <2>2, TxAfterWrite
  <2> QED
    BY <2>1, <2>3, Zenon
<1>5. MayWrite(c) /\ db' = db /\ conn' = [conn EXCEPT ![c] = t]
  BY <1>3, Zenon DEF Writes, AfterWrite
<1> QED
  BY <1>2, <1>4, <1>5, WriteStep

LEMMA InsertSessionInv ==
    ASSUME TxInv, NEW c \in Conn, InsertSession(c)
    PROVE  TxInv'
<1>1. /\ c \in ServerConn /\ Pc(c) = "creating" /\ InTx(c) /\ U(c).start = 0
      /\ conn[c].view.nextSessionId <= MaxRowId
  BY DEF InsertSession, Putting, InTx
<1>2. Requested(c) /\ Reads(c) /\ Wrote(c) /\ TablesOK
  BY <1>1, TxParts DEF TxInv
<1> DEFINE row(u) == [id |-> db.nextSessionId, next |-> 0, hash |-> << >>,
                      activity |-> LastActivity(u.plain), meta |-> u.plain[1]]
           new(k, u) == [db EXCEPT !.sessions[k] = row(u), !.nextSessionId = @ + 1]
<1>3. MayWrite(c) /\ db' = db
  BY DEF InsertSession, Writes
<1>4. ~ conn[c].writes /\ conn[c].view = db
  BY <1>1, <1>2, <1>3 DEF Reads, MayWrite, Holds
<1>5. \A k \in {K(c)} : k \in Key /\ ~ Committed!Known(k)
  BY <1>1, <1>2, <1>4, ViewIsCommitted DEF Reads, Requested
<1>6. Writes(c, "checking", new(K(c), U(c)))
  BY <1>4, Zenon DEF InsertSession
<1>7. Pc(c)' = "checking"
  BY DEF InsertSession, Writes, Pc, TxInv
<1>8. ASSUME NEW k, NEW u, NEW v, k = K(c), u = U(c), v = new(k, u)
      PROVE  PutWrote(c, k, u, v)'
  <2>1. /\ v.sessions = [db.sessions EXCEPT ![k] = row(u)] /\ v.chunks = db.chunks
        /\ v.events = db.events /\ v.fts = db.fts
        /\ v.nextSessionId = db.nextSessionId + 1 /\ v.nextEventId = db.nextEventId
        /\ IsTables(v)
    <3> HIDE DEF row
    <3>1. IsTables(db)
      BY <1>2 DEF TablesOK
    <3> QED
      BY <1>8, <3>1 DEF IsTables
  <2>2. ~ Committed!Known(k) /\ Opened(k, u) = row(u)
    BY <1>5, <1>8 DEF Opened
  <2>3. RowIsOpened(k, u, v) /\ OnlyRow(v)
    BY <2>1, <2>2 DEF RowIsOpened, OnlyRow
  <2>4. Committed!MayOpen(k, u)
    BY <1>1, <1>4, <1>8 DEF Committed!MayOpen
  <2>5. IsTables(v)' /\ v.nextSessionId = db'.nextSessionId + 1
    BY <1>3, <2>1 DEF IsTables
  <2> HIDE DEF row
  <2> QED
    BY <1>3, <1>7, <2>2, <2>3, <2>4, <2>5, SameTables, SameParts DEF PutWrote
<1> HIDE DEF new
<1> QED
  BY <1>1, <1>2, <1>6, <1>8, WritesInv DEF Reads


(* What a chunk that may be written finds in the view.                     *)
LEMMA CheckedView ==
    ASSUME TxInv, NEW c \in Conn, Putting(c, "checking"), MayWrite(c),
           NEW k, NEW u, NEW v, k = K(c), u = U(c), v = conn[c].view
    PROVE  /\ k \in Key /\ TablesOK
           /\ IsTables(v) /\ Committed!MayOpen(k, u)
           /\ v.nextSessionId =
                 IF Committed!Known(k) THEN db.nextSessionId ELSE db.nextSessionId + 1
           /\ RowIsOpened(k, u, v) /\ OnlyRow(v)
           /\ View(c)!IsNext(k, u) <=> Committed!IsNext(k, u)
           /\ View(c)!PrefixMatches(k, u) <=> Committed!PrefixMatches(k, u)
           /\ View(c)!KeysFree(k, u) <=> Committed!KeysFree(k, u)
<1>1. c \in ServerConn /\ Pc(c) = "checking" /\ InTx(c)
  BY DEF Putting, InTx
<1>2. Requested(c) /\ Reads(c) /\ Wrote(c) /\ TablesOK /\ k \in Key
  BY <1>1, TxParts DEF TxInv, Requested
<1>3. /\ IsTables(v) /\ Committed!MayOpen(k, u)
      /\ v.nextSessionId =
            IF Committed!Known(k) THEN db.nextSessionId ELSE db.nextSessionId + 1
      /\ RowIsOpened(k, u, v) /\ OnlyRow(v)
  <2>1. CASE conn[c].writes
    BY <1>1, <2>1, CheckingView DEF PutWrote
  <2>2. CASE ~ conn[c].writes
    <3>1. v = db
      BY <1>1, <1>2, <2>2 DEF Reads, MayWrite, Holds
    <3>2. Committed!Known(k)
      BY <1>1, <1>2, <2>2, <3>1, ViewIsCommitted DEF Reads
    <3>3. db.sessions = [db.sessions EXCEPT ![k] = db.sessions[k]]
      BY <1>2 DEF TablesOK
    <3>4. RowIsOpened(k, u, v) /\ OnlyRow(v)
      BY <3>1, <3>2, <3>3 DEF RowIsOpened, OnlyRow, Opened
    <3> QED
      BY <1>2, <3>1, <3>2, <3>4 DEF TablesOK, Committed!MayOpen
  <2> QED
    BY <2>1, <2>2
<1>4. View(c)!KeysFree(k, u) <=> Committed!KeysFree(k, u)
  <2>1. v.chunks = db.chunks /\ v.events = db.events
    BY <1>3 DEF OnlyRow
  <2> QED
    BY <2>1 DEF View!KeysFree, View!EventPositions, View!IsEvent, View!EventKind,
                Committed!KeysFree, Committed!EventPositions, Committed!IsEvent,
                Committed!EventKind
<1>5. conn[c].view.sessions = [db.sessions EXCEPT ![k] = Opened(k, u)]
  BY <1>3 DEF RowIsOpened
<1>6. /\ View(c)!IsNext(k, u) <=> Committed!IsNext(k, u)
      /\ View(c)!PrefixMatches(k, u) <=> Committed!PrefixMatches(k, u)
  BY <1>2, <1>5, OpenedView
<1> QED
  BY <1>2, <1>3, <1>4, <1>6

LEMMA InsertChunkInv ==
    ASSUME TxInv, NEW c \in Conn, InsertChunk(c)
    PROVE  TxInv'
<1> DEFINE new(k, u, v) == [v EXCEPT !.chunks[k] = @ \cup {Committed!NewChunk(u)}]
<1>1. /\ Putting(c, "checking") /\ c \in ServerConn /\ Pc(c) = "checking" /\ InTx(c)
      /\ MayAppend(c) /\ View(c)!KeysFree(K(c), U(c))
      /\ MayWrite(c) /\ db' = db
  BY DEF InsertChunk, Putting, InTx, Writes
<1>2. Requested(c) /\ Reads(c)
  BY <1>1, TxParts
<1>3. Writes(c, "inserting", new(K(c), U(c), conn[c].view))
  <2>1. \A u : View(c)!NewChunk(u) = Committed!NewChunk(u)
    BY DEF View!NewChunk, Committed!NewChunk
  <2> QED
    BY <2>1, Zenon DEF InsertChunk
<1>4. Pc(c)' = "inserting" /\ conn'[c].at = 1
  BY <1>1, <1>2 DEF InsertChunk, Writes, Pc, TxInv, Reads
<1>5. ASSUME NEW k, NEW u, NEW v, NEW w, k = K(c), u = U(c), v = conn[c].view, w = new(k, u, v)
      PROVE  PutWrote(c, k, u, w)'
  <2>1. /\ TablesOK /\ IsTables(v) /\ Committed!MayOpen(k, u)
        /\ v.nextSessionId =
              IF Committed!Known(k) THEN db.nextSessionId ELSE db.nextSessionId + 1
        /\ RowIsOpened(k, u, v) /\ OnlyRow(v)
    BY <1>1, <1>5, CheckedView
  <2>2. Committed!IsNext(k, u) /\ Committed!PrefixMatches(k, u) /\ Committed!KeysFree(k, u)
    BY <1>1, <1>5, CheckedView DEF MayAppend
  <2>3. /\ w.sessions = v.sessions /\ w.events = v.events /\ w.fts = v.fts
        /\ w.chunks = [v.chunks EXCEPT ![k] = @ \cup {Committed!NewChunk(u)}]
        /\ w.nextSessionId = v.nextSessionId /\ w.nextEventId = v.nextEventId
        /\ IsTables(w)
    BY <1>5, <2>1 DEF IsTables
  <2>4. RowIsOpened(k, u, w)
    BY <2>1, <2>3 DEF RowIsOpened
  <2>5. ChunkIsIn(k, u, w)
    BY <2>1, <2>2, <2>3 DEF ChunkIsIn, OnlyRow
  <2>6. w.fts = db.fts \cup RowsBelow(k, u, 1) /\ w.events = WithEvents(k, u, 1)
    <3>1. EventsBelow(u, 1) = {} /\ RowsBelow(k, u, 1) = {}
      BY <1>1, <1>2, <1>5, UploadType, NothingBelow DEF Requested
    <3>2. db.events = [db.events EXCEPT ![k] = @ \cup {}]
      BY <2>1 DEF TablesOK
    <3> QED
      BY <2>1, <2>3, <3>1, <3>2 DEF OnlyRow, WithEvents
  <2>7. /\ (w.fts = db.fts \cup RowsBelow(k, u, conn[c].at))'
        /\ (w.events = WithEvents(k, u, conn[c].at))'
    BY <1>1, <1>4, <2>6, SameRows
  <2>8. IsTables(w)'
    BY <2>3 DEF IsTables
  <2>9. (w.nextSessionId =
            IF Committed!Known(k) THEN db.nextSessionId ELSE db.nextSessionId + 1)'
    BY <1>1, <2>1, <2>3, SameTables
  <2> QED
    BY <1>1, <1>4, <2>1, <2>4, <2>5, <2>7, <2>8, <2>9, SameTables, SameParts DEF PutWrote
<1> HIDE DEF new
<1> QED
  BY <1>1, <1>3, <1>5, WritesInv


-----------------------------------------------------------------------------
(* A transaction in the loop over the events of its chunk.                 *)
LEMMA LoopView ==
    ASSUME TxInv, NEW c \in Conn, Putting(c, "inserting") \/ Putting(c, "indexing"),
           NEW k, NEW u, NEW v, k = K(c), u = U(c), v = conn[c].view
    PROVE  /\ c \in ServerConn /\ InTx(c) /\ MayWrite(c) /\ k \in Key /\ TablesOK
           /\ IsTx(conn[c]) /\ conn[c].at \in Nat /\ conn[c].writes = TRUE
           /\ u \in Upload /\ u.plain \in Seq(Record)
           /\ PutWrote(c, k, u, v)
           /\ IsTables(v) /\ Committed!MayOpen(k, u)
           /\ v.nextSessionId =
                 IF Committed!Known(k) THEN db.nextSessionId ELSE db.nextSessionId + 1
           /\ RowIsOpened(k, u, v) /\ ChunkIsIn(k, u, v)
           /\ v.fts = db.fts \cup RowsBelow(k, u, conn[c].at)
           /\ \A i : View(c)!EventAt(u, i) = Committed!EventAt(u, i)
<1>1. c \in ServerConn /\ Pc(c) \in {"inserting", "indexing"} /\ InTx(c)
  BY DEF Putting, InTx
<1>2. Requested(c) /\ Wrote(c) /\ TablesOK
  BY <1>1, TxParts DEF TxInv
<1>3. /\ k \in Key /\ IsTx(conn[c]) /\ conn[c].at \in Nat /\ u \in Upload
      /\ conn[c].writes \in BOOLEAN
  BY <1>1, <1>2 DEF Requested
<1>4. conn[c].writes /\ PutWrote(c, k, u, v)
  BY <1>1, <1>2 DEF Wrote
<1>5. conn[c].writes = TRUE
  BY <1>3, <1>4
<1>6. MayWrite(c)
  BY <1>1, <1>4 DEF MayWrite, Holds, Active
<1>7. u.plain \in Seq(Record)
  BY <1>3, UploadType
<1>8. /\ IsTables(v) /\ Committed!MayOpen(k, u)
      /\ v.nextSessionId =
            IF Committed!Known(k) THEN db.nextSessionId ELSE db.nextSessionId + 1
      /\ RowIsOpened(k, u, v) /\ ChunkIsIn(k, u, v)
      /\ v.fts = db.fts \cup RowsBelow(k, u, conn[c].at)
  BY <1>1, <1>4 DEF PutWrote
<1>9. v.nextEventId = db.nextEventId
  BY <1>8 DEF RowIsOpened
<1>10. \A i : View(c)!EventAt(u, i) = Committed!EventAt(u, i)
  BY <1>9 DEF View!EventAt, View!RowIdOf, Committed!EventAt, Committed!RowIdOf
<1> QED
  BY <1>1, <1>2, <1>3, <1>4, <1>5, <1>6, <1>7, <1>8, <1>10

AfterLoop(t, pc, at, view) == [t EXCEPT !.pc = pc, !.at = at, !.view = view]

LEMMA TxAfterLoop ==
    ASSUME NEW s, IsTx(s), NEW pc, NEW at, NEW view, NEW t, t = AfterLoop(s, pc, at, view)
    PROVE  /\ t.pc = pc /\ t.view = view /\ t.at = at /\ t.writes = s.writes
           /\ t.stale = s.stale /\ t.key = s.key /\ t.request = s.request
           /\ t.right = s.right /\ IsTx(t)
BY DEF IsTx, AfterLoop

(* The tables a step of the loop leaves alone.                             *)
LEMMA LoopKeeps ==
    ASSUME NEW k, NEW u, NEW v, NEW w, IsTables(w),
           w.sessions = v.sessions, w.chunks = v.chunks,
           w.nextSessionId = v.nextSessionId, w.nextEventId = v.nextEventId,
           db' = db, IsTables(v), Committed!MayOpen(k, u),
           v.nextSessionId =
                 IF Committed!Known(k) THEN db.nextSessionId ELSE db.nextSessionId + 1,
           RowIsOpened(k, u, v), ChunkIsIn(k, u, v)
    PROVE  /\ IsTables(w)' /\ Committed!MayOpen(k, u)'
           /\ (w.nextSessionId =
                 IF Committed!Known(k) THEN db.nextSessionId ELSE db.nextSessionId + 1)'
           /\ RowIsOpened(k, u, w)' /\ ChunkIsIn(k, u, w)'
<1>1. IsTables(w)'
  BY DEF IsTables
<1>2. RowIsOpened(k, u, w) /\ ChunkIsIn(k, u, w)
  BY DEF RowIsOpened, ChunkIsIn
<1>3. /\ Committed!MayOpen(k, u)'
      /\ (w.nextSessionId =
            IF Committed!Known(k) THEN db.nextSessionId ELSE db.nextSessionId + 1)'
  BY SameTables
<1> QED
  BY <1>1, <1>2, <1>3, SameParts

LEMMA InsertSearchRowInv ==
    ASSUME TxInv, NEW c \in Conn, InsertSearchRow(c)
    PROVE  TxInv'
<1> DEFINE new(k, u, v) ==
             [v EXCEPT !.fts = @ \cup {SearchRowOf(k, Committed!EventAt(u, Position(c)))}]
<1>1. PICK k, u, v, p, t :
         /\ k = K(c) /\ u = U(c) /\ v = conn[c].view /\ p = Position(c)
         /\ t = AfterLoop(conn[c], "inserting", p + 1, new(k, u, v))
  OBVIOUS
<1>2. Putting(c, "indexing") /\ Pc(c) = "indexing" /\ db' = db
  BY DEF InsertSearchRow, Putting
<1>3. /\ c \in ServerConn /\ InTx(c) /\ MayWrite(c) /\ k \in Key /\ TablesOK
      /\ IsTx(conn[c]) /\ conn[c].at \in Nat /\ conn[c].writes = TRUE
      /\ u \in Upload /\ u.plain \in Seq(Record) /\ PutWrote(c, k, u, v)
      /\ IsTables(v) /\ Committed!MayOpen(k, u)
      /\ v.nextSessionId =
            IF Committed!Known(k) THEN db.nextSessionId ELSE db.nextSessionId + 1
      /\ RowIsOpened(k, u, v) /\ ChunkIsIn(k, u, v)
      /\ v.fts = db.fts \cup RowsBelow(k, u, conn[c].at)
      /\ \A i : View(c)!EventAt(u, i) = Committed!EventAt(u, i)
  BY <1>1, <1>2, LoopView
<1>4. /\ Positions(c) # {} /\ Searchable(u.plain[p]) /\ v.events = WithEvents(k, u, p + 1)
  BY <1>1, <1>2, <1>3 DEF PutWrote
<1>5. /\ p \in EventPositions(u.plain) /\ p \in Nat
      /\ \A i \in EventPositions(u.plain) : i < p + 1 <=> i < conn[c].at \/ i = p
  BY <1>1, <1>3, <1>4, PositionIsLeast
<1>6. conn' = [conn EXCEPT ![c] = t]
  <2>1. View(c)!EventAt(U(c), Position(c)) = Committed!EventAt(u, p)
    BY <1>1, <1>3
  <2> QED
    BY <1>1, <2>1, Zenon DEF InsertSearchRow, AfterLoop, SearchRowOf
<1>7. /\ t.pc = "inserting" /\ t.view = new(k, u, v) /\ t.at = p + 1 /\ t.writes = conn[c].writes
      /\ t.stale = conn[c].stale /\ t.key = conn[c].key /\ t.request = conn[c].request
      /\ t.right = conn[c].right /\ IsTx(t)
  <2> HIDE DEF new
  <2> QED
    BY <1>1, <1>3, TxAfterLoop
<1>8. Pc(c)' = "inserting" /\ conn'[c].at = p + 1
  <2> HIDE DEF new
  <2> QED
    BY <1>6, <1>7 DEF Pc, TxInv
<1>9. ASSUME NEW w, w = new(k, u, v)
      PROVE  PutWrote(c, k, u, w)'
  <2>1. /\ w.sessions = v.sessions /\ w.events = v.events /\ w.chunks = v.chunks
        /\ w.fts = v.fts \cup {SearchRowOf(k, Committed!EventAt(u, p))}
        /\ w.nextSessionId = v.nextSessionId /\ w.nextEventId = v.nextEventId
        /\ IsTables(w)
    BY <1>1, <1>3, <1>9 DEF IsTables
  <2>2. /\ IsTables(w)' /\ Committed!MayOpen(k, u)'
        /\ (w.nextSessionId =
              IF Committed!Known(k) THEN db.nextSessionId ELSE db.nextSessionId + 1)'
        /\ RowIsOpened(k, u, w)' /\ ChunkIsIn(k, u, w)'
    BY <1>2, <1>3, <2>1, LoopKeeps
  <2>3. w.fts = db.fts \cup RowsBelow(k, u, p + 1) /\ w.events = WithEvents(k, u, p + 1)
    <3>1. RowsBelow(k, u, p + 1) =
             RowsBelow(k, u, conn[c].at) \cup {SearchRowOf(k, Committed!EventAt(u, p))}
      BY <1>4, <1>5, RowsUpTo
    <3> QED
      BY <1>3, <1>4, <2>1, <3>1
  <2>4. /\ (w.fts = db.fts \cup RowsBelow(k, u, conn[c].at))'
        /\ (w.events = WithEvents(k, u, conn[c].at))'
    BY <1>2, <1>8, <2>3, SameRows
  <2> QED
    BY <1>8, <2>2, <2>4 DEF PutWrote
<1> HIDE DEF new
<1>10. t.at \in Nat
  BY <1>5, <1>7
<1>11. \A l \in {K(c)}, q \in {U(c)}, w \in {t.view} : PutWrote(c, l, q, w)'
  BY <1>1, <1>7, <1>9
<1>12. /\ t.pc \in {"checking", "inserting", "indexing", "committing"}
       /\ t.pc # "checking" /\ t.writes = TRUE
  BY <1>3, <1>7
<1> QED
  BY <1>2, <1>3, <1>6, <1>7, <1>10, <1>11, <1>12, WriteStep


LEMMA InsertEventInv ==
    ASSUME TxInv, NEW c \in Conn, InsertEvent(c)
    PROVE  TxInv'
<1> DEFINE new(k, u, v) ==
             [v EXCEPT !.events[k] = @ \cup {Committed!EventAt(u, Position(c))}]
<1>1. PICK k, u, v, p, pc, at, t :
         /\ k = K(c) /\ u = U(c) /\ v = conn[c].view /\ p = Position(c)
         /\ pc = IF Searchable(u.plain[p]) THEN "indexing" ELSE "inserting"
         /\ at = IF Searchable(u.plain[p]) THEN conn[c].at ELSE p + 1
         /\ t = AfterLoop(conn[c], pc, at, new(k, u, v))
  OBVIOUS
<1>2. Putting(c, "inserting") /\ Pc(c) = "inserting" /\ db' = db /\ Positions(c) # {}
  BY DEF InsertEvent, Putting
<1>3. /\ c \in ServerConn /\ InTx(c) /\ MayWrite(c) /\ k \in Key /\ TablesOK
      /\ IsTx(conn[c]) /\ conn[c].at \in Nat /\ conn[c].writes = TRUE
      /\ u \in Upload /\ u.plain \in Seq(Record) /\ PutWrote(c, k, u, v)
      /\ IsTables(v) /\ Committed!MayOpen(k, u)
      /\ v.nextSessionId =
            IF Committed!Known(k) THEN db.nextSessionId ELSE db.nextSessionId + 1
      /\ RowIsOpened(k, u, v) /\ ChunkIsIn(k, u, v)
      /\ v.fts = db.fts \cup RowsBelow(k, u, conn[c].at)
      /\ \A i : View(c)!EventAt(u, i) = Committed!EventAt(u, i)
  BY <1>1, <1>2, LoopView
<1>4. v.events = WithEvents(k, u, conn[c].at)
  BY <1>2, <1>3 DEF PutWrote
<1>5. /\ p \in EventPositions(u.plain) /\ p \in Nat
      /\ \A i \in EventPositions(u.plain) : i < p + 1 <=> i < conn[c].at \/ i = p
  BY <1>1, <1>2, <1>3, PositionIsLeast
<1>6. conn' = [conn EXCEPT ![c] = t]
  <2>1. View(c)!EventAt(U(c), Position(c)) = Committed!EventAt(u, p)
    BY <1>1, <1>3
  <2>2. conn[c].pc = "inserting"
    BY <1>2 DEF Pc
  <2> QED
    BY <1>1, <2>1, <2>2, Zenon DEF InsertEvent, AfterLoop
<1>7. /\ t.pc = pc /\ t.view = new(k, u, v) /\ t.at = at /\ t.writes = conn[c].writes
      /\ t.stale = conn[c].stale /\ t.key = conn[c].key /\ t.request = conn[c].request
      /\ t.right = conn[c].right /\ IsTx(t)
  <2> HIDE DEF new
  <2> QED
    BY <1>1, <1>3, TxAfterLoop
<1>8. Pc(c)' = pc /\ conn'[c].at = at /\ U(c)' = u
  <2> HIDE DEF new
  <2> QED
    BY <1>1, <1>6, <1>7 DEF Pc, TxInv, U
<1>9. ASSUME NEW w, w = new(k, u, v)
      PROVE  PutWrote(c, k, u, w)'
  <2>1. /\ w.sessions = v.sessions /\ w.chunks = v.chunks /\ w.fts = v.fts
        /\ w.events = [v.events EXCEPT ![k] = @ \cup {Committed!EventAt(u, p)}]
        /\ w.nextSessionId = v.nextSessionId /\ w.nextEventId = v.nextEventId
        /\ IsTables(w)
    BY <1>1, <1>3, <1>9 DEF IsTables
  <2>2. /\ IsTables(w)' /\ Committed!MayOpen(k, u)'
        /\ (w.nextSessionId =
              IF Committed!Known(k) THEN db.nextSessionId ELSE db.nextSessionId + 1)'
        /\ RowIsOpened(k, u, w)' /\ ChunkIsIn(k, u, w)'
    BY <1>2, <1>3, <2>1, LoopKeeps
  <2>3. w.events = WithEvents(k, u, p + 1)
    <3>1. EventsBelow(u, p + 1) =
             EventsBelow(u, conn[c].at) \cup {Committed!EventAt(u, p)}
      BY <1>5, EventsUpTo
    <3>2. k \in DOMAIN db.events
      BY <1>3 DEF TablesOK
    <3> QED
      BY <1>4, <2>1, <3>1, <3>2 DEF WithEvents
  <2>4. (w.fts = db.fts \cup RowsBelow(k, u, conn[c].at))'
    <3>1. ~ Searchable(u.plain[p]) => RowsBelow(k, u, p + 1) = RowsBelow(k, u, conn[c].at)
      BY <1>5, RowsUpTo
    <3>2. RowsBelow(k, u, at) = RowsBelow(k, u, conn[c].at)
      BY <1>1, <3>1
    <3> QED
      BY <1>2, <1>3, <1>8, <2>1, <3>2, SameRows
  <2>5. ASSUME ~ Searchable(u.plain[p])
        PROVE  PutWrote(c, k, u, w)'
    <3>1. Pc(c)' = "inserting" /\ at = p + 1
      BY <1>1, <1>8, <2>5
    <3>2. (w.events = WithEvents(k, u, conn[c].at))'
      BY <1>2, <1>8, <2>3, <3>1, SameRows
    <3> QED
      BY <2>2, <2>4, <3>1, <3>2 DEF PutWrote
  <2>6. ASSUME Searchable(u.plain[p])
        PROVE  PutWrote(c, k, u, w)'
    <3>1. Pc(c)' = "indexing" /\ at = conn[c].at
      BY <1>1, <1>8, <2>6
    <3>2. Positions(c)' = Positions(c)
      BY <1>1, <1>8, <3>1 DEF Positions
    <3>3. Position(c)' = p
      BY <1>1, <3>2 DEF Position
    <3>4. (w.events = WithEvents(k, u, Position(c) + 1))'
      BY <1>2, <2>3, <3>3, SameRows
    <3> QED
      BY <1>2, <2>2, <2>4, <2>6, <3>1, <3>2, <3>3, <3>4 DEF PutWrote
  <2> QED
    BY <2>5, <2>6
<1> HIDE DEF new
<1>10. t.at \in Nat
  BY <1>1, <1>3, <1>5, <1>7
<1>11. \A l \in {K(c)}, q \in {U(c)}, w \in {t.view} : PutWrote(c, l, q, w)'
  BY <1>1, <1>7, <1>9
<1>12. /\ t.pc \in {"checking", "inserting", "indexing", "committing"}
       /\ t.pc # "checking" /\ t.writes = TRUE
  BY <1>1, <1>3, <1>7
<1> QED
  BY <1>2, <1>3, <1>6, <1>7, <1>10, <1>11, <1>12, WriteStep

RowWith(r, next, hash, activity) ==
    [r EXCEPT !.next = next, !.hash = hash, !.activity = activity]

LEMMA RowIsWith ==
    ASSUME NEW r, IsRow(r), NEW next, NEW hash, NEW activity
    PROVE  RowWith(r, next, hash, activity) =
              [id |-> r.id, next |-> next, hash |-> hash, activity |-> activity, meta |-> r.meta]
<1>1. PICK t : t = RowWith(r, next, hash, activity)
  OBVIOUS
<1>2. /\ t.id = r.id /\ t.next = next /\ t.hash = hash /\ t.activity = activity
      /\ t.meta = r.meta /\ IsRow(t)
  BY <1>1 DEF IsRow, RowWith
<1> QED
  BY <1>1, <1>2 DEF IsRow

LEMMA UpdateSessionInv ==
    ASSUME TxInv, NEW c \in Conn, UpdateSession(c)
    PROVE  TxInv'
<1> DEFINE row(u, r) == RowWith(r, u.end, r.hash \o u.plain,
                                Latest({r.activity, LastActivity(u.plain)}))
           new(k, u, v) == [v EXCEPT !.sessions[k] = row(u, v.sessions[k]),
                                     !.nextEventId = @ + Len(u.plain)]
<1>1. PICK k, u, v : k = K(c) /\ u = U(c) /\ v = conn[c].view
  OBVIOUS
<1>2. Putting(c, "inserting") /\ Pc(c) = "inserting" /\ db' = db /\ Positions(c) = {}
  BY DEF UpdateSession, Putting, Writes
<1>3. /\ c \in ServerConn /\ InTx(c) /\ MayWrite(c) /\ k \in Key /\ TablesOK
      /\ conn[c].at \in Nat /\ u \in Upload /\ u.plain \in Seq(Record) /\ PutWrote(c, k, u, v)
      /\ IsTables(v) /\ Committed!MayOpen(k, u)
      /\ v.nextSessionId =
            IF Committed!Known(k) THEN db.nextSessionId ELSE db.nextSessionId + 1
      /\ RowIsOpened(k, u, v) /\ ChunkIsIn(k, u, v)
      /\ v.fts = db.fts \cup RowsBelow(k, u, conn[c].at)
  BY <1>1, <1>2, LoopView
<1>4. v.events = WithEvents(k, u, conn[c].at)
  BY <1>2, <1>3 DEF PutWrote
<1>5. Writes(c, "committing", new(k, u, v))
  BY <1>1, Zenon DEF UpdateSession, RowWith
<1>6. Pc(c)' = "committing"
  BY DEF UpdateSession, Writes, Pc, TxInv
<1>7. \A i \in EventPositions(u.plain) : i < conn[c].at
  <2>1. \A i \in EventPositions(u.plain) : i \in Nat
    BY <1>3 DEF EventPositions
  <2> QED
    BY <1>1, <1>2, <1>3, <2>1 DEF Positions
<1>8. row(u, Opened(k, u)) = Committed!RowAfter(k, u)
  <2>1. \A S : Committed!Latest(S) = Latest(S) /\ Committed!LastActivity(u.plain) = LastActivity(u.plain)
    BY SameActivity
  <2>2. CASE Committed!Known(k)
    <3>1. IsRow(db.sessions[k])
      BY <1>3, <2>2 DEF TablesOK
    <3>2. PICK r : r = db.sessions[k]
      OBVIOUS
    <3>3. Opened(k, u) = r /\ IsRow(r)
      BY <2>2, <3>1, <3>2 DEF Opened
    <3>4. Committed!RowAfter(k, u) =
             [id |-> r.id, next |-> u.end, hash |-> r.hash \o u.plain,
              activity |-> Latest({r.activity, LastActivity(u.plain)}), meta |-> r.meta]
      BY <2>1, <2>2, <3>2 DEF Committed!RowAfter, Committed!IdOf, Committed!HashState,
                              Committed!ActivityAfter, Committed!MetaOf
    <3> QED
      <4>1. PICK h, a : h = r.hash \o u.plain /\ a = Latest({r.activity, LastActivity(u.plain)})
        OBVIOUS
      <4>2. RowWith(r, u.end, h, a) =
               [id |-> r.id, next |-> u.end, hash |-> h, activity |-> a, meta |-> r.meta]
        BY <3>3, RowIsWith
      <4>3. row(u, Opened(k, u)) = RowWith(r, u.end, h, a)
        BY <3>3, <4>1, Zenon
      <4> QED
        BY <3>4, <4>1, <4>2, <4>3, Zenon
  <2>3. CASE ~ Committed!Known(k)
    <3>1. PICK a : a = LastActivity(u.plain)
      OBVIOUS
    <3>2. Opened(k, u) = [id |-> db.nextSessionId, next |-> 0, hash |-> << >>,
                          activity |-> a, meta |-> u.plain[1]]
      BY <2>3, <3>1 DEF Opened
    <3>3. Committed!RowAfter(k, u) =
             [id |-> db.nextSessionId, next |-> u.end, hash |-> << >> \o u.plain,
              activity |-> a, meta |-> u.plain[1]]
      BY <2>1, <2>3, <3>1 DEF Committed!RowAfter, Committed!IdOf, Committed!HashState,
                              Committed!ActivityAfter, Committed!MetaOf
    <3>4. Latest({a, a}) = a
      BY <1>3, <3>1, ActivityOfOne
    <3>5. /\ IsRow(Opened(k, u)) /\ Opened(k, u).id = db.nextSessionId
          /\ Opened(k, u).hash = << >> /\ Opened(k, u).activity = a
          /\ Opened(k, u).meta = u.plain[1]
      BY <3>2 DEF IsRow
    <3> QED
      BY <3>1, <3>3, <3>4, <3>5, RowIsWith
  <2> QED
    BY <2>2, <2>3
<1> HIDE DEF row
<1>9. ASSUME NEW w, w = new(k, u, v)
      PROVE  PutWrote(c, k, u, w)'
  <2>1. /\ w.sessions = [v.sessions EXCEPT ![k] = row(u, v.sessions[k])]
        /\ w.chunks = v.chunks /\ w.events = v.events /\ w.fts = v.fts
        /\ w.nextSessionId = v.nextSessionId /\ w.nextEventId = v.nextEventId + Len(u.plain)
        /\ IsTables(w)
    BY <1>3, <1>9 DEF IsTables
  <2>2. w.sessions = [db.sessions EXCEPT ![k] = Committed!RowAfter(k, u)]
    <3>1. v.sessions = [db.sessions EXCEPT ![k] = Opened(k, u)]
      BY <1>3 DEF RowIsOpened
    <3>2. k \in DOMAIN db.sessions
      BY <1>3 DEF TablesOK
    <3>3. v.sessions[k] = Opened(k, u)
      BY <3>1, <3>2
    <3> QED
      BY <1>8, <2>1, <3>1, <3>2, <3>3
  <2>3. AllIsIn(k, u, w)
    <3>1. /\ EventsBelow(u, conn[c].at) = Committed!NewEvents(u)
          /\ RowsBelow(k, u, conn[c].at) = Committed!NewSearchRows(k, u)
      BY <1>7, AllBelow
    <3> QED
      BY <1>3, <1>4, <2>1, <2>2, <3>1 DEF AllIsIn, WithEvents, RowIsOpened
  <2>4. ChunkIsIn(k, u, w)
    BY <1>3, <2>1 DEF ChunkIsIn
  <2>5. IsTables(w)' /\ ChunkIsIn(k, u, w)' /\ AllIsIn(k, u, w)'
    BY <1>2, <2>1, <2>3, <2>4, SameParts DEF IsTables
  <2>6. /\ Committed!MayOpen(k, u)'
        /\ (w.nextSessionId =
              IF Committed!Known(k) THEN db.nextSessionId ELSE db.nextSessionId + 1)'
    BY <1>2, <1>3, <2>1, SameTables
  <2> QED
    BY <1>6, <2>5, <2>6 DEF PutWrote
<1> HIDE DEF new
<1> QED
  BY <1>1, <1>3, <1>5, <1>9, WritesInv


-----------------------------------------------------------------------------
(* The statements of DeleteSession.                                        *)
LEMMA DeleteSearchRowsInv ==
    ASSUME TxInv, NEW c \in Conn, DeleteSearchRows(c)
    PROVE  TxInv'
<1> DEFINE new(k) == [db EXCEPT !.fts = @ \ Committed!SearchRowsOf(k)]
<1>1. /\ c \in AdminConn /\ c \notin ServerConn /\ Pc(c) = "begun" /\ InTx(c)
  BY ConnAssumption DEF DeleteSearchRows, Deleting, InTx
<1>2. Writes(c, "deleting", new(K(c)))
  BY DEF DeleteSearchRows
<1>3. db' = db /\ Pc(c)' = "deleting"
  BY DEF DeleteSearchRows, Writes, Pc, TxInv
<1>4. TablesOK
  BY DEF TxInv
<1>5. ASSUME NEW k, NEW w, w = new(k)
      PROVE  DeleteWrote(c, k, w)'
  <2>1. /\ w.sessions = db.sessions /\ w.chunks = db.chunks /\ w.events = db.events
        /\ w.fts = db.fts \ Committed!SearchRowsOf(k)
        /\ w.nextSessionId = db.nextSessionId /\ w.nextEventId = db.nextEventId
        /\ IsTables(w)
    BY <1>4, <1>5 DEF TablesOK, IsTables
  <2>2. IsTables(w)'
    BY <2>1 DEF IsTables
  <2> QED
    BY <1>3, <2>1, <2>2, SameTables DEF DeleteWrote
<1> HIDE DEF new
<1> QED
  BY <1>1, <1>2, <1>5, WritesInv

LEMMA DeleteRowInv ==
    ASSUME TxInv, NEW c \in Conn, DeleteRow(c)
    PROVE  TxInv'
<1> DEFINE new(k, v) == [v EXCEPT !.sessions[k] = NoRow, !.chunks[k] = {}, !.events[k] = {}]
<1>1. PICK k, v : k = K(c) /\ v = conn[c].view
  OBVIOUS
<1>2. /\ c \in AdminConn /\ c \notin ServerConn /\ Pc(c) = "deleting" /\ InTx(c)
      /\ View(c)!Known(k)
  BY <1>1, ConnAssumption DEF DeleteRow, Deleting, InTx
<1>3. Writes(c, "committing", new(k, v))
  BY <1>1 DEF DeleteRow
<1>4. db' = db /\ Pc(c)' = "committing"
  BY DEF DeleteRow, Writes, Pc, TxInv
<1>5. /\ IsTables(v) /\ v.fts = db.fts \ Committed!SearchRowsOf(k)
      /\ v.nextSessionId = db.nextSessionId /\ v.nextEventId = db.nextEventId
      /\ v.sessions = db.sessions /\ v.chunks = db.chunks /\ v.events = db.events
  <2>1. Wrote(c)
    BY <1>2, TxParts
  <2> QED
    BY <1>1, <1>2, <2>1 DEF Wrote, DeleteWrote
<1>6. Committed!Known(k)
  BY <1>1, <1>2, <1>5 DEF Committed!Known, View!Known
<1>7. ASSUME NEW w, w = new(k, v)
      PROVE  DeleteWrote(c, k, w)'
  <2>1. /\ w.sessions = [v.sessions EXCEPT ![k] = NoRow]
        /\ w.chunks = [v.chunks EXCEPT ![k] = {}] /\ w.events = [v.events EXCEPT ![k] = {}]
        /\ w.fts = v.fts /\ w.nextSessionId = v.nextSessionId /\ w.nextEventId = v.nextEventId
        /\ IsTables(w)
    BY <1>5, <1>7 DEF IsTables
  <2>2. IsTables(w)'
    BY <2>1 DEF IsTables
  <2>3. Committed!Known(k)' /\ Committed!SearchRowsOf(k)' = Committed!SearchRowsOf(k)
    BY <1>4, <1>6, SameTables
  <2> QED
    BY <1>4, <1>5, <2>1, <2>2, <2>3 DEF DeleteWrote
<1> HIDE DEF new
<1> QED
  BY <1>1, <1>2, <1>3, <1>7, WritesInv

-----------------------------------------------------------------------------
(***************************************************************************)
(* COMMIT.  The transaction holds the lock, so the others have only read;  *)
(* what they read is stale now, and the answer that is right now is noted  *)
(* for each of them.                                                       *)
(***************************************************************************)
LEMMA OthersAfterCommit ==
    ASSUME TxInv, NEW c \in Conn, Holds(c), NEW answer, Commits(c, answer),
           NEW d \in Conn, d # c
    PROVE  ConnInv(d)' /\ ~ Holds(d)'
<1>1. conn'[d] = IF Pc(d) \in {"idle", "answered"} THEN conn[d]
                 ELSE [conn[d] EXCEPT !.stale = @ \/ HasRead(d), !.right = @ \cup NowRight(d)]
  BY DEF Commits
<1>2. ConnInv(d) /\ ~ Holds(d)
  BY DEF TxInv
<1>3. CASE ~ InTx(d)
  <2>1. conn'[d] = conn[d]
    BY <1>1, <1>3 DEF InTx
  <2>2. Pc(d)' = Pc(d)
    BY <2>1 DEF Pc
  <2>3. AnswerIsRight(d)' /\ ~ InTx(d)'
    BY <1>2, <1>3, <2>1, <2>2 DEF ConnInv, AnswerIsRight, InTx
  <2> QED
    BY <1>2, <2>1, <2>2, <2>3 DEF ConnInv, Holds, Active
<1>4. CASE InTx(d)
  <2> DEFINE stale == conn[d].stale \/ HasRead(d)
  <2>1. Requested(d) /\ Reads(d) /\ Wrote(d) /\ IsTx(conn[d])
    BY <1>4, TxParts DEF Requested
  <2>2. ~ conn[d].writes
    BY <1>2, <1>4 DEF Holds, Active, InTx
  <2>3. PICK s, r : s = stale /\ r = conn[d].right \cup NowRight(d)
                    /\ conn'[d] = [conn[d] EXCEPT !.stale = s, !.right = r]
    BY <1>1, <1>4 DEF InTx
  <2>4. /\ conn'[d].pc = conn[d].pc /\ conn'[d].key = conn[d].key
        /\ conn'[d].request = conn[d].request /\ conn'[d].at = conn[d].at
        /\ conn'[d].view = conn[d].view /\ conn'[d].writes = conn[d].writes
        /\ conn'[d].stale = s /\ conn'[d].right = r /\ IsTx(conn'[d])
    <3> HIDE DEF stale
    <3> QED
      BY <2>1, <2>3 DEF IsTx
  <2>5. s \in BOOLEAN /\ (Pc(d) = "begun" => ~ s) /\ (Pc(d) # "begun" => s)
    BY <1>4, <2>1, <2>3 DEF Requested, Reads, HasRead, InTx
  <2> HIDE DEF stale
  <2>6. /\ Pc(d)' = Pc(d) /\ K(d)' = K(d) /\ U(d)' = U(d) /\ InTx(d)' /\ ~ conn'[d].writes
    BY <1>4, <2>2, <2>4 DEF Pc, K, U, InTx
  <2>7. Requested(d)'
    <3>1. Committed!Acceptable(K(d), U(d))' <=> Committed!Acceptable(K(d), U(d))
      BY <2>6 DEF Committed!Acceptable, Committed!SessionOf
    <3>2. \A k \in {K(d)'}, u \in {U(d)'} : Truth(d, k, u)' \in conn'[d].right
      <4> SUFFICES ASSUME NEW k, NEW u, k = K(d), u = U(d)
                   PROVE  Truth(d, k, u)' \in r
        BY <2>4, <2>6
      <4>1. k \in {conn[d].key} /\ u \in {conn[d].request}
        BY DEF K, U
      <4>2. Truth(d, k, u)' \in NowRight(d)
        BY <4>1 DEF NowRight
      <4> QED
        BY <2>3, <4>2
    <3>3. IsTx(conn'[d]) /\ K(d)' \in Key /\ conn'[d].at \in Nat
      BY <2>1, <2>4, <2>6 DEF Requested
    <3>4. conn'[d].writes \in BOOLEAN /\ conn'[d].stale \in BOOLEAN
      BY <2>1, <2>4, <2>5 DEF Requested
    <3>5. /\ d \in ServerConn => U(d)' \in Upload /\ Committed!Acceptable(K(d), U(d))'
                                 /\ Pc(d)' \in PutPc
          /\ d \notin ServerConn => Pc(d)' \in DeletePc
      BY <2>1, <2>6, <3>1 DEF Requested
    <3> QED
      BY <3>2, <3>3, <3>4, <3>5 DEF Requested
  <2>8. Reads(d)'
    <3>1. \A k, u : /\ View(d)!Outcome(k, u)' = View(d)!Outcome(k, u)
                    /\ View(d)!NextOffset(k)' = View(d)!NextOffset(k)
                    /\ View(d)!Known(k)' <=> View(d)!Known(k)
      BY <2>4, SameView
    <3> QED
      BY <2>1, <2>2, <2>3, <2>4, <2>5, <2>6, <3>1 DEF Reads
  <2>9. Wrote(d)'
    BY <2>1, <2>2, <2>6 DEF Wrote
  <2> QED
    BY <1>4, <2>6, <2>7, <2>8, <2>9 DEF ConnInv, AnswerIsRight, Holds, InTx
<1> QED
  BY <1>3, <1>4

LEMMA CommitsInv ==
    ASSUME TxInv, NEW c \in Conn, Holds(c), NEW answer \in conn[c].right, Commits(c, answer),
           TablesOK'
    PROVE  TxInv'
<1>1. conn'[c] = Answered(conn[c], answer)
  BY DEF Commits
<1>2. /\ Pc(c)' = "answered" /\ conn'[c].right = conn[c].right /\ conn'[c].answer = answer
      /\ conn'[c].writes = FALSE
  BY <1>1 DEF Pc, Answered
<1>3. ConnInv(c)' /\ ~ Holds(c)'
  BY <1>2 DEF ConnInv, AnswerIsRight, InTx, Holds
<1>4. \A d \in Conn : ConnInv(d)' /\ ~ Holds(d)'
  BY <1>3, OthersAfterCommit
<1>5. conn' = [d \in Conn |-> conn'[d]]
  BY DEF Commits
<1> QED
  BY <1>4, <1>5 DEF TxInv


(* COMMIT of a chunk is the step PutChunk of the database.                 *)
LEMMA CommitPutStores ==
    ASSUME TxInv, NEW c \in Conn, CommitPut(c)
    PROVE  /\ \E k \in Key, u \in Upload : Committed!PutChunk(k, u)
           /\ Holds(c) /\ "stored" \in conn[c].right /\ TablesOK'
<1>1. PICK k, u, v : k = K(c) /\ u = U(c) /\ v = conn[c].view
  OBVIOUS
<1>2. /\ c \in ServerConn /\ Pc(c) = "committing" /\ InTx(c) /\ db' = v
  BY <1>1 DEF CommitPut, Putting, InTx, Commits
<1>3. Requested(c) /\ Wrote(c) /\ TablesOK
  BY <1>2, TxParts DEF TxInv
<1>4. k \in Key /\ u \in Upload /\ Committed!Acceptable(k, u) /\ u.end \in Nat
  BY <1>1, <1>2, <1>3, UploadType DEF Requested
<1>5. conn[c].writes /\ PutWrote(c, k, u, v)
  BY <1>1, <1>2, <1>3 DEF Wrote
<1>6. /\ IsTables(v) /\ Committed!MayOpen(k, u)
      /\ v.nextSessionId =
            IF Committed!Known(k) THEN db.nextSessionId ELSE db.nextSessionId + 1
      /\ ChunkIsIn(k, u, v) /\ AllIsIn(k, u, v)
  BY <1>2, <1>5 DEF PutWrote
<1>7. Holds(c)
  BY <1>2, <1>5 DEF Holds, Active
<1>8. Committed!Storable(k, u)
  BY <1>4, <1>6 DEF ChunkIsIn, Committed!Storable
<1>9. "stored" \in conn[c].right
  <2>1. Truth(c, k, u) \in conn[c].right
    BY <1>1, <1>3 DEF Requested
  <2>2. Committed!Outcome(k, u) = "stored"
    <3>1. ~ Committed!IsReplay(k, u)
      BY <1>4, <1>8, UploadType DEF Committed!Storable, Committed!IsNext, Committed!IsReplay
    <3> QED
      BY <1>8, <3>1 DEF Committed!Outcome
  <2> QED
    BY <1>2, <2>1, <2>2 DEF Truth
<1>10. Committed!PutChunk(k, u)
  <2>1. /\ db'.sessions = [db.sessions EXCEPT ![k] = Committed!RowAfter(k, u)]
        /\ db'.chunks = [db.chunks EXCEPT ![k] = @ \cup {Committed!NewChunk(u)}]
        /\ db'.events = [db.events EXCEPT ![k] = @ \cup Committed!NewEvents(u)]
        /\ db'.fts = db.fts \cup Committed!NewSearchRows(k, u)
        /\ db'.nextEventId = db.nextEventId + Len(u.plain)
    BY <1>2, <1>6 DEF ChunkIsIn, AllIsIn
  <2>2. db'.nextSessionId =
           IF Committed!Known(k) THEN db.nextSessionId ELSE db.nextSessionId + 1
    BY <1>2, <1>6
  <2> QED
    BY <1>8, <2>1, <2>2 DEF Committed!PutChunk
<1>11. TablesOK'
  <2>1. /\ v.sessions = [db.sessions EXCEPT ![k] = Committed!RowAfter(k, u)]
        /\ v.events = [db.events EXCEPT ![k] = @ \cup Committed!NewEvents(u)]
    BY <1>6 DEF AllIsIn
  <2>2. /\ v.sessions = [l \in Key |-> v.sessions[l]] /\ v.events = [l \in Key |-> v.events[l]]
        /\ \A l \in Key : v.sessions[l] = IF l = k THEN Committed!RowAfter(k, u)
                                                   ELSE db.sessions[l]
    BY <1>3, <1>4, <2>1 DEF TablesOK
  <2>3. IsRow(Committed!RowAfter(k, u)) /\ Committed!RowAfter(k, u).next \in Nat
    BY <1>4 DEF IsRow, Committed!RowAfter
  <2>4. \A l \in Key : v.sessions[l] # NoRow => IsRow(v.sessions[l]) /\ v.sessions[l].next \in Nat
    BY <1>3, <2>2, <2>3 DEF TablesOK, Committed!Known
  <2>5. \A l \in Key : Committed!Known(l)' =>
           IsRow(db'.sessions[l]) /\ db'.sessions[l].next \in Nat
    BY <1>2, <2>4 DEF Committed!Known
  <2>6. IsTables(db)' /\ \A l : IsRow(db.sessions[l])' <=> IsRow(db'.sessions[l])
    BY <1>2, <1>6 DEF IsTables, IsRow
  <2>7. /\ db'.sessions = [l \in Key |-> db'.sessions[l]]
        /\ db'.events = [l \in Key |-> db'.events[l]]
    BY <1>2, <2>2
  <2> QED
    BY <2>5, <2>6, <2>7 DEF TablesOK
<1> QED
  BY <1>4, <1>7, <1>9, <1>10, <1>11

(* COMMIT of a deletion is the step DeleteSession.                         *)
LEMMA CommitDeleteDeletes ==
    ASSUME TxInv, NEW c \in Conn, CommitDelete(c)
    PROVE  /\ \E k \in Key : Committed!DeleteSession(k)
           /\ Holds(c) /\ "deleted" \in conn[c].right /\ TablesOK'
<1>1. PICK k, u, v : k = K(c) /\ u = U(c) /\ v = conn[c].view
  OBVIOUS
<1>2. /\ c \notin ServerConn /\ Pc(c) = "committing" /\ InTx(c) /\ db' = v
  BY <1>1, ConnAssumption DEF CommitDelete, Deleting, InTx, Commits
<1>3. Requested(c) /\ Wrote(c) /\ TablesOK /\ k \in Key
  BY <1>1, <1>2, TxParts DEF TxInv, Requested
<1>4. conn[c].writes /\ DeleteWrote(c, k, v)
  BY <1>1, <1>2, <1>3 DEF Wrote
<1>5. /\ IsTables(v) /\ v.fts = db.fts \ Committed!SearchRowsOf(k)
      /\ v.nextSessionId = db.nextSessionId /\ v.nextEventId = db.nextEventId
      /\ Committed!Known(k)
      /\ v.sessions = [db.sessions EXCEPT ![k] = NoRow]
      /\ v.chunks = [db.chunks EXCEPT ![k] = {}]
      /\ v.events = [db.events EXCEPT ![k] = {}]
  BY <1>2, <1>4 DEF DeleteWrote
<1>6. Holds(c)
  BY <1>2, <1>4 DEF Holds, Active
<1>7. "deleted" \in conn[c].right
  BY <1>1, <1>2, <1>3, <1>5 DEF Requested, Truth
<1>8. Committed!DeleteSession(k)
  BY <1>2, <1>5 DEF Committed!DeleteSession
<1>9. TablesOK'
  <2>1. /\ v.sessions = [l \in Key |-> v.sessions[l]] /\ v.events = [l \in Key |-> v.events[l]]
        /\ \A l \in Key : v.sessions[l] = IF l = k THEN NoRow ELSE db.sessions[l]
    BY <1>3, <1>5 DEF TablesOK
  <2>2. \A l \in Key : v.sessions[l] # NoRow => IsRow(v.sessions[l]) /\ v.sessions[l].next \in Nat
    BY <1>3, <2>1 DEF TablesOK, Committed!Known
  <2>3. \A l \in Key : Committed!Known(l)' =>
           IsRow(db'.sessions[l]) /\ db'.sessions[l].next \in Nat
    BY <1>2, <2>2 DEF Committed!Known
  <2>4. IsTables(db)' /\ \A l : IsRow(db.sessions[l])' <=> IsRow(db'.sessions[l])
    BY <1>2, <1>5 DEF IsTables, IsRow
  <2>5. /\ db'.sessions = [l \in Key |-> db'.sessions[l]]
        /\ db'.events = [l \in Key |-> db'.events[l]]
    BY <1>2, <2>1
  <2> QED
    BY <2>3, <2>4, <2>5 DEF TablesOK
<1> QED
  BY <1>3, <1>6, <1>7, <1>8, <1>9

-----------------------------------------------------------------------------
(* Every step keeps the invariant, and is a step of the database or none.  *)
LEMMA NextTxInv ==
    ASSUME TxInv, [Next]_vars
    PROVE  TxInv'
<1>1. CASE UNCHANGED vars
  <2>1. db' = db /\ conn' = conn
    BY <1>1 DEF vars
  <2>2. \A c \in Conn : ConnInv(c)'
    BY <2>1, SameConn DEF TxInv
  <2>3. TablesOK'
    BY <2>1 DEF TxInv, TablesOK, IsTables, IsRow, Committed!Known
  <2>4. \A c, d \in Conn : Holds(c)' /\ Holds(d)' => c = d
    BY <2>1 DEF TxInv, Holds, Active, Pc
  <2> QED
    BY <2>1, <2>2, <2>3, <2>4 DEF TxInv
<1>2. CASE Next
  <2>1. PICK c \in Conn :
           \/ \E k \in Key, u \in Upload : BeginPut(c, k, u)
           \/ \E k \in Key : BeginDelete(c, k)
           \/ Step(c)
           \/ Fail(c)
    BY <1>2 DEF Next
  <2>2. ASSUME NEW k \in Key, NEW u \in Upload, BeginPut(c, k, u)
        PROVE  TxInv'
    BY <2>2, BeginTxInv DEF BeginPut
  <2>3. ASSUME NEW k \in Key, BeginDelete(c, k)
        PROVE  TxInv'
    <3>1. c \notin ServerConn /\ Begin(c, k, << >>)
      BY <2>3, ConnAssumption DEF BeginDelete
    <3> QED
      BY <3>1, BeginTxInv
  <2>4. CASE CommitPut(c)
    <3>1. Holds(c) /\ "stored" \in conn[c].right /\ TablesOK' /\ Commits(c, "stored")
      BY <2>4, CommitPutStores DEF CommitPut
    <3> QED
      BY <3>1, CommitsInv
  <2>5. CASE CommitDelete(c)
    <3>1. Holds(c) /\ "deleted" \in conn[c].right /\ TablesOK' /\ Commits(c, "deleted")
      BY <2>5, CommitDeleteDeletes DEF CommitDelete
    <3> QED
      BY <3>1, CommitsInv
  <2>6. CASE PutStep(c) /\ ~ CommitPut(c)
    BY <2>6, SelectSessionInv, RejectNewInv, NoSessionIdInv, InsertSessionInv,
       CheckReplayInv, RejectChunkInv, InsertChunkInv, InsertEventInv, InsertSearchRowInv,
       UpdateSessionInv DEF PutStep
  <2>7. CASE DeleteStep(c) /\ ~ CommitDelete(c)
    BY <2>7, DeleteSearchRowsInv, DeleteRowInv, RowMissingInv DEF DeleteStep
  <2>8. CASE Busy(c) \/ Reply(c) \/ Fail(c)
    BY <2>8, BusyInv, ReplyTxInv
  <2> QED
    BY <2>1, <2>2, <2>3, <2>4, <2>5, <2>6, <2>7, <2>8 DEF Step
<1> QED
  BY <1>1, <1>2

(* Only COMMIT changes a committed table.                                  *)
LEMMA OnlyCommitsWrite ==
    ASSUME TxInv, [Next]_vars
    PROVE  [Committed!Next]_(Committed!vars)
<1>1. CASE db' = db
  BY <1>1 DEF Committed!vars
<1>2. CASE db' # db
  <2>1. Next
    BY <1>2 DEF vars
  <2>2. PICK c \in Conn :
           \/ \E k \in Key, u \in Upload : BeginPut(c, k, u)
           \/ \E k \in Key : BeginDelete(c, k)
           \/ Step(c)
           \/ Fail(c)
    BY <2>1 DEF Next
  <2>3. CommitPut(c) \/ CommitDelete(c)
    BY <1>2, <2>2
       DEF BeginPut, BeginDelete, Begin, Step, PutStep, DeleteStep, Busy, Fail, Reply, Ends,
           Writes, SelectSession, RejectNew, NoSessionId, InsertSession, CheckReplay,
           RejectChunk, InsertChunk, InsertEvent, InsertSearchRow, UpdateSession,
           DeleteSearchRows, DeleteRow, RowMissing
  <2>4. Committed!Key = Key
    BY DEF Committed!Key, Key
  <2>5. Committed!Next
    BY <2>3, <2>4, CommitPutStores, CommitDeleteDeletes DEF Committed!Next
  <2> QED
    BY <2>5
<1> QED
  BY <1>1, <1>2

(* What each transaction has read and written is what its own conditions   *)
(* and changes amount to on its snapshot, and one connection at most holds *)
(* the write lock (internal/store/store.go, PutChunk statement by          *)
(* statement).                                                             *)
THEOREM TxInvariant == Spec => []TxInv
<1>1. Init => TxInv
  BY InitTxInv
<1>2. TxInv /\ [Next]_vars => TxInv'
  BY NextTxInv
<1> QED
  BY <1>1, <1>2, PTL DEF Spec

(***************************************************************************)
(* However the statements of servers and administrators interleave, and    *)
(* whichever of them fail, an answer other than a failure is the one the   *)
(* request would have got alone at some moment while it ran.               *)
(***************************************************************************)
THEOREM AnswersLinear == Spec => []AnswersAreLinear
<1>1. TxInv => AnswersAreLinear
  BY DEF TxInv, ConnInv, AnswerIsRight, AnswersAreLinear
<1> QED
  BY <1>1, TxInvariant, PTL

(***************************************************************************)
(* The statements of PutChunk and DeleteSession, in concurrent             *)
(* transactions, implement the single steps of module Store on the         *)
(* committed tables: whatever is proved of Store holds of them.            *)
(***************************************************************************)
THEOREM StatementsImplementStore == Spec => ImplementsStore
<1>1. Init => Committed!Init
  BY DEF Init, Committed!Init, Committed!Key, Key
<1>2. TxInv /\ [Next]_vars => [Committed!Next]_(Committed!vars)
  BY OnlyCommitsWrite
<1> QED
  BY <1>1, <1>2, TxInvariant, PTL DEF Spec, ImplementsStore, Committed!Spec

-----------------------------------------------------------------------------
(***************************************************************************)
(* What is proved of Store, of the committed tables.  The instance Tables  *)
(* is module Store with its proofs, about the same tables as Committed:    *)
(* the lemmas say that its definitions are the same.                       *)
(***************************************************************************)
Tables ==
    INSTANCE Store_proofs WITH
        sessions <- db.sessions, chunks <- db.chunks, events <- db.events, fts <- db.fts,
        nextSessionId <- db.nextSessionId, nextEventId <- db.nextEventId

LEMMA SameSets ==
    /\ Committed!Key = Tables!Key
    /\ Committed!Request = Tables!Request
    /\ Committed!SessionRow = Tables!SessionRow
BY DEF Committed!Key, Tables!Key, Committed!Request, Tables!Request, Committed!SessionRow,
       Tables!SessionRow, Committed!Record, Tables!Record, Committed!Kind, Tables!Kind,
       Committed!EventKind, Tables!EventKind

LEMMA SameReads ==
    ASSUME NEW k
    PROVE  /\ Committed!Known(k) <=> Tables!Known(k)
           /\ Committed!NextOffset(k) = Tables!NextOffset(k)
           /\ Committed!HashState(k) = Tables!HashState(k)
<1>1. Committed!Known(k) <=> Tables!Known(k)
  BY DEF Committed!Known, Tables!Known
<1>2. Committed!NextOffset(k) = Tables!NextOffset(k)
  BY <1>1 DEF Committed!NextOffset, Tables!NextOffset
<1>3. Committed!HashState(k) = Tables!HashState(k)
  BY <1>1 DEF Committed!HashState, Tables!HashState
<1> QED
  BY <1>1, <1>2, <1>3

LEMMA SameArchive ==
    ASSUME NEW k
    PROVE  Committed!ArchiveOf(k) = Tables!ArchiveOf(k)
<1>1. \A i : Committed!RecordAt(k, i) = Tables!RecordAt(k, i)
  BY DEF Committed!RecordAt, Tables!RecordAt, Committed!Covers, Tables!Covers
<1> QED
  BY <1>1, SameReads DEF Committed!ArchiveOf, Tables!ArchiveOf

LEMMA SameParsing ==
    ASSUME NEW plain, NEW base, NEW k
    PROVE  Committed!Parses(plain, base, Committed!SessionOf(k))
             <=> Tables!Parses(plain, base, Tables!SessionOf(k))
BY DEF Committed!Parses, Tables!Parses, Committed!SessionOf, Tables!SessionOf, Committed!Valid,
       Tables!Valid, Committed!OpensSession, Tables!OpensSession

LEMMA SamePutChunk ==
    ASSUME NEW k, NEW u
    PROVE  Committed!PutChunk(k, u) <=> Tables!PutChunk(k, u)
<1>1. Committed!Acceptable(k, u) <=> Tables!Acceptable(k, u)
  BY SameParsing DEF Committed!Acceptable, Tables!Acceptable
<1>2. Committed!KeysFree(k, u) <=> Tables!KeysFree(k, u)
  BY DEF Committed!KeysFree, Tables!KeysFree, Committed!EventPositions, Tables!EventPositions,
     Committed!IsEvent, Tables!IsEvent, Committed!EventKind, Tables!EventKind
<1>3. Committed!Storable(k, u) <=> Tables!Storable(k, u)
  <2>1. Committed!MayOpen(k, u) <=> Tables!MayOpen(k, u)
    BY SameReads DEF Committed!MayOpen, Tables!MayOpen
  <2>2. Committed!IsNext(k, u) <=> Tables!IsNext(k, u)
    BY SameReads DEF Committed!IsNext, Tables!IsNext
  <2>3. Committed!PrefixMatches(k, u) <=> Tables!PrefixMatches(k, u)
    BY SameReads DEF Committed!PrefixMatches, Tables!PrefixMatches
  <2> QED
    BY <1>1, <1>2, <2>1, <2>2, <2>3 DEF Committed!Storable, Tables!Storable
<1>4. Committed!RowAfter(k, u) = Tables!RowAfter(k, u)
  <2>1. \A S : Committed!Latest(S) = Tables!Latest(S)
    BY DEF Committed!Latest, Tables!Latest
  <2>2. Committed!LastActivity(u.plain) = Tables!LastActivity(u.plain)
    BY <2>1 DEF Committed!LastActivity, Tables!LastActivity
  <2>3. Committed!ActivityAfter(k, u) = Tables!ActivityAfter(k, u)
    BY <2>1, <2>2, SameReads DEF Committed!ActivityAfter, Tables!ActivityAfter
  <2>4. Committed!IdOf(k) = Tables!IdOf(k) /\ Committed!MetaOf(k, u) = Tables!MetaOf(k, u)
    BY SameReads DEF Committed!IdOf, Tables!IdOf, Committed!MetaOf, Tables!MetaOf
  <2> QED
    BY <2>3, <2>4, SameReads DEF Committed!RowAfter, Tables!RowAfter
<1>5. Committed!NewEvents(u) = Tables!NewEvents(u)
  BY DEF Committed!NewEvents, Tables!NewEvents, Committed!EventAt, Tables!EventAt,
     Committed!RowIdOf, Tables!RowIdOf, Committed!EventPositions, Tables!EventPositions,
     Committed!IsEvent, Tables!IsEvent, Committed!EventKind, Tables!EventKind
<1>6. Committed!NewSearchRows(k, u) = Tables!NewSearchRows(k, u)
  BY <1>5 DEF Committed!NewSearchRows, Tables!NewSearchRows, Committed!SearchText,
     Tables!SearchText
<1>7. Committed!NewChunk(u) = Tables!NewChunk(u)
  BY DEF Committed!NewChunk, Tables!NewChunk
<1> QED
  BY <1>3, <1>4, <1>5, <1>6, <1>7, SameReads DEF Committed!PutChunk, Tables!PutChunk

LEMMA SameDelete ==
    ASSUME NEW k
    PROVE  Committed!DeleteSession(k) <=> Tables!DeleteSession(k)
BY SameReads DEF Committed!DeleteSession, Tables!DeleteSession, Committed!SearchRowsOf,
                 Tables!SearchRowsOf

LEMMA SameInit == Committed!Init <=> Tables!Init
BY SameSets DEF Committed!Init, Tables!Init

LEMMA SameContent == Committed!Content = Tables!Content
BY SameSets, SameArchive DEF Committed!Content, Tables!Content

ContentIsSame == Committed!Content = Tables!Content

LEMMA SameContentNext == ContentIsSame'
<1>1. ContentIsSame
  BY SameContent DEF ContentIsSame
<1> QED
  BY <1>1, PTL

LEMMA SameAbstractInit == Tables!Abstract!Init <=> Committed!Abstract!Init
BY SameContent
   DEF Tables!Abstract!Init, Committed!Abstract!Init, Tables!Abstract!Key,
       Committed!Abstract!Key

LEMMA SameAbstractNext ==
    [Tables!Abstract!Next]_(Tables!Content) <=> [Committed!Abstract!Next]_(Committed!Content)
<1>1. \A k : Tables!Abstract!OthersKept(k) <=> Committed!Abstract!OthersKept(k)
  BY SameContent, SameContentNext
     DEF ContentIsSame, Tables!Abstract!OthersKept, Committed!Abstract!OthersKept,
         Tables!Abstract!Key, Committed!Abstract!Key
<1>2. Tables!Abstract!Record = Committed!Abstract!Record
  BY DEF Tables!Abstract!Record, Committed!Abstract!Record, Tables!Abstract!Kind,
     Committed!Abstract!Kind, Tables!Abstract!EventKind, Committed!Abstract!EventKind
<1>3. \A k, t : Tables!Abstract!WellFormed(k, t) <=> Committed!Abstract!WellFormed(k, t)
  BY <1>2
     DEF Tables!Abstract!WellFormed, Committed!Abstract!WellFormed,
         Tables!Abstract!Parses, Committed!Abstract!Parses, Tables!Abstract!SessionOf,
         Committed!Abstract!SessionOf, Tables!Abstract!Valid, Committed!Abstract!Valid,
         Tables!Abstract!OpensSession, Committed!Abstract!OpensSession
<1>4. \A k : Tables!Abstract!Share(k) <=> Committed!Abstract!Share(k)
  BY <1>1, <1>2, <1>3, SameContent, SameContentNext
     DEF ContentIsSame, Tables!Abstract!Share, Committed!Abstract!Share,
         Tables!Abstract!Starts, Committed!Abstract!Starts, Tables!Abstract!Key,
         Committed!Abstract!Key
<1>5. \A k : Tables!Abstract!Forget(k) <=> Committed!Abstract!Forget(k)
  BY SameContent, SameContentNext
     DEF ContentIsSame, Tables!Abstract!Forget, Committed!Abstract!Forget
<1> QED
  BY <1>4, <1>5, SameContent, SameContentNext
     DEF ContentIsSame, Tables!Abstract!Next, Committed!Abstract!Next,
         Tables!Abstract!Key, Committed!Abstract!Key

LEMMA SameChecks ==
    /\ Committed!ChunksTileArchive <=> Tables!ChunksTileArchive
    /\ Committed!HashMatchesArchive <=> Tables!HashMatchesArchive
    /\ Committed!EventsMatchArchive <=> Tables!EventsMatchArchive
    /\ Committed!SearchMatchesArchive <=> Tables!SearchMatchesArchive
    /\ Committed!RowDescribesArchive <=> Tables!RowDescribesArchive
<1>1. Committed!EventsMatchArchive <=> Tables!EventsMatchArchive
  BY SameSets, SameReads DEF Committed!EventsMatchArchive, Tables!EventsMatchArchive,
     Committed!EventPositions, Tables!EventPositions, Committed!IsEvent, Tables!IsEvent,
     Committed!EventKind, Tables!EventKind, Committed!ChunksAt, Tables!ChunksAt
<1>2. Committed!SearchMatchesArchive <=> Tables!SearchMatchesArchive
  BY SameSets, SameReads DEF Committed!SearchMatchesArchive, Tables!SearchMatchesArchive,
     Committed!FoundBy, Tables!FoundBy, Committed!Searchable, Tables!Searchable,
     Committed!IsEvent, Tables!IsEvent,
     Committed!EventKind, Tables!EventKind
<1>3. Committed!RowDescribesArchive <=> Tables!RowDescribesArchive
  <2>1. \A S : Committed!Latest(S) = Tables!Latest(S)
    BY DEF Committed!Latest, Tables!Latest
  <2>2. \A t : Committed!LastActivity(t) = Tables!LastActivity(t)
    BY <2>1 DEF Committed!LastActivity, Tables!LastActivity
  <2> QED
    BY <2>2, SameSets, SameReads DEF Committed!RowDescribesArchive, Tables!RowDescribesArchive
<1>4. Committed!ChunksTileArchive <=> Tables!ChunksTileArchive
  BY SameSets, SameReads DEF Committed!ChunksTileArchive, Tables!ChunksTileArchive,
     Committed!Covers, Tables!Covers
<1>5. Committed!HashMatchesArchive <=> Tables!HashMatchesArchive
  BY SameSets, SameReads, SameArchive
     DEF Committed!HashMatchesArchive, Tables!HashMatchesArchive
<1> QED
  BY <1>1, <1>2, <1>3, <1>4, <1>5

LEMMA CommittedIsTables == Committed!Spec => Tables!Spec
<1>1. Committed!Init => Tables!Init
  BY SameInit
<1>2. [Committed!Next]_(Committed!vars) => [Tables!Next]_(Tables!vars)
  BY SameSets, SamePutChunk, SameDelete
     DEF Committed!Next, Tables!Next, Committed!vars, Tables!vars
<1> QED
  BY <1>1, <1>2, PTL DEF Committed!Spec, Tables!Spec

LEMMA TablesAssumptions ==
    /\ NoRow \notin Tables!SessionRow
    /\ Upload \subseteq Tables!Request
    /\ MaxRowId \in Nat
BY SameSets, StoreAssumption, RequestAssumption

(***************************************************************************)
(* The statements implement the archive of the README, by way of Store:    *)
(* whatever fails or is killed between two statements, a transcript only   *)
(* grows by whole chunks that keep it well-formed, or is deleted whole.    *)
(***************************************************************************)
THEOREM StatementsImplementArchive == Spec => Committed!ImplementsArchive
<1>1. Tables!Spec => Tables!ImplementsArchive
  BY Tables!StoreImplementsArchive, TablesAssumptions, NoIdAssumption, BlankAssumption,
     TimeAssumption
<1>2. Tables!ImplementsArchive => Committed!ImplementsArchive
  BY SameAbstractInit, SameAbstractNext, PTL
     DEF Tables!ImplementsArchive, Committed!ImplementsArchive, Tables!Abstract!Spec,
         Committed!Abstract!Spec
<1>3. Spec => Tables!Spec
  BY StatementsImplementStore, CommittedIsTables DEF ImplementsStore
<1> QED
  BY <1>1, <1>2, <1>3

(***************************************************************************)
(* No interleaving, failure or kill leaves committed tables that disagree: *)
(* chunks tile the archive up to the checkpoint and hold what the hash     *)
(* state hashed, and the events, the search rows and the session row are   *)
(* those of the archived records.                                          *)
(***************************************************************************)
THEOREM CommittedTablesAgree ==
    Spec => [](/\ Committed!ChunksTileArchive
               /\ Committed!HashMatchesArchive
               /\ Committed!EventsMatchArchive
               /\ Committed!SearchMatchesArchive
               /\ Committed!RowDescribesArchive)
<1>1. Tables!Spec =>
        /\ []Tables!ChunksTileArchive
        /\ []Tables!HashMatchesArchive
        /\ []Tables!EventsMatchArchive
        /\ []Tables!SearchMatchesArchive
        /\ []Tables!RowDescribesArchive
  BY Tables!ChunksTile, Tables!HashMatches, Tables!EventsMatch, Tables!SearchMatches,
     Tables!RowDescribes, TablesAssumptions, NoIdAssumption, BlankAssumption, TimeAssumption
<1>2. Spec => Tables!Spec
  BY StatementsImplementStore, CommittedIsTables DEF ImplementsStore
<1> QED
  BY <1>1, <1>2, SameChecks, PTL

-----------------------------------------------------------------------------
(***************************************************************************)
(* Progress of one transaction: the stages of PutChunk and DeleteSession,  *)
(* and within the loop over the records the place it has reached.          *)
(***************************************************************************)
Stage ==
    [begun |-> 0, creating |-> 1, checking |-> 2, deleting |-> 2, inserting |-> 3,
     indexing |-> 3, committing |-> 4, answered |-> 5]

GoesOn(c) ==
    \/ Stage[Pc(c)'] > Stage[Pc(c)]
    \/ Pc(c) = "inserting" /\ Pc(c)' = "indexing" /\ conn'[c].at = conn[c].at
    \/ /\ Pc(c)' = "inserting"
       /\ conn[c].at < conn'[c].at /\ conn'[c].at <= Len(U(c).plain) + 1

Stands(c) == Pc(c)' = Pc(c) /\ conn'[c].at = conn[c].at /\ K(c)' = K(c) /\ U(c)' = U(c)

NoStepGoesBack ==
    [][\A c \in Conn : InTx(c) =>
          /\ Step(c) \/ Fail(c) => GoesOn(c)
          /\ GoesOn(c) \/ Stands(c)]_vars

LEMMA StageIs ==
    /\ Stage["begun"] = 0 /\ Stage["creating"] = 1 /\ Stage["checking"] = 2
    /\ Stage["deleting"] = 2 /\ Stage["inserting"] = 3 /\ Stage["indexing"] = 3
    /\ Stage["committing"] = 4 /\ Stage["answered"] = 5
BY DEF Stage

LEMMA EndGoesOn ==
    ASSUME TxInv, NEW c \in Conn, InTx(c), Pc(c)' = "answered"
    PROVE  GoesOn(c)
<1>1. Pc(c) \in PutPc \cup DeletePc
  BY TxParts DEF Requested
<1>2. Stage[Pc(c)] < Stage["answered"]
  BY <1>1, StageIs DEF PutPc, DeletePc
<1> QED
  BY <1>2 DEF GoesOn

LEMMA EndsAnswered ==
    ASSUME TxInv, NEW c \in Conn, NEW answer, Ends(c, answer) \/ Commits(c, answer)
    PROVE  Pc(c)' = "answered"
<1>1. conn'[c] = Answered(conn[c], answer)
  BY DEF Ends, Commits, TxInv
<1> QED
  BY <1>1 DEF Answered, Pc

LEMMA WritesPc ==
    ASSUME TxInv, NEW c \in Conn, InTx(c), NEW pc, NEW view, Writes(c, pc, view)
    PROVE  Pc(c)' = pc
<1>1. PICK t : t = AfterWrite(conn[c], pc, TRUE, view)
  OBVIOUS
<1>2. t.pc = pc
  <2>1. PICK w : w = TRUE
    OBVIOUS
  <2>2. t = AfterWrite(conn[c], pc, w, view)
    BY <1>1, <2>1, Zenon
  <2>3. IsTx(conn[c])
    BY TxParts DEF Requested
  <2> QED
    BY <2>2, <2>3, TxAfterWrite
<1>3. conn' = [conn EXCEPT ![c] = t]
  BY <1>1, Zenon DEF Writes, AfterWrite
<1> QED
  BY <1>2, <1>3 DEF TxInv, Pc

(* The step of the loop that leaves record p behind.                       *)
LEMMA LoopGoesOn ==
    ASSUME TxInv, NEW c \in Conn, c \in ServerConn, InTx(c), Positions(c) # {},
           Pc(c)' = "inserting", conn'[c].at = Position(c) + 1
    PROVE  GoesOn(c)
<1>1. U(c).plain \in Seq(Record) /\ conn[c].at \in Nat
  BY TxParts, UploadType DEF Requested
<1>2. PICK p : p = Position(c)
  OBVIOUS
<1>3. p \in EventPositions(U(c).plain) /\ p \in Nat /\ conn[c].at <= p
  BY <1>1, <1>2, PositionIsLeast
<1>4. p <= Len(U(c).plain) /\ Len(U(c).plain) \in Nat
  BY <1>1, <1>3 DEF EventPositions
<1> QED
  BY <1>1, <1>2, <1>3, <1>4 DEF GoesOn

LEMMA EventGoesOn ==
    ASSUME TxInv, NEW c \in Conn, InsertEvent(c)
    PROVE  GoesOn(c)
<1>1. PICK pc, at, v, t :
         /\ pc = IF Searchable(U(c).plain[Position(c)]) THEN "indexing" ELSE "inserting"
         /\ at = IF Searchable(U(c).plain[Position(c)]) THEN conn[c].at ELSE Position(c) + 1
         /\ v = [conn[c].view EXCEPT
                    !.events[K(c)] = @ \cup {View(c)!EventAt(U(c), Position(c))}]
         /\ t = AfterLoop(conn[c], pc, at, v)
  OBVIOUS
<1>2. c \in ServerConn /\ Pc(c) = "inserting" /\ InTx(c) /\ Positions(c) # {}
  BY DEF InsertEvent, Putting, InTx
<1>3. IsTx(conn[c])
  BY <1>2, TxParts DEF Requested
<1>4. conn' = [conn EXCEPT ![c] = t]
  <2>1. conn[c].pc = "inserting"
    BY <1>2 DEF Pc
  <2> QED
    BY <1>1, <2>1, Zenon DEF InsertEvent, AfterLoop
<1>5. t.pc = pc /\ t.at = at
  BY <1>1, <1>3, TxAfterLoop
<1>6. Pc(c)' = pc /\ conn'[c].at = at
  BY <1>4, <1>5 DEF TxInv, Pc
<1>7. CASE Searchable(U(c).plain[Position(c)])
  BY <1>1, <1>2, <1>6, <1>7 DEF GoesOn
<1>8. CASE ~ Searchable(U(c).plain[Position(c)])
  BY <1>1, <1>2, <1>6, <1>8, LoopGoesOn
<1> QED
  BY <1>7, <1>8

LEMMA SearchRowGoesOn ==
    ASSUME TxInv, NEW c \in Conn, InsertSearchRow(c)
    PROVE  GoesOn(c)
<1>1. PICK e, at, v, t :
         /\ e = View(c)!EventAt(U(c), Position(c))
         /\ at = Position(c) + 1
         /\ v = [conn[c].view EXCEPT
                    !.fts = @ \cup {[rowid |-> e.id, key |-> K(c), seq |-> e.seq, text |-> e.text]}]
         /\ t = AfterLoop(conn[c], "inserting", at, v)
  OBVIOUS
<1>2. c \in ServerConn /\ Pc(c) = "indexing" /\ InTx(c)
  BY DEF InsertSearchRow, Putting, InTx
<1>3. Requested(c) /\ Wrote(c) /\ IsTx(conn[c])
  BY <1>2, TxParts DEF Requested
<1>4. Positions(c) # {}
  BY <1>2, <1>3 DEF Wrote, PutWrote
<1>5. conn' = [conn EXCEPT ![c] = t]
  BY <1>1, Zenon DEF InsertSearchRow, AfterLoop
<1>6. t.pc = "inserting" /\ t.at = at
  BY <1>1, <1>3, TxAfterLoop
<1>7. Pc(c)' = "inserting" /\ conn'[c].at = at
  BY <1>5, <1>6 DEF TxInv, Pc
<1> QED
  BY <1>1, <1>2, <1>4, <1>7, LoopGoesOn

LEMMA OwnStepGoesOn ==
    ASSUME TxInv, NEW c \in Conn, InTx(c), Step(c) \/ Fail(c)
    PROVE  GoesOn(c)
<1>1. CASE \E answer : Ends(c, answer) \/ Commits(c, answer)
  BY <1>1, EndsAnswered, EndGoesOn
<1>2. CASE SelectSession(c)
  <2>1. Pc(c) = "begun" /\ Pc(c)' \in {"creating", "checking"}
    <3>1. IsTx(conn[c])
      BY TxParts DEF Requested
    <3>2. PICK pc : pc = IF Committed!Known(K(c)) THEN "checking" ELSE "creating"
      OBVIOUS
    <3>3. conn' = [conn EXCEPT ![c] = [conn[c] EXCEPT !.pc = pc, !.view = db]]
      BY <1>2, <3>2 DEF SelectSession
    <3>4. conn'[c] = [conn[c] EXCEPT !.pc = pc, !.view = db]
      BY <3>3 DEF TxInv
    <3>5. conn'[c].pc = pc
      BY <3>1, <3>4 DEF IsTx
    <3> QED
      BY <1>2, <3>2, <3>5 DEF SelectSession, Putting, Pc
  <2> QED
    BY <2>1, StageIs DEF GoesOn
<1>3. CASE InsertSession(c)
  <2>1. Pc(c) = "creating" /\ Pc(c)' = "checking"
    BY <1>3, WritesPc DEF InsertSession, Putting
  <2> QED
    BY <2>1, StageIs DEF GoesOn
<1>4. CASE InsertChunk(c)
  <2>1. Pc(c) = "checking" /\ Pc(c)' = "inserting"
    BY <1>4, WritesPc DEF InsertChunk, Putting
  <2> QED
    BY <2>1, StageIs DEF GoesOn
<1>5. CASE UpdateSession(c)
  <2>1. Pc(c) = "inserting" /\ Pc(c)' = "committing"
    BY <1>5, WritesPc DEF UpdateSession, Putting
  <2> QED
    BY <2>1, StageIs DEF GoesOn
<1>6. CASE DeleteSearchRows(c)
  <2>1. Pc(c) = "begun" /\ Pc(c)' = "deleting"
    BY <1>6, WritesPc DEF DeleteSearchRows, Deleting
  <2> QED
    BY <2>1, StageIs DEF GoesOn
<1>7. CASE DeleteRow(c)
  <2>1. Pc(c) = "deleting" /\ Pc(c)' = "committing"
    BY <1>7, WritesPc DEF DeleteRow, Deleting
  <2> QED
    BY <2>1, StageIs DEF GoesOn
<1>8. CASE InsertEvent(c) \/ InsertSearchRow(c)
  BY <1>8, EventGoesOn, SearchRowGoesOn
<1>9. ~ Reply(c)
  BY DEF Reply, InTx
<1>10. RejectNew(c) \/ NoSessionId(c) \/ CheckReplay(c) \/ RejectChunk(c) \/ RowMissing(c)
         \/ Busy(c) \/ Fail(c) \/ CommitPut(c) \/ CommitDelete(c)
         => \E answer : Ends(c, answer) \/ Commits(c, answer)
  BY DEF RejectNew, NoSessionId, CheckReplay, RejectChunk, RowMissing, Busy, Fail, CommitPut,
         CommitDelete
<1> QED
  BY <1>1, <1>2, <1>3, <1>4, <1>5, <1>6, <1>7, <1>8, <1>9, <1>10 DEF Step, PutStep, DeleteStep

LEMMA OthersStand ==
    ASSUME TxInv, NEW c \in Conn, NEW d \in Conn, d # c, InTx(d),
           \/ \E k, u : Begin(c, k, u)
           \/ Step(c)
           \/ Fail(c)
    PROVE  Stands(d)
<1>1. CASE \E answer : Commits(c, answer)
  <2> DEFINE stale == conn[d].stale \/ HasRead(d)
  <2>0. conn'[d] = IF Pc(d) \in {"idle", "answered"} THEN conn[d]
                   ELSE [conn[d] EXCEPT !.stale = @ \/ HasRead(d), !.right = @ \cup NowRight(d)]
    BY <1>1 DEF Commits
  <2>1. PICK s, r : s = stale /\ r = conn[d].right \cup NowRight(d)
                    /\ conn'[d] = [conn[d] EXCEPT !.stale = s, !.right = r]
    BY <2>0 DEF InTx
  <2> HIDE DEF stale
  <2>2. IsTx(conn[d])
    BY TxParts DEF Requested
  <2>3. /\ conn'[d].pc = conn[d].pc /\ conn'[d].at = conn[d].at
        /\ conn'[d].key = conn[d].key /\ conn'[d].request = conn[d].request
    BY <2>1, <2>2 DEF IsTx
  <2> QED
    BY <2>3 DEF Stands, Pc, K, U
<1>2. CASE ~ \E answer : Commits(c, answer)
  <2>1. conn'[d] = conn[d]
    BY <1>2 DEF TxInv, Begin, Step, PutStep, DeleteStep, Busy, Fail, Reply, Ends, Writes,
       SelectSession, RejectNew, NoSessionId, InsertSession, CheckReplay, RejectChunk,
       InsertChunk, InsertEvent, InsertSearchRow, UpdateSession, CommitPut,
       DeleteSearchRows, DeleteRow, RowMissing, CommitDelete
  <2> QED
    BY <2>1 DEF Stands, Pc, K, U
<1> QED
  BY <1>1, <1>2

(***************************************************************************)
(* Every statement, failure and kill brings its transaction nearer to its  *)
(* answer, and no other process moves it: with NoRequestIsStuck, a request *)
(* is answered after at most two statements a record and five more.        *)
(***************************************************************************)
THEOREM RequestsGoOn == Spec => NoStepGoesBack
<1>1. ASSUME TxInv, [Next]_vars, NEW c \in Conn, InTx(c)
      PROVE  /\ Step(c) \/ Fail(c) => GoesOn(c)
             /\ GoesOn(c) \/ Stands(c)
  <2>1. Step(c) \/ Fail(c) => GoesOn(c)
    BY <1>1, OwnStepGoesOn
  <2>2. GoesOn(c) \/ Stands(c)
    <3>1. CASE UNCHANGED vars
      BY <3>1 DEF vars, Stands, Pc, K, U
    <3>2. CASE Next
      <4>1. PICK d \in Conn :
               \/ \E k \in Key, u \in Upload : BeginPut(d, k, u)
               \/ \E k \in Key : BeginDelete(d, k)
               \/ Step(d)
               \/ Fail(d)
        BY <3>2 DEF Next
      <4>2. (\E k, u : Begin(d, k, u)) \/ Step(d) \/ Fail(d)
        BY <4>1 DEF BeginPut, BeginDelete
      <4>3. CASE d = c
        BY <1>1, <2>1, <4>2, <4>3 DEF Begin, Active, InTx
      <4>4. CASE d # c
        BY <1>1, <4>2, <4>4, OthersStand
      <4> QED
        BY <4>3, <4>4
    <3> QED
      BY <1>1, <3>1, <3>2
  <2> QED
    BY <2>1, <2>2
<1>2. TxInv /\ [Next]_vars =>
        [\A c \in Conn : InTx(c) =>
            /\ Step(c) \/ Fail(c) => GoesOn(c)
            /\ GoesOn(c) \/ Stands(c)]_vars
  BY <1>1
<1> QED
  BY <1>2, TxInvariant, PTL DEF Spec, NoStepGoesBack

-----------------------------------------------------------------------------
(***************************************************************************)
(* What an open transaction can do next: the guards of the actions of      *)
(* Step, which says the same as ENABLED Step(c).                           *)
(***************************************************************************)
CanGoOn(c) ==
    \/ Pc(c) \in {"answered", "committing"} \/ Putting(c, "begun") \/ Putting(c, "indexing")
    \/ /\ Putting(c, "creating")
       /\ U(c).start # 0 \/ conn[c].view.nextSessionId > MaxRowId \/ MayWrite(c)
    \/ /\ Putting(c, "checking")
       /\ \/ U(c).start < View(c)!NextOffset(K(c))
          \/ U(c).start >= View(c)!NextOffset(K(c)) /\ ~ MayAppend(c)
          \/ MayAppend(c) /\ View(c)!KeysFree(K(c), U(c)) /\ MayWrite(c)
    \/ Putting(c, "inserting") /\ (Positions(c) # {} \/ MayWrite(c))
    \/ Deleting(c, "begun") /\ LockFree(c) /\ MayWrite(c)
    \/ Deleting(c, "deleting") /\ (View(c)!Known(K(c)) => MayWrite(c))
    \/ WantsToWrite(c) /\ ~ MayWrite(c)

EachCanGoOn == \A c \in Conn : Active(c) => CanGoOn(c)

LEMMA KeysFreeInTables ==
    ASSUME Tables!NextKeysAreFree, NEW k \in Key, NEW u \in Upload, Committed!IsNext(k, u)
    PROVE  Committed!KeysFree(k, u)
<1>1. k \in Tables!Key /\ Tables!IsNext(k, u)
  BY SameSets, SameReads DEF Committed!Key, Key, Committed!IsNext, Tables!IsNext
<1>2. Tables!KeysFree(k, u)
  BY <1>1 DEF Tables!NextKeysAreFree
<1> QED
  BY <1>2 DEF Committed!KeysFree, Tables!KeysFree, Committed!EventPositions,
     Tables!EventPositions, Committed!IsEvent, Tables!IsEvent, Committed!EventKind,
     Tables!EventKind

(* A chunk at the checkpoint that may be written can be inserted.          *)
LEMMA KeysFreeInView ==
    ASSUME TxInv, Tables!NextKeysAreFree, NEW c \in Conn, Putting(c, "checking"),
           MayAppend(c), MayWrite(c)
    PROVE  View(c)!KeysFree(K(c), U(c))
<1>1. c \in ServerConn /\ Pc(c) = "checking" /\ InTx(c)
  BY DEF Putting, InTx
<1>2. PICK k, u : k = K(c) /\ u = U(c)
  OBVIOUS
<1>3. k \in Key /\ u \in Upload /\ Reads(c) /\ Wrote(c) /\ View(c)!IsNext(k, u)
  BY <1>1, <1>2, TxParts DEF Requested, MayAppend
<1>4. /\ Committed!IsNext(k, u)
      /\ conn[c].view.chunks = db.chunks /\ conn[c].view.events = db.events
  <2>1. CASE conn[c].writes
    <3>1. Committed!IsNext(k, u) /\ PutWrote(c, k, u, conn[c].view)
      BY <1>2, <1>3, <2>1, CheckingView
    <3> QED
      BY <1>1, <3>1 DEF PutWrote, OnlyRow
  <2>2. CASE ~ conn[c].writes
    <3>1. conn[c].view = db
      BY <1>1, <1>3, <2>2 DEF Reads, MayWrite, Holds
    <3> QED
      BY <1>3, <3>1, ViewIsCommitted DEF View!IsNext, Committed!IsNext
  <2> QED
    BY <2>1, <2>2 DEF TxInv
<1>5. Committed!KeysFree(k, u)
  BY <1>3, <1>4, KeysFreeInTables
<1>6. View(c)!KeysFree(k, u)
  BY <1>4, <1>5
     DEF View!KeysFree, Committed!KeysFree, View!EventPositions, Committed!EventPositions,
         View!IsEvent, Committed!IsEvent, View!EventKind, Committed!EventKind
<1> QED
  BY <1>2, <1>6

LEMMA PutGoesOn ==
    ASSUME TxInv, Tables!NextKeysAreFree, NEW c \in Conn, InTx(c), c \in ServerConn
    PROVE  CanGoOn(c)
<1>1. Requested(c) /\ Reads(c) /\ Wrote(c) /\ Pc(c) \in PutPc /\ U(c).start \in Nat
  BY TxParts, UploadType DEF Requested
<1>2. CASE Pc(c) = "creating"
  BY <1>2 DEF CanGoOn, Putting, WantsToWrite
<1>3. CASE Pc(c) = "checking"
  <2>1. Putting(c, "checking")
    BY <1>3 DEF Putting
  <2>2. View(c)!NextOffset(K(c)) \in Nat
    BY <1>1, <1>3, <2>1, CheckingView DEF Reads, Requested
  <2>3. CASE MayAppend(c)
    BY <2>1, <2>3, KeysFreeInView DEF CanGoOn, WantsToWrite
  <2>4. CASE ~ MayAppend(c)
    <3>1. \/ U(c).start < View(c)!NextOffset(K(c))
          \/ U(c).start >= View(c)!NextOffset(K(c))
      BY <1>1, <2>2
    <3> QED
      BY <2>1, <2>4, <3>1 DEF CanGoOn
  <2> QED
    BY <2>3, <2>4
<1>4. CASE Pc(c) = "inserting"
  <2>1. conn[c].writes
    BY <1>1, <1>4 DEF Wrote
  <2>2. MayWrite(c)
    BY <1>4, <2>1 DEF MayWrite, Holds, Active
  <2> QED
    BY <1>4, <2>2 DEF CanGoOn, Putting
<1>5. CASE Pc(c) \in {"begun", "indexing", "committing"}
  BY <1>5 DEF CanGoOn, Putting
<1> QED
  BY <1>1, <1>2, <1>3, <1>4, <1>5 DEF PutPc

LEMMA DeleteGoesOn ==
    ASSUME TxInv, NEW c \in Conn, InTx(c), c \notin ServerConn
    PROVE  CanGoOn(c)
<1>1. Reads(c) /\ Wrote(c) /\ Pc(c) \in DeletePc /\ c \in AdminConn
  BY TxParts DEF Requested, Conn
<1>2. CASE Pc(c) = "begun"
  <2>1. MayWrite(c) => LockFree(c)
    BY <1>1, <1>2 DEF Reads, MayWrite, Holds
  <2> QED
    BY <1>1, <1>2, <2>1 DEF CanGoOn, Deleting, WantsToWrite
<1>3. CASE Pc(c) = "deleting"
  <2>1. MayWrite(c)
    BY <1>1, <1>3 DEF Wrote, MayWrite, Holds, Active
  <2> QED
    BY <1>1, <1>3, <2>1 DEF CanGoOn, Deleting
<1>4. CASE Pc(c) = "committing"
  BY <1>4 DEF CanGoOn
<1> QED
  BY <1>1, <1>2, <1>3, <1>4 DEF DeletePc

(***************************************************************************)
(* No process waits for another for ever: whatever the others hold or have *)
(* left undone, each open transaction can run its next statement, or gives *)
(* up because it cannot get the lock; and no statement that may write ever *)
(* meets a key that is taken.                                              *)
(***************************************************************************)
THEOREM EachRequestCanGoOn == Spec => []EachCanGoOn
<1>1. TxInv /\ Tables!NextKeysAreFree => EachCanGoOn
  <2> SUFFICES ASSUME TxInv, Tables!NextKeysAreFree, NEW c \in Conn, Active(c)
               PROVE  CanGoOn(c)
    BY DEF EachCanGoOn
  <2>1. CASE Pc(c) = "answered"
    BY <2>1 DEF CanGoOn
  <2>2. CASE Pc(c) # "answered"
    BY <2>2, PutGoesOn, DeleteGoesOn DEF Active, InTx
  <2> QED
    BY <2>1, <2>2
<1>2. Tables!Spec => []Tables!NextKeysAreFree
  BY Tables!KeysNeverClash, TablesAssumptions, NoIdAssumption, BlankAssumption, TimeAssumption
<1>3. Spec => Tables!Spec
  BY StatementsImplementStore, CommittedIsTables DEF ImplementsStore
<1> QED
  BY <1>1, <1>2, <1>3, TxInvariant, PTL
=============================================================================
