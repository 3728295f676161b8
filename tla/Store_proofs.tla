---------------------------- MODULE Store_proofs ----------------------------
(***************************************************************************)
(* Proofs about Store, for every set of devices, sessions, timestamps,     *)
(* texts and requests: its type invariant, the consistency of the chunks   *)
(* with the checkpoint, and the refinement of Archive.                     *)
(***************************************************************************)
EXTENDS Store, SequenceTheorems, FiniteSetTheorems, WellFoundedInduction, TLAPS

-----------------------------------------------------------------------------
(* A set of naturals that is not empty has a least element: the finite     *)
(* sets 0 .. s, for s in the set, have a minimal one.                      *)
LEMMA LeastOfNat ==
    ASSUME NEW S \in SUBSET Nat, S # {}
    PROVE  \E s \in S : \A t \in S : s <= t
<1> DEFINE T == {0 .. s : s \in S}
<1>1. \A s \in S : IsFiniteSet(0 .. s) /\ 0 .. s \in SUBSET Nat
  BY FS_Interval
<1>2. T \subseteq FiniteSubsetsOf(Nat) /\ T # {}
  BY <1>1 DEF FiniteSubsetsOf
<1>3. \E x \in T : \A y \in T : ~ (<<y, x>> \in StrictSubsetOrdering(Nat))
  <2>1. IsWellFoundedOn(StrictSubsetOrdering(Nat), FiniteSubsetsOf(Nat))
    BY FS_StrictSubsetOrderingWellFounded, Zenon
  <2> HIDE DEF T
  <2> QED
    BY <1>2, <2>1, WFMin, Zenon
<1>4. PICK s \in S : \A t \in S : ~ (<<0 .. t, 0 .. s>> \in StrictSubsetOrdering(Nat))
  BY <1>3
<1>5. ASSUME NEW t \in S, t < s PROVE FALSE
  <2>1. 0 .. t \subseteq 0 .. s
    BY <1>5
  <2>2. 0 .. t # 0 .. s
    <3>1. s \in 0 .. s /\ s \notin 0 .. t
      BY <1>5
    <3> QED
      BY <3>1
  <2>3. 0 .. t \in SUBSET Nat /\ 0 .. s \in SUBSET Nat
    BY <1>1
  <2> QED
    BY <1>4, <2>1, <2>2, <2>3 DEF StrictSubsetOrdering
<1> QED
  BY <1>5

(* A finite set that is not empty has an element of the greatest measure:  *)
(* of the sets of the elements above an element, the smallest is empty.    *)
LEMMA GreatestOfFinite ==
    ASSUME NEW S, IsFiniteSet(S), S # {}, NEW f \in [S -> Nat]
    PROVE  \E s \in S : \A t \in S : f[t] <= f[s]
<1> DEFINE Above(s) == {t \in S : f[t] > f[s]}
           T == {Above(s) : s \in S}
<1>1. \A s \in S : IsFiniteSet(Above(s)) /\ Above(s) \in SUBSET S
  BY FS_Subset
<1>2. T \subseteq FiniteSubsetsOf(S) /\ T # {}
  <2>1. \A s \in S : Above(s) \in FiniteSubsetsOf(S)
    BY <1>1 DEF FiniteSubsetsOf
  <2> HIDE DEF Above
  <2> QED
    BY <2>1
<1>3. \E x \in T : \A y \in T : ~ (<<y, x>> \in StrictSubsetOrdering(S))
  <2>1. IsWellFoundedOn(StrictSubsetOrdering(S), FiniteSubsetsOf(S))
    BY FS_StrictSubsetOrderingWellFounded, Zenon
  <2> HIDE DEF T
  <2> QED
    BY <1>2, <2>1, WFMin, Zenon
<1>4. PICK s \in S : \A t \in S : ~ (<<Above(t), Above(s)>> \in StrictSubsetOrdering(S))
  BY <1>3
<1>5. ASSUME NEW t \in S, f[t] > f[s] PROVE FALSE
  <2>1. f[s] \in Nat /\ f[t] \in Nat /\ f[s] < f[t] /\ ~ (f[t] > f[t])
    BY <1>5
  <2>2. Above(t) \subseteq Above(s)
    <3> SUFFICES ASSUME NEW x \in S, f[x] > f[t]
                 PROVE  f[x] > f[s]
      OBVIOUS
    <3> QED
      BY <2>1
  <2>3. t \in Above(s) /\ t \notin Above(t)
    BY <1>5, <2>1
  <2> QED
    BY <1>1, <1>4, <2>2, <2>3 DEF StrictSubsetOrdering
<1> QED
  BY <1>5
-----------------------------------------------------------------------------
(* LastActivity (codex.go, ParseChunk) is a timestamp.                     *)
LEMMA LatestType ==
    ASSUME NEW S \in SUBSET Time, S # {}
    PROVE  Latest(S) \in S /\ \A t \in S : t <= Latest(S)
BY TimeAssumption DEF Latest

LEMMA LastActivityType ==
    ASSUME NEW plain \in Seq(Record)
    PROVE  LastActivity(plain) \in Time
<1>1. \A i \in DOMAIN plain : plain[i].at \in Time
  <2>1. \A r \in Record : r.at \in Time
    BY DEF Record
  <2>2. \A i \in DOMAIN plain : plain[i] \in Record
    OBVIOUS
  <2> QED
    BY <2>1, <2>2
<1>2. {0} \cup {plain[i].at : i \in DOMAIN plain} \in SUBSET Time
  BY <1>1, TimeAssumption
<1> QED
  BY <1>2, LatestType DEF LastActivity

-----------------------------------------------------------------------------
(* Type correctness.  A request is any element of Request: the server does *)
(* not choose what it is sent.                                             *)
LEMMA InitTypeOK == Init => TypeOK
BY DEF Init, TypeOK

LEMMA ReadTypes ==
    ASSUME TypeOK, NEW k \in Key
    PROVE  /\ NextOffset(k) \in Nat
           /\ HashState(k) \in Seq(Record)
           /\ Known(k) => sessions[k] \in SessionRow
BY DEF TypeOK, NextOffset, HashState, Known, SessionRow

LEMMA RowAfterType ==
    ASSUME TypeOK, NEW k \in Key, NEW u \in Request, Acceptable(k, u)
    PROVE  RowAfter(k, u) \in SessionRow
<1>1. u.end \in Nat \ {0} /\ u.plain \in Seq(Record) /\ u.plain # << >>
  BY DEF Request, Acceptable, Parses
<1>2. HashState(k) \o u.plain \in Seq(Record)
  BY <1>1, ReadTypes, ConcatProperties
<1>3. IdOf(k) \in Nat \ {0}
  BY ReadTypes DEF IdOf, TypeOK, SessionRow
<1>4. MetaOf(k, u) \in Record
  <2>1. CASE Known(k)
    BY <2>1, ReadTypes DEF MetaOf, SessionRow
  <2>2. CASE ~Known(k)
    BY <1>1, <2>2, EmptySeq DEF MetaOf
  <2> QED
    BY <2>1, <2>2
<1>5. ActivityAfter(k, u) \in Time
  <2>1. LastActivity(u.plain) \in Time
    BY <1>1, LastActivityType
  <2>2. CASE Known(k)
    <3>1. {sessions[k].activity, LastActivity(u.plain)} \in SUBSET Time
      BY <2>1, <2>2, ReadTypes DEF SessionRow
    <3> QED
      BY <2>2, <3>1, LatestType DEF ActivityAfter
  <2>3. CASE ~Known(k)
    BY <2>1, <2>3 DEF ActivityAfter
  <2> QED
    BY <2>2, <2>3
<1> QED
  BY <1>1, <1>2, <1>3, <1>4, <1>5 DEF RowAfter, SessionRow

LEMMA NewEventsType ==
    ASSUME TypeOK, NEW u \in Request
    PROVE  NewEvents(u) \in SUBSET EventRow
<1> SUFFICES ASSUME NEW i \in EventPositions(u.plain)
             PROVE  EventAt(u, i) \in EventRow
  BY DEF NewEvents
<1>1. u.start \in Nat /\ u.plain \in Seq(Record)
  BY DEF Request
<1>2. i \in 1 .. Len(u.plain) /\ u.plain[i] \in Record /\ u.plain[i].kind \in EventKind
  BY <1>1 DEF EventPositions, IsEvent
<1>3. u.plain[i].text \in Text
  BY <1>2 DEF Record
<1>4. nextEventId \in Nat \ {0}
  BY DEF TypeOK
<1> QED
  BY <1>1, <1>2, <1>3, <1>4 DEF EventAt, EventRow, RowIdOf

LEMMA PutChunkTypeOK ==
    ASSUME TypeOK, NEW k \in Key, NEW u \in Request, PutChunk(k, u)
    PROVE  TypeOK'
<1>1. Acceptable(k, u)
  BY DEF PutChunk, Storable
<1>2. u.start \in Nat /\ u.end \in Nat /\ u.plain \in Seq(Record)
  BY DEF Request
<1>3. sessions' \in [Key -> SessionRow \cup {NoRow}]
  BY <1>1, RowAfterType DEF PutChunk, TypeOK
<1>4. chunks' \in [Key -> SUBSET ChunkRow]
  <2>1. NewChunk(u) \in ChunkRow
    BY <1>2 DEF NewChunk, ChunkRow
  <2> QED
    BY <2>1 DEF PutChunk, TypeOK
<1>5. events' \in [Key -> SUBSET EventRow]
  BY NewEventsType DEF PutChunk, TypeOK
<1>6. fts' \in SUBSET SearchRow
  <2>1. NewSearchRows(k, u) \in SUBSET SearchRow
    <3> SUFFICES ASSUME NEW e \in NewEvents(u)
                 PROVE  [rowid |-> e.id, key |-> k, seq |-> e.seq,
                         text |-> SearchText(e)] \in SearchRow
      BY DEF NewSearchRows
    <3>1. e \in EventRow
      BY NewEventsType
    <3> QED
      BY <3>1 DEF EventRow, SearchRow, SearchText
  <2> QED
    BY <2>1 DEF PutChunk, TypeOK
<1>7. nextSessionId' \in Nat \ {0}
  BY DEF PutChunk, TypeOK
<1>8. nextEventId' \in Nat \ {0}
  BY <1>2, LenProperties DEF PutChunk, TypeOK
<1> QED
  BY <1>3, <1>4, <1>5, <1>6, <1>7, <1>8 DEF TypeOK

LEMMA DeleteTypeOK ==
    ASSUME TypeOK, NEW k \in Key, DeleteSession(k)
    PROVE  TypeOK'
<1>1. sessions' \in [Key -> SessionRow \cup {NoRow}]
  BY DEF DeleteSession, TypeOK
<1>2. chunks' \in [Key -> SUBSET ChunkRow] /\ events' \in [Key -> SUBSET EventRow]
  BY DEF DeleteSession, TypeOK
<1>3. fts' \in SUBSET SearchRow
  BY DEF DeleteSession, TypeOK
<1> QED
  BY <1>1, <1>2, <1>3 DEF DeleteSession, TypeOK

LEMMA NextTypeOK == TypeOK /\ [Next]_vars => TypeOK'
<1> SUFFICES ASSUME TypeOK, [Next]_vars
             PROVE  TypeOK'
  OBVIOUS
<1>1. ASSUME NEW k \in Key, NEW u \in Upload, PutChunk(k, u)
      PROVE  TypeOK'
  BY <1>1, UploadAssumption, PutChunkTypeOK
<1>2. ASSUME NEW k \in Key, DeleteSession(k)
      PROVE  TypeOK'
  BY <1>2, DeleteTypeOK
<1>3. CASE UNCHANGED vars
  BY <1>3 DEF vars, TypeOK
<1> QED
  BY <1>1, <1>2, <1>3 DEF Next

(* Every table holds rows of its schema in every reachable state.          *)
THEOREM TypeCorrect == Spec => []TypeOK
BY InitTypeOK, NextTypeOK, PTL DEF Spec
-----------------------------------------------------------------------------
(* What a step changes of what a request reads.                            *)
LEMMA PutChunkReads ==
    ASSUME TypeOK, NEW k \in Key, NEW u \in Request, PutChunk(k, u), NEW j \in Key
    PROVE  /\ Known(j)' <=> j = k \/ Known(j)
           /\ NextOffset(j)' = IF j = k THEN u.end ELSE NextOffset(j)
           /\ HashState(j)' = IF j = k THEN HashState(k) \o u.plain ELSE HashState(j)
           /\ chunks'[j] = IF j = k THEN chunks[k] \cup {NewChunk(u)} ELSE chunks[j]
<1>1. RowAfter(k, u) # NoRow
  BY RowAfterType, NoRowAssumption DEF PutChunk, Storable
<1>2. sessions'[j] = IF j = k THEN RowAfter(k, u) ELSE sessions[j]
  BY DEF PutChunk, TypeOK
<1>3. chunks'[j] = IF j = k THEN chunks[k] \cup {NewChunk(u)} ELSE chunks[j]
  BY DEF PutChunk, TypeOK
<1>4. Known(j)' <=> j = k \/ Known(j)
  BY <1>1, <1>2 DEF Known
<1>5. CASE j = k
  <2>1. /\ RowAfter(k, u).next = u.end
        /\ RowAfter(k, u).hash = HashState(k) \o u.plain
    BY DEF RowAfter
  <2>2. NextOffset(j)' = sessions'[j].next /\ HashState(j)' = sessions'[j].hash
    BY <1>4, <1>5 DEF NextOffset, HashState
  <2> QED
    BY <1>2, <1>3, <1>4, <1>5, <2>1, <2>2
<1>6. CASE j # k
  BY <1>2, <1>3, <1>4, <1>6 DEF NextOffset, HashState
<1> QED
  BY <1>4, <1>5, <1>6

LEMMA DeleteReads ==
    ASSUME TypeOK, NEW k \in Key, DeleteSession(k), NEW j \in Key
    PROVE  /\ Known(j)' <=> j # k /\ Known(j)
           /\ NextOffset(j)' = IF j = k THEN 0 ELSE NextOffset(j)
           /\ HashState(j)' = IF j = k THEN << >> ELSE HashState(j)
           /\ chunks'[j] = IF j = k THEN {} ELSE chunks[j]
<1>1. sessions'[j] = IF j = k THEN NoRow ELSE sessions[j]
  BY DEF DeleteSession, TypeOK
<1>2. chunks'[j] = IF j = k THEN {} ELSE chunks[j]
  BY DEF DeleteSession, TypeOK
<1>3. Known(j)' <=> j # k /\ Known(j)
  BY <1>1 DEF Known
<1> QED
  BY <1>1, <1>2, <1>3 DEF NextOffset, HashState

(* The new chunk in the terms of the checkpoint it extends.                *)
LEMMA NewChunkFits ==
    ASSUME ArchiveInv, NEW k \in Key, NEW u \in Request, PutChunk(k, u)
    PROVE  /\ NewChunk(u).start = NextOffset(k)
           /\ NewChunk(u).end = NextOffset(k) + Len(u.plain)
           /\ NewChunk(u).plain = u.plain
           /\ u.end = NextOffset(k) + Len(u.plain)
           /\ u.plain \in Seq(Record) /\ Len(u.plain) \in Nat \ {0}
           /\ NextOffset(k) = Len(HashState(k))
           /\ HashState(k) \in Seq(Record)
           /\ Len(HashState(k) \o u.plain) = u.end
           /\ \A i \in 1 .. NextOffset(k) :
                 (HashState(k) \o u.plain)[i] = HashState(k)[i]
           /\ \A i \in 1 .. Len(u.plain) :
                 (HashState(k) \o u.plain)[NextOffset(k) + i] = u.plain[i]
<1>1. u.plain \in Seq(Record) /\ u.start \in Nat /\ u.end \in Nat
  BY DEF Request
<1>2. u.start = NextOffset(k) /\ u.end > u.start /\ Len(u.plain) = u.end - u.start
  BY DEF PutChunk, Storable, IsNext, Acceptable
<1>3. NextOffset(k) = Len(HashState(k)) /\ HashState(k) \in Seq(Record)
  BY ReadTypes DEF ArchiveInv, CheckpointCountsHashed
<1>4. /\ Len(HashState(k) \o u.plain) = Len(HashState(k)) + Len(u.plain)
      /\ \A i \in 1 .. Len(HashState(k)) + Len(u.plain) :
            (HashState(k) \o u.plain)[i] =
               IF i <= Len(HashState(k)) THEN HashState(k)[i]
               ELSE u.plain[i - Len(HashState(k))]
  BY <1>1, <1>3, ConcatProperties
<1>5. Len(u.plain) \in Nat \ {0} /\ Len(HashState(k)) \in Nat
  BY <1>1, <1>2, <1>3, LenProperties
<1>6. \A i \in 1 .. NextOffset(k) :
         (HashState(k) \o u.plain)[i] = HashState(k)[i]
  BY <1>3, <1>4, <1>5
<1>7. \A i \in 1 .. Len(u.plain) :
         (HashState(k) \o u.plain)[NextOffset(k) + i] = u.plain[i]
  BY <1>3, <1>4, <1>5
<1> QED
  BY <1>1, <1>2, <1>3, <1>4, <1>5, <1>6, <1>7 DEF NewChunk

LEMMA ChunkTypes ==
    ASSUME TypeOK, NEW k \in Key, NEW c \in chunks[k]
    PROVE  /\ c.start \in Nat /\ c.end \in Nat
           /\ c.plain \in Seq(Record) /\ Len(c.plain) \in Nat
BY LenProperties DEF TypeOK, ChunkRow

LEMMA ExtendedParses ==
    ASSUME ArchiveInv, NEW k \in Key, NEW u \in Request, PutChunk(k, u)
    PROVE  Parses(HashState(k) \o u.plain, 0, SessionOf(k))
<1> DEFINE hash == HashState(k) \o u.plain
<1>1. Parses(u.plain, u.start, SessionOf(k))
  BY DEF PutChunk, Storable, Acceptable
<1>2. /\ u.plain \in Seq(Record) /\ Len(u.plain) \in Nat \ {0}
      /\ HashState(k) \in Seq(Record) /\ NextOffset(k) = Len(HashState(k))
      /\ Len(hash) = NextOffset(k) + Len(u.plain)
      /\ \A i \in 1 .. NextOffset(k) : hash[i] = HashState(k)[i]
      /\ \A i \in 1 .. Len(u.plain) : hash[NextOffset(k) + i] = u.plain[i]
  BY NewChunkFits
<1>3. hash \in Seq(Record) /\ NextOffset(k) \in Nat
  BY <1>2, ConcatProperties, LenProperties
<1>4. \A i \in 1 .. Len(u.plain) : Valid(u.plain[i])
  BY <1>1, <1>2 DEF Parses
<1>5. \A i \in 1 .. NextOffset(k) : Valid(HashState(k)[i])
  <2>1. CASE Known(k)
    BY <1>2, <2>1 DEF ArchiveInv, ArchiveParses, Parses
  <2>2. CASE ~Known(k)
    BY <2>2 DEF NextOffset
  <2> QED
    BY <2>1, <2>2
<1>6. \A i \in DOMAIN hash : Valid(hash[i])
  <2> SUFFICES ASSUME NEW i \in DOMAIN hash
               PROVE  Valid(hash[i])
    OBVIOUS
  <2>1. i \in 1 .. NextOffset(k) + Len(u.plain)
    BY <1>2, <1>3
  <2>2. CASE i <= NextOffset(k)
    BY <1>2, <1>3, <1>5, <2>1, <2>2
  <2>3. CASE i > NextOffset(k)
    <3>1. i - NextOffset(k) \in 1 .. Len(u.plain)
      BY <1>2, <1>3, <2>1, <2>3
    <3>2. hash[NextOffset(k) + (i - NextOffset(k))] = u.plain[i - NextOffset(k)]
      BY <1>2, <3>1
    <3>3. NextOffset(k) + (i - NextOffset(k)) = i
      BY <1>3, <2>1
    <3> QED
      BY <1>4, <3>1, <3>2, <3>3
  <2> QED
    BY <1>2, <1>3, <2>1, <2>2, <2>3
<1>7. OpensSession(hash, SessionOf(k))
  <2>1. CASE Known(k)
    <3>1. NextOffset(k) \in Nat \ {0}
      BY <2>1, ReadTypes DEF ArchiveInv, NextOffset, SessionRow
    <3>2. hash[1] = HashState(k)[1]
      BY <1>2, <3>1
    <3> QED
      BY <2>1, <3>2 DEF ArchiveInv, ArchiveParses, Parses, OpensSession
  <2>2. CASE ~Known(k)
    <3>1. NextOffset(k) = 0 /\ u.start = 0
      BY <2>2 DEF NextOffset, PutChunk, Storable, IsNext
    <3>2. hash[1] = u.plain[1]
      BY <1>2, <3>1
    <3> QED
      BY <1>1, <3>1, <3>2 DEF Parses, OpensSession
  <2> QED
    BY <2>1, <2>2
<1>8. hash # << >>
  BY <1>2, <1>3
<1> QED
  BY <1>6, <1>7, <1>8 DEF Parses

LEMMA PutChunkArchiveInv ==
    ASSUME ArchiveInv, NEW k \in Key, NEW u \in Request, PutChunk(k, u)
    PROVE  ArchiveInv'
<1> DEFINE n == NewChunk(u)
           hash == HashState(k) \o u.plain
<1>1. TypeOK'
  BY PutChunkTypeOK DEF ArchiveInv
<1>2. ChunksTileArchive'
  <2> SUFFICES ASSUME NEW j \in Key
               PROVE  /\ \A c \in chunks'[j] :
                            /\ c.start < c.end /\ c.end <= NextOffset(j)'
                            /\ Len(c.plain) = c.end - c.start
                            /\ \A d \in chunks'[j] :
                                  c = d \/ c.end <= d.start \/ d.end <= c.start
                      /\ \A i \in 1 .. NextOffset(j)' :
                            \E c \in chunks'[j] : Covers(c, i)
    BY DEF ChunksTileArchive
  <2>1. CASE j # k
    BY <2>1, PutChunkReads DEF ArchiveInv, ChunksTileArchive
  <2>2. CASE j = k
    <3> HIDE DEF n
    <3>1. chunks'[j] = chunks[k] \cup {n} /\ NextOffset(j)' = u.end
      BY <2>2, PutChunkReads DEF ArchiveInv, n
    <3>2. /\ n.start = NextOffset(k) /\ n.end = u.end /\ Len(n.plain) = n.end - n.start
          /\ n.start < n.end /\ NextOffset(k) \in Nat /\ u.end \in Nat
      BY NewChunkFits, LenProperties DEF n
    <3>3. \A c \in chunks[k] :
             /\ c.start \in Nat /\ c.end \in Nat
             /\ c.start < c.end /\ c.end <= NextOffset(k)
             /\ Len(c.plain) = c.end - c.start
             /\ \A d \in chunks[k] : c = d \/ c.end <= d.start \/ d.end <= c.start
      BY ChunkTypes DEF ArchiveInv, ChunksTileArchive
    <3>4. \A i \in 1 .. u.end : \E c \in chunks'[j] : Covers(c, i)
      <4> SUFFICES ASSUME NEW i \in 1 .. u.end
                   PROVE  \E c \in chunks'[j] : Covers(c, i)
        OBVIOUS
      <4>1. CASE i <= NextOffset(k)
        BY <3>1, <3>2, <4>1 DEF ArchiveInv, ChunksTileArchive
      <4>2. CASE i > NextOffset(k)
        BY <3>1, <3>2, <4>2 DEF Covers
      <4> QED
        BY <3>2, <4>1, <4>2
    <3> QED
      BY <3>1, <3>2, <3>3, <3>4
  <2> QED
    BY <2>1, <2>2
<1>3. CheckpointCountsHashed'
  <2> SUFFICES ASSUME NEW j \in Key
               PROVE  NextOffset(j)' = Len(HashState(j)')
    BY DEF CheckpointCountsHashed
  <2>1. CASE j # k
    BY <2>1, PutChunkReads DEF ArchiveInv, CheckpointCountsHashed
  <2>2. CASE j = k
    <3>1. NextOffset(j)' = u.end /\ HashState(j)' = hash
      BY <2>2, PutChunkReads DEF ArchiveInv
    <3> QED
      BY <3>1, NewChunkFits
  <2> QED
    BY <2>1, <2>2
<1>4. ChunksHoldHashed'
  <2> SUFFICES ASSUME NEW j \in Key, NEW c \in chunks'[j], NEW i \in 1 .. Len(c.plain)
               PROVE  c.plain[i] = HashState(j)'[c.start + i]
    BY DEF ChunksHoldHashed
  <2>1. CASE j # k
    <3>1. c \in chunks[j] /\ HashState(j)' = HashState(j)
      BY <2>1, PutChunkReads DEF ArchiveInv
    <3> QED
      BY <3>1 DEF ArchiveInv, ChunksHoldHashed
  <2>2. CASE j = k /\ c \in chunks[k]
    <3>1. c.plain[i] = HashState(k)[c.start + i]
      BY <2>2 DEF ArchiveInv, ChunksHoldHashed
    <3>2. c.start + i \in 1 .. NextOffset(k)
      <4>1. /\ c.start \in Nat /\ c.end \in Nat /\ c.end <= NextOffset(k)
            /\ Len(c.plain) = c.end - c.start
        BY <2>2, ChunkTypes DEF ArchiveInv, ChunksTileArchive
      <4>2. NextOffset(k) \in Nat
        BY ReadTypes DEF ArchiveInv
      <4> QED
        BY <4>1, <4>2
    <3>3. hash[c.start + i] = HashState(k)[c.start + i]
      BY <3>2, NewChunkFits
    <3> QED
      BY <2>2, <3>1, <3>3, PutChunkReads DEF ArchiveInv
  <2>3. CASE j = k /\ c = n
    <3>1. c.start = NextOffset(k) /\ c.plain = u.plain
      BY <2>3, NewChunkFits
    <3>2. HashState(j)' = hash
      BY <2>3, PutChunkReads DEF ArchiveInv
    <3>3. hash[NextOffset(k) + i] = u.plain[i]
      BY <3>1, NewChunkFits
    <3> QED
      BY <3>1, <3>2, <3>3
  <2> QED
    BY <2>1, <2>2, <2>3, PutChunkReads DEF ArchiveInv
<1>5. ArchiveParses'
  <2> SUFFICES ASSUME NEW j \in Key, Known(j)'
               PROVE  Parses(HashState(j)', 0, SessionOf(j))
    BY DEF ArchiveParses, SessionOf
  <2>1. CASE j # k
    <3>1. Known(j) /\ HashState(j)' = HashState(j)
      BY <2>1, PutChunkReads DEF ArchiveInv
    <3> QED
      BY <3>1 DEF ArchiveInv, ArchiveParses
  <2>2. CASE j = k
    <3>1. HashState(j)' = hash
      BY <2>2, PutChunkReads DEF ArchiveInv
    <3> QED
      BY <2>2, <3>1, ExtendedParses
  <2> QED
    BY <2>1, <2>2
<1> QED
  BY <1>1, <1>2, <1>3, <1>4, <1>5 DEF ArchiveInv

LEMMA DeleteArchiveInv ==
    ASSUME ArchiveInv, NEW k \in Key, DeleteSession(k)
    PROVE  ArchiveInv'
<1>1. TypeOK'
  BY DeleteTypeOK DEF ArchiveInv
<1>2. ChunksTileArchive'
  BY DeleteReads DEF ArchiveInv, ChunksTileArchive
<1>3. CheckpointCountsHashed'
  <2>1. Len(<< >>) = 0
    OBVIOUS
  <2> QED
    BY <2>1, DeleteReads DEF ArchiveInv, CheckpointCountsHashed
<1>4. ChunksHoldHashed'
  BY DeleteReads DEF ArchiveInv, ChunksHoldHashed
<1>5. ArchiveParses'
  BY DeleteReads DEF ArchiveInv, ArchiveParses, SessionOf
<1> QED
  BY <1>1, <1>2, <1>3, <1>4, <1>5 DEF ArchiveInv

LEMMA NextArchiveInv == ArchiveInv /\ [Next]_vars => ArchiveInv'
<1> SUFFICES ASSUME ArchiveInv, [Next]_vars
             PROVE  ArchiveInv'
  OBVIOUS
<1>1. ASSUME NEW k \in Key, NEW u \in Upload, PutChunk(k, u)
      PROVE  ArchiveInv'
  BY <1>1, UploadAssumption, PutChunkArchiveInv
<1>2. ASSUME NEW k \in Key, DeleteSession(k)
      PROVE  ArchiveInv'
  BY <1>2, DeleteArchiveInv
<1>3. CASE UNCHANGED vars
  <2>1. TypeOK'
    BY <1>3, NextTypeOK DEF ArchiveInv
  <2> QED
    BY <1>3, <2>1 DEF vars, ArchiveInv, ChunksTileArchive, CheckpointCountsHashed,
                      ChunksHoldHashed, ArchiveParses, NextOffset, HashState, Known,
                      SessionOf
<1> QED
  BY <1>1, <1>2, <1>3 DEF Next

LEMMA InitArchiveInv == Init => ArchiveInv
<1> SUFFICES ASSUME Init PROVE ArchiveInv
  OBVIOUS
<1>1. \A k \in Key : NextOffset(k) = 0 /\ HashState(k) = << >> /\ chunks[k] = {}
  BY DEF Init, NextOffset, HashState, Known
<1> QED
  BY <1>1, InitTypeOK DEF ArchiveInv, ChunksTileArchive, CheckpointCountsHashed,
                          ChunksHoldHashed, ArchiveParses, Init, Known

LEMMA ArchiveInvariant == Spec => []ArchiveInv
BY InitArchiveInv, NextArchiveInv, PTL DEF Spec

(* The chunks of a session tile the offsets up to its checkpoint.          *)
THEOREM ChunksTile == Spec => []ChunksTileArchive
<1>1. ArchiveInv => ChunksTileArchive
  BY DEF ArchiveInv
<1> QED
  BY <1>1, ArchiveInvariant, PTL

(* Read back from its chunks, the archive is what the prefix was hashed of.*)
LEMMA ArchiveIsHashed ==
    ASSUME ArchiveInv, NEW k \in Key
    PROVE  HashState(k) = ArchiveOf(k)
<1>1. HashState(k) \in Seq(Record) /\ NextOffset(k) = Len(HashState(k))
  BY ReadTypes DEF ArchiveInv, CheckpointCountsHashed
<1>2. \A i \in 1 .. NextOffset(k) : RecordAt(k, i) = HashState(k)[i]
  <2> SUFFICES ASSUME NEW i \in 1 .. NextOffset(k)
               PROVE  RecordAt(k, i) = HashState(k)[i]
    OBVIOUS
  <2> DEFINE c == CHOOSE c \in chunks[k] : Covers(c, i)
  <2>1. c \in chunks[k] /\ Covers(c, i)
    BY DEF ArchiveInv, ChunksTileArchive
  <2> HIDE DEF c
  <2>2. /\ c.start \in Nat /\ c.end \in Nat
        /\ Len(c.plain) = c.end - c.start
    BY <2>1, ChunkTypes DEF ArchiveInv, ChunksTileArchive
  <2>3. i - c.start \in 1 .. Len(c.plain)
    BY <2>1, <2>2 DEF Covers
  <2>4. c.plain[i - c.start] = HashState(k)[c.start + (i - c.start)]
    BY <2>1, <2>3 DEF ArchiveInv, ChunksHoldHashed
  <2>5. c.start + (i - c.start) = i
    BY <2>2
  <2>6. RecordAt(k, i) = c.plain[i - c.start]
    BY DEF RecordAt, c
  <2> QED
    BY <2>4, <2>5, <2>6
<1>3. ArchiveOf(k) = [i \in 1 .. Len(HashState(k)) |-> HashState(k)[i]]
  BY <1>1, <1>2 DEF ArchiveOf
<1>4. HashState(k) = [i \in 1 .. Len(HashState(k)) |-> HashState(k)[i]]
  BY <1>1
<1> QED
  BY <1>3, <1>4

(* The checkpoint the server hands out vouches for the whole archive.      *)
THEOREM HashMatches == Spec => []HashMatchesArchive
<1>1. ArchiveInv => HashMatchesArchive
  BY ArchiveIsHashed DEF HashMatchesArchive
<1> QED
  BY <1>1, ArchiveInvariant, PTL

(* A chunk acknowledged as a duplicate is in the archive, at its place.    *)
LEMMA ArchivedReplay ==
    ASSUME ArchiveInv, NEW k \in Key, NEW u \in Request, IsReplay(k, u)
    PROVE  SubSeq(HashState(k), u.start + 1, u.end) = u.plain
<1>1. PICK c \in chunks[k] : c.start = u.start /\ c.end = u.end /\ c.plain = u.plain
  BY DEF IsReplay
<1>2. /\ c.start \in Nat /\ c.end \in Nat /\ c.plain \in Seq(Record)
      /\ c.start < c.end /\ c.end <= Len(HashState(k))
      /\ Len(c.plain) = c.end - c.start
  BY ChunkTypes DEF ArchiveInv, ChunksTileArchive, CheckpointCountsHashed
<1>3. HashState(k) \in Seq(Record)
  BY ReadTypes DEF ArchiveInv
<1> DEFINE part == SubSeq(HashState(k), c.start + 1, c.end)
<1>4. /\ part \in Seq(Record) /\ Len(part) = Len(c.plain)
      /\ \A j \in 1 .. Len(c.plain) : part[j] = HashState(k)[c.start + j]
  BY <1>2, <1>3, SubSeqProperties
<1>5. \A j \in 1 .. Len(c.plain) : c.plain[j] = HashState(k)[c.start + j]
  BY DEF ArchiveInv, ChunksHoldHashed
<1> HIDE DEF part
<1>6. part = c.plain
  BY <1>2, <1>4, <1>5, SeqEqual
<1> QED
  BY <1>1, <1>6 DEF part

THEOREM DuplicatesAreArchived == Spec => []DuplicateIsArchived
<1>1. ArchiveInv => DuplicateIsArchived
  <2> SUFFICES ASSUME ArchiveInv, NEW k \in Key, NEW u \in Upload,
                      Outcome(k, u) = "duplicate"
               PROVE  SubSeq(HashState(k), u.start + 1, u.end) = u.plain
    BY DEF DuplicateIsArchived
  <2>1. IsReplay(k, u)
    BY DEF Outcome
  <2> QED
    BY <2>1, UploadAssumption, ArchivedReplay
<1> QED
  BY <1>1, ArchiveInvariant, PTL

(* AUTOINCREMENT: a new session row has an id no earlier row had.          *)
LEMMA NewIdIsLast ==
    ASSUME TypeOK, [Next]_vars
    PROVE  \A i \in Ids' \ Ids : i >= nextSessionId /\ i < nextSessionId'
<1>1. ASSUME NEW k \in Key, NEW u \in Upload, PutChunk(k, u), NEW i \in Ids' \ Ids
      PROVE  i >= nextSessionId /\ i < nextSessionId'
  <2>1. PICK j \in Key : Known(j)' /\ i = sessions'[j].id
    BY <1>1 DEF Ids
  <2>2. u \in Request
    BY UploadAssumption
  <2>3. j = k
    <3> SUFFICES ASSUME j # k PROVE FALSE
      OBVIOUS
    <3>1. Known(j) /\ sessions'[j] = sessions[j]
      BY <1>1, <2>1, <2>2, PutChunkReads DEF PutChunk, TypeOK
    <3> QED
      BY <1>1, <2>1, <3>1 DEF Ids
  <2>4. i = IdOf(k)
    BY <1>1, <2>1, <2>3 DEF PutChunk, TypeOK, RowAfter
  <2>5. ~Known(k)
    BY <1>1, <2>4 DEF Ids, IdOf
  <2> QED
    BY <1>1, <2>4, <2>5 DEF IdOf, PutChunk, TypeOK
<1>2. ASSUME NEW k \in Key, DeleteSession(k), NEW i \in Ids' \ Ids
      PROVE  FALSE
  <2>1. PICK j \in Key : Known(j)' /\ i = sessions'[j].id
    BY <1>2 DEF Ids
  <2>2. Known(j) /\ sessions'[j] = sessions[j]
    BY <1>2, <2>1 DEF DeleteSession, TypeOK, Known
  <2> QED
    BY <1>2, <2>1, <2>2 DEF Ids
<1>3. ASSUME UNCHANGED vars
      PROVE  Ids' = Ids
  BY <1>3 DEF vars, Ids, Known
<1> QED
  BY <1>1, <1>2, <1>3 DEF Next

(***************************************************************************)
(* The ids in use are given out, and each belongs to one session; an id is *)
(* retired when it was given out and its session deleted.                  *)
(***************************************************************************)
HasId(k, i) == Known(k) /\ sessions[k].id = i

IdInv ==
    /\ TypeOK
    /\ \A k \in Key : Known(k) => sessions[k].id < nextSessionId
    /\ \A j, k \in Key : Known(j) /\ Known(k) /\ sessions[j].id = sessions[k].id => j = k

IsOfOne(k, i) == \A j \in Key : HasId(j, i) <=> j = k

OfNobody(i) == \A j \in Key : ~ HasId(j, i)

Retired(i) == i < nextSessionId /\ OfNobody(i)

(* One step gives no id out again, and moves none to another session.      *)
LEMMA NextIds ==
    ASSUME IdInv, [Next]_vars
    PROVE  /\ nextSessionId <= nextSessionId' /\ nextSessionId' \in Nat
           /\ \A j \in Key : Known(j)' =>
                 \/ Known(j) /\ sessions'[j].id = sessions[j].id
                 \/ ~ Known(j) /\ sessions'[j].id = nextSessionId /\ nextSessionId < nextSessionId'
           /\ \A j, k \in Key : ~ Known(j) /\ ~ Known(k) /\ Known(j)' /\ Known(k)' => j = k
<1>1. TypeOK /\ nextSessionId \in Nat
  BY DEF IdInv, TypeOK
<1>2. ASSUME NEW k \in Key, NEW u \in Upload, PutChunk(k, u)
      PROVE  /\ nextSessionId' = IF Known(k) THEN nextSessionId ELSE nextSessionId + 1
             /\ \A j \in Key \ {k} : Known(j)' = Known(j) /\ sessions'[j] = sessions[j]
             /\ sessions'[k].id = IF Known(k) THEN sessions[k].id ELSE nextSessionId
  <2>1. sessions' = [sessions EXCEPT ![k] = RowAfter(k, u)]
    BY <1>2 DEF PutChunk
  <2>2. DOMAIN sessions = Key
    BY <1>1 DEF TypeOK
  <2>3. \A j \in Key \ {k} : Known(j)' = Known(j) /\ sessions'[j] = sessions[j]
    BY <2>1, <2>2 DEF Known
  <2>4. sessions'[k].id = IdOf(k)
    BY <2>1, <2>2 DEF RowAfter
  <2> QED
    BY <1>2, <2>3, <2>4 DEF PutChunk, IdOf
<1>3. ASSUME NEW k \in Key, DeleteSession(k)
      PROVE  /\ nextSessionId' = nextSessionId
             /\ \A j \in Key : Known(j)' => Known(j) /\ sessions'[j] = sessions[j]
  BY <1>1, <1>3 DEF DeleteSession, TypeOK, Known
<1>4. CASE UNCHANGED vars
  BY <1>1, <1>4 DEF vars, Known
<1>5. CASE \E k \in Key, u \in Upload : PutChunk(k, u)
  <2>1. PICK k \in Key, u \in Upload : PutChunk(k, u)
    BY <1>5
  <2>2. \A j \in Key : j # k => Known(j)' = Known(j) /\ sessions'[j] = sessions[j]
    BY <1>2, <2>1
  <2>3. CASE Known(k)
    BY <1>1, <1>2, <2>1, <2>2, <2>3
  <2>4. CASE ~ Known(k)
    BY <1>1, <1>2, <2>1, <2>2, <2>4
  <2> QED
    BY <2>3, <2>4
<1>6. CASE \E k \in Key : DeleteSession(k)
  BY <1>1, <1>3, <1>6
<1> QED
  BY <1>4, <1>5, <1>6 DEF Next

LEMMA IdInvariant == Spec => []IdInv
<1>1. Init => IdInv
  BY InitTypeOK DEF Init, IdInv, Known
<1>2. IdInv /\ [Next]_vars => IdInv'
  <2> SUFFICES ASSUME IdInv, [Next]_vars
               PROVE  IdInv'
    OBVIOUS
  <2>1. TypeOK'
    BY NextTypeOK DEF IdInv
  <2>2. \A k \in Key : Known(k) => sessions[k].id \in Nat
    BY DEF IdInv, TypeOK, Known, SessionRow
  <2>3. nextSessionId \in Nat
    BY DEF IdInv, TypeOK
  <2>4. \A k \in Key : Known(k)' => sessions'[k].id < nextSessionId'
    BY <2>2, <2>3, NextIds DEF IdInv
  <2>5. ASSUME NEW j \in Key, NEW k \in Key, Known(j)', Known(k)',
               sessions'[j].id = sessions'[k].id
        PROVE  j = k
    BY <2>2, <2>3, <2>5, NextIds DEF IdInv
  <2> QED
    BY <2>1, <2>4, <2>5 DEF IdInv
<1> QED
  BY <1>1, <1>2, PTL DEF Spec

(***************************************************************************)
(* An id is never used again (AUTOINCREMENT): as long as a session has it, *)
(* no other has it, and from the moment its session is deleted nobody has  *)
(* it, also not the same session shared anew.  A cursor of SearchSessions  *)
(* means the same session for ever.                                        *)
(***************************************************************************)
THEOREM SessionIdsNeverReturn ==
    ASSUME NEW k \in Key, NEW i \in Nat
    PROVE  Spec => [](HasId(k, i) => [](IsOfOne(k, i) \/ []OfNobody(i)))
<1>1. IdInv /\ HasId(k, i) => IsOfOne(k, i)
  BY DEF IdInv, HasId, IsOfOne
<1>2. IdInv /\ [Next]_vars /\ IsOfOne(k, i) => IsOfOne(k, i)' \/ Retired(i)'
  <2> SUFFICES ASSUME IdInv, [Next]_vars, IsOfOne(k, i)
               PROVE  IsOfOne(k, i)' \/ Retired(i)'
    OBVIOUS
  <2>1. /\ Known(k) /\ sessions[k].id = i /\ i < nextSessionId /\ nextSessionId \in Nat
        /\ \A j \in Key : Known(j) /\ sessions[j].id = i => j = k
    BY DEF IdInv, TypeOK, IsOfOne, HasId
  <2>2. i < nextSessionId'
    BY <2>1, NextIds
  <2>3. \A j \in Key : Known(j)' /\ sessions'[j].id = i => j = k
    BY <2>1, NextIds
  <2>4. Known(k)' => sessions'[k].id = i
    BY <2>1, NextIds
  <2> QED
    BY <2>2, <2>3, <2>4 DEF IsOfOne, HasId, Retired, OfNobody
<1>3. IdInv /\ [Next]_vars /\ Retired(i) => Retired(i)'
  <2> SUFFICES ASSUME IdInv, [Next]_vars, Retired(i)
               PROVE  Retired(i)'
    OBVIOUS
  <2>1. /\ i < nextSessionId /\ nextSessionId \in Nat
        /\ \A j \in Key : ~ (Known(j) /\ sessions[j].id = i)
    BY DEF IdInv, TypeOK, Retired, OfNobody, HasId
  <2>2. i < nextSessionId'
    BY <2>1, NextIds
  <2>3. \A j \in Key : ~ (Known(j)' /\ sessions'[j].id = i)
    BY <2>1, NextIds
  <2> QED
    BY <2>2, <2>3 DEF Retired, OfNobody, HasId
<1>4. Retired(i) => OfNobody(i)
  BY DEF Retired
<1> QED
  BY <1>1, <1>2, <1>3, <1>4, IdInvariant, PTL DEF Spec

-----------------------------------------------------------------------------
(* The refinement: each step of the database is a step of the archive.     *)
ContentIsHashed == \A k \in Key : Content[k] = HashState(k)

LEMMA ContentAt == ArchiveInv => ContentIsHashed
BY ArchiveIsHashed DEF Content, ContentIsHashed

LEMMA ContentAtNext == ArchiveInv' => ContentIsHashed'
BY ContentAt, PTL

LEMMA AbstractKey == Abstract!Key = Key
BY DEF Key, Abstract!Key

LEMMA InitImplements == Init => Abstract!Init
<1> SUFFICES ASSUME Init PROVE Abstract!Init
  OBVIOUS
<1>1. \A k \in Key : ArchiveOf(k) = << >>
  <2> SUFFICES ASSUME NEW k \in Key PROVE ArchiveOf(k) = << >>
    OBVIOUS
  <2>1. ArchiveInv
    BY InitArchiveInv
  <2>2. HashState(k) = << >>
    BY DEF Init, HashState, Known
  <2> QED
    BY <2>1, <2>2, ArchiveIsHashed
<1> QED
  BY <1>1, AbstractKey DEF Abstract!Init, Content

LEMMA PutChunkShares ==
    ASSUME ArchiveInv, ArchiveInv', NEW k \in Key, NEW u \in Request, PutChunk(k, u)
    PROVE  Abstract!Share(k)
<1> DEFINE hash == HashState(k) \o u.plain
<1>1. \A j \in Key : Content[j] = HashState(j)
  BY ContentAt DEF ContentIsHashed
<1>2. \A j \in Key : Content'[j] = IF j = k THEN hash ELSE HashState(j)
  BY ContentAtNext, PutChunkReads DEF ArchiveInv, ContentIsHashed
<1>3. hash \in Seq(Record) /\ \A j \in Key : HashState(j) \in Seq(Record)
  BY NewChunkFits, ConcatProperties, ReadTypes DEF ArchiveInv
<1>4. Content' \in [Key -> Seq(Record)]
  BY <1>2, <1>3 DEF Content
<1>5. Content[k] = HashState(k) /\ Content'[k] = hash
  BY <1>1, <1>2
<1>6. /\ Len(HashState(k)) \in Nat /\ Len(hash) \in Nat
      /\ Len(HashState(k)) < Len(hash)
      /\ \A i \in 1 .. Len(HashState(k)) : hash[i] = HashState(k)[i]
  <2>1. /\ Len(hash) = NextOffset(k) + Len(u.plain) /\ NextOffset(k) = Len(HashState(k))
        /\ Len(u.plain) \in Nat \ {0}
        /\ \A i \in 1 .. NextOffset(k) : hash[i] = HashState(k)[i]
    BY NewChunkFits
  <2> QED
    BY <1>3, <2>1, LenProperties
<1>7. Abstract!Starts(HashState(k), hash)
  <2> HIDE DEF hash
  <2>1. /\ SubSeq(hash, 1, Len(HashState(k))) \in Seq(Record)
        /\ Len(SubSeq(hash, 1, Len(HashState(k)))) = Len(HashState(k))
        /\ \A i \in 1 .. Len(HashState(k)) :
              SubSeq(hash, 1, Len(HashState(k)))[i] = HashState(k)[i]
    BY <1>3, <1>6
  <2>2. SubSeq(hash, 1, Len(HashState(k))) = HashState(k)
    BY <1>3, <2>1, SeqEqual
  <2> QED
    BY <1>6, <2>2 DEF Abstract!Starts
<1>8. Abstract!WellFormed(k, hash)
  <2>1. Parses(hash, 0, SessionOf(k))
    BY ExtendedParses
  <2>2. Abstract!Parses(hash, 0, SessionOf(k))
    BY <2>1 DEF Parses, Abstract!Parses, Valid, Abstract!Valid, OpensSession, Abstract!OpensSession
  <2>3. hash \in Seq(Abstract!Record)
    BY <1>3 DEF Record, Abstract!Record, Kind, Abstract!Kind, EventKind, Abstract!EventKind
  <2> QED
    BY <2>2, <2>3 DEF Abstract!WellFormed, Abstract!SessionOf, SessionOf
<1>9. Abstract!OthersKept(k)
  BY <1>1, <1>2, AbstractKey DEF Abstract!OthersKept
<1>10. Abstract!Record = Record
  BY DEF Record, Abstract!Record, Kind, Abstract!Kind, EventKind, Abstract!EventKind
<1> QED
  <2> HIDE DEF hash
  <2> QED
    BY <1>4, <1>5, <1>6, <1>7, <1>8, <1>9, <1>10, AbstractKey DEF Abstract!Share

LEMMA DeleteForgets ==
    ASSUME ArchiveInv, ArchiveInv', NEW k \in Key, DeleteSession(k)
    PROVE  Abstract!Forget(k)
<1>1. \A j \in Key : Content[j] = HashState(j)
  BY ContentAt DEF ContentIsHashed
<1>2. \A j \in Key : Content'[j] = IF j = k THEN << >> ELSE HashState(j)
  BY ContentAtNext, DeleteReads DEF ArchiveInv, ContentIsHashed
<1>3. Content[k] # << >>
  BY <1>1 DEF DeleteSession, ArchiveInv, ArchiveParses, Parses
<1>4. Content' = [Content EXCEPT ![k] = << >>]
  BY <1>1, <1>2 DEF Content
<1> QED
  BY <1>3, <1>4 DEF Abstract!Forget

LEMMA NextImplements ==
    ArchiveInv /\ ArchiveInv' /\ [Next]_vars => [Abstract!Next]_Content
<1> SUFFICES ASSUME ArchiveInv, ArchiveInv', [Next]_vars
             PROVE  [Abstract!Next]_Content
  OBVIOUS
<1>1. ASSUME NEW k \in Key, NEW u \in Upload, PutChunk(k, u)
      PROVE  Abstract!Next
  BY <1>1, UploadAssumption, PutChunkShares, AbstractKey DEF Abstract!Next
<1>2. ASSUME NEW k \in Key, DeleteSession(k)
      PROVE  Abstract!Next
  BY <1>2, DeleteForgets, AbstractKey DEF Abstract!Next
<1>3. CASE UNCHANGED vars
  <2>1. \A k \in Key : ArchiveOf(k)' = ArchiveOf(k)
    BY <1>3 DEF vars, ArchiveOf, NextOffset, Known, RecordAt, Covers
  <2> QED
    BY <2>1 DEF Content
<1> QED
  BY <1>1, <1>2, <1>3 DEF Next

(* The database implements the archive: what is shared only grows at its   *)
(* end, parses as one transcript of its session, and goes only whole.      *)
THEOREM StoreImplementsArchive == Spec => ImplementsArchive
<1>1. Spec => []ArchiveInv
  BY ArchiveInvariant
<1>2. Spec => Abstract!Init
  BY InitImplements DEF Spec
<1>3. Spec => [][Abstract!Next]_Content
  BY <1>1, NextImplements, PTL DEF Spec
<1> QED
  BY <1>2, <1>3, PTL DEF ImplementsArchive, Abstract!Spec

-----------------------------------------------------------------------------
(***************************************************************************)
(* The tables that are derived from the archive: events, events_fts and    *)
(* the columns of the session row.  What the properties say of them holds  *)
(* row by row: an event is the hashed record at its offset, its chunk      *)
(* covers that offset, ids are never taken twice, by no session, and a     *)
(* search row and an event with text belong to each other.                 *)
(***************************************************************************)
EventsAreHashed ==
    \A k \in Key : \A e \in events[k] :
        /\ e.seq + 1 \in 1 .. Len(HashState(k))
        /\ HashState(k)[e.seq + 1].kind = e.kind
        /\ HashState(k)[e.seq + 1].text = e.text
        /\ \A d \in events[k] : d.seq = e.seq => d = e

HashedAreEvents ==
    \A k \in Key : \A i \in EventPositions(HashState(k)) : \E e \in events[k] : e.seq + 1 = i

EventsPointToChunks ==
    \A k \in Key : \A e \in events[k] : \E c \in chunks[k] :
        c.start = e.chunk /\ c.start <= e.seq /\ e.seq < c.end

EventIdsDiffer ==
    \A j, k \in Key : \A d \in events[j], e \in events[k] :
        e.id < nextEventId /\ (d.id = e.id => j = k /\ d = e)

SearchRowsHaveEvents ==
    \A f \in fts :
        /\ f.text # Blank
        /\ \E e \in events[f.key] : e.id = f.rowid /\ e.seq = f.seq /\ e.text = f.text

EventsHaveSearchRows ==
    \A k \in Key : \A e \in events[k] :
        e.text # Blank => \E f \in fts : f.rowid = e.id /\ f.text = e.text

IndexInv ==
    /\ ArchiveInv
    /\ EventsAreHashed
    /\ HashedAreEvents
    /\ EventsPointToChunks
    /\ EventIdsDiffer
    /\ SearchRowsHaveEvents
    /\ EventsHaveSearchRows
    /\ RowDescribesArchive

LEMMA InitIndexInv == Init => IndexInv
<1> SUFFICES ASSUME Init PROVE IndexInv
  OBVIOUS
<1>1. /\ \A k \in Key : ~Known(k) /\ HashState(k) = << >> /\ events[k] = {}
      /\ fts = {}
  BY DEF Init, HashState, Known
<1>2. EventPositions(<< >>) = {}
  BY DEF EventPositions
<1> QED
  BY <1>1, <1>2, InitArchiveInv DEF IndexInv, EventsAreHashed, HashedAreEvents,
     EventsPointToChunks, EventIdsDiffer, SearchRowsHaveEvents, EventsHaveSearchRows,
     RowDescribesArchive

(* The rows PutChunk adds to events.                                       *)
LEMMA NewEventsAre ==
    ASSUME IndexInv, NEW k \in Key, NEW u \in Request, PutChunk(k, u)
    PROVE  /\ \A i \in EventPositions(u.plain) :
                 /\ i \in 1 .. Len(u.plain)
                 /\ EventAt(u, i) \in NewEvents(u)
           /\ \A e \in NewEvents(u) : \E i \in EventPositions(u.plain) :
                 /\ e = EventAt(u, i) /\ i \in 1 .. Len(u.plain)
                 /\ e.id = nextEventId + i - 1 /\ e.seq = NextOffset(k) + i - 1
                 /\ e.chunk = NextOffset(k)
                 /\ e.kind = u.plain[i].kind /\ e.text = u.plain[i].text
           /\ nextEventId' = nextEventId + Len(u.plain)
           /\ events' = [events EXCEPT ![k] = events[k] \cup NewEvents(u)]
           /\ nextEventId \in Nat /\ NextOffset(k) \in Nat /\ Len(u.plain) \in Nat \ {0}
<1>1. /\ u.plain \in Seq(Record) /\ Len(u.plain) \in Nat \ {0} /\ u.start = NextOffset(k)
      /\ DOMAIN u.plain = 1 .. Len(u.plain)
  BY NewChunkFits, LenProperties DEF IndexInv, PutChunk, Storable, IsNext
<1>2. nextEventId \in Nat /\ NextOffset(k) \in Nat
  BY ReadTypes DEF IndexInv, ArchiveInv, TypeOK
<1>3. \A i \in EventPositions(u.plain) : i \in 1 .. Len(u.plain) /\ EventAt(u, i) \in NewEvents(u)
  BY <1>1 DEF EventPositions, NewEvents
<1>4. \A e \in NewEvents(u) : \E i \in EventPositions(u.plain) : e = EventAt(u, i)
  BY DEF NewEvents
<1>5. \A i \in EventPositions(u.plain) :
         LET e == EventAt(u, i)
         IN  /\ e.id = nextEventId + i - 1 /\ e.seq = NextOffset(k) + i - 1
             /\ e.chunk = NextOffset(k)
             /\ e.kind = u.plain[i].kind /\ e.text = u.plain[i].text
  BY <1>1 DEF EventAt, RowIdOf
<1>6. /\ nextEventId' = nextEventId + Len(u.plain)
      /\ events' = [events EXCEPT ![k] = events[k] \cup NewEvents(u)]
  BY DEF PutChunk
<1> QED
  BY <1>1, <1>2, <1>3, <1>4, <1>5, <1>6

LEMMA PutChunkEvents ==
    ASSUME IndexInv, NEW k \in Key, NEW u \in Request, PutChunk(k, u)
    PROVE  EventsAreHashed' /\ HashedAreEvents' /\ EventsPointToChunks' /\ EventIdsDiffer'
<1> DEFINE new == NewEvents(u)
           n == NextOffset(k)
           m == Len(u.plain)
           hash == HashState(k) \o u.plain
<1>1. /\ \A i \in EventPositions(u.plain) : i \in 1 .. m /\ EventAt(u, i) \in new
      /\ \A e \in new : \E i \in EventPositions(u.plain) :
            /\ e = EventAt(u, i) /\ i \in 1 .. m
            /\ e.id = nextEventId + i - 1 /\ e.seq = n + i - 1 /\ e.chunk = n
            /\ e.kind = u.plain[i].kind /\ e.text = u.plain[i].text
      /\ nextEventId' = nextEventId + m
      /\ events' = [events EXCEPT ![k] = events[k] \cup new]
      /\ nextEventId \in Nat /\ n \in Nat /\ m \in Nat \ {0}
  BY NewEventsAre
<1>2. /\ \A j \in Key : HashState(j)' = IF j = k THEN hash ELSE HashState(j)
      /\ \A j \in Key :
            chunks'[j] = IF j = k THEN chunks[k] \cup {NewChunk(u)} ELSE chunks[j]
  BY PutChunkReads DEF IndexInv, ArchiveInv
<1>3. /\ Len(hash) = n + m /\ Len(HashState(k)) = n
      /\ \A i \in 1 .. n : hash[i] = HashState(k)[i]
      /\ \A i \in 1 .. m : hash[n + i] = u.plain[i]
      /\ NewChunk(u).start = n /\ NewChunk(u).end = n + m
      /\ u.plain \in Seq(Record) /\ HashState(k) \in Seq(Record)
  BY NewChunkFits DEF IndexInv
<1>4. hash \in Seq(Record) /\ DOMAIN hash = 1 .. n + m
  BY <1>3, ConcatProperties, LenProperties
<1>5. \A j \in Key : events'[j] = IF j = k THEN events[k] \cup new ELSE events[j]
  BY <1>1 DEF IndexInv, ArchiveInv, TypeOK
<1>6. \A j \in Key : \A e \in events[j] : e.seq \in Nat /\ e.id \in Nat
  BY DEF IndexInv, ArchiveInv, TypeOK, EventRow
<1> HIDE DEF new, n, m, hash
<1>7. EventsAreHashed'
  <2> SUFFICES ASSUME NEW j \in Key, NEW e \in events'[j]
               PROVE  /\ e.seq + 1 \in 1 .. Len(HashState(j)')
                      /\ HashState(j)'[e.seq + 1].kind = e.kind
                      /\ HashState(j)'[e.seq + 1].text = e.text
                      /\ \A d \in events'[j] : d.seq = e.seq => d = e
    BY DEF EventsAreHashed
  <2>1. CASE j # k
    BY <1>2, <1>5, <2>1 DEF IndexInv, EventsAreHashed
  <2>2. CASE j = k
    <3>1. \A d \in events[k] :
             /\ d.seq + 1 \in 1 .. n
             /\ hash[d.seq + 1].kind = d.kind /\ hash[d.seq + 1].text = d.text
             /\ \A b \in events[k] : b.seq = d.seq => b = d
      BY <1>3 DEF IndexInv, EventsAreHashed
    <3>2. \A d \in new :
             /\ d.seq + 1 \in n + 1 .. n + m
             /\ hash[d.seq + 1].kind = d.kind /\ hash[d.seq + 1].text = d.text
      <4> SUFFICES ASSUME NEW d \in new
                   PROVE  /\ d.seq + 1 \in n + 1 .. n + m
                          /\ hash[d.seq + 1].kind = d.kind /\ hash[d.seq + 1].text = d.text
        OBVIOUS
      <4>1. PICK i \in 1 .. m : /\ d.seq = n + i - 1
                                /\ d.kind = u.plain[i].kind /\ d.text = u.plain[i].text
        BY <1>1
      <4>2. d.seq + 1 = n + i
        BY <1>1, <4>1
      <4> QED
        BY <1>1, <1>3, <4>1, <4>2
    <3>3. \A d, b \in new : d.seq = b.seq => d = b
      <4> SUFFICES ASSUME NEW d \in new, NEW b \in new, d.seq = b.seq PROVE d = b
        OBVIOUS
      <4>1. PICK i \in 1 .. m : d = EventAt(u, i) /\ d.seq = n + i - 1
        BY <1>1
      <4>2. PICK l \in 1 .. m : b = EventAt(u, l) /\ b.seq = n + l - 1
        BY <1>1
      <4>3. i = l
        BY <1>1, <4>1, <4>2
      <4> QED
        BY <4>1, <4>2, <4>3
    <3>4. \A d \in events[k], b \in new : d.seq # b.seq
      BY <1>1, <1>6, <3>1, <3>2
    <3>5. events'[j] = events[k] \cup new /\ HashState(j)' = hash
      BY <1>2, <1>5, <2>2
    <3> QED
      BY <1>1, <1>3, <1>6, <3>1, <3>2, <3>3, <3>4, <3>5
  <2> QED
    BY <2>1, <2>2
<1>8. HashedAreEvents'
  <2> SUFFICES ASSUME NEW j \in Key, NEW i \in EventPositions(HashState(j)')
               PROVE  \E e \in events'[j] : e.seq + 1 = i
    BY DEF HashedAreEvents, EventPositions, IsEvent, EventKind
  <2>1. CASE j # k
    BY <1>2, <1>5, <2>1 DEF IndexInv, HashedAreEvents
  <2>2. CASE j = k
    <3>1. i \in 1 .. n + m /\ IsEvent(hash[i])
      BY <1>2, <1>4, <2>2 DEF EventPositions
    <3>2. CASE i <= n
      <4>1. i \in EventPositions(HashState(k))
        BY <1>1, <1>3, <3>1, <3>2, LenProperties DEF EventPositions
      <4> QED
        BY <1>5, <2>2, <4>1 DEF IndexInv, HashedAreEvents
    <3>3. CASE i > n
      <4>1. i - n \in 1 .. m /\ n + (i - n) = i
        BY <1>1, <3>1, <3>3
      <4>2. i - n \in EventPositions(u.plain)
        BY <1>3, <3>1, <4>1, LenProperties DEF EventPositions, m
      <4>3. EventAt(u, i - n) \in new
        BY <1>1, <4>2
      <4>4. EventAt(u, i - n).seq = n + (i - n) - 1
        BY DEF EventAt, PutChunk, Storable, IsNext, n
      <4>5. EventAt(u, i - n).seq + 1 = i
        BY <1>1, <3>1, <4>4
      <4> QED
        BY <1>5, <2>2, <4>3, <4>5
    <3> QED
      BY <1>1, <3>1, <3>2, <3>3
  <2> QED
    BY <2>1, <2>2
<1>9. EventsPointToChunks'
  <2> SUFFICES ASSUME NEW j \in Key, NEW e \in events'[j]
               PROVE  \E c \in chunks'[j] : c.start = e.chunk /\ c.start <= e.seq /\ e.seq < c.end
    BY DEF EventsPointToChunks
  <2>1. CASE e \in events[j]
    BY <1>2, <2>1 DEF IndexInv, EventsPointToChunks
  <2>2. CASE j = k /\ e \in new
    <3>1. PICK i \in 1 .. m : e.seq = n + i - 1 /\ e.chunk = n
      BY <1>1, <2>2
    <3>2. NewChunk(u) \in chunks'[j]
      BY <1>2, <2>2
    <3>3. n <= e.seq /\ e.seq < n + m
      BY <1>1, <3>1
    <3> QED
      BY <1>3, <3>1, <3>2, <3>3
  <2> QED
    BY <1>5, <2>1, <2>2
<1>10. EventIdsDiffer'
  <2>1. \A j \in Key : \A e \in events[j] : e.id < nextEventId
    BY DEF IndexInv, EventIdsDiffer
  <2>2. \A e \in new : e.id >= nextEventId /\ e.id < nextEventId + m /\ e.id \in Nat
    <3> SUFFICES ASSUME NEW e \in new
                 PROVE  e.id >= nextEventId /\ e.id < nextEventId + m /\ e.id \in Nat
      OBVIOUS
    <3>1. PICK i \in 1 .. m : e.id = nextEventId + i - 1
      BY <1>1
    <3> QED
      BY <1>1, <3>1
  <2>3. \A d, e \in new : d.id = e.id => d = e
    <3> SUFFICES ASSUME NEW d \in new, NEW e \in new, d.id = e.id PROVE d = e
      OBVIOUS
    <3>1. PICK i \in 1 .. m : d = EventAt(u, i) /\ d.id = nextEventId + i - 1
      BY <1>1
    <3>2. PICK l \in 1 .. m : e = EventAt(u, l) /\ e.id = nextEventId + l - 1
      BY <1>1
    <3>3. i = l
      BY <1>1, <3>1, <3>2
    <3> QED
      BY <3>1, <3>2, <3>3
  <2> SUFFICES ASSUME NEW i \in Key, NEW j \in Key, NEW d \in events'[i], NEW e \in events'[j]
               PROVE  e.id < nextEventId' /\ (d.id = e.id => i = j /\ d = e)
    BY DEF EventIdsDiffer
  <2>4. /\ d \in events[i] \/ (i = k /\ d \in new)
        /\ e \in events[j] \/ (j = k /\ e \in new)
    BY <1>5
  <2>5. e.id < nextEventId'
    BY <1>1, <1>6, <2>1, <2>2, <2>4
  <2>6. CASE d \in events[i] /\ e \in events[j]
    BY <2>5, <2>6 DEF IndexInv, EventIdsDiffer
  <2>7. CASE d \in events[i] /\ j = k /\ e \in new
    BY <1>1, <1>6, <2>1, <2>2, <2>5, <2>7
  <2>8. CASE i = k /\ d \in new /\ e \in events[j]
    BY <1>1, <1>6, <2>1, <2>2, <2>5, <2>8
  <2>9. CASE i = k /\ d \in new /\ j = k /\ e \in new
    BY <2>3, <2>5, <2>9
  <2> QED
    BY <2>4, <2>6, <2>7, <2>8, <2>9
<1> QED
  BY <1>7, <1>8, <1>9, <1>10

LEMMA PutChunkSearch ==
    ASSUME IndexInv, NEW k \in Key, NEW u \in Request, PutChunk(k, u)
    PROVE  SearchRowsHaveEvents' /\ EventsHaveSearchRows'
<1>1. \A j \in Key : events'[j] = IF j = k THEN events[k] \cup NewEvents(u) ELSE events[j]
  BY DEF PutChunk, IndexInv, ArchiveInv, TypeOK
<1>2. fts' = fts \cup NewSearchRows(k, u)
  BY DEF PutChunk
<1>3. \A f \in fts : f.key \in Key
  BY DEF IndexInv, ArchiveInv, TypeOK, SearchRow
<1>4. SearchRowsHaveEvents'
  <2> SUFFICES ASSUME NEW f \in fts'
               PROVE  /\ f.text # Blank
                      /\ \E e \in events'[f.key] :
                            e.id = f.rowid /\ e.seq = f.seq /\ e.text = f.text
    BY DEF SearchRowsHaveEvents
  <2>1. CASE f \in fts
    BY <1>1, <1>3, <2>1 DEF IndexInv, SearchRowsHaveEvents
  <2>2. CASE f \in NewSearchRows(k, u)
    BY <1>1, <2>2 DEF NewSearchRows, SearchText
  <2> QED
    BY <1>2, <2>1, <2>2
<1>5. EventsHaveSearchRows'
  <2> SUFFICES ASSUME NEW j \in Key, NEW e \in events'[j], e.text # Blank
               PROVE  \E f \in fts' : f.rowid = e.id /\ f.text = e.text
    BY DEF EventsHaveSearchRows
  <2>1. CASE e \in events[j]
    BY <1>2, <2>1 DEF IndexInv, EventsHaveSearchRows
  <2>2. CASE e \in NewEvents(u)
    <3> DEFINE f == [rowid |-> e.id, key |-> k, seq |-> e.seq, text |-> SearchText(e)]
    <3>1. f \in fts'
      BY <1>2, <2>2 DEF NewSearchRows
    <3>2. f.rowid = e.id /\ f.text = e.text
      BY DEF SearchText
    <3> HIDE DEF f
    <3> QED
      BY <3>1, <3>2
  <2> QED
    BY <1>1, <2>1, <2>2
<1> QED
  BY <1>4, <1>5

(* The latest of two sets of timestamps is the later of their latest.      *)
LEMMA LatestOfUnion ==
    ASSUME NEW S \in SUBSET Time, S # {}, NEW T \in SUBSET Time, T # {}
    PROVE  Latest(S \cup T) = Latest({Latest(S), Latest(T)})
<1>1. /\ Latest(S) \in S /\ \A t \in S : t <= Latest(S)
      /\ Latest(T) \in T /\ \A t \in T : t <= Latest(T)
  BY LatestType
<1>2. /\ Latest(S \cup T) \in S \cup T /\ \A t \in S \cup T : t <= Latest(S \cup T)
  <2>1. S \cup T \in SUBSET Time /\ S \cup T # {}
    OBVIOUS
  <2> QED
    BY <2>1, LatestType
<1>3. /\ Latest({Latest(S), Latest(T)}) \in {Latest(S), Latest(T)}
      /\ \A t \in {Latest(S), Latest(T)} : t <= Latest({Latest(S), Latest(T)})
  <2>1. {Latest(S), Latest(T)} \in SUBSET Time /\ {Latest(S), Latest(T)} # {}
    BY <1>1
  <2> QED
    BY <2>1, LatestType
<1>4. \A t \in S \cup T : t \in Nat
  BY TimeAssumption
<1> DEFINE a == Latest(S)
           b == Latest(T)
           c == Latest(S \cup T)
           d == Latest({Latest(S), Latest(T)})
<1>5. a \in S /\ b \in T /\ c \in S \cup T /\ d \in {a, b}
  BY <1>1, <1>2, <1>3
<1>6. a <= c /\ b <= c /\ a <= d /\ b <= d /\ (c <= a \/ c <= b)
  BY <1>1, <1>2, <1>3, <1>5
<1>7. a \in Nat /\ b \in Nat /\ c \in Nat /\ d \in Nat
  BY <1>4, <1>5
<1> HIDE DEF a, b, c, d
<1>8. c = d
  BY <1>5, <1>6, <1>7
<1> QED
  BY <1>8 DEF c, d

(* The row PutChunk writes describes the archive it extends.               *)
LEMMA PutChunkRow ==
    ASSUME IndexInv, NEW k \in Key, NEW u \in Request, PutChunk(k, u)
    PROVE  RowDescribesArchive'
<1> DEFINE hash == HashState(k) \o u.plain
           n == NextOffset(k)
           m == Len(u.plain)
<1>1. \A j \in Key : sessions'[j] = IF j = k THEN RowAfter(k, u) ELSE sessions[j]
  BY DEF PutChunk, IndexInv, ArchiveInv, TypeOK
<1>2. \A j \in Key : /\ Known(j)' <=> j = k \/ Known(j)
                     /\ HashState(j)' = IF j = k THEN hash ELSE HashState(j)
  BY PutChunkReads DEF IndexInv, ArchiveInv
<1>3. /\ Len(hash) = n + m /\ Len(HashState(k)) = n /\ n \in Nat /\ m \in Nat \ {0}
      /\ \A i \in 1 .. n : hash[i] = HashState(k)[i]
      /\ \A i \in 1 .. m : hash[n + i] = u.plain[i]
      /\ u.plain \in Seq(Record) /\ HashState(k) \in Seq(Record)
  BY NewChunkFits, LenProperties DEF IndexInv
<1>4. hash \in Seq(Record) /\ DOMAIN hash = 1 .. n + m /\ DOMAIN u.plain = 1 .. m
      /\ DOMAIN HashState(k) = 1 .. n
  BY <1>3, ConcatProperties, LenProperties
<1>5. RowAfter(k, u).meta = hash[1]
  <2>1. CASE Known(k)
    <3>1. sessions[k].meta = HashState(k)[1]
      BY <2>1 DEF IndexInv, RowDescribesArchive
    <3>2. 1 \in 1 .. n
      BY <1>3, <2>1 DEF IndexInv, ArchiveInv, ArchiveParses, Parses
    <3> QED
      BY <1>3, <2>1, <3>1, <3>2 DEF RowAfter, MetaOf
  <2>2. CASE ~Known(k)
    <3>1. n = 0
      BY <2>2 DEF NextOffset
    <3> QED
      BY <1>3, <2>2, <3>1 DEF RowAfter, MetaOf
  <2> QED
    BY <2>1, <2>2
<1> DEFINE S == {0} \cup {HashState(k)[i].at : i \in DOMAIN HashState(k)}
           T == {0} \cup {u.plain[i].at : i \in DOMAIN u.plain}
           U == {0} \cup {hash[i].at : i \in DOMAIN hash}
<1>6. S \in SUBSET Time /\ T \in SUBSET Time /\ S # {} /\ T # {}
  <2>1. \A r \in Record : r.at \in Time
    BY DEF Record
  <2>2. /\ \A i \in DOMAIN HashState(k) : HashState(k)[i] \in Record
        /\ \A i \in DOMAIN u.plain : u.plain[i] \in Record
    BY <1>3
  <2> QED
    BY <2>1, <2>2, TimeAssumption
<1>7. U = S \cup T
  <2> HIDE DEF hash, n, m
  <2>1. \A x : x \in {hash[i].at : i \in 1 .. n + m} =>
              \/ x \in {HashState(k)[i].at : i \in 1 .. n}
              \/ x \in {u.plain[i].at : i \in 1 .. m}
    <3> SUFFICES ASSUME NEW i \in 1 .. n + m
                 PROVE  \/ \E l \in 1 .. n : hash[i].at = HashState(k)[l].at
                        \/ \E l \in 1 .. m : hash[i].at = u.plain[l].at
      OBVIOUS
    <3>1. CASE i <= n
      BY <1>3, <3>1
    <3>2. CASE i > n
      <4>1. i - n \in 1 .. m /\ n + (i - n) = i
        BY <1>3, <3>2
      <4> QED
        BY <1>3, <4>1
    <3> QED
      BY <1>3, <3>1, <3>2
  <2>2. \A i \in 1 .. n : \E l \in 1 .. n + m : HashState(k)[i].at = hash[l].at
    BY <1>3
  <2>3. \A i \in 1 .. m : \E l \in 1 .. n + m : u.plain[i].at = hash[l].at
    <3> SUFFICES ASSUME NEW i \in 1 .. m
                 PROVE  \E l \in 1 .. n + m : u.plain[i].at = hash[l].at
      OBVIOUS
    <3>1. n + i \in 1 .. n + m /\ hash[n + i] = u.plain[i]
      BY <1>3
    <3> QED
      BY <3>1
  <2>4. DOMAIN hash = 1 .. n + m /\ DOMAIN HashState(k) = 1 .. n /\ DOMAIN u.plain = 1 .. m
    BY <1>3 DEF hash, n, m
  <2>5. ASSUME NEW x \in U
        PROVE  x \in S \cup T
    BY <2>1, <2>4, <2>5
  <2>6. ASSUME NEW x \in S
        PROVE  x \in U
    BY <2>2, <2>4, <2>6
  <2>7. ASSUME NEW x \in T
        PROVE  x \in U
    BY <2>3, <2>4, <2>7
  <2> HIDE DEF S, T, U
  <2> QED
    BY <2>5, <2>6, <2>7
<1>8. RowAfter(k, u).activity = LastActivity(hash)
  <2>1. LastActivity(hash) = Latest({LastActivity(HashState(k)), LastActivity(u.plain)})
    <3>1. LastActivity(hash) = Latest(U) /\ LastActivity(HashState(k)) = Latest(S)
          /\ LastActivity(u.plain) = Latest(T)
      BY DEF LastActivity
    <3> HIDE DEF S, T, U, hash
    <3> QED
      BY <1>6, <1>7, <3>1, LatestOfUnion
  <2>2. CASE Known(k)
    <3>1. sessions[k].activity = LastActivity(HashState(k))
      BY <2>2 DEF IndexInv, RowDescribesArchive
    <3> QED
      BY <2>1, <2>2, <3>1 DEF RowAfter, ActivityAfter
  <2>3. CASE ~Known(k)
    <3>1. HashState(k) = << >>
      BY <2>3 DEF HashState
    <3>2. hash = u.plain
      BY <1>3, <3>1
    <3> QED
      BY <2>3, <3>2 DEF RowAfter, ActivityAfter
  <2> QED
    BY <2>2, <2>3
<1> HIDE DEF hash
<1> SUFFICES ASSUME NEW j \in Key, Known(j)'
             PROVE  /\ sessions'[j].meta = HashState(j)'[1]
                    /\ sessions'[j].activity = LastActivity(HashState(j)')
  BY DEF RowDescribesArchive, LastActivity, Latest
<1>9. CASE j = k
  BY <1>1, <1>2, <1>5, <1>8, <1>9
<1>10. CASE j # k
  BY <1>1, <1>2, <1>10 DEF IndexInv, RowDescribesArchive
<1> QED
  BY <1>9, <1>10

LEMMA DeleteIndexInv ==
    ASSUME IndexInv, NEW k \in Key, DeleteSession(k)
    PROVE  IndexInv'
<1>1. ArchiveInv'
  BY DeleteArchiveInv DEF IndexInv
<1>2. \A j \in Key : /\ events'[j] = IF j = k THEN {} ELSE events[j]
                     /\ sessions'[j] = IF j = k THEN NoRow ELSE sessions[j]
  BY DEF DeleteSession, IndexInv, ArchiveInv, TypeOK
<1>3. \A j \in Key : /\ Known(j)' <=> j # k /\ Known(j)
                     /\ HashState(j)' = IF j = k THEN << >> ELSE HashState(j)
                     /\ chunks'[j] = IF j = k THEN {} ELSE chunks[j]
  BY DeleteReads DEF IndexInv, ArchiveInv
<1>4. fts' = fts \ SearchRowsOf(k) /\ nextEventId' = nextEventId
  BY DEF DeleteSession
<1>5. EventsAreHashed' /\ EventsPointToChunks'
  BY <1>2, <1>3 DEF IndexInv, EventsAreHashed, EventsPointToChunks
<1>6. HashedAreEvents'
  <2> SUFFICES ASSUME NEW j \in Key, NEW i \in EventPositions(HashState(j)')
               PROVE  \E e \in events'[j] : e.seq + 1 = i
    BY DEF HashedAreEvents, EventPositions, IsEvent, EventKind
  <2>1. j # k
    <3>1. EventPositions(<< >>) = {}
      BY DEF EventPositions
    <3> QED
      BY <1>3, <3>1
  <2> QED
    BY <1>2, <1>3, <2>1 DEF IndexInv, HashedAreEvents
<1>7. EventIdsDiffer'
  BY <1>2, <1>4 DEF IndexInv, EventIdsDiffer
<1>8. SearchRowsHaveEvents'
  <2> SUFFICES ASSUME NEW f \in fts, f \notin SearchRowsOf(k)
               PROVE  /\ f.text # Blank
                      /\ \E e \in events'[f.key] :
                            e.id = f.rowid /\ e.seq = f.seq /\ e.text = f.text
    BY <1>4 DEF SearchRowsHaveEvents
  <2>1. f.key \in Key
    BY DEF IndexInv, ArchiveInv, TypeOK, SearchRow
  <2>2. PICK e \in events[f.key] : e.id = f.rowid /\ e.seq = f.seq /\ e.text = f.text
    BY DEF IndexInv, SearchRowsHaveEvents
  <2>3. f.key # k
    BY <2>2 DEF SearchRowsOf
  <2> QED
    BY <1>2, <2>1, <2>2, <2>3 DEF IndexInv, SearchRowsHaveEvents
<1>9. EventsHaveSearchRows'
  <2> SUFFICES ASSUME NEW j \in Key, NEW e \in events'[j], e.text # Blank
               PROVE  \E f \in fts' : f.rowid = e.id /\ f.text = e.text
    BY DEF EventsHaveSearchRows
  <2>1. j # k /\ e \in events[j]
    BY <1>2
  <2>2. PICK f \in fts : f.rowid = e.id /\ f.text = e.text
    BY <2>1 DEF IndexInv, EventsHaveSearchRows
  <2>3. f \notin SearchRowsOf(k)
    BY <2>1, <2>2 DEF SearchRowsOf, IndexInv, EventIdsDiffer
  <2> QED
    BY <1>4, <2>2, <2>3
<1>10. RowDescribesArchive'
  <2> SUFFICES ASSUME NEW j \in Key, Known(j)'
               PROVE  /\ sessions'[j].meta = HashState(j)'[1]
                      /\ sessions'[j].activity = LastActivity(HashState(j)')
    BY DEF RowDescribesArchive, LastActivity, Latest
  <2> QED
    BY <1>2, <1>3 DEF IndexInv, RowDescribesArchive
<1> QED
  BY <1>1, <1>5, <1>6, <1>7, <1>8, <1>9, <1>10 DEF IndexInv

LEMMA NextIndexInv == IndexInv /\ [Next]_vars => IndexInv'
<1> SUFFICES ASSUME IndexInv, [Next]_vars
             PROVE  IndexInv'
  OBVIOUS
<1>1. ASSUME NEW k \in Key, NEW u \in Upload, PutChunk(k, u)
      PROVE  IndexInv'
  <2>1. u \in Request
    BY UploadAssumption
  <2> QED
    BY <1>1, <2>1, PutChunkArchiveInv, PutChunkEvents, PutChunkSearch, PutChunkRow DEF IndexInv
<1>2. ASSUME NEW k \in Key, DeleteSession(k)
      PROVE  IndexInv'
  BY <1>2, DeleteIndexInv
<1>3. CASE UNCHANGED vars
  <2>1. ArchiveInv'
    BY <1>3, NextArchiveInv DEF IndexInv
  <2>2. UNCHANGED <<sessions, chunks, events, fts, nextEventId>>
    BY <1>3 DEF vars
  <2>3. /\ \A k \in Key : HashState(k)' = HashState(k) /\ (Known(k)' <=> Known(k))
        /\ \A k \in Key : EventPositions(HashState(k))' = EventPositions(HashState(k))
        /\ \A k \in Key : LastActivity(HashState(k))' = LastActivity(HashState(k))
    BY <2>2 DEF HashState, Known, EventPositions, LastActivity, Latest, IsEvent, EventKind
  <2>4. EventsAreHashed' /\ HashedAreEvents'
    BY <2>2, <2>3 DEF IndexInv, EventsAreHashed, HashedAreEvents
  <2>5. EventsPointToChunks' /\ EventIdsDiffer' /\ SearchRowsHaveEvents' /\ EventsHaveSearchRows'
    BY <2>2 DEF IndexInv, EventsPointToChunks, EventIdsDiffer, SearchRowsHaveEvents,
                EventsHaveSearchRows
  <2>6. RowDescribesArchive'
    BY <2>2, <2>3 DEF IndexInv, RowDescribesArchive
  <2> QED
    BY <2>1, <2>4, <2>5, <2>6 DEF IndexInv
<1> QED
  BY <1>1, <1>2, <1>3 DEF Next

LEMMA IndexInvariant == Spec => []IndexInv
BY InitIndexInv, NextIndexInv, PTL DEF Spec

(* The row of a session keeps the metadata of its first record and its     *)
(* latest timestamp, whatever the order of the timestamps.                 *)
THEOREM RowDescribes == Spec => []RowDescribesArchive
<1>1. IndexInv => RowDescribesArchive
  BY DEF IndexInv
<1> QED
  BY <1>1, IndexInvariant, PTL

(* The events of a session are those of its archive, and the chunk each    *)
(* points to holds the record it was made from.                            *)
THEOREM EventsMatch == Spec => []EventsMatchArchive
<1>1. IndexInv => EventsMatchArchive
  <2> SUFFICES ASSUME IndexInv, NEW k \in Key
               PROVE  /\ {e.seq + 1 : e \in events[k]} = EventPositions(HashState(k))
                      /\ \A e \in events[k] :
                            /\ \A d \in events[k] : d.seq = e.seq => d = e
                            /\ \E c \in ChunksAt(k, e.chunk) :
                                  /\ e.seq - c.start + 1 \in DOMAIN c.plain
                                  /\ c.plain[e.seq - c.start + 1].kind = e.kind
                                  /\ c.plain[e.seq - c.start + 1].text = e.text
    BY DEF EventsMatchArchive
  <2>1. HashState(k) \in Seq(Record) /\ DOMAIN HashState(k) = 1 .. Len(HashState(k))
    BY ReadTypes, LenProperties DEF IndexInv, ArchiveInv
  <2>2. \A e \in events[k] : e.kind \in EventKind /\ e.seq \in Nat
    BY DEF IndexInv, ArchiveInv, TypeOK, EventRow
  <2>3. \A e \in events[k] : e.seq + 1 \in EventPositions(HashState(k))
    BY <2>1, <2>2 DEF IndexInv, EventsAreHashed, EventPositions, IsEvent
  <2>4. {e.seq + 1 : e \in events[k]} = EventPositions(HashState(k))
    BY <2>3 DEF IndexInv, HashedAreEvents
  <2>5. ASSUME NEW e \in events[k]
        PROVE  \E c \in ChunksAt(k, e.chunk) :
                  /\ e.seq - c.start + 1 \in DOMAIN c.plain
                  /\ c.plain[e.seq - c.start + 1].kind = e.kind
                  /\ c.plain[e.seq - c.start + 1].text = e.text
    <3>1. PICK c \in chunks[k] : c.start = e.chunk /\ c.start <= e.seq /\ e.seq < c.end
      BY DEF IndexInv, EventsPointToChunks
    <3>2. /\ c.start \in Nat /\ c.end \in Nat /\ c.plain \in Seq(Record)
          /\ Len(c.plain) = c.end - c.start
      BY ChunkTypes DEF IndexInv, ArchiveInv, ChunksTileArchive
    <3> DEFINE i == e.seq - c.start + 1
    <3>3. i \in 1 .. Len(c.plain) /\ c.start + i = e.seq + 1
      BY <2>2, <3>1, <3>2
    <3>4. c.plain[i] = HashState(k)[e.seq + 1]
      BY <3>3 DEF IndexInv, ArchiveInv, ChunksHoldHashed
    <3> HIDE DEF i
    <3>5. i \in DOMAIN c.plain /\ c.plain[i].kind = e.kind /\ c.plain[i].text = e.text
      BY <3>2, <3>3, <3>4 DEF IndexInv, EventsAreHashed
    <3> QED
      BY <3>1, <3>5 DEF ChunksAt, i
  <2> QED
    BY <2>4, <2>5 DEF IndexInv, EventsAreHashed
<1> QED
  BY <1>1, IndexInvariant, PTL

(* A text search finds exactly the sessions whose archive holds the text,  *)
(* and the index keeps no row of a deleted event.                          *)
THEOREM SearchMatches == Spec => []SearchMatchesArchive
<1>1. IndexInv => SearchMatchesArchive
  <2> SUFFICES ASSUME IndexInv PROVE SearchMatchesArchive
    OBVIOUS
  <2>1. \A f \in fts : f.key \in Key
    BY DEF IndexInv, ArchiveInv, TypeOK, SearchRow
  <2>2. ASSUME NEW t \in Text, NEW k \in Key
        PROVE  (\E e \in events[k], f \in fts : f.rowid = e.id /\ f.text = t)
               <=> \E i \in DOMAIN HashState(k) :
                      Searchable(HashState(k)[i]) /\ HashState(k)[i].text = t
    <3>1. ASSUME NEW e \in events[k], NEW f \in fts, f.rowid = e.id, f.text = t
          PROVE  \E i \in DOMAIN HashState(k) :
                    Searchable(HashState(k)[i]) /\ HashState(k)[i].text = t
      <4>1. PICK d \in events[f.key] : d.id = f.rowid /\ d.text = f.text
        BY DEF IndexInv, SearchRowsHaveEvents
      <4>2. e.text = t /\ t # Blank
        BY <2>1, <3>1, <4>1 DEF IndexInv, EventIdsDiffer, SearchRowsHaveEvents
      <4>3. /\ e.seq + 1 \in DOMAIN HashState(k)
            /\ HashState(k)[e.seq + 1].kind = e.kind /\ HashState(k)[e.seq + 1].text = e.text
        BY ReadTypes, LenProperties DEF IndexInv, ArchiveInv, EventsAreHashed
      <4>4. e.kind \in EventKind
        BY DEF IndexInv, ArchiveInv, TypeOK, EventRow
      <4> QED
        BY <4>2, <4>3, <4>4 DEF Searchable, IsEvent
    <3>2. ASSUME NEW i \in DOMAIN HashState(k),
                 Searchable(HashState(k)[i]), HashState(k)[i].text = t
          PROVE  \E e \in events[k], f \in fts : f.rowid = e.id /\ f.text = t
      <4>1. i \in EventPositions(HashState(k)) /\ t # Blank
        BY <3>2 DEF Searchable, EventPositions
      <4>2. PICK e \in events[k] : e.seq + 1 = i
        BY <4>1 DEF IndexInv, HashedAreEvents
      <4>3. e.text = t
        BY <3>2, <4>2 DEF IndexInv, EventsAreHashed
      <4> QED
        BY <4>1, <4>3 DEF IndexInv, EventsHaveSearchRows
    <3> QED
      BY <3>1, <3>2
  <2>3. \A t \in Text :
          FoundBy(t) = {k \in Key : \E i \in DOMAIN HashState(k) :
                            Searchable(HashState(k)[i]) /\ HashState(k)[i].text = t}
    BY <2>2 DEF FoundBy
  <2>4. \A f \in fts : \E e \in events[f.key] : e.id = f.rowid /\ e.seq = f.seq
    BY DEF IndexInv, SearchRowsHaveEvents
  <2> QED
    BY <2>3, <2>4 DEF SearchMatchesArchive
<1> QED
  BY <1>1, IndexInvariant, PTL

-----------------------------------------------------------------------------
(***************************************************************************)
(* The inserts of a chunk at the checkpoint never meet the primary key of  *)
(* chunks or the unique index of events: a key left behind the checkpoint  *)
(* would fail every sync of its session from then on.                      *)
(***************************************************************************)
NextKeysAreFree == \A k \in Key, u \in Upload : IsNext(k, u) => KeysFree(k, u)

THEOREM KeysNeverClash == Spec => []NextKeysAreFree
<1>1. IndexInv => NextKeysAreFree
  <2> SUFFICES ASSUME IndexInv, NEW k \in Key, NEW u \in Upload, u.start = NextOffset(k)
               PROVE  KeysFree(k, u)
    BY DEF NextKeysAreFree, IsNext
  <2>1. u.start \in Nat /\ u.plain \in Seq(Record) /\ u.start = Len(HashState(k))
    BY UploadAssumption DEF Request, IndexInv, ArchiveInv, CheckpointCountsHashed
  <2>2. \A c \in chunks[k] : c.start # u.start
    BY ChunkTypes DEF IndexInv, ArchiveInv, ChunksTileArchive
  <2>3. ASSUME NEW e \in events[k], NEW i \in EventPositions(u.plain), e.seq = u.start + i - 1
        PROVE  FALSE
    <3>1. i \in Nat /\ 1 <= i
      BY <2>1, LenProperties DEF EventPositions
    <3>2. e.seq \in Nat /\ e.seq + 1 \in DOMAIN HashState(k)
      BY DEF IndexInv, EventsAreHashed, ArchiveInv, TypeOK, EventRow
    <3>3. e.seq + 1 <= Len(HashState(k))
      BY <3>2, ReadTypes, LenProperties DEF IndexInv, ArchiveInv
    <3> QED
      BY <2>1, <2>3, <3>1, <3>2, <3>3
  <2> QED
    BY <2>2, <2>3 DEF KeysFree
<1> QED
  BY <1>1, IndexInvariant, PTL
=============================================================================
