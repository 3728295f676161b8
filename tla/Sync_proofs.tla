----------------------------- MODULE Sync_proofs -----------------------------
(***************************************************************************)
(* Proofs about Sync, for every number of processes, sessions, records,    *)
(* replacements, deletions and requests in flight: its types, that two     *)
(* histories are never joined, that what a client believes shared and what *)
(* a server acknowledges is in the archive, and that the tables follow     *)
(* module Store and with it the archive.                                   *)
(*                                                                         *)
(* What the server does with its tables is proved in Store_proofs; the     *)
(* instance Database of that module, for every request there can be, is    *)
(* about the same tables as the instance Store of Sync.                    *)
(***************************************************************************)
EXTENDS Sync, SequenceTheorems, TLAPS

Database == INSTANCE Store_proofs WITH Upload <- Store!Request

-----------------------------------------------------------------------------
(***************************************************************************)
(* The two instances of Store are the same.                                *)
(***************************************************************************)
LEMMA SameSets ==
    /\ Store!Key = Database!Key
    /\ Store!Request = Database!Request
    /\ Store!SessionRow = Database!SessionRow
BY DEF Store!Key, Database!Key, Store!Request, Database!Request, Store!SessionRow,
       Database!SessionRow, Store!Record, Database!Record, Store!Kind, Database!Kind,
       Store!EventKind, Database!EventKind

LEMMA SameReads ==
    ASSUME NEW k
    PROVE  /\ Store!Known(k) <=> Database!Known(k)
           /\ Store!NextOffset(k) = Database!NextOffset(k)
           /\ Store!HashState(k) = Database!HashState(k)
<1>1. Store!Known(k) <=> Database!Known(k)
  BY DEF Store!Known, Database!Known
<1>2. Store!NextOffset(k) = Database!NextOffset(k)
  BY <1>1 DEF Store!NextOffset, Database!NextOffset
<1>3. Store!HashState(k) = Database!HashState(k)
  BY <1>1 DEF Store!HashState, Database!HashState
<1> QED
  BY <1>1, <1>2, <1>3

LEMMA SameReplay ==
    ASSUME NEW k, NEW u
    PROVE  Store!IsReplay(k, u) <=> Database!IsReplay(k, u)
BY SameReads DEF Store!IsReplay, Database!IsReplay

LEMMA SameArchive ==
    ASSUME NEW k
    PROVE  Store!ArchiveOf(k) = Database!ArchiveOf(k)
<1>1. \A i : Store!RecordAt(k, i) = Database!RecordAt(k, i)
  BY DEF Store!RecordAt, Database!RecordAt, Store!Covers, Database!Covers
<1> QED
  BY <1>1, SameReads DEF Store!ArchiveOf, Database!ArchiveOf

LEMMA SameParses ==
    ASSUME NEW plain, NEW base, NEW k
    PROVE  Store!Parses(plain, base, Store!SessionOf(k))
             <=> Database!Parses(plain, base, Database!SessionOf(k))
BY DEF Store!Parses, Database!Parses, Store!SessionOf, Database!SessionOf, Store!Valid,
       Database!Valid, Store!OpensSession, Database!OpensSession

LEMMA SameInv == Store!ArchiveInv <=> Database!ArchiveInv
<1>1. Store!TypeOK <=> Database!TypeOK
  BY SameSets DEF Store!TypeOK, Database!TypeOK, Store!ChunkRow, Database!ChunkRow,
     Store!EventRow, Database!EventRow, Store!SearchRow, Database!SearchRow,
     Store!Record, Database!Record, Store!Kind, Database!Kind, Store!EventKind,
     Database!EventKind
<1>2. Store!ChunksTileArchive <=> Database!ChunksTileArchive
  BY SameSets, SameReads DEF Store!ChunksTileArchive, Database!ChunksTileArchive,
     Store!Covers, Database!Covers
<1>3. Store!CheckpointCountsHashed <=> Database!CheckpointCountsHashed
  BY SameSets, SameReads DEF Store!CheckpointCountsHashed, Database!CheckpointCountsHashed
<1>4. Store!ChunksHoldHashed <=> Database!ChunksHoldHashed
  BY SameSets, SameReads DEF Store!ChunksHoldHashed, Database!ChunksHoldHashed
<1>5. Store!ArchiveParses <=> Database!ArchiveParses
  BY SameSets, SameReads, SameParses DEF Store!ArchiveParses, Database!ArchiveParses
<1> QED
  BY <1>1, <1>2, <1>3, <1>4, <1>5 DEF Store!ArchiveInv, Database!ArchiveInv

LEMMA SamePut ==
    ASSUME NEW k, NEW u
    PROVE  Store!PutChunk(k, u) <=> Database!PutChunk(k, u)
<1>1. Store!Acceptable(k, u) <=> Database!Acceptable(k, u)
  BY SameParses DEF Store!Acceptable, Database!Acceptable
<1>2. Store!KeysFree(k, u) <=> Database!KeysFree(k, u)
  BY DEF Store!KeysFree, Database!KeysFree, Store!EventPositions, Database!EventPositions,
     Store!IsEvent, Database!IsEvent, Store!EventKind, Database!EventKind
<1>3. Store!Storable(k, u) <=> Database!Storable(k, u)
  <2>1. Store!MayOpen(k, u) <=> Database!MayOpen(k, u)
    BY SameReads DEF Store!MayOpen, Database!MayOpen
  <2>2. Store!IsNext(k, u) <=> Database!IsNext(k, u)
    BY SameReads DEF Store!IsNext, Database!IsNext
  <2>3. Store!PrefixMatches(k, u) <=> Database!PrefixMatches(k, u)
    BY SameReads DEF Store!PrefixMatches, Database!PrefixMatches
  <2> QED
    BY <1>1, <1>2, <2>1, <2>2, <2>3 DEF Store!Storable, Database!Storable
<1>4. Store!RowAfter(k, u) = Database!RowAfter(k, u)
  <2>1. \A S : Store!Latest(S) = Database!Latest(S)
    BY DEF Store!Latest, Database!Latest
  <2>2. Store!LastActivity(u.plain) = Database!LastActivity(u.plain)
    BY <2>1 DEF Store!LastActivity, Database!LastActivity
  <2>3. Store!ActivityAfter(k, u) = Database!ActivityAfter(k, u)
    BY <2>1, <2>2, SameReads DEF Store!ActivityAfter, Database!ActivityAfter
  <2>4. Store!IdOf(k) = Database!IdOf(k) /\ Store!MetaOf(k, u) = Database!MetaOf(k, u)
    BY SameReads DEF Store!IdOf, Database!IdOf, Store!MetaOf, Database!MetaOf
  <2> QED
    BY <2>3, <2>4, SameReads DEF Store!RowAfter, Database!RowAfter
<1>5. Store!NewEvents(u) = Database!NewEvents(u)
  BY DEF Store!NewEvents, Database!NewEvents, Store!EventAt, Database!EventAt,
     Store!RowIdOf, Database!RowIdOf, Store!EventPositions, Database!EventPositions,
     Store!IsEvent, Database!IsEvent, Store!EventKind, Database!EventKind
<1>6. Store!NewSearchRows(k, u) = Database!NewSearchRows(k, u)
  BY <1>5 DEF Store!NewSearchRows, Database!NewSearchRows, Store!SearchText,
     Database!SearchText
<1>7. Store!NewChunk(u) = Database!NewChunk(u)
  BY DEF Store!NewChunk, Database!NewChunk
<1> QED
  BY <1>3, <1>4, <1>5, <1>6, <1>7, SameReads DEF Store!PutChunk, Database!PutChunk

LEMMA SameDelete ==
    ASSUME NEW k
    PROVE  Store!DeleteSession(k) <=> Database!DeleteSession(k)
BY SameReads DEF Store!DeleteSession, Database!DeleteSession, Store!SearchRowsOf,
                 Database!SearchRowsOf

LEMMA SameInit == Store!Init <=> Database!Init
BY SameSets DEF Store!Init, Database!Init

-----------------------------------------------------------------------------
(***************************************************************************)
(* What the client and the server exchange, said of the hashed records of  *)
(* a session: from here on nothing looks into the tables.                  *)
(***************************************************************************)
Hashed(s) == Store!HashState(KeyOf(s))

HashedIsSaved == \A s \in Session : Hashed(s) = Database!HashState(KeyOf(s))

LEMMA SavedNow == HashedIsSaved
BY SameReads DEF HashedIsSaved, Hashed

LEMMA SavedNext == HashedIsSaved'
BY SavedNow, PTL

LEMMA SameInvNext == Store!ArchiveInv' <=> Database!ArchiveInv'
BY SameInv, PTL

LEMMA KeyType ==
    ASSUME NEW s \in Session
    PROVE  KeyOf(s) \in Database!Key
BY HostAssumption DEF KeyOf, Database!Key

LEMMA SameRecord ==
    /\ Database!Record = Record
    /\ Store!Record = Record
BY DEF Database!Record, Record, Store!Record, Database!Kind, Kind, Store!Kind,
       Database!EventKind, EventKind, Store!EventKind

LEMMA DatabaseAssumptions ==
    /\ NoRow \notin Database!SessionRow
    /\ Store!Request \subseteq Database!Request
BY StoreAssumption, SameSets

LEMMA HashedType ==
    ASSUME Store!ArchiveInv, NEW s \in Session
    PROVE  Hashed(s) \in Seq(Record)
<1>1. Database!TypeOK
  BY SameInv DEF Database!ArchiveInv
<1>2. Database!HashState(KeyOf(s)) \in Seq(Database!Record)
  BY <1>1, KeyType, Database!ReadTypes, DatabaseAssumptions, StoreAssumption,
     NoIdAssumption, BlankAssumption, TimeAssumption
<1> QED
  BY <1>2, SameReads, SameRecord DEF Hashed

LEMMA CheckpointOf ==
    ASSUME Store!ArchiveInv, NEW s \in Session
    PROVE  Store!Checkpoint(KeyOf(s)) = [next |-> Len(Hashed(s)), hash |-> Hashed(s)]
<1>1. KeyOf(s) \in Store!Key
  BY KeyType, SameSets
<1> QED
  BY <1>1 DEF Store!ArchiveInv, Store!CheckpointCountsHashed, Store!Checkpoint, Hashed

LEMMA ArchivedIsHashed ==
    ASSUME Store!ArchiveInv, NEW s \in Session
    PROVE  Archived(s) = Hashed(s)
<1>1. Database!ArchiveInv
  BY SameInv
<1>2. Database!HashState(KeyOf(s)) = Database!ArchiveOf(KeyOf(s))
  BY <1>1, KeyType, Database!ArchiveIsHashed, DatabaseAssumptions, StoreAssumption,
     NoIdAssumption, BlankAssumption, TimeAssumption
<1> QED
  BY <1>2, SameReads, SameArchive DEF Hashed, Archived

(* A chunk that is stored extends the records hashed by its own.           *)
LEMMA StoredExtends ==
    ASSUME Store!ArchiveInv, NEW s \in Session, NEW u \in Store!Request,
           Store!PutChunk(KeyOf(s), u)
    PROVE  /\ Store!ArchiveInv'
           /\ Hashed(s)' = u.prefix
           /\ Hashed(s)' = Hashed(s) \o u.plain
           /\ \A t \in Session \ {s} : Hashed(t)' = Hashed(t)
<1>1. Database!ArchiveInv /\ Database!TypeOK /\ u \in Database!Request
  BY SameInv, SameSets DEF Database!ArchiveInv
<1>2. Database!PutChunk(KeyOf(s), u)
  BY SamePut
<1>3. Database!ArchiveInv'
  BY <1>1, <1>2, KeyType, Database!PutChunkArchiveInv, DatabaseAssumptions,
     StoreAssumption, NoIdAssumption, BlankAssumption, TimeAssumption
<1>4. \A k \in Database!Key :
         Database!HashState(k)' = IF k = KeyOf(s)
                                    THEN Database!HashState(KeyOf(s)) \o u.plain
                                    ELSE Database!HashState(k)
  BY <1>1, <1>2, KeyType, Database!PutChunkReads, DatabaseAssumptions,
     StoreAssumption, NoIdAssumption, BlankAssumption, TimeAssumption
<1>5. \A t \in Session : Hashed(t)' = Database!HashState(KeyOf(t))'
  BY SavedNext DEF HashedIsSaved
<1>6. Store!HashState(KeyOf(s)) \o u.plain = u.prefix
  BY DEF Store!PutChunk, Store!Storable, Store!PrefixMatches
<1>7. \A t \in Session \ {s} : KeyOf(t) # KeyOf(s)
  BY DEF KeyOf
<1>8. Store!ArchiveInv'
  BY <1>3, SameInvNext
<1> QED
  BY <1>4, <1>5, <1>6, <1>7, <1>8, KeyType, SameReads DEF Hashed

LEMMA DeletedForgets ==
    ASSUME Store!ArchiveInv, NEW s \in Session, Store!DeleteSession(KeyOf(s))
    PROVE  /\ Store!ArchiveInv'
           /\ Hashed(s)' = << >>
           /\ \A t \in Session \ {s} : Hashed(t)' = Hashed(t)
<1>1. Database!ArchiveInv /\ Database!TypeOK
  BY SameInv DEF Database!ArchiveInv
<1>2. Database!DeleteSession(KeyOf(s))
  BY SameDelete
<1>3. Database!ArchiveInv'
  BY <1>1, <1>2, KeyType, Database!DeleteArchiveInv, DatabaseAssumptions,
     StoreAssumption, NoIdAssumption, BlankAssumption, TimeAssumption
<1>4. \A k \in Database!Key :
         Database!HashState(k)' = IF k = KeyOf(s) THEN << >> ELSE Database!HashState(k)
  BY <1>1, <1>2, KeyType, Database!DeleteReads, DatabaseAssumptions,
     StoreAssumption, NoIdAssumption, BlankAssumption, TimeAssumption
<1>5. \A t \in Session : Hashed(t)' = Database!HashState(KeyOf(t))'
  BY SavedNext DEF HashedIsSaved
<1>6. \A t \in Session \ {s} : KeyOf(t) # KeyOf(s)
  BY DEF KeyOf
<1>7. Store!ArchiveInv'
  BY <1>3, SameInvNext
<1> QED
  BY <1>4, <1>5, <1>6, <1>7, KeyType, SameReads DEF Hashed

(* A chunk that is a duplicate is hashed already where it says it belongs. *)
LEMMA DuplicateIsHashed ==
    ASSUME Store!ArchiveInv, NEW s \in Session, NEW u \in Store!Request,
           Store!Outcome(KeyOf(s), u) = "duplicate"
    PROVE  /\ u.end <= Len(Hashed(s))
           /\ SubSeq(Hashed(s), u.start + 1, u.end) = u.plain
<1>1. Database!ArchiveInv /\ u \in Database!Request
  BY SameInv, SameSets
<1>2. Store!IsReplay(KeyOf(s), u)
  BY Zenon DEF Store!Outcome
<1>3. Database!IsReplay(KeyOf(s), u)
  BY <1>2, SameReplay
<1>4. SubSeq(Database!HashState(KeyOf(s)), u.start + 1, u.end) = u.plain
  BY <1>1, <1>3, KeyType, Database!ArchivedReplay, DatabaseAssumptions,
     StoreAssumption, NoIdAssumption, BlankAssumption, TimeAssumption
<1>5. u.end <= Store!NextOffset(KeyOf(s))
  BY <1>2, KeyType, SameSets DEF Store!IsReplay, Store!ArchiveInv, Store!ChunksTileArchive
<1> QED
  BY <1>4, <1>5, KeyType, SameReads, SameSets
     DEF Hashed, Store!ArchiveInv, Store!CheckpointCountsHashed

LEMMA NothingHashed ==
    ASSUME Store!Init
    PROVE  /\ Store!ArchiveInv
           /\ \A s \in Session : Hashed(s) = << >>
<1>1. Database!Init
  BY SameInit
<1>2. Database!ArchiveInv
  BY <1>1, Database!InitArchiveInv, DatabaseAssumptions, StoreAssumption,
     NoIdAssumption, BlankAssumption, TimeAssumption
<1>3. \A s \in Session : sessions[KeyOf(s)] = NoRow
  BY KeyType, SameSets DEF Store!Init
<1> QED
  BY <1>2, <1>3, SameInv DEF Hashed, Store!HashState, Store!Known

LEMMA UntouchedArchive ==
    ASSUME Store!ArchiveInv, UNCHANGED db
    PROVE  /\ Store!ArchiveInv'
           /\ \A s \in Session : Hashed(s)' = Hashed(s)
<1>1. \A k : Store!Known(k)' <=> Store!Known(k)
  BY DEF db, Store!Known
<1>2. \A k : /\ Store!HashState(k)' = Store!HashState(k)
             /\ Store!NextOffset(k)' = Store!NextOffset(k)
  BY <1>1 DEF db, Store!HashState, Store!NextOffset
<1>3. Store!TypeOK'
  BY DEF db, Store!TypeOK, Store!ArchiveInv
<1>4. Store!ChunksTileArchive' /\ Store!CheckpointCountsHashed'
  BY <1>2 DEF db, Store!ChunksTileArchive, Store!CheckpointCountsHashed, Store!ArchiveInv
<1>5. Store!ChunksHoldHashed' /\ Store!ArchiveParses'
  BY <1>1, <1>2 DEF db, Store!ChunksHoldHashed, Store!ArchiveParses, Store!ArchiveInv
<1> QED
  BY <1>2, <1>3, <1>4, <1>5 DEF Hashed, Store!ArchiveInv

-----------------------------------------------------------------------------
(***************************************************************************)
(* Prefixes of sequences of records.                                       *)
(***************************************************************************)
LEMMA PrefixElements ==
    ASSUME NEW p \in Seq(Record), NEW t \in Seq(Record)
    PROVE  Prefix(p, t) <=> /\ Len(p) <= Len(t)
                            /\ \A i \in 1 .. Len(p) : p[i] = t[i]
<1>1. Len(p) \in Nat /\ Len(t) \in Nat
  BY LenProperties
<1>2. ASSUME Prefix(p, t), NEW i \in 1 .. Len(p)
      PROVE  p[i] = t[i]
  <2>1. SubSeq(t, 1, Len(p)) = p /\ Len(p) <= Len(t)
    BY <1>2 DEF Prefix
  <2>2. SubSeq(t, 1, Len(p))[i] = t[1 + i - 1]
    BY <1>1, <1>2, <2>1, SubSeqProperties
  <2> QED
    BY <1>1, <1>2, <2>1, <2>2
<1>3. ASSUME Len(p) <= Len(t), \A i \in 1 .. Len(p) : p[i] = t[i]
      PROVE  SubSeq(t, 1, Len(p)) = p
  <2>1. /\ SubSeq(t, 1, Len(p)) \in Seq(Record)
        /\ Len(SubSeq(t, 1, Len(p))) = Len(p)
        /\ \A i \in 1 .. Len(p) : SubSeq(t, 1, Len(p))[i] = t[i]
    BY <1>1, <1>3, SubSeqProperties
  <2> QED
    BY <1>3, <2>1, SeqEqual
<1> QED
  BY <1>2, <1>3 DEF Prefix

LEMMA PrefixIsOrder ==
    ASSUME NEW a \in Seq(Record), NEW b \in Seq(Record), NEW c \in Seq(Record)
    PROVE  /\ Prefix(a, a)
           /\ Prefix(a, b) /\ Prefix(b, c) => Prefix(a, c)
           /\ Prefix(a, c) /\ Prefix(b, c) /\ Len(a) <= Len(b) => Prefix(a, b)
<1>1. Len(a) \in Nat /\ Len(b) \in Nat /\ Len(c) \in Nat
  BY LenProperties
<1> QED
  BY <1>1, PrefixElements

LEMMA EmptyIsPrefix ==
    ASSUME NEW t \in Seq(Record)
    PROVE  /\ << >> \in Seq(Record)
           /\ Prefix(<< >>, t)
           /\ Prefix(t, << >>) => t = << >>
<1>1. << >> \in Seq(Record) /\ Len(<< >>) = 0
  OBVIOUS
<1>2. Len(t) \in Nat
  BY LenProperties
<1>3. Prefix(<< >>, t)
  <2>1. PICK e : e = << >>
    OBVIOUS
  <2>2. /\ e \in Seq(Record) /\ Len(e) <= Len(t)
        /\ \A i \in 1 .. Len(e) : e[i] = t[i]
    BY <1>1, <1>2, <2>1
  <2>3. Prefix(e, t)
    BY <1>2, <2>2, PrefixElements
  <2> QED
    BY <2>1, <2>3
<1>4. Prefix(t, << >>) => t = << >>
  <2>1. Prefix(t, << >>) => Len(t) = 0
    BY <1>1, <1>2 DEF Prefix
  <2> QED
    BY <2>1, EmptySeq
<1> QED
  BY <1>1, <1>3, <1>4

LEMMA LongerIsPrefixOf ==
    ASSUME NEW t \in Seq(Record), NEW u \in Seq(Record)
    PROVE  /\ t \o u \in Seq(Record) /\ Prefix(t, t \o u)
           /\ Len(t \o u) = Len(t) + Len(u)
           /\ \A i \in 1 .. Len(u) : (t \o u)[Len(t) + i] = u[i]
<1>1. Len(t) \in Nat /\ Len(u) \in Nat
  BY LenProperties
<1>2. /\ t \o u \in Seq(Record) /\ Len(t \o u) = Len(t) + Len(u)
      /\ \A i \in 1 .. Len(t) + Len(u) :
            (t \o u)[i] = IF i <= Len(t) THEN t[i] ELSE u[i - Len(t)]
  BY ConcatProperties
<1>3. \A i \in 1 .. Len(u) : (t \o u)[Len(t) + i] = u[i]
  BY <1>1, <1>2
<1>4. \A i \in 1 .. Len(t) : t[i] = (t \o u)[i]
  BY <1>1, <1>2
<1>5. Prefix(t, t \o u)
  <2>1. PICK w : w = t \o u
    OBVIOUS
  <2>2. w \in Seq(Record) /\ Len(t) <= Len(w) /\ \A i \in 1 .. Len(t) : t[i] = w[i]
    BY <1>1, <1>2, <1>4, <2>1
  <2>3. Prefix(t, w)
    BY <2>2, PrefixElements
  <2> QED
    BY <2>1, <2>3
<1> QED
  BY <1>2, <1>3, <1>5

LEMMA AppendedIsPrefixOf ==
    ASSUME NEW t \in Seq(Record), NEW r \in Record
    PROVE  Append(t, r) \in Seq(Record) /\ Prefix(t, Append(t, r))
<1>1. /\ Len(t) \in Nat
      /\ Append(t, r) \in Seq(Record) /\ Len(Append(t, r)) = Len(t) + 1
      /\ \A i \in 1 .. Len(t) : Append(t, r)[i] = t[i]
  BY AppendProperties, LenProperties
<1>2. PICK w : w = Append(t, r)
  OBVIOUS
<1>3. w \in Seq(Record) /\ Len(t) <= Len(w) /\ \A i \in 1 .. Len(t) : t[i] = w[i]
  BY <1>1, <1>2
<1>4. Prefix(t, w)
  BY <1>3, PrefixElements
<1> QED
  BY <1>1, <1>2, <1>4

(* The first n records.                                                    *)
LEMMA FirstRecords ==
    ASSUME NEW t \in Seq(Record), NEW n \in 0 .. Len(t)
    PROVE  /\ SubSeq(t, 1, n) \in Seq(Record)
           /\ Len(SubSeq(t, 1, n)) = n
           /\ \A i \in 1 .. n : SubSeq(t, 1, n)[i] = t[i]
           /\ Prefix(SubSeq(t, 1, n), t)
<1>1. Len(t) \in Nat /\ n \in Nat /\ n <= Len(t)
  BY LenProperties
<1>2. /\ SubSeq(t, 1, n) \in Seq(Record)
      /\ Len(SubSeq(t, 1, n)) = n
      /\ \A i \in 1 .. n : SubSeq(t, 1, n)[i] = t[i]
  BY <1>1, SubSeqProperties
<1> QED
  BY <1>1, <1>2, PrefixElements

(* They stay the same when the sequence grows.                             *)
LEMMA FirstRecordsStay ==
    ASSUME NEW t \in Seq(Record), NEW u \in Seq(Record), Prefix(t, u),
           NEW n \in 0 .. Len(t)
    PROVE  SubSeq(u, 1, n) = SubSeq(t, 1, n)
<1>1. Len(t) \in Nat /\ Len(u) \in Nat /\ Len(t) <= Len(u)
  BY LenProperties DEF Prefix
<1>2. n \in 0 .. Len(u) /\ n \in Nat /\ n <= Len(t)
  BY <1>1
<1>3. \A i \in 1 .. n : t[i] = u[i]
  BY <1>1, <1>2, PrefixElements
<1> QED
  BY <1>2, <1>3, FirstRecords, SeqEqual

LEMMA RestOfRecords ==
    ASSUME NEW v \in Seq(Record), NEW t \in Seq(Record), NEW n \in Len(v) + 1 .. Len(t)
    PROVE  /\ SubSeq(t, Len(v) + 1, n) \in Seq(Record)
           /\ Len(SubSeq(t, Len(v) + 1, n)) = n - Len(v)
           /\ \A i \in 1 .. n - Len(v) : SubSeq(t, Len(v) + 1, n)[i] = t[Len(v) + i]
<1>1. Len(t) \in Nat /\ Len(v) \in Nat /\ n \in Nat /\ Len(v) < n /\ n <= Len(t)
  BY LenProperties
<1>2. SubSeq(t, Len(v) + 1, n) \in Seq(Record)
  BY <1>1, SubSeqProperties
<1>3. Len(SubSeq(t, Len(v) + 1, n)) = n - (Len(v) + 1) + 1
  BY <1>1, SubSeqProperties
<1>4. \A i \in 1 .. n - (Len(v) + 1) + 1 :
         SubSeq(t, Len(v) + 1, n)[i] = t[Len(v) + 1 + i - 1]
  BY <1>1, SubSeqProperties
<1> QED
  BY <1>1, <1>2, <1>3, <1>4

(* A sequence that goes on as another one does goes on being its prefix.   *)
LEMMA PrefixGoesOn ==
    ASSUME NEW v \in Seq(Record), NEW t \in Seq(Record), Prefix(v, t),
           NEW n \in Len(v) + 1 .. Len(t)
    PROVE  v \o SubSeq(t, Len(v) + 1, n) = SubSeq(t, 1, n)
<1>1. Len(t) \in Nat /\ Len(v) \in Nat /\ n \in Nat /\ Len(v) < n /\ n <= Len(t)
  BY LenProperties
<1> DEFINE plain == SubSeq(t, Len(v) + 1, n)
<1>2. /\ plain \in Seq(Record) /\ Len(plain) = n - Len(v)
      /\ \A i \in 1 .. n - Len(v) : plain[i] = t[Len(v) + i]
  BY RestOfRecords
<1> HIDE DEF plain
<1>3. /\ v \o plain \in Seq(Record) /\ Len(v \o plain) = Len(v) + Len(plain)
      /\ \A i \in 1 .. Len(v) + Len(plain) :
            (v \o plain)[i] = IF i <= Len(v) THEN v[i] ELSE plain[i - Len(v)]
  BY <1>2, ConcatProperties
<1>4. \A i \in 1 .. n : (v \o plain)[i] = t[i]
  <2> SUFFICES ASSUME NEW i \in 1 .. n
               PROVE  (v \o plain)[i] = t[i]
    OBVIOUS
  <2>1. CASE i <= Len(v)
    BY <1>1, <1>2, <1>3, <2>1, PrefixElements
  <2>2. CASE ~(i <= Len(v))
    <3>1. i - Len(v) \in 1 .. n - Len(v) /\ Len(v) + (i - Len(v)) = i
      BY <1>1, <2>2
    <3> QED
      BY <1>1, <1>2, <1>3, <2>2, <3>1
  <2> QED
    BY <2>1, <2>2
<1>5. n \in 0 .. Len(t)
  BY <1>1
<1>6. v \o plain = SubSeq(t, 1, n)
  <2>1. Len(v \o plain) = n
    BY <1>1, <1>2, <1>3
  <2> QED
    BY <1>3, <1>4, <1>5, <2>1, FirstRecords, SeqEqual
<1> QED
  BY <1>2, <1>6 DEF plain

-----------------------------------------------------------------------------
(***************************************************************************)
(* The invariant.  Types come first: the fields of a run are functions of  *)
(* the sessions it has dealt with, and a checkpoint counts its records.    *)
(***************************************************************************)
PartialOn(V) == UNION {[D -> V] : D \in SUBSET Session}

Point == {p \in [next : Nat, hash : Seq(Record)] : p.next = Len(p.hash)}

RunState ==
    [pc : Pc, size : PartialOn(Nat), plan : PartialOn(Point), todo : SUBSET Session,
     file : Nat, view : Seq(Record), eof : BOOLEAN, conn : Conn \cup {NoConn},
     disturbed : SUBSET Session]

Message ==
    [conn : Conn, session : Session, request : Store!Request,
     status : {"sent", "ok", "error"}]

(* Generations come into being one after the other, empty until then.      *)
FilesOK ==
    /\ path \in [Session -> Generation]
    /\ disk \in [Session -> [Generation -> Seq(Record)]]
    /\ past \in [Session -> SUBSET Seq(Record)]
    /\ edits \in 0 .. MaxEdits /\ deletes \in 0 .. MaxDeletes
    /\ \A s \in Session : path[s] <= edits + 1
    /\ \A s \in Session : \A g \in Generation : g > edits + 1 => disk[s][g] = << >>

RunsOK == run \in [Run -> RunState] /\ net \subseteq Message

OneEach == \A m, n \in net : m.conn = n.conn => m = n

(* The sessions neither replaced nor deleted since the run began.          *)
Calm(r) == IF run[r].pc = "stopped" THEN {} ELSE Session \ run[r].disturbed

Busy(r) == run[r].pc \in {"reading", "waiting"}

(* A run keeps to its steps.                                               *)
Steps(r) ==
    /\ (run[r].conn # NoConn) <=> (run[r].pc = "waiting")
    /\ run[r].conn # NoConn => run[r].conn[1] = r
    /\ run[r].pc \in {"opening", "reading", "waiting", "done"} =>
          DOMAIN run[r].size = Session
    /\ run[r].pc \in {"opening", "reading", "waiting"} => run[r].todo # {}
    /\ run[r].pc = "opening" => run[r].todo \subseteq DOMAIN run[r].plan
    /\ Busy(r) => run[r].todo \ {Current(r)} \subseteq DOMAIN run[r].plan
    /\ Busy(r) => run[r].file \in Generation
    /\ run[r].eof => Busy(r)

(* The file a run reads still begins with what it has hashed.              *)
ReadsOneFile(r) == (Busy(r) /\ ~InPlace) => Prefix(run[r].view, OpenFileContent(r))

(* What a run believes of the session it reads, if it was left alone.      *)
KnowsFile(r) ==
    (Busy(r) /\ Current(r) \in Calm(r)) =>
        /\ run[r].file = path[Current(r)]
        /\ Prefix(run[r].view, File(Current(r)))
        /\ run[r].eof => run[r].size[Current(r)] <= Len(run[r].view)
        /\ run[r].pc = "reading" => Prefix(run[r].view, Hashed(Current(r)))

(* What it believes of the others.                                         *)
KnowsRest(r) ==
    /\ \A s \in DOMAIN run[r].size \cap Calm(r) : run[r].size[s] <= Len(File(s))
    /\ \A s \in DOMAIN run[r].plan \cap Calm(r) : Prefix(run[r].plan[s].hash, Hashed(s))
    /\ \A s \in Through(r) \cap Calm(r) :
          Prefix(SubSeq(File(s), 1, run[r].size[s]), Hashed(s))

RunOK(r) == Steps(r) /\ ReadsOneFile(r) /\ KnowsFile(r) /\ KnowsRest(r)

(* A request: its prefix ends with its records, ...                        *)
Joined(u) ==
    /\ u.end = u.start + Len(u.plain)
    /\ Len(u.prefix) = u.end
    /\ \A i \in 1 .. Len(u.plain) : u.prefix[u.start + i] = u.plain[i]

(* ... comes from one file, ...                                            *)
FromOneFile(p, s) == ~InPlace => \E g \in Generation : Prefix(p, disk[s][g])

(* ... and is what its client, if it still waits, has hashed.              *)
OwnedBy(m, r) ==
    run[r].conn = m.conn =>
        /\ m.session = Current(r)
        /\ m.request.prefix = run[r].view
        /\ (m.session \in Calm(r) /\ m.status = "sent") =>
              Prefix(SubSeq(m.request.prefix, 1, m.request.start), Hashed(m.session))
        /\ (m.session \in Calm(r) /\ m.status = "ok") =>
              Prefix(m.request.prefix, Hashed(m.session))

MessageOK(m) ==
    /\ Joined(m.request)
    /\ FromOneFile(m.request.prefix, m.session)
    /\ \A r \in Run : OwnedBy(m, r)

SyncInv ==
    /\ Store!ArchiveInv
    /\ FilesOK
    /\ RunsOK
    /\ OneEach
    /\ \A r \in Run : RunOK(r)
    /\ \A m \in net : MessageOK(m)
    /\ \A s \in Session : FromOneFile(Hashed(s), s)

-----------------------------------------------------------------------------
(***************************************************************************)
(* What the types say, field by field.                                     *)
(***************************************************************************)
LEMMA PartialTypes ==
    ASSUME NEW V, NEW f \in PartialOn(V)
    PROVE  /\ DOMAIN f \subseteq Session
           /\ \A s \in DOMAIN f : f[s] \in V
BY DEF PartialOn

LEMMA PartialFunction ==
    ASSUME NEW V, NEW D \in SUBSET Session, NEW f \in [D -> V]
    PROVE  f \in PartialOn(V)
BY DEF PartialOn

LEMMA RunTypes ==
    ASSUME RunsOK, NEW r \in Run
    PROVE  /\ run[r] \in RunState
           /\ run[r].pc \in Pc
           /\ run[r].size \in PartialOn(Nat)
           /\ run[r].plan \in PartialOn(Point)
           /\ run[r].todo \in SUBSET Session
           /\ run[r].file \in Nat
           /\ run[r].view \in Seq(Record)
           /\ run[r].eof \in BOOLEAN
           /\ run[r].conn \in Conn \cup {NoConn}
           /\ run[r].disturbed \in SUBSET Session
BY DEF RunsOK, RunState

LEMMA SizeTypes ==
    ASSUME RunsOK, NEW r \in Run
    PROVE  /\ DOMAIN run[r].size \subseteq Session
           /\ \A s \in DOMAIN run[r].size : run[r].size[s] \in Nat
BY RunTypes, PartialTypes

LEMMA PlanTypes ==
    ASSUME RunsOK, NEW r \in Run
    PROVE  /\ DOMAIN run[r].plan \subseteq Session
           /\ \A s \in DOMAIN run[r].plan :
                 /\ run[r].plan[s] \in Point
                 /\ run[r].plan[s].hash \in Seq(Record)
                 /\ run[r].plan[s].next \in Nat
                 /\ run[r].plan[s].next = Len(run[r].plan[s].hash)
<1>1. \A p \in Point : p.hash \in Seq(Record) /\ p.next \in Nat /\ p.next = Len(p.hash)
  BY DEF Point
<1> QED
  BY <1>1, RunTypes, PartialTypes

LEMMA CurrentType ==
    ASSUME RunsOK, NEW r \in Run, run[r].todo # {}
    PROVE  Current(r) \in run[r].todo /\ Current(r) \in Session
<1>1. run[r].todo \in SUBSET Session
  BY RunTypes
<1>2. \E s \in run[r].todo : \A t \in run[r].todo : s <= t
  BY <1>1, SessionAssumption
<1> QED
  BY <1>1, <1>2 DEF Current

LEMMA MessageTypes ==
    ASSUME RunsOK, NEW m \in net
    PROVE  /\ m.conn \in Conn /\ m.session \in Session
           /\ m.status \in {"sent", "ok", "error"}
           /\ m.request \in Store!Request
           /\ m.request.start \in Nat /\ m.request.end \in Nat
           /\ m.request.plain \in Seq(Record) /\ m.request.prefix \in Seq(Record)
<1>1. m.conn \in Conn /\ m.session \in Session /\ m.status \in {"sent", "ok", "error"}
      /\ m.request \in Store!Request
  BY DEF RunsOK, Message
<1> QED
  BY <1>1, SameRecord DEF Store!Request

LEMMA FileTypes ==
    ASSUME FilesOK, NEW s \in Session
    PROVE  /\ path[s] \in Generation /\ path[s] \in Nat
           /\ File(s) \in Seq(Record)
           /\ \A g \in Generation : disk[s][g] \in Seq(Record)
BY BoundsAssumption DEF FilesOK, File, Generation

LEMMA NextFileTypes ==
    ASSUME FilesOK', NEW s \in Session
    PROVE  /\ File(s)' \in Seq(Record)
           /\ \A g \in Generation : disk'[s][g] \in Seq(Record)
BY DEF FilesOK, File

LEMMA HashedTypeNow == (Store!ArchiveInv => \A s \in Session : Hashed(s) \in Seq(Record))
BY HashedType

LEMMA HashedTypeNext ==
    ASSUME Store!ArchiveInv'
    PROVE  \A s \in Session : Hashed(s)' \in Seq(Record)
<1> DEFINE T == Store!ArchiveInv => \A s \in Session : Hashed(s) \in Seq(Record)
<1>1. T
  BY HashedType
<1>2. T'
  BY HashedTypeNow, PTL
<1> QED
  BY <1>2

-----------------------------------------------------------------------------
(***************************************************************************)
(* Steps of others.  A session is kept when its file and its archive only  *)
(* grow, and a run is kept when at most more sessions are disturbed.       *)
(***************************************************************************)
Kept(s) ==
    /\ path'[s] = path[s]
    /\ Prefix(File(s), File(s)')
    /\ Prefix(Hashed(s), Hashed(s)')

Grown ==
    ~InPlace => \A s \in Session : \A g \in Generation : Prefix(disk[s][g], disk'[s][g])

SameRun(r) ==
    /\ run'[r].pc = run[r].pc
    /\ run'[r].size = run[r].size
    /\ run'[r].plan = run[r].plan
    /\ run'[r].todo = run[r].todo
    /\ run'[r].file = run[r].file
    /\ run'[r].view = run[r].view
    /\ run'[r].eof = run[r].eof
    /\ run'[r].conn = run[r].conn
    /\ run[r].disturbed \subseteq run'[r].disturbed

KeptFor(r) == SameRun(r) /\ \A s \in Calm(r)' : Kept(s)

LEMMA SameViews ==
    ASSUME NEW r \in Run, SameRun(r)
    PROVE  /\ Busy(r)' <=> Busy(r)
           /\ Current(r)' = Current(r)
           /\ Through(r)' = Through(r)
           /\ Calm(r)' \subseteq Calm(r)
           /\ Calm(r)' \subseteq Session
BY DEF SameRun, Busy, Current, Through, Calm

LEMMA RunStays ==
    ASSUME SyncInv, FilesOK', Store!ArchiveInv', Grown, NEW r \in Run, KeptFor(r)
    PROVE  RunOK(r)'
<1> USE DEF KeptFor
<1>0. /\ RunsOK /\ FilesOK /\ Store!ArchiveInv
      /\ Steps(r) /\ ReadsOneFile(r) /\ KnowsFile(r) /\ KnowsRest(r)
  BY DEF SyncInv, RunOK
<1>1. Steps(r)'
  BY <1>0, SameViews DEF Steps, SameRun
<1>2. ReadsOneFile(r)'
  <2> SUFFICES ASSUME Busy(r), ~InPlace
               PROVE  Prefix(run[r].view, OpenFileContent(r)')
    BY SameViews DEF ReadsOneFile, SameRun
  <2>1. Current(r) \in Session /\ run[r].file \in Generation
    BY <1>0, CurrentType DEF Steps, Busy
  <2>2. OpenFileContent(r)' = disk'[Current(r)][run[r].file]
    BY SameViews DEF OpenFileContent, SameRun
  <2>3. Prefix(OpenFileContent(r), OpenFileContent(r)')
    BY <2>1, <2>2 DEF Grown, OpenFileContent
  <2>4. Prefix(run[r].view, OpenFileContent(r))
    BY <1>0 DEF ReadsOneFile
  <2>5. /\ run[r].view \in Seq(Record) /\ OpenFileContent(r) \in Seq(Record)
        /\ OpenFileContent(r)' \in Seq(Record)
    BY <1>0, <2>1, <2>2, RunTypes, FileTypes, NextFileTypes DEF OpenFileContent
  <2> QED
    BY <2>3, <2>4, <2>5, PrefixIsOrder
<1>3. KnowsFile(r)'
  <2> SUFFICES ASSUME Busy(r), Current(r) \in Calm(r)'
               PROVE  /\ run[r].file = path'[Current(r)]
                      /\ Prefix(run[r].view, File(Current(r))')
                      /\ run[r].eof => run[r].size[Current(r)] <= Len(run[r].view)
                      /\ run[r].pc = "reading" => Prefix(run[r].view, Hashed(Current(r))')
    BY SameViews DEF KnowsFile, SameRun, File, Hashed, KeyOf
  <2>1. PICK s \in Session : s = Current(r)
    BY SameViews
  <2>2. /\ run[r].file = path[s]
        /\ Prefix(run[r].view, File(s))
        /\ run[r].eof => run[r].size[s] <= Len(run[r].view)
        /\ run[r].pc = "reading" => Prefix(run[r].view, Hashed(s))
    BY <1>0, <2>1, SameViews DEF KnowsFile
  <2>3. path'[s] = path[s] /\ Prefix(File(s), File(s)') /\ Prefix(Hashed(s), Hashed(s)')
    BY <2>1 DEF Kept
  <2>4. /\ run[r].view \in Seq(Record)
        /\ File(s) \in Seq(Record) /\ File(s)' \in Seq(Record)
        /\ Hashed(s) \in Seq(Record) /\ Hashed(s)' \in Seq(Record)
    BY <1>0, RunTypes, FileTypes, NextFileTypes, HashedType, HashedTypeNext
  <2>5. Prefix(run[r].view, File(s)')
    BY <2>2, <2>3, <2>4, PrefixIsOrder
  <2>6. run[r].pc = "reading" => Prefix(run[r].view, Hashed(s)')
    BY <2>2, <2>3, <2>4, PrefixIsOrder
  <2> QED
    BY <2>1, <2>2, <2>3, <2>5, <2>6, SameViews DEF File, Hashed, KeyOf
<1>4. KnowsRest(r)'
  <2>1. ASSUME NEW s \in DOMAIN run[r].size, s \in Calm(r)'
        PROVE  run[r].size[s] <= Len(File(s)')
    <3>1. s \in Session /\ s \in Calm(r) /\ run[r].size[s] \in Nat
      BY <1>0, <2>1, SameViews, SizeTypes
    <3>2. run[r].size[s] <= Len(File(s)) /\ Len(File(s)) <= Len(File(s)')
      BY <1>0, <2>1, <3>1 DEF KnowsRest, Kept, Prefix
    <3>3. Len(File(s)) \in Nat /\ Len(File(s)') \in Nat
      BY <1>0, <3>1, FileTypes, NextFileTypes, LenProperties
    <3> QED
      BY <3>1, <3>2, <3>3
  <2>2. ASSUME NEW s \in DOMAIN run[r].plan, s \in Calm(r)'
        PROVE  Prefix(run[r].plan[s].hash, Hashed(s)')
    <3>1. s \in Session /\ s \in Calm(r) /\ run[r].plan[s].hash \in Seq(Record)
      BY <1>0, <2>2, SameViews, PlanTypes
    <3>2. Prefix(run[r].plan[s].hash, Hashed(s)) /\ Prefix(Hashed(s), Hashed(s)')
      BY <1>0, <2>2, <3>1 DEF KnowsRest, Kept
    <3>3. Hashed(s) \in Seq(Record) /\ Hashed(s)' \in Seq(Record)
      BY <1>0, <3>1, HashedType, HashedTypeNext
    <3> QED
      BY <3>1, <3>2, <3>3, PrefixIsOrder
  <2>3. ASSUME NEW s \in Through(r), s \in Calm(r)'
        PROVE  Prefix(SubSeq(File(s)', 1, run[r].size[s]), Hashed(s)')
    <3>1. s \in Session /\ s \in Calm(r) /\ s \in DOMAIN run[r].size
      BY <1>0, <2>3, SameViews DEF Through, Steps
    <3>2. /\ Prefix(SubSeq(File(s), 1, run[r].size[s]), Hashed(s))
          /\ run[r].size[s] <= Len(File(s))
          /\ Prefix(Hashed(s), Hashed(s)') /\ Prefix(File(s), File(s)')
      BY <1>0, <2>3, <3>1 DEF KnowsRest, Kept
    <3>3. /\ Hashed(s) \in Seq(Record) /\ Hashed(s)' \in Seq(Record)
          /\ File(s) \in Seq(Record) /\ File(s)' \in Seq(Record)
      BY <1>0, <3>1, HashedType, HashedTypeNext, FileTypes, NextFileTypes
    <3>4. run[r].size[s] \in 0 .. Len(File(s))
      BY <1>0, <3>1, <3>2, <3>3, SizeTypes, LenProperties
    <3>5. SubSeq(File(s)', 1, run[r].size[s]) = SubSeq(File(s), 1, run[r].size[s])
      BY <3>2, <3>3, <3>4, FirstRecordsStay
    <3>6. SubSeq(File(s), 1, run[r].size[s]) \in Seq(Record)
      BY <3>3, <3>4, FirstRecords
    <3> QED
      BY <3>2, <3>3, <3>5, <3>6, PrefixIsOrder
  <2> QED
    BY <2>1, <2>2, <2>3, SameViews DEF KnowsRest, SameRun, File, Hashed, KeyOf
<1> QED
  BY <1>1, <1>2, <1>3, <1>4 DEF RunOK

(* A request is kept when its client, if it still waits, is.               *)
LEMMA GrownKeepsFile ==
    ASSUME FilesOK, FilesOK', Grown, NEW p \in Seq(Record), NEW s \in Session,
           FromOneFile(p, s)
    PROVE  FromOneFile(p, s)'
<1> SUFFICES ASSUME ~InPlace
             PROVE  \E g \in Generation : Prefix(p, disk'[s][g])
  BY DEF FromOneFile
<1>1. PICK g \in Generation : Prefix(p, disk[s][g])
  BY DEF FromOneFile
<1>2. Prefix(disk[s][g], disk'[s][g])
  BY DEF Grown
<1>3. disk[s][g] \in Seq(Record) /\ disk'[s][g] \in Seq(Record)
  BY FileTypes, NextFileTypes
<1> QED
  BY <1>1, <1>2, <1>3, PrefixIsOrder

LEMMA OwnerStays ==
    ASSUME SyncInv, Store!ArchiveInv', NEW m \in net, NEW r \in Run,
           run'[r].conn = m.conn => KeptFor(r)
    PROVE  OwnedBy(m, r)'
<1> SUFFICES ASSUME run'[r].conn = m.conn
             PROVE  /\ m.session = Current(r)'
                    /\ m.request.prefix = run'[r].view
                    /\ (m.session \in Calm(r)' /\ m.status = "sent") =>
                          Prefix(SubSeq(m.request.prefix, 1, m.request.start),
                                 Hashed(m.session)')
                    /\ (m.session \in Calm(r)' /\ m.status = "ok") =>
                          Prefix(m.request.prefix, Hashed(m.session)')
  BY DEF OwnedBy, Hashed, KeyOf
<1>1. SameRun(r) /\ (\A s \in Calm(r)' : Kept(s)) /\ run[r].conn = m.conn
  BY DEF KeptFor, SameRun
<1>2. RunsOK /\ Store!ArchiveInv /\ MessageOK(m)
  BY DEF SyncInv
<1>3. OwnedBy(m, r) /\ Joined(m.request)
  BY <1>2 DEF MessageOK
<1>4. /\ m.session \in Session /\ m.request.start \in Nat /\ m.request.end \in Nat
      /\ m.request.plain \in Seq(Record) /\ m.request.prefix \in Seq(Record)
  BY <1>2, MessageTypes
<1>5. SubSeq(m.request.prefix, 1, m.request.start) \in Seq(Record)
  <2>1. m.request.start \in 0 .. Len(m.request.prefix)
    BY <1>3, <1>4, LenProperties DEF Joined
  <2> QED
    BY <1>4, <2>1, FirstRecords
<1>6. m.session = Current(r)' /\ m.request.prefix = run'[r].view
  BY <1>1, <1>3, SameViews DEF OwnedBy, SameRun
<1>7. ASSUME m.session \in Calm(r)'
      PROVE  /\ m.status = "sent" =>
                   Prefix(SubSeq(m.request.prefix, 1, m.request.start), Hashed(m.session)')
             /\ m.status = "ok" => Prefix(m.request.prefix, Hashed(m.session)')
  <2>1. Prefix(Hashed(m.session), Hashed(m.session)')
    BY <1>1, <1>4, <1>7 DEF Kept
  <2>2. Hashed(m.session) \in Seq(Record) /\ Hashed(m.session)' \in Seq(Record)
    BY <1>2, <1>4, HashedType, HashedTypeNext
  <2>3. m.session \in Calm(r)
    BY <1>1, <1>7, SameViews
  <2> QED
    BY <1>1, <1>3, <1>4, <1>5, <2>1, <2>2, <2>3, PrefixIsOrder DEF OwnedBy
<1> QED
  BY <1>6, <1>7

LEMMA MessageStays ==
    ASSUME SyncInv, FilesOK', Store!ArchiveInv', Grown, NEW m \in net,
           \A r \in Run : run'[r].conn = m.conn => KeptFor(r)
    PROVE  MessageOK(m)'
<1>1. FilesOK /\ RunsOK /\ MessageOK(m)
  BY DEF SyncInv
<1>2. Joined(m.request) /\ FromOneFile(m.request.prefix, m.session)
  BY <1>1 DEF MessageOK
<1>3. \A r \in Run : OwnedBy(m, r)'
  BY OwnerStays
<1>4. FromOneFile(m.request.prefix, m.session)'
  <2>1. PICK p \in Seq(Record), s \in Session : p = m.request.prefix /\ s = m.session
    BY <1>1, MessageTypes
  <2>2. FromOneFile(p, s)'
    BY <1>1, <1>2, <2>1, GrownKeepsFile
  <2> QED
    BY <2>1, <2>2 DEF FromOneFile
<1> QED
  BY <1>2, <1>3, <1>4 DEF MessageOK, Joined

-----------------------------------------------------------------------------
(***************************************************************************)
(* Steps of a process that leave the server, the files and the requests    *)
(* alone.                                                                  *)
(***************************************************************************)
LEMMA UntouchedFiles ==
    ASSUME SyncInv, UNCHANGED <<db, files, deletes>>
    PROVE  /\ Store!ArchiveInv' /\ FilesOK' /\ Grown
           /\ \A s \in Session : Kept(s)
           /\ \A s \in Session : FromOneFile(Hashed(s), s)'
           /\ \A s \in Session : File(s)' = File(s) /\ Hashed(s)' = Hashed(s)
<1>1. Store!ArchiveInv /\ FilesOK /\ \A s \in Session : FromOneFile(Hashed(s), s)
  BY DEF SyncInv
<1>2. Store!ArchiveInv' /\ \A s \in Session : Hashed(s)' = Hashed(s)
  BY <1>1, UntouchedArchive
<1>3. FilesOK'
  BY <1>1 DEF FilesOK, files
<1>4. \A s \in Session : File(s)' = File(s)
  BY DEF File, files
<1>5. Grown
  BY <1>1, FileTypes, PrefixIsOrder DEF Grown, files
<1>6. \A s \in Session : Kept(s)
  BY <1>1, <1>2, <1>4, FileTypes, HashedType, PrefixIsOrder DEF Kept, files
<1>7. \A s \in Session : FromOneFile(Hashed(s), s)'
  BY <1>1, <1>2 DEF FromOneFile, files
<1> QED
  BY <1>2, <1>3, <1>4, <1>5, <1>6, <1>7

LEMMA UntouchedRun ==
    ASSUME NEW r \in Run, run'[r] = run[r]
    PROVE  SameRun(r) /\ Calm(r)' = Calm(r)
BY DEF SameRun, Calm

(* The other runs, when one has taken a step.                              *)
LEMMA OthersStay ==
    ASSUME SyncInv, UNCHANGED <<db, files, deletes>>, NEW r \in Run, NEW w \in RunState,
           run' = [run EXCEPT ![r] = w], RunOK(r)'
    PROVE  /\ run' \in [Run -> RunState]
           /\ \A q \in Run : RunOK(q)'
           /\ \A q \in Run \ {r} : KeptFor(q)
           /\ run'[r] = w
<1>1. run \in [Run -> RunState]
  BY DEF SyncInv, RunsOK
<1>2. run' \in [Run -> RunState] /\ run'[r] = w
  BY <1>1
<1>3. ASSUME NEW q \in Run \ {r}
      PROVE  KeptFor(q)
  <2>1. run'[q] = run[q]
    BY <1>1
  <2>2. SameRun(q) /\ Calm(q)' \subseteq Session
    BY <2>1, UntouchedRun, SameViews
  <2> QED
    BY <2>2, UntouchedFiles DEF KeptFor
<1>4. ASSUME NEW q \in Run \ {r}
      PROVE  RunOK(q)'
  BY <1>3, UntouchedFiles, RunStays
<1> QED
  BY <1>2, <1>3, <1>4

LEMMA AnsweredStep ==
    ASSUME SyncInv, UNCHANGED <<db, files, deletes>>, net' \subseteq net, NEW r \in Run,
           NEW w \in RunState, run' = [run EXCEPT ![r] = w], w.conn = NoConn, RunOK(r)'
    PROVE  SyncInv'
<1>1. /\ Store!ArchiveInv' /\ FilesOK' /\ Grown
      /\ \A s \in Session : FromOneFile(Hashed(s), s)'
  BY UntouchedFiles
<1>2. /\ run' \in [Run -> RunState]
      /\ \A q \in Run : RunOK(q)'
      /\ \A q \in Run \ {r} : KeptFor(q)
      /\ run'[r] = w
  BY OthersStay
<1>3. RunsOK' /\ OneEach'
  BY <1>2 DEF SyncInv, RunsOK, OneEach
<1>4. ASSUME NEW m \in net
      PROVE  MessageOK(m)'
  <2>1. m.conn # NoConn
    BY MessageTypes, ConnAssumption DEF SyncInv
  <2>2. \A q \in Run : run'[q].conn = m.conn => KeptFor(q)
    BY <1>2, <2>1
  <2> QED
    BY <1>1, <2>2, MessageStays
<1>5. \A m \in net' : MessageOK(m)'
  BY <1>4
<1> QED
  BY <1>1, <1>2, <1>3, <1>5 DEF SyncInv

LEMMA LocalStep ==
    ASSUME SyncInv, UNCHANGED <<db, files, deletes, net>>, NEW r \in Run,
           NEW w \in RunState, run' = [run EXCEPT ![r] = w], w.conn = NoConn, RunOK(r)'
    PROVE  SyncInv'
<1>1. UNCHANGED <<db, files, deletes>> /\ net' \subseteq net
  OBVIOUS
<1> QED
  BY <1>1, AnsweredStep

(* A run that does not read, and is through with nothing.                  *)
LEMMA QuietOK ==
    ASSUME SyncInv, UNCHANGED <<db, files, deletes>>, NEW r \in Run,
           run'[r].conn = NoConn, run'[r].eof = FALSE,
           run'[r].pc \in {"stopped", "inspecting", "refused"},
           \A s \in DOMAIN run'[r].size \cap Calm(r)' : run'[r].size[s] <= Len(File(s)),
           \A s \in DOMAIN run'[r].plan \cap Calm(r)' :
               Prefix(run'[r].plan[s].hash, Hashed(s))
    PROVE  RunOK(r)'
<1>1. /\ ~(Busy(r)') /\ Through(r)' = {}
      /\ run'[r].pc \notin {"opening", "reading", "waiting", "done"}
  BY DEF Busy, Through
<1>2. Steps(r)'
  BY <1>1 DEF Steps, Busy
<1>3. ReadsOneFile(r)' /\ KnowsFile(r)'
  BY <1>1 DEF ReadsOneFile, KnowsFile
<1>4. KnowsRest(r)'
  <2>1. \A s \in Session : File(s)' = File(s) /\ Hashed(s)' = Hashed(s)
    BY UntouchedFiles
  <2>2. Calm(r)' \subseteq Session
    BY DEF Calm
  <2>3. \A s \in DOMAIN run'[r].size \cap Calm(r)' : run'[r].size[s] <= Len(File(s)')
    BY <2>1, <2>2
  <2>4. \A s \in DOMAIN run'[r].plan \cap Calm(r)' :
            Prefix(run'[r].plan[s].hash, Hashed(s)')
    BY <2>1, <2>2
  <2> QED
    BY <1>1, <2>3, <2>4 DEF KnowsRest, File, Hashed, KeyOf
<1> QED
  BY <1>2, <1>3, <1>4 DEF RunOK

LEMMA NoMapType ==
    /\ DOMAIN NoMap = {}
    /\ \A V : NoMap \in PartialOn(V)
<1>1. DOMAIN NoMap = {}
  BY DEF NoMap
<1>2. \A V : NoMap \in [{} -> V]
  BY DEF NoMap
<1> QED
  BY <1>1, <1>2, PartialFunction

LEMMA StoppedType ==
    /\ Stopped \in RunState
    /\ Stopped.pc = "stopped" /\ Stopped.size = NoMap /\ Stopped.plan = NoMap
    /\ Stopped.conn = NoConn /\ Stopped.eof = FALSE /\ Stopped.disturbed = {}
<1>1. << >> \in Seq(Record)
  OBVIOUS
<1> QED
  BY <1>1, NoMapType DEF Stopped, RunState, Pc

(* An error ends a run, and it forgets all it knew.                        *)
LEMMA StoppedOK ==
    ASSUME SyncInv, UNCHANGED <<db, files, deletes>>, NEW r \in Run, run'[r] = Stopped
    PROVE  RunOK(r)'
BY QuietOK, StoppedType, NoMapType

LEMMA FailStep ==
    ASSUME SyncInv, NEW r \in Run, Fail(r), UNCHANGED <<db, files, deletes>>,
           net' \subseteq net
    PROVE  SyncInv'
<1>1. run' = [run EXCEPT ![r] = Stopped] /\ Stopped \in RunState /\ Stopped.conn = NoConn
  BY StoppedType DEF Fail, Set
<1>2. run'[r] = Stopped
  BY <1>1 DEF SyncInv, RunsOK
<1>3. RunOK(r)'
  BY <1>2, StoppedOK
<1> QED
  BY <1>1, <1>3, AnsweredStep

LEMMA StartStep ==
    ASSUME SyncInv, NEW r \in Run, Start(r)
    PROVE  SyncInv'
<1>1. UNCHANGED <<db, files, deletes, net>>
  BY DEF Start
<1>2. PICK w : w = [Stopped EXCEPT !.pc = "inspecting"]
  OBVIOUS
<1>3. /\ w \in RunState
      /\ w.pc = "inspecting" /\ w.size = NoMap /\ w.plan = NoMap
      /\ w.conn = NoConn /\ w.eof = FALSE
  BY <1>2, StoppedType DEF RunState, Pc
<1>4. run' = [run EXCEPT ![r] = w] /\ run'[r] = w
  BY <1>2 DEF Start, Set, SyncInv, RunsOK
<1>5. RunOK(r)'
  BY <1>1, <1>3, <1>4, QuietOK, NoMapType
<1> QED
  BY <1>1, <1>3, <1>4, <1>5, LocalStep

LEMMA IncludingType ==
    ASSUME NEW V, NEW f \in PartialOn(V), NEW s \in Session, NEW v \in V
    PROVE  Including(f, s, v) \in PartialOn(V)
<1>1. DOMAIN f \cup {s} \in SUBSET Session /\ \A t \in DOMAIN f : f[t] \in V
  BY PartialTypes
<1>2. Including(f, s, v) \in [DOMAIN f \cup {s} -> V]
  BY <1>1 DEF Including
<1> QED
  BY <1>1, <1>2, PartialFunction

LEMMA NotWaiting ==
    ASSUME SyncInv, NEW r \in Run
    PROVE  /\ run[r].pc # "waiting" => run[r].conn = NoConn
           /\ ~Busy(r) => run[r].eof = FALSE
BY RunTypes DEF SyncInv, RunOK, Steps

LEMMA InspectStep ==
    ASSUME SyncInv, NEW r \in Run, NEW s \in Session, Inspect(r, s)
    PROVE  SyncInv'
<1>1. UNCHANGED <<db, files, deletes, net>> /\ run[r].pc = "inspecting"
  BY DEF Inspect
<1>2. CASE OpensSession(File(s), s)
  <2>1. FilesOK /\ RunsOK /\ KnowsRest(r)
    BY DEF SyncInv, RunOK
  <2>2. PICK f : f = Including(run[r].size, s, Len(File(s)))
    OBVIOUS
  <2>3. Len(File(s)) \in Nat
    BY <2>1, FileTypes, LenProperties
  <2>4. /\ f \in PartialOn(Nat) /\ DOMAIN f = DOMAIN run[r].size \cup {s}
        /\ \A t \in DOMAIN f : f[t] = IF t = s THEN Len(File(s)) ELSE run[r].size[t]
    <3>1. f \in PartialOn(Nat)
      BY <2>1, <2>2, <2>3, RunTypes, IncludingType
    <3> QED
      BY <2>2, <3>1 DEF Including
  <2>5. PICK w : w = [run[r] EXCEPT !.size = f]
    OBVIOUS
  <2>6. /\ w \in RunState
        /\ w.pc = "inspecting" /\ w.size = f /\ w.plan = run[r].plan
        /\ w.conn = run[r].conn /\ w.eof = run[r].eof
        /\ w.disturbed = run[r].disturbed
    BY <1>1, <2>1, <2>4, <2>5, RunTypes DEF RunState
  <2>7. run' = [run EXCEPT ![r] = w] /\ run'[r] = w
    BY <1>2, <2>1, <2>2, <2>5 DEF Inspect, Set, RunsOK
  <2>8. Calm(r)' = Calm(r) /\ w.conn = NoConn /\ w.eof = FALSE
    BY <1>1, <2>6, <2>7, NotWaiting DEF Calm, Busy
  <2>9. \A t \in DOMAIN f \cap Calm(r) : f[t] <= Len(File(t))
    BY <2>1, <2>3, <2>4 DEF KnowsRest
  <2>10. RunOK(r)'
    BY <1>1, <2>1, <2>6, <2>7, <2>8, <2>9, QuietOK DEF KnowsRest
  <2> QED
    BY <1>1, <2>6, <2>7, <2>8, <2>10, LocalStep
<1>3. CASE ~OpensSession(File(s), s)
  BY <1>1, <1>3, FailStep DEF Inspect
<1> QED
  BY <1>2, <1>3

LEMMA ReadCheckpointStep ==
    ASSUME SyncInv, NEW r \in Run, NEW s \in Session, ReadCheckpoint(r, s)
    PROVE  SyncInv'
<1>1. UNCHANGED <<db, files, deletes, net>> /\ run[r].pc = "inspecting"
  BY DEF ReadCheckpoint, Planning
<1>2. RunsOK /\ KnowsRest(r) /\ Store!ArchiveInv
  BY DEF SyncInv, RunOK
<1>3. PICK point : point = Store!Checkpoint(KeyOf(s))
  OBVIOUS
<1>4. Hashed(s) \in Seq(Record)
  BY <1>2, HashedType
<1>5. point \in Point /\ point.hash = Hashed(s)
  <2>1. point = [next |-> Len(Hashed(s)), hash |-> Hashed(s)]
    BY <1>2, <1>3, CheckpointOf
  <2> QED
    BY <1>4, <2>1, LenProperties DEF Point
<1>6. PICK f : f = Including(run[r].plan, s, point)
  OBVIOUS
<1>7. /\ f \in PartialOn(Point) /\ DOMAIN f = DOMAIN run[r].plan \cup {s}
      /\ \A t \in DOMAIN f : f[t] = IF t = s THEN point ELSE run[r].plan[t]
  <2>1. f \in PartialOn(Point)
    BY <1>2, <1>5, <1>6, RunTypes, IncludingType
  <2> QED
    BY <1>6, <2>1 DEF Including
<1>8. PICK w : w = [run[r] EXCEPT !.plan = f]
  OBVIOUS
<1>9. /\ w \in RunState
      /\ w.pc = "inspecting" /\ w.size = run[r].size /\ w.plan = f
      /\ w.conn = run[r].conn /\ w.eof = run[r].eof
      /\ w.disturbed = run[r].disturbed
  BY <1>1, <1>2, <1>7, <1>8, RunTypes DEF RunState
<1>10. run' = [run EXCEPT ![r] = w] /\ run'[r] = w
  BY <1>2, <1>3, <1>6, <1>8 DEF ReadCheckpoint, Set, RunsOK
<1>11. Calm(r)' = Calm(r) /\ w.conn = NoConn /\ w.eof = FALSE
  BY <1>1, <1>9, <1>10, NotWaiting DEF Calm, Busy
<1>12. \A t \in DOMAIN f \cap Calm(r) : Prefix(f[t].hash, Hashed(t))
  BY <1>2, <1>4, <1>5, <1>7, PrefixIsOrder DEF KnowsRest
<1>13. RunOK(r)'
  BY <1>1, <1>2, <1>9, <1>10, <1>11, <1>12, QuietOK DEF KnowsRest
<1> QED
  BY <1>1, <1>9, <1>10, <1>11, <1>13, LocalStep

(* What a run knows of the sessions it does not read, when it goes on.     *)
LEMMA RestOK ==
    ASSUME SyncInv, UNCHANGED <<db, files, deletes>>, NEW r \in Run,
           run[r].pc # "stopped",
           run'[r].size = run[r].size, run'[r].disturbed = run[r].disturbed,
           DOMAIN run'[r].plan \subseteq DOMAIN run[r].plan,
           \A s \in DOMAIN run'[r].plan : run'[r].plan[s] = run[r].plan[s],
           \A s \in (Through(r)' \ Through(r)) \cap Calm(r) :
               Prefix(SubSeq(File(s), 1, run[r].size[s]), Hashed(s))
    PROVE  KnowsRest(r)'
<1>1. KnowsRest(r)
  BY DEF SyncInv, RunOK
<1>2. \A s \in Session : File(s)' = File(s) /\ Hashed(s)' = Hashed(s)
  BY UntouchedFiles
<1>3. Calm(r)' \subseteq Calm(r) /\ Calm(r) \subseteq Session
  BY DEF Calm
<1>4. \A s \in DOMAIN run'[r].size \cap Calm(r)' : run'[r].size[s] <= Len(File(s)')
  BY <1>1, <1>2, <1>3 DEF KnowsRest
<1>5. \A s \in DOMAIN run'[r].plan \cap Calm(r)' : Prefix(run'[r].plan[s].hash, Hashed(s)')
  BY <1>1, <1>2, <1>3 DEF KnowsRest
<1>6. ASSUME NEW s \in Through(r)' \cap Calm(r)'
      PROVE  Prefix(SubSeq(File(s)', 1, run'[r].size[s]), Hashed(s)')
  <2>1. Prefix(SubSeq(File(s), 1, run[r].size[s]), Hashed(s))
    BY <1>1, <1>3 DEF KnowsRest
  <2>2. File(s)' = File(s) /\ Hashed(s)' = Hashed(s)
    BY <1>2, <1>3
  <2> QED
    BY <2>1, <2>2
<1> QED
  BY <1>4, <1>5, <1>6 DEF KnowsRest, File, Hashed, KeyOf

LEMMA AnswerPlanStep ==
    ASSUME SyncInv, NEW r \in Run, AnswerPlan(r)
    PROVE  SyncInv'
<1>1. /\ UNCHANGED <<db, files, deletes, net>>
      /\ run[r].pc = "inspecting" /\ DOMAIN run[r].size = Session
      /\ DOMAIN run[r].plan = Session
  BY DEF AnswerPlan, Planning
<1>2. RunsOK /\ KnowsRest(r) /\ run[r] \in RunState
  BY RunTypes DEF SyncInv, RunOK
<1>3. run[r].conn = NoConn /\ run[r].eof = FALSE
  BY <1>1, NotWaiting DEF Busy
<1>4. CASE \E s \in Session : Truncated(r, s)
  <2>1. PICK w : w = [run[r] EXCEPT !.pc = "refused"]
    OBVIOUS
  <2>2. /\ w \in RunState
        /\ w.pc = "refused" /\ w.size = run[r].size /\ w.plan = run[r].plan
        /\ w.conn = NoConn /\ w.eof = FALSE /\ w.disturbed = run[r].disturbed
    BY <1>2, <1>3, <2>1 DEF RunState, Pc
  <2>3. run' = [run EXCEPT ![r] = w] /\ run'[r] = w
    BY <1>2, <1>4, <2>1 DEF AnswerPlan, Set, RunsOK
  <2>4. Calm(r)' = Calm(r)
    BY <1>1, <2>2, <2>3 DEF Calm
  <2>5. RunOK(r)'
    BY <1>1, <1>2, <2>2, <2>3, <2>4, QuietOK DEF KnowsRest
  <2> QED
    BY <1>1, <2>2, <2>3, <2>5, LocalStep
<1>5. CASE ~\E s \in Session : Truncated(r, s)
  <2>1. PICK w : w = [run[r] EXCEPT !.pc = "opening", !.todo = Session]
    OBVIOUS
  <2>2. /\ w \in RunState
        /\ w.pc = "opening" /\ w.size = run[r].size /\ w.plan = run[r].plan
        /\ w.todo = Session
        /\ w.conn = NoConn /\ w.eof = FALSE /\ w.disturbed = run[r].disturbed
    BY <1>2, <1>3, <2>1 DEF RunState, Pc
  <2>3. run' = [run EXCEPT ![r] = w] /\ run'[r] = w
    BY <1>2, <1>5, <2>1 DEF AnswerPlan, Set, RunsOK
  <2>4. ~(Busy(r)') /\ Through(r)' = {}
    BY <2>2, <2>3 DEF Busy, Through
  <2>5. Steps(r)'
    BY <1>1, <2>2, <2>3, <2>4, SessionAssumption DEF Steps
  <2>6. ReadsOneFile(r)' /\ KnowsFile(r)'
    BY <2>4 DEF ReadsOneFile, KnowsFile
  <2>7. KnowsRest(r)'
    BY <1>1, <2>2, <2>3, <2>4, RestOK
  <2>8. RunOK(r)'
    BY <2>5, <2>6, <2>7 DEF RunOK
  <2> QED
    BY <1>1, <2>2, <2>3, <2>8, LocalStep
<1> QED
  BY <1>4, <1>5

LEMMA OpenFileStep ==
    ASSUME SyncInv, NEW r \in Run, OpenFile(r)
    PROVE  SyncInv'
<1>1. UNCHANGED <<db, files, deletes, net>> /\ run[r].pc = "opening"
  BY DEF OpenFile
<1>2. /\ RunsOK /\ FilesOK /\ Store!ArchiveInv
      /\ Steps(r) /\ KnowsRest(r) /\ run[r] \in RunState
  BY RunTypes DEF SyncInv, RunOK
<1>3. run[r].conn = NoConn /\ run[r].eof = FALSE
  BY <1>1, NotWaiting DEF Busy
<1>4. CASE ~PrefixUnchanged(r, File(Current(r)))
  BY <1>1, <1>4, FailStep DEF OpenFile
<1>5. CASE PrefixUnchanged(r, File(Current(r)))
  <2>1. PICK c \in Session : c = Current(r) /\ c \in run[r].todo
    BY <1>1, <1>2, CurrentType DEF Steps
  <2>2. run[r].todo \subseteq DOMAIN run[r].plan /\ run[r].todo \in SUBSET Session
    BY <1>1, <1>2, RunTypes DEF Steps
  <2>3. /\ run[r].plan[c].hash \in Seq(Record)
        /\ run[r].plan[c].next = Len(run[r].plan[c].hash)
        /\ \A s \in run[r].todo : run[r].plan[s] \in Point
    BY <1>2, <2>1, <2>2, PlanTypes
  <2>4. Prefix(run[r].plan[c].hash, File(c))
    <3>1. /\ Len(File(c)) >= run[r].plan[c].next
          /\ SubSeq(File(c), 1, run[r].plan[c].next) = run[r].plan[c].hash
      BY <1>5, <2>1 DEF PrefixUnchanged
    <3>2. Len(File(c)) \in Nat /\ Len(run[r].plan[c].hash) \in Nat
      BY <1>2, <2>3, FileTypes, LenProperties
    <3> QED
      BY <2>3, <3>1, <3>2 DEF Prefix
  <2>5. PICK f : f = [s \in run[r].todo \ {c} |-> run[r].plan[s]]
    OBVIOUS
  <2>6. f \in PartialOn(Point) /\ DOMAIN f = run[r].todo \ {c}
        /\ \A s \in DOMAIN f : f[s] = run[r].plan[s]
    <3>1. f \in [run[r].todo \ {c} -> Point] /\ run[r].todo \ {c} \in SUBSET Session
      BY <2>2, <2>3, <2>5
    <3> QED
      BY <2>5, <3>1, PartialFunction
  <2>7. PICK w : w = [run[r] EXCEPT !.pc = "reading", !.file = path[c],
                          !.view = run[r].plan[c].hash, !.plan = f]
    OBVIOUS
  <2>8. path[c] \in Generation /\ path[c] \in Nat
    BY <1>2, FileTypes
  <2>9. /\ w \in RunState
        /\ w.pc = "reading" /\ w.size = run[r].size /\ w.plan = f
        /\ w.todo = run[r].todo /\ w.file = path[c] /\ w.view = run[r].plan[c].hash
        /\ w.conn = NoConn /\ w.eof = FALSE /\ w.disturbed = run[r].disturbed
    BY <1>2, <1>3, <2>3, <2>6, <2>7, <2>8 DEF RunState, Pc
  <2>10. run' = [run EXCEPT ![r] = w] /\ run'[r] = w
    BY <1>2, <1>5, <2>1, <2>5, <2>7 DEF OpenFile, Set, RunsOK
  <2>11. /\ Current(r)' = c /\ Calm(r)' = Calm(r)
         /\ Through(r)' = Through(r) /\ Busy(r)'
    BY <1>1, <2>1, <2>9, <2>10 DEF Current, Calm, Through, Busy
  <2>12. Steps(r)'
    BY <1>1, <1>2, <2>6, <2>8, <2>9, <2>10, <2>11 DEF Steps
  <2>13. File(c)' = File(c) /\ Hashed(c)' = Hashed(c)
    BY <1>1, UntouchedFiles
  <2>14. OpenFileContent(r)' = File(c)
    BY <1>1, <2>9, <2>10, <2>11 DEF OpenFileContent, File, files
  <2>15. ReadsOneFile(r)'
    BY <2>4, <2>9, <2>10, <2>14 DEF ReadsOneFile
  <2>16. c \in Calm(r) => Prefix(run[r].plan[c].hash, Hashed(c))
    BY <1>2, <2>1, <2>2 DEF KnowsRest
  <2>17. KnowsFile(r)'
    BY <1>1, <2>4, <2>9, <2>10, <2>11, <2>13, <2>16
       DEF KnowsFile, files, File, Hashed, KeyOf
  <2>18. KnowsRest(r)'
    BY <1>1, <2>2, <2>6, <2>9, <2>10, <2>11, RestOK
  <2>19. RunOK(r)'
    BY <2>12, <2>15, <2>17, <2>18 DEF RunOK
  <2> QED
    BY <1>1, <2>9, <2>10, <2>19, LocalStep
<1> QED
  BY <1>4, <1>5

LEMMA FinishFileStep ==
    ASSUME SyncInv, NEW r \in Run, FinishFile(r)
    PROVE  SyncInv'
<1>1. /\ UNCHANGED <<db, files, deletes, net>>
      /\ run[r].pc = "reading" /\ Busy(r)
      /\ run[r].eof \/ Len(OpenFileContent(r)) <= Offset(r)
  BY DEF FinishFile, Busy
<1>2. /\ RunsOK /\ FilesOK /\ Store!ArchiveInv
      /\ Steps(r) /\ KnowsFile(r) /\ KnowsRest(r) /\ run[r] \in RunState
  BY RunTypes DEF SyncInv, RunOK
<1>3. run[r].conn = NoConn
  BY <1>1, NotWaiting
<1>4. PICK c \in Session : c = Current(r) /\ c \in run[r].todo
  BY <1>1, <1>2, CurrentType DEF Steps
<1>5. ASSUME c \in Calm(r)
      PROVE  Prefix(SubSeq(File(c), 1, run[r].size[c]), Hashed(c))
  <2>1. /\ run[r].file = path[c]
        /\ Prefix(run[r].view, File(c)) /\ Prefix(run[r].view, Hashed(c))
        /\ run[r].eof => run[r].size[c] <= Len(run[r].view)
    BY <1>1, <1>2, <1>4, <1>5 DEF KnowsFile
  <2>2. c \in DOMAIN run[r].size
    BY <1>1, <1>2 DEF Steps
  <2>3. run[r].size[c] \in Nat /\ run[r].size[c] <= Len(File(c))
    BY <1>2, <1>5, <2>2, SizeTypes DEF KnowsRest
  <2>4. /\ run[r].view \in Seq(Record) /\ File(c) \in Seq(Record)
        /\ Hashed(c) \in Seq(Record)
        /\ Len(run[r].view) \in Nat /\ Len(File(c)) \in Nat
    BY <1>2, RunTypes, FileTypes, HashedType, LenProperties
  <2>5. run[r].size[c] <= Len(run[r].view)
    <3>1. CASE run[r].eof
      BY <2>1, <3>1
    <3>2. CASE ~run[r].eof
      <4>1. Len(File(c)) <= Len(run[r].view)
        BY <1>1, <1>4, <2>1, <3>2 DEF OpenFileContent, Offset, File
      <4> QED
        BY <2>3, <2>4, <4>1
    <3> QED
      BY <3>1, <3>2
  <2>6. PICK n \in 0 .. Len(run[r].view) : n = run[r].size[c]
    BY <2>3, <2>4, <2>5
  <2>7. SubSeq(File(c), 1, n) = SubSeq(run[r].view, 1, n)
    BY <2>1, <2>4, FirstRecordsStay
  <2>8. /\ SubSeq(run[r].view, 1, n) \in Seq(Record)
        /\ Prefix(SubSeq(run[r].view, 1, n), run[r].view)
    BY <2>4, FirstRecords
  <2>9. Prefix(SubSeq(run[r].view, 1, n), Hashed(c))
    <3>1. PICK q : q = SubSeq(run[r].view, 1, n)
      OBVIOUS
    <3>2. q \in Seq(Record) /\ Prefix(q, run[r].view)
      BY <2>8, <3>1
    <3>3. Prefix(q, Hashed(c))
      BY <2>1, <2>4, <3>2, PrefixIsOrder
    <3> QED
      BY <3>1, <3>3
  <2> QED
    BY <2>6, <2>7, <2>9
<1>6. PICK p \in {"done", "opening"} :
         p = IF run[r].todo = {c} THEN "done" ELSE "opening"
  OBVIOUS
<1>7. PICK w : w = [run[r] EXCEPT !.pc = p, !.todo = @ \ {c}, !.file = 0,
                        !.view = << >>, !.eof = FALSE]
  OBVIOUS
<1>8. << >> \in Seq(Record)
  OBVIOUS
<1>9. /\ w \in RunState
      /\ w.pc = p /\ w.size = run[r].size /\ w.plan = run[r].plan
      /\ w.todo = run[r].todo \ {c}
      /\ w.conn = NoConn /\ w.eof = FALSE /\ w.disturbed = run[r].disturbed
  BY <1>2, <1>3, <1>7, <1>8 DEF RunState, Pc
<1>10. run' = [run EXCEPT ![r] = w] /\ run'[r] = w
  BY <1>2, <1>4, <1>6, <1>7 DEF FinishFile, Set, RunsOK
<1>11. /\ ~(Busy(r)') /\ Calm(r)' = Calm(r)
       /\ Through(r)' = Through(r) \cup {c}
  BY <1>1, <1>9, <1>10 DEF Calm, Through, Busy
<1>12. Steps(r)'
  BY <1>1, <1>2, <1>4, <1>6, <1>9, <1>10, <1>11 DEF Steps
<1>13. ReadsOneFile(r)' /\ KnowsFile(r)'
  BY <1>11 DEF ReadsOneFile, KnowsFile
<1>14. KnowsRest(r)'
  BY <1>1, <1>5, <1>9, <1>10, <1>11, RestOK
<1>15. RunOK(r)'
  BY <1>12, <1>13, <1>14 DEF RunOK
<1> QED
  BY <1>1, <1>9, <1>10, <1>15, LocalStep

-----------------------------------------------------------------------------
(***************************************************************************)
(* A chunk is sent, and its answer received or given up.                   *)
(***************************************************************************)
LEMMA RequestOK ==
    ASSUME NEW r \in Run, run[r].view \in Seq(Record),
           OpenFileContent(r) \in Seq(Record),
           NEW n \in Offset(r) + 1 .. Len(OpenFileContent(r)),
           NEW u, u = RequestUpTo(r, n)
    PROVE  /\ u \in Store!Request
           /\ u.start = Len(run[r].view) /\ u.end = n
           /\ u.prefix \in Seq(Record) /\ Len(u.prefix) = n
           /\ Joined(u)
           /\ SubSeq(u.prefix, 1, u.start) = run[r].view
           /\ Prefix(run[r].view, OpenFileContent(r)) =>
                 Prefix(u.prefix, OpenFileContent(r))
<1>1. PICK v \in Seq(Record), t \in Seq(Record) : v = run[r].view /\ t = OpenFileContent(r)
  OBVIOUS
<1>2. n \in Len(v) + 1 .. Len(t) /\ Len(v) \in Nat /\ Len(t) \in Nat /\ n \in Nat
  BY <1>1, LenProperties DEF Offset
<1>3. PICK plain : plain = SubSeq(t, Len(v) + 1, n)
  OBVIOUS
<1>4. plain \in Seq(Record) /\ Len(plain) = n - Len(v)
  BY <1>2, <1>3, RestOfRecords
<1>5. /\ v \o plain \in Seq(Record) /\ Len(v \o plain) = n /\ Prefix(v, v \o plain)
      /\ \A i \in 1 .. Len(plain) : (v \o plain)[Len(v) + i] = plain[i]
  BY <1>2, <1>4, LongerIsPrefixOf
<1>6. /\ u.start = Len(v) /\ u.end = n /\ u.plain = plain /\ u.prefix = v \o plain
      /\ u = [start |-> Len(v), end |-> n, plain |-> plain, prefix |-> v \o plain]
  BY <1>1, <1>3 DEF RequestUpTo, Offset
<1>7. u \in Store!Request
  BY <1>2, <1>4, <1>5, <1>6, SameRecord DEF Store!Request
<1>8. Joined(u)
  BY <1>2, <1>4, <1>5, <1>6 DEF Joined
<1>9. SubSeq(u.prefix, 1, u.start) = v
  BY <1>5, <1>6 DEF Prefix
<1>10. Prefix(v, t) => Prefix(u.prefix, t)
  <2> SUFFICES ASSUME Prefix(v, t)
               PROVE  Prefix(v \o plain, t)
    BY <1>6
  <2>1. v \o plain = SubSeq(t, 1, n)
    BY <1>2, <1>3, PrefixGoesOn
  <2>2. n \in 0 .. Len(t)
    BY <1>2
  <2>3. Prefix(SubSeq(t, 1, n), t)
    BY <2>2, FirstRecords
  <2> QED
    BY <2>1, <2>3
<1> QED
  BY <1>1, <1>5, <1>6, <1>7, <1>8, <1>9, <1>10

LEMMA SendChunkStep ==
    ASSUME SyncInv, NEW r \in Run, SendChunk(r)
    PROVE  SyncInv'
<1>1. /\ UNCHANGED <<db, files, deletes>>
      /\ run[r].pc = "reading" /\ Busy(r)
  BY DEF SendChunk, Busy
<1>2. /\ RunsOK /\ FilesOK /\ Store!ArchiveInv /\ OneEach
      /\ Steps(r) /\ ReadsOneFile(r) /\ KnowsFile(r) /\ KnowsRest(r)
      /\ run[r] \in RunState /\ run[r].view \in Seq(Record)
  BY RunTypes DEF SyncInv, RunOK
<1>3. PICK n \in Offset(r) + 1 .. Len(OpenFileContent(r)), c \in FreeConns(r),
           atEnd \in BOOLEAN :
          /\ atEnd => n = Len(OpenFileContent(r))
          /\ net' = net \cup {[conn |-> c, session |-> Current(r),
                               request |-> RequestUpTo(r, n), status |-> "sent"]}
          /\ run' = [run EXCEPT ![r] = [run[r] EXCEPT !.pc = "waiting", !.eof = atEnd,
                                           !.conn = c, !.view = RequestUpTo(r, n).prefix]]
  BY DEF SendChunk, Set
<1>4. /\ c \in Conn /\ c # NoConn /\ c[1] = r
      /\ \A m \in net : m.conn # c
  BY <1>3, ConnAssumption DEF FreeConns
<1>5. PICK s \in Session : s = Current(r) /\ s \in run[r].todo
  BY <1>1, <1>2, CurrentType DEF Steps
<1>6. PICK t \in Seq(Record) : t = OpenFileContent(r)
  BY <1>1, <1>2, <1>5, FileTypes DEF Steps, OpenFileContent
<1>7. PICK u : u = RequestUpTo(r, n)
  OBVIOUS
<1>8. /\ u \in Store!Request
      /\ u.start = Len(run[r].view) /\ u.end = n
      /\ u.prefix \in Seq(Record) /\ Len(u.prefix) = n
      /\ Joined(u)
      /\ SubSeq(u.prefix, 1, u.start) = run[r].view
      /\ Prefix(run[r].view, t) => Prefix(u.prefix, t)
  BY <1>2, <1>6, <1>7, RequestOK
<1>9. PICK w : w = [run[r] EXCEPT !.pc = "waiting", !.eof = atEnd, !.conn = c,
                        !.view = u.prefix]
  OBVIOUS
<1>10. /\ w \in RunState
       /\ w.pc = "waiting" /\ w.size = run[r].size /\ w.plan = run[r].plan
       /\ w.todo = run[r].todo /\ w.file = run[r].file /\ w.view = u.prefix
       /\ w.conn = c /\ w.eof = atEnd /\ w.disturbed = run[r].disturbed
  BY <1>2, <1>4, <1>8, <1>9 DEF RunState, Pc
<1>11. run' = [run EXCEPT ![r] = w] /\ run'[r] = w
  BY <1>2, <1>3, <1>7, <1>9 DEF RunsOK
<1>12. /\ Current(r)' = s /\ Calm(r)' = Calm(r)
       /\ Through(r)' = Through(r) /\ Busy(r)'
  BY <1>1, <1>5, <1>10, <1>11 DEF Current, Calm, Through, Busy
<1>13. /\ Store!ArchiveInv' /\ FilesOK' /\ Grown
       /\ \A q \in Session : FromOneFile(Hashed(q), q)'
       /\ File(s)' = File(s) /\ Hashed(s)' = Hashed(s)
  BY <1>1, UntouchedFiles
<1>14. OpenFileContent(r)' = t
  BY <1>1, <1>5, <1>6, <1>10, <1>11, <1>12 DEF OpenFileContent, files
<1>15. Steps(r)'
  BY <1>1, <1>2, <1>4, <1>5, <1>10, <1>11, <1>12 DEF Steps
<1>16. ReadsOneFile(r)'
  BY <1>1, <1>2, <1>6, <1>8, <1>10, <1>11, <1>14 DEF ReadsOneFile
<1>17. KnowsFile(r)'
  <2> SUFFICES ASSUME s \in Calm(r)
               PROVE  /\ run[r].file = path[s]
                      /\ Prefix(u.prefix, File(s))
                      /\ atEnd => run[r].size[s] <= Len(u.prefix)
    BY <1>1, <1>10, <1>11, <1>12, <1>13 DEF KnowsFile, files, File, Hashed, KeyOf
  <2>1. run[r].file = path[s] /\ Prefix(run[r].view, File(s))
    BY <1>1, <1>2, <1>5 DEF KnowsFile
  <2>2. File(s) = t
    BY <1>5, <1>6, <2>1 DEF File, OpenFileContent
  <2>3. run[r].size[s] <= Len(t)
    BY <1>1, <1>2, <2>2 DEF Steps, KnowsRest
  <2> QED
    BY <1>3, <1>6, <1>8, <2>1, <2>2, <2>3
<1>18. KnowsRest(r)'
  BY <1>1, <1>10, <1>11, <1>12, RestOK
<1>19. RunOK(r)'
  BY <1>15, <1>16, <1>17, <1>18 DEF RunOK
<1>20. /\ run' \in [Run -> RunState]
       /\ \A q \in Run : RunOK(q)'
       /\ \A q \in Run \ {r} : KeptFor(q)
  BY <1>1, <1>10, <1>11, <1>19, OthersStay
<1>21. PICK m : m = [conn |-> c, session |-> s, request |-> u, status |-> "sent"]
  OBVIOUS
<1>22. /\ m \in Message /\ m.conn = c /\ m.session = s /\ m.request = u
       /\ m.status = "sent" /\ net' = net \cup {m}
  BY <1>3, <1>4, <1>5, <1>7, <1>8, <1>21 DEF Message
<1>23. RunsOK'
  BY <1>2, <1>20, <1>22 DEF RunsOK
<1>24. OneEach'
  BY <1>2, <1>4, <1>22 DEF OneEach
<1>25. MessageOK(m)'
  <2>1. FromOneFile(u.prefix, s)'
    <3> SUFFICES ASSUME ~InPlace
                 PROVE  \E g \in Generation : Prefix(u.prefix, disk[s][g])
      BY <1>1 DEF FromOneFile, files
    <3>1. run[r].file \in Generation /\ t = disk[s][run[r].file]
      BY <1>1, <1>2, <1>5, <1>6 DEF Steps, OpenFileContent
    <3>2. Prefix(u.prefix, t)
      BY <1>1, <1>2, <1>6, <1>8 DEF ReadsOneFile
    <3> QED
      BY <3>1, <3>2
  <2>2. OwnedBy(m, r)'
    <3>1. s \in Calm(r) => Prefix(run[r].view, Hashed(s))
      BY <1>1, <1>2, <1>5 DEF KnowsFile
    <3> QED
      BY <1>8, <1>10, <1>11, <1>12, <1>13, <1>22, <3>1 DEF OwnedBy, Hashed, KeyOf
  <2>3. ASSUME NEW q \in Run \ {r}
        PROVE  OwnedBy(m, q)'
    <3>1. run'[q] = run[q]
      BY <1>11
    <3>2. Steps(q)
      BY DEF SyncInv, RunOK
    <3>3. run'[q].conn # c
      BY <1>4, <3>1, <3>2 DEF Steps
    <3> QED
      BY <1>22, <3>3 DEF OwnedBy
  <2>4. Joined(m.request) /\ FromOneFile(m.request.prefix, m.session)'
    BY <1>8, <1>22, <2>1 DEF FromOneFile
  <2> QED
    BY <2>2, <2>3, <2>4 DEF MessageOK, Joined
<1>26. ASSUME NEW o \in net
       PROVE  MessageOK(o)'
  <2>1. o.conn # c
    BY <1>4
  <2>2. \A q \in Run : run'[q].conn = o.conn => KeptFor(q)
    BY <1>10, <1>11, <1>20, <2>1
  <2> QED
    BY <1>13, <2>2, MessageStays
<1>27. \A o \in net' : MessageOK(o)'
  BY <1>22, <1>25, <1>26
<1> QED
  BY <1>13, <1>20, <1>23, <1>24, <1>27 DEF SyncInv

LEMMA ReceiveStep ==
    ASSUME SyncInv, NEW r \in Run, NEW m \in net, Receive(r, m)
    PROVE  SyncInv'
<1>1. /\ UNCHANGED <<db, files, deletes>> /\ net' \subseteq net
      /\ run[r].pc = "waiting" /\ Busy(r) /\ m.conn = run[r].conn
  BY DEF Receive, Busy
<1>2. /\ RunsOK /\ FilesOK /\ Store!ArchiveInv
      /\ Steps(r) /\ ReadsOneFile(r) /\ KnowsFile(r) /\ KnowsRest(r)
      /\ run[r] \in RunState /\ MessageOK(m)
  BY RunTypes DEF SyncInv, RunOK
<1>3. CASE ~Accepted(m)
  BY <1>1, <1>3, FailStep DEF Receive
<1>4. CASE Accepted(m)
  <2>1. PICK w : w = [run[r] EXCEPT !.pc = "reading", !.conn = NoConn]
    OBVIOUS
  <2>2. /\ w \in RunState
        /\ w.pc = "reading" /\ w.size = run[r].size /\ w.plan = run[r].plan
        /\ w.todo = run[r].todo /\ w.file = run[r].file /\ w.view = run[r].view
        /\ w.conn = NoConn /\ w.eof = run[r].eof /\ w.disturbed = run[r].disturbed
    BY <1>2, <2>1 DEF RunState, Pc
  <2>3. run' = [run EXCEPT ![r] = w] /\ run'[r] = w
    BY <1>2, <1>4, <2>1 DEF Receive, Set, RunsOK
  <2>4. /\ Current(r)' = Current(r) /\ Calm(r)' = Calm(r)
        /\ Through(r)' = Through(r) /\ Busy(r)'
    BY <1>1, <2>2, <2>3 DEF Current, Calm, Through, Busy
  <2>5. Steps(r)'
    BY <1>1, <1>2, <2>2, <2>3, <2>4 DEF Steps
  <2>6. ReadsOneFile(r)'
    BY <1>1, <1>2, <2>2, <2>3, <2>4 DEF ReadsOneFile, OpenFileContent, files
  <2>7. PICK s \in Session : s = Current(r)
    BY <1>1, <1>2, CurrentType DEF Steps
  <2>8. s \in Calm(r) => Prefix(run[r].view, Hashed(s))
    <3>1. OwnedBy(m, r) /\ m.status = "ok"
      BY <1>2, <1>4 DEF MessageOK, Accepted
    <3> QED
      BY <1>1, <2>7, <3>1 DEF OwnedBy
  <2>9. File(s)' = File(s) /\ Hashed(s)' = Hashed(s)
    BY <1>1, UntouchedFiles
  <2>10. KnowsFile(r)'
    BY <1>1, <1>2, <2>2, <2>3, <2>4, <2>7, <2>8, <2>9
       DEF KnowsFile, files, File, Hashed, KeyOf
  <2>11. KnowsRest(r)'
    BY <1>1, <2>2, <2>3, <2>4, RestOK
  <2>12. RunOK(r)'
    BY <2>5, <2>6, <2>10, <2>11 DEF RunOK
  <2> QED
    BY <1>1, <2>2, <2>3, <2>12, AnsweredStep
<1> QED
  BY <1>3, <1>4

LEMMA GiveUpStep ==
    ASSUME SyncInv, NEW r \in Run, GiveUp(r)
    PROVE  SyncInv'
<1>1. Fail(r) /\ UNCHANGED <<db, files, deletes>> /\ net' \subseteq net
  BY DEF GiveUp
<1> QED
  BY <1>1, FailStep

-----------------------------------------------------------------------------
(***************************************************************************)
(* The server answers a request, or it is lost.                            *)
(***************************************************************************)
LEMMA AnsweredOK ==
    ASSUME SyncInv, FilesOK', Store!ArchiveInv', Grown, run' = run,
           \A s \in Session : Kept(s), \A s \in Session : FromOneFile(Hashed(s), s)',
           NEW m \in net, NEW status \in {"ok", "error"},
           net' \subseteq (net \ {m}) \cup {[m EXCEPT !.status = status]},
           status = "ok" =>
               \A r \in Run : (run[r].conn = m.conn /\ m.session \in Calm(r)) =>
                   Prefix(m.request.prefix, Hashed(m.session)')
    PROVE  SyncInv'
<1>1. RunsOK /\ OneEach /\ MessageOK(m) /\ m \in Message
  BY DEF SyncInv, RunsOK
<1>2. ASSUME NEW r \in Run
      PROVE  KeptFor(r) /\ Calm(r)' = Calm(r) /\ Current(r)' = Current(r)
  <2>1. run'[r] = run[r]
    OBVIOUS
  <2>2. SameRun(r) /\ Calm(r)' = Calm(r)
    BY <2>1, UntouchedRun
  <2> QED
    BY <2>2, SameViews DEF KeptFor
<1>3. \A r \in Run : RunOK(r)'
  BY <1>2, RunStays
<1>4. \A n \in net : MessageOK(n)'
  BY <1>2, MessageStays
<1>5. PICK o : o = [m EXCEPT !.status = status]
  OBVIOUS
<1>6. /\ o \in Message /\ o.conn = m.conn /\ o.session = m.session
      /\ o.request = m.request /\ o.status = status
  BY <1>1, <1>5 DEF Message
<1>7. net' \subseteq (net \ {m}) \cup {o}
  BY <1>5
<1>8. RunsOK'
  BY <1>1, <1>6, <1>7 DEF RunsOK
<1>9. OneEach'
  BY <1>1, <1>6, <1>7 DEF OneEach
<1>10. MessageOK(o)'
  <2>1. /\ Joined(m.request) /\ FromOneFile(m.request.prefix, m.session)'
        /\ \A r \in Run : OwnedBy(m, r)'
    BY <1>4 DEF MessageOK, Joined
  <2>2. FromOneFile(o.request.prefix, o.session)'
    BY <1>6, <2>1 DEF FromOneFile
  <2>3. ASSUME NEW r \in Run
        PROVE  OwnedBy(o, r)'
    <3> SUFFICES ASSUME run[r].conn = m.conn
                 PROVE  /\ m.session = Current(r)'
                        /\ m.request.prefix = run[r].view
                        /\ (m.session \in Calm(r)' /\ status = "ok") =>
                              Prefix(m.request.prefix, Hashed(m.session)')
      BY <1>6 DEF OwnedBy, Hashed, KeyOf
    <3>1. OwnedBy(m, r)'
      BY <2>1
    <3>2. m.session = Current(r)' /\ m.request.prefix = run[r].view
      BY <3>1 DEF OwnedBy
    <3> QED
      BY <1>2, <3>2
  <2> QED
    BY <1>6, <2>1, <2>2, <2>3 DEF MessageOK, Joined
<1>11. \A n \in net' : MessageOK(n)'
  BY <1>4, <1>7, <1>10
<1> QED
  BY <1>3, <1>8, <1>9, <1>11 DEF SyncInv

LEMMA AnswerNet ==
    ASSUME NEW m \in net, NEW status, Answer(m, status)
    PROVE  net' \subseteq (net \ {m}) \cup {[m EXCEPT !.status = status]}
BY DEF Answer

LEMMA StoreChunkStep ==
    ASSUME SyncInv, NEW m \in net, StoreChunk(m)
    PROVE  SyncInv'
<1>1. /\ UNCHANGED <<files, deletes, run>>
      /\ Store!PutChunk(KeyOf(m.session), m.request)
      /\ Answer(m, "ok")
  BY DEF StoreChunk
<1>2. RunsOK /\ FilesOK /\ Store!ArchiveInv /\ MessageOK(m)
  BY DEF SyncInv
<1>3. PICK s \in Session, u \in Store!Request : s = m.session /\ u = m.request
  BY <1>2, MessageTypes
<1>4. u.prefix \in Seq(Record) /\ u.plain \in Seq(Record)
  BY <1>2, <1>3, MessageTypes
<1>5. /\ Store!ArchiveInv'
      /\ Hashed(s)' = u.prefix
      /\ Hashed(s)' = Hashed(s) \o u.plain
      /\ \A t \in Session \ {s} : Hashed(t)' = Hashed(t)
  BY <1>1, <1>2, <1>3, StoredExtends
<1>6. FilesOK'
  BY <1>1, <1>2 DEF FilesOK, files
<1>7. \A t \in Session : File(t)' = File(t) /\ path'[t] = path[t]
  BY <1>1 DEF File, files
<1>8. Grown
  BY <1>1, <1>2, FileTypes, PrefixIsOrder DEF Grown, files
<1>9. ASSUME NEW t \in Session
      PROVE  Prefix(Hashed(t), Hashed(t)')
  <2>1. Hashed(t) \in Seq(Record)
    BY <1>2, HashedType
  <2>2. CASE t = s
    BY <1>4, <1>5, <2>1, <2>2, LongerIsPrefixOf
  <2>3. CASE t # s
    BY <1>5, <2>1, <2>3, PrefixIsOrder
  <2> QED
    BY <2>2, <2>3
<1>10. \A t \in Session : Kept(t)
  BY <1>2, <1>7, <1>9, FileTypes, PrefixIsOrder DEF Kept
<1>11. ASSUME NEW t \in Session
       PROVE  FromOneFile(Hashed(t), t)'
  <2>1. CASE t = s
    <3>1. FromOneFile(u.prefix, s)
      BY <1>2, <1>3 DEF MessageOK
    <3> QED
      BY <1>1, <1>5, <2>1, <3>1 DEF FromOneFile, files
  <2>2. CASE t # s
    <3>1. FromOneFile(Hashed(t), t)
      BY DEF SyncInv
    <3> QED
      BY <1>1, <1>5, <2>2, <3>1 DEF FromOneFile, files
  <2> QED
    BY <2>1, <2>2
<1>12. Prefix(m.request.prefix, Hashed(m.session)')
  <2>1. Prefix(u.prefix, u.prefix)
    BY <1>4, PrefixIsOrder
  <2> QED
    BY <1>3, <1>5, <2>1 DEF Hashed, KeyOf
<1>13. net' \subseteq (net \ {m}) \cup {[m EXCEPT !.status = "ok"]}
  BY <1>1, AnswerNet
<1> QED
  BY <1>1, <1>5, <1>6, <1>8, <1>10, <1>11, <1>12, <1>13, AnsweredOK

LEMMA OnlyAnswered ==
    ASSUME SyncInv, UNCHANGED <<db, files, deletes, run>>,
           NEW m \in net, NEW status \in {"ok", "error"},
           net' \subseteq (net \ {m}) \cup {[m EXCEPT !.status = status]},
           status = "ok" =>
               \A r \in Run : (run[r].conn = m.conn /\ m.session \in Calm(r)) =>
                   Prefix(m.request.prefix, Hashed(m.session))
    PROVE  SyncInv'
<1>1. m.session \in Session
  BY MessageTypes DEF SyncInv
<1>2. UNCHANGED <<db, files, deletes>> /\ run' = run
  OBVIOUS
<1>3. /\ Store!ArchiveInv' /\ FilesOK' /\ Grown
      /\ \A s \in Session : Kept(s)
      /\ \A s \in Session : FromOneFile(Hashed(s), s)'
      /\ Hashed(m.session)' = Hashed(m.session)
  BY <1>1, <1>2, UntouchedFiles
<1> QED
  BY <1>2, <1>3, AnsweredOK

LEMMA AnswerOnlyStep ==
    ASSUME SyncInv, NEW m \in net, AnswerOnly(m)
    PROVE  SyncInv'
<1>1. UNCHANGED <<db, files, deletes, run>> /\ m.status = "sent"
  BY DEF AnswerOnly
<1>2. CASE Outcome(m) = "error" /\ Answer(m, "error")
  <2>1. net' \subseteq (net \ {m}) \cup {[m EXCEPT !.status = "error"]}
    BY <1>2, AnswerNet
  <2> QED
    BY <1>1, <2>1, OnlyAnswered
<1>3. CASE Outcome(m) = "duplicate" /\ Answer(m, "ok")
  <2>1. net' \subseteq (net \ {m}) \cup {[m EXCEPT !.status = "ok"]}
    BY <1>3, AnswerNet
  <2>2. RunsOK /\ Store!ArchiveInv /\ MessageOK(m)
    BY DEF SyncInv
  <2>3. PICK s \in Session, u \in Store!Request : s = m.session /\ u = m.request
    BY <2>2, MessageTypes
  <2>4. u.end <= Len(Hashed(s)) /\ SubSeq(Hashed(s), u.start + 1, u.end) = u.plain
    BY <1>3, <2>2, <2>3, DuplicateIsHashed DEF Outcome
  <2>5. /\ u.prefix \in Seq(Record) /\ u.plain \in Seq(Record)
        /\ u.start \in Nat /\ u.end \in Nat /\ Hashed(s) \in Seq(Record)
    BY <2>2, <2>3, MessageTypes, HashedType
  <2>6. Joined(u)
    BY <2>2, <2>3 DEF MessageOK
  <2>7. ASSUME NEW r \in Run, run[r].conn = m.conn, m.session \in Calm(r)
        PROVE  Prefix(m.request.prefix, Hashed(m.session))
    <3>1. Prefix(SubSeq(u.prefix, 1, u.start), Hashed(s))
      BY <1>1, <2>2, <2>3, <2>7 DEF MessageOK, OwnedBy
    <3>2. Len(u.plain) \in Nat /\ Len(u.prefix) = u.start + Len(u.plain)
          /\ u.end = u.start + Len(u.plain) /\ Len(Hashed(s)) \in Nat
      BY <2>5, <2>6, LenProperties DEF Joined
    <3>3. ASSUME NEW i \in 1 .. Len(u.prefix)
          PROVE  u.prefix[i] = Hashed(s)[i]
      <4>1. CASE i <= u.start
        <5>1. u.start \in 0 .. Len(u.prefix) /\ i \in 1 .. u.start
          BY <2>5, <3>2, <4>1
        <5>2. PICK p : p = SubSeq(u.prefix, 1, u.start)
          OBVIOUS
        <5>3. p \in Seq(Record) /\ Len(p) = u.start /\ p[i] = u.prefix[i]
          BY <2>5, <5>1, <5>2, FirstRecords
        <5>4. p[i] = Hashed(s)[i]
          BY <2>5, <3>1, <5>1, <5>2, <5>3, PrefixElements
        <5> QED
          BY <5>3, <5>4
      <4>2. CASE i > u.start
        <5>1. PICK j \in 1 .. Len(u.plain) : i = u.start + j
          <6>1. i - u.start \in 1 .. Len(u.plain) /\ i = u.start + (i - u.start)
            BY <2>5, <3>2, <4>2
          <6> QED
            BY <6>1
        <5>2. u.prefix[i] = u.plain[j]
          BY <2>6, <5>1 DEF Joined
        <5>3. \A k \in u.start + 1 .. u.end : Hashed(s)[k] \in Record
          BY <2>4, <2>5, <3>2
        <5>4. SubSeq(Hashed(s), u.start + 1, u.end)[j] = Hashed(s)[u.start + 1 + j - 1]
          <6>1. \A k \in 1 .. u.end - (u.start + 1) + 1 :
                   SubSeq(Hashed(s), u.start + 1, u.end)[k] = Hashed(s)[u.start + 1 + k - 1]
            <7>1. PICK a \in Int, b \in Int, h \in Seq(Record) :
                     a = u.start + 1 /\ b = u.end /\ h = Hashed(s)
              BY <2>5
            <7>2. \A k \in a .. b : h[k] \in Record
              BY <5>3, <7>1
            <7>3. \A k \in 1 .. b - a + 1 : SubSeq(h, a, b)[k] = h[a + k - 1]
              BY <7>2, SubSeqProperties
            <7> QED
              BY <7>1, <7>3
          <6>2. j \in 1 .. u.end - (u.start + 1) + 1
            BY <2>5, <3>2
          <6> QED
            BY <6>1, <6>2
        <5>5. u.start + 1 + j - 1 = i
          BY <2>5, <5>1
        <5> QED
          BY <2>4, <5>2, <5>4, <5>5
      <4> QED
        BY <2>5, <4>1, <4>2
    <3>4. Prefix(u.prefix, Hashed(s))
      BY <2>4, <2>5, <3>2, <3>3, PrefixElements
    <3> QED
      BY <2>3, <3>4
  <2> QED
    BY <1>1, <2>1, <2>7, OnlyAnswered
<1> QED
  BY <1>2, <1>3 DEF AnswerOnly

LEMMA TransactionFailsStep ==
    ASSUME SyncInv, NEW m \in net, TransactionFails(m)
    PROVE  SyncInv'
<1>1. UNCHANGED <<db, files, deletes, run>> /\ Answer(m, "error")
  BY DEF TransactionFails
<1>2. net' \subseteq (net \ {m}) \cup {[m EXCEPT !.status = "error"]}
  BY <1>1, AnswerNet
<1> QED
  BY <1>1, <1>2, OnlyAnswered

LEMMA LoseStep ==
    ASSUME SyncInv, NEW m \in net, Lose(m)
    PROVE  SyncInv'
<1>1. UNCHANGED <<db, files, deletes, run>> /\ net' = net \ {m}
  BY DEF Lose
<1>2. net' \subseteq (net \ {m}) \cup {[m EXCEPT !.status = "error"]}
  BY <1>1
<1> QED
  BY <1>1, <1>2, OnlyAnswered

-----------------------------------------------------------------------------
(***************************************************************************)
(* Files and archives change under the runs, which are disturbed.          *)
(***************************************************************************)
LEMMA DisturbingStep ==
    ASSUME SyncInv, FilesOK', Store!ArchiveInv', Grown, net' = net,
           run' \in [Run -> RunState], \A r \in Run : KeptFor(r),
           \A s \in Session : FromOneFile(Hashed(s), s)'
    PROVE  SyncInv'
<1>1. \A r \in Run : RunOK(r)'
  BY RunStays
<1>2. \A m \in net' : MessageOK(m)'
  BY MessageStays
<1>3. RunsOK' /\ OneEach'
  BY DEF SyncInv, RunsOK, OneEach
<1> QED
  BY <1>1, <1>2, <1>3 DEF SyncInv

LEMMA DisturbedRuns ==
    ASSUME RunsOK, NEW s \in Session, run' = Disturb(s),
           \A t \in Session \ {s} : Kept(t)
    PROVE  /\ run' \in [Run -> RunState]
           /\ \A r \in Run : KeptFor(r)
<1>1. ASSUME NEW r \in Run
      PROVE  run'[r] \in RunState /\ KeptFor(r)
  <2>1. run[r] \in RunState /\ run[r].disturbed \in SUBSET Session
    BY RunTypes
  <2>2. CASE run[r].pc = "stopped"
    <3>1. run'[r] = run[r]
      BY <2>2 DEF Disturb
    <3>2. SameRun(r) /\ Calm(r)' = {}
      BY <2>2, <3>1, UntouchedRun DEF Calm
    <3> QED
      BY <2>1, <3>1, <3>2 DEF KeptFor
  <2>3. CASE run[r].pc # "stopped"
    <3>1. PICK w : w = [run[r] EXCEPT !.disturbed = @ \cup {s}]
      OBVIOUS
    <3>2. run'[r] = w
      BY <2>3, <3>1 DEF Disturb
    <3>3. /\ w \in RunState
          /\ w.pc = run[r].pc /\ w.size = run[r].size /\ w.plan = run[r].plan
          /\ w.todo = run[r].todo /\ w.file = run[r].file /\ w.view = run[r].view
          /\ w.conn = run[r].conn /\ w.eof = run[r].eof
          /\ w.disturbed = run[r].disturbed \cup {s}
      BY <2>1, <3>1 DEF RunState
    <3>4. SameRun(r) /\ Calm(r)' \subseteq Session \ {s}
      BY <3>2, <3>3 DEF SameRun, Calm
    <3> QED
      BY <3>2, <3>3, <3>4 DEF KeptFor
  <2> QED
    BY <2>2, <2>3
<1>2. run' = [r \in Run |-> run'[r]]
  BY DEF Disturb
<1> QED
  BY <1>1, <1>2

LEMMA AdminDeleteStep ==
    ASSUME SyncInv, NEW s \in Session, AdminDelete(s)
    PROVE  SyncInv'
<1>1. /\ UNCHANGED <<files, net>> /\ run' = Disturb(s)
      /\ deletes < MaxDeletes /\ deletes' = deletes + 1
      /\ Store!DeleteSession(KeyOf(s))
  BY DEF AdminDelete
<1>2. RunsOK /\ FilesOK /\ Store!ArchiveInv
  BY DEF SyncInv
<1>3. /\ Store!ArchiveInv'
      /\ Hashed(s)' = << >>
      /\ \A t \in Session \ {s} : Hashed(t)' = Hashed(t)
  BY <1>1, <1>2, DeletedForgets
<1>4. FilesOK'
  BY <1>1, <1>2, BoundsAssumption DEF FilesOK, files
<1>5. Grown
  BY <1>1, <1>2, FileTypes, PrefixIsOrder DEF Grown, files
<1>6. ASSUME NEW t \in Session \ {s}
      PROVE  Kept(t)
  <2>1. File(t)' = File(t) /\ path'[t] = path[t]
    BY <1>1 DEF File, files
  <2>2. File(t) \in Seq(Record) /\ Hashed(t) \in Seq(Record)
    BY <1>2, FileTypes, HashedType
  <2> QED
    BY <1>3, <2>1, <2>2, PrefixIsOrder DEF Kept
<1>7. run' \in [Run -> RunState] /\ \A r \in Run : KeptFor(r)
  BY <1>1, <1>2, <1>6, DisturbedRuns
<1>8. ASSUME NEW t \in Session
      PROVE  FromOneFile(Hashed(t), t)'
  <2>1. FromOneFile(Hashed(t), t)
    BY DEF SyncInv
  <2>2. CASE t = s
    <3>1. PICK g \in Generation : g = path[s]
      BY <1>2, FileTypes
    <3>2. disk[s][g] \in Seq(Record)
      BY <1>2, FileTypes
    <3>3. Prefix(<< >>, disk[s][g])
      BY <3>2, EmptyIsPrefix
    <3> QED
      BY <1>1, <1>3, <2>2, <3>3 DEF FromOneFile, files
  <2>3. CASE t # s
    BY <1>1, <1>3, <2>1, <2>3 DEF FromOneFile, files
  <2> QED
    BY <2>2, <2>3
<1> QED
  BY <1>1, <1>3, <1>4, <1>5, <1>7, <1>8, DisturbingStep

(* The file of a session changes: the others and all archives stay.        *)
LEMMA FileStep ==
    ASSUME SyncInv, FilesOK', Grown, UNCHANGED <<db, net>>,
           run' \in [Run -> RunState], \A r \in Run : KeptFor(r)
    PROVE  SyncInv'
<1>1. FilesOK /\ Store!ArchiveInv
  BY DEF SyncInv
<1>2. Store!ArchiveInv' /\ \A s \in Session : Hashed(s)' = Hashed(s)
  BY <1>1, UntouchedArchive
<1>3. ASSUME NEW s \in Session
      PROVE  FromOneFile(Hashed(s), s)'
  <2>1. PICK p \in Seq(Record) : p = Hashed(s)
    BY <1>1, HashedType
  <2>2. FromOneFile(p, s)
    BY <2>1 DEF SyncInv
  <2>3. FromOneFile(p, s)'
    BY <1>1, <2>2, GrownKeepsFile
  <2> QED
    BY <1>2, <2>1, <2>3 DEF FromOneFile
<1>4. net' = net
  OBVIOUS
<1> QED
  BY <1>2, <1>3, <1>4, DisturbingStep

LEMMA AppendRecordStep ==
    ASSUME SyncInv, NEW s \in Session, NEW rec \in NewRecord, AppendRecord(s, rec)
    PROVE  SyncInv'
<1>1. /\ UNCHANGED <<db, net>> /\ UNCHANGED <<path, edits, past, deletes>> /\ run' = run
      /\ disk' = [disk EXCEPT ![s][path[s]] = Append(@, rec)]
  BY DEF AppendRecord
<1>2. RunsOK /\ FilesOK /\ Store!ArchiveInv /\ rec \in Record
  BY FilesAssumption DEF SyncInv
<1>3. PICK p \in Generation : p = path[s] /\ p <= edits + 1
  BY <1>2, FileTypes DEF FilesOK
<1>4. PICK t \in Seq(Record) : t = Append(disk[s][p], rec) /\ Prefix(disk[s][p], t)
  <2>1. disk[s][p] \in Seq(Record)
    BY <1>2, FileTypes
  <2> QED
    BY <1>2, <2>1, AppendedIsPrefixOf
<1>5. /\ disk' \in [Session -> [Generation -> Seq(Record)]]
      /\ \A q \in Session : \A g \in Generation :
            disk'[q][g] = IF q = s /\ g = p THEN t ELSE disk[q][g]
  <2>1. disk' = [disk EXCEPT ![s][p] = t]
    BY <1>1, <1>3, <1>4
  <2> QED
    BY <1>2, <2>1 DEF FilesOK
<1>6. FilesOK'
  <2>1. \A q \in Session : \A g \in Generation : g > edits + 1 => disk'[q][g] = << >>
    <3>1. edits \in Nat /\ p \in Nat /\ ~(p > edits + 1)
      BY <1>2, <1>3, BoundsAssumption DEF FilesOK, Generation
    <3> QED
      BY <1>2, <1>5, <3>1 DEF FilesOK
  <2> QED
    BY <1>1, <1>2, <1>5, <2>1 DEF FilesOK
<1>7. \A q \in Session : \A g \in Generation : Prefix(disk[q][g], disk'[q][g])
  BY <1>2, <1>4, <1>5, FileTypes, PrefixIsOrder
<1>8. ASSUME NEW r \in Run
      PROVE  KeptFor(r)
  <2>1. SameRun(r) /\ Calm(r)' \subseteq Session
    <3>1. run'[r] = run[r]
      BY <1>1
    <3> QED
      BY <3>1, UntouchedRun, SameViews
  <2>2. ASSUME NEW q \in Session
        PROVE  Kept(q)
    <3>1. path'[q] = path[q] /\ path[q] \in Generation
      BY <1>1, <1>2, FileTypes
    <3>2. Hashed(q)' = Hashed(q) /\ Hashed(q) \in Seq(Record)
      BY <1>1, <1>2, UntouchedArchive, HashedType
    <3>3. Prefix(File(q), File(q)')
      BY <1>7, <3>1 DEF File
    <3> QED
      BY <3>1, <3>2, <3>3, PrefixIsOrder DEF Kept
  <2> QED
    BY <2>1, <2>2 DEF KeptFor
<1>9. run' \in [Run -> RunState] /\ Grown
  BY <1>1, <1>2, <1>7 DEF RunsOK, Grown
<1> QED
  BY <1>1, <1>6, <1>8, <1>9, FileStep

LEMMA ReplaceStep ==
    ASSUME SyncInv, NEW s \in Session, NEW t \in NewFile[s], Replace(s, t)
    PROVE  SyncInv'
<1>1. /\ UNCHANGED <<db, net>> /\ UNCHANGED <<past, deletes>> /\ run' = Disturb(s)
      /\ edits < MaxEdits /\ edits' = edits + 1
      /\ path' = [path EXCEPT ![s] = edits + 2]
      /\ disk' = [disk EXCEPT ![s][edits + 2] = t]
  BY DEF Replace
<1>2. RunsOK /\ FilesOK /\ Store!ArchiveInv /\ t \in Seq(Record)
  BY FilesAssumption DEF SyncInv
<1>3. edits \in Nat /\ MaxEdits \in Nat
  BY <1>2, BoundsAssumption DEF FilesOK
<1>4. PICK p \in Generation : p = edits + 2
  BY <1>1, <1>3 DEF Generation
<1>5. /\ disk' \in [Session -> [Generation -> Seq(Record)]]
      /\ \A q \in Session : \A g \in Generation :
            disk'[q][g] = IF q = s /\ g = p THEN t ELSE disk[q][g]
  <2>1. disk' = [disk EXCEPT ![s][p] = t]
    BY <1>1, <1>4
  <2> QED
    BY <1>2, <2>1 DEF FilesOK
<1>6. /\ path' \in [Session -> Generation]
      /\ \A q \in Session : path'[q] = IF q = s THEN p ELSE path[q]
  BY <1>1, <1>2, <1>4 DEF FilesOK
<1>7. FilesOK'
  <2>1. \A q \in Session : path'[q] <= edits' + 1
    <3>1. \A q \in Session : path[q] <= edits + 1 /\ path[q] \in Nat
      BY <1>2, FileTypes DEF FilesOK
    <3> QED
      BY <1>1, <1>3, <1>4, <1>6, <3>1
  <2>2. \A q \in Session : \A g \in Generation : g > edits' + 1 => disk'[q][g] = << >>
    <3>1. \A g \in Generation : g > edits' + 1 => g # p /\ g > edits + 1
      BY <1>1, <1>3, <1>4 DEF Generation
    <3> QED
      BY <1>2, <1>5, <3>1 DEF FilesOK
  <2>3. edits' \in 0 .. MaxEdits
    BY <1>1, <1>3
  <2> QED
    BY <1>1, <1>2, <1>5, <1>6, <2>1, <2>2, <2>3 DEF FilesOK
<1>8. Grown
  <2>1. disk[s][p] = << >>
    <3>1. p > edits + 1
      BY <1>3, <1>4
    <3> QED
      BY <1>2, <3>1 DEF FilesOK
  <2>2. Prefix(disk[s][p], t)
    BY <1>2, <2>1, EmptyIsPrefix
  <2> QED
    BY <1>2, <1>5, <2>2, FileTypes, PrefixIsOrder DEF Grown
<1>9. ASSUME NEW q \in Session \ {s}
      PROVE  Kept(q)
  <2>1. path'[q] = path[q] /\ path[q] \in Generation /\ File(q)' = File(q)
    <3>1. path'[q] = path[q] /\ path[q] \in Generation
      BY <1>2, <1>6, FileTypes
    <3> QED
      BY <1>5, <3>1 DEF File
  <2>2. Hashed(q)' = Hashed(q) /\ Hashed(q) \in Seq(Record) /\ File(q) \in Seq(Record)
    BY <1>1, <1>2, UntouchedArchive, HashedType, FileTypes
  <2> QED
    BY <2>1, <2>2, PrefixIsOrder DEF Kept
<1>10. run' \in [Run -> RunState] /\ \A r \in Run : KeptFor(r)
  BY <1>1, <1>2, <1>9, DisturbedRuns
<1> QED
  BY <1>1, <1>7, <1>8, <1>10, FileStep

LEMMA OverwriteStep ==
    ASSUME SyncInv, NEW s \in Session, NEW t \in NewFile[s], Overwrite(s, t)
    PROVE  SyncInv'
<1>1. /\ UNCHANGED <<db, net>> /\ UNCHANGED <<path, deletes>> /\ run' = Disturb(s)
      /\ InPlace /\ edits < MaxEdits /\ edits' = edits + 1
      /\ past' = [past EXCEPT ![s] = @ \cup {File(s)}]
      /\ disk' = [disk EXCEPT ![s][path[s]] = t]
  BY DEF Overwrite
<1>2. RunsOK /\ FilesOK /\ Store!ArchiveInv /\ t \in Seq(Record)
  BY FilesAssumption DEF SyncInv
<1>3. edits \in Nat /\ MaxEdits \in Nat
  BY <1>2, BoundsAssumption DEF FilesOK
<1>4. PICK p \in Generation : p = path[s] /\ p <= edits + 1
  BY <1>2, FileTypes DEF FilesOK
<1>5. /\ disk' \in [Session -> [Generation -> Seq(Record)]]
      /\ \A q \in Session : \A g \in Generation :
            disk'[q][g] = IF q = s /\ g = p THEN t ELSE disk[q][g]
  <2>1. disk' = [disk EXCEPT ![s][p] = t]
    BY <1>1, <1>4
  <2> QED
    BY <1>2, <2>1 DEF FilesOK
<1>6. past' \in [Session -> SUBSET Seq(Record)]
  BY <1>1, <1>2, FileTypes DEF FilesOK
<1>7. FilesOK'
  <2>1. \A q \in Session : path'[q] <= edits' + 1
    <3>1. \A q \in Session : path[q] <= edits + 1 /\ path[q] \in Nat
      BY <1>2, FileTypes DEF FilesOK
    <3> QED
      BY <1>1, <1>3, <3>1
  <2>2. \A q \in Session : \A g \in Generation : g > edits' + 1 => disk'[q][g] = << >>
    <3>1. \A g \in Generation : g > edits' + 1 => g # p /\ g > edits + 1
      BY <1>1, <1>3, <1>4 DEF Generation
    <3> QED
      BY <1>2, <1>5, <3>1 DEF FilesOK
  <2>3. edits' \in 0 .. MaxEdits
    BY <1>1, <1>3
  <2> QED
    BY <1>1, <1>2, <1>5, <1>6, <2>1, <2>2, <2>3 DEF FilesOK
<1>8. Grown
  BY <1>1 DEF Grown
<1>9. ASSUME NEW q \in Session \ {s}
      PROVE  Kept(q)
  <2>1. path'[q] = path[q] /\ path[q] \in Generation /\ File(q)' = File(q)
    <3>1. path'[q] = path[q] /\ path[q] \in Generation
      BY <1>1, <1>2, FileTypes
    <3> QED
      BY <1>5, <3>1 DEF File
  <2>2. Hashed(q)' = Hashed(q) /\ Hashed(q) \in Seq(Record) /\ File(q) \in Seq(Record)
    BY <1>1, <1>2, UntouchedArchive, HashedType, FileTypes
  <2> QED
    BY <2>1, <2>2, PrefixIsOrder DEF Kept
<1>10. run' \in [Run -> RunState] /\ \A r \in Run : KeptFor(r)
  BY <1>1, <1>2, <1>9, DisturbedRuns
<1> QED
  BY <1>1, <1>7, <1>8, <1>10, FileStep

-----------------------------------------------------------------------------
(***************************************************************************)
(* The invariant holds, and what it says.                                  *)
(***************************************************************************)
LEMMA InitSyncInv == Init => SyncInv
<1> SUFFICES ASSUME Init
             PROVE  SyncInv
  OBVIOUS
<1>1. /\ Store!Init /\ path = [s \in Session |-> 1] /\ edits = 0
      /\ past = [s \in Session |-> {}] /\ deletes = 0
      /\ run = [r \in Run |-> Stopped] /\ net = {}
  BY DEF Init
<1>2. PICK first \in [Session -> UNION {FirstFile[s] : s \in Session}] :
         /\ \A s \in Session : first[s] \in FirstFile[s]
         /\ disk = [s \in Session |-> [g \in Generation |->
                       IF g = 1 THEN first[s] ELSE << >>]]
  BY DEF Init
<1>3. /\ Store!ArchiveInv
      /\ \A s \in Session : Hashed(s) = << >>
  BY <1>1, NothingHashed
<1>4. 1 \in Generation /\ << >> \in Seq(Record)
      /\ \A s \in Session : first[s] \in Seq(Record)
  BY <1>2, BoundsAssumption, FilesAssumption DEF Generation
<1>5. FilesOK
  <2>1. disk \in [Session -> [Generation -> Seq(Record)]]
    BY <1>2, <1>4
  <2>2. \A s \in Session : \A g \in Generation : g > 1 => disk[s][g] = << >>
    BY <1>2
  <2> QED
    BY <1>1, <1>4, <2>1, <2>2, BoundsAssumption DEF FilesOK
<1>6. RunsOK /\ OneEach
  BY <1>1, StoppedType DEF RunsOK, OneEach
<1>7. ASSUME NEW r \in Run
      PROVE  RunOK(r)
  <2>1. run[r] = Stopped
    BY <1>1
  <2>2. /\ run[r].pc = "stopped" /\ run[r].conn = NoConn /\ run[r].eof = FALSE
        /\ ~Busy(r) /\ Through(r) = {} /\ Calm(r) = {}
    BY <2>1, StoppedType DEF Busy, Through, Calm
  <2> QED
    BY <2>2 DEF RunOK, Steps, ReadsOneFile, KnowsFile, KnowsRest
<1>8. ASSUME NEW s \in Session
      PROVE  FromOneFile(Hashed(s), s)
  <2>1. disk[s][1] \in Seq(Record)
    BY <1>4, <1>5, FileTypes
  <2>2. Prefix(Hashed(s), disk[s][1])
    BY <1>3, <2>1, EmptyIsPrefix
  <2> QED
    BY <1>4, <2>2 DEF FromOneFile
<1>9. \A m \in net : MessageOK(m)
  BY <1>1
<1> QED
  BY <1>3, <1>5, <1>6, <1>7, <1>8, <1>9 DEF SyncInv

LEMMA UnchangedSyncInv ==
    ASSUME SyncInv, UNCHANGED vars
    PROVE  SyncInv'
<1>1. UNCHANGED <<db, files, deletes>> /\ net' = net /\ run' = run
  BY DEF vars
<1>2. /\ Store!ArchiveInv' /\ FilesOK' /\ Grown
      /\ \A s \in Session : Kept(s)
      /\ \A s \in Session : FromOneFile(Hashed(s), s)'
  BY <1>1, UntouchedFiles
<1>3. run' \in [Run -> RunState]
  BY <1>1 DEF SyncInv, RunsOK
<1>4. ASSUME NEW r \in Run
      PROVE  KeptFor(r)
  <2>1. run'[r] = run[r]
    BY <1>1
  <2>2. SameRun(r) /\ Calm(r)' \subseteq Session
    BY <2>1, UntouchedRun, SameViews
  <2> QED
    BY <1>2, <2>2 DEF KeptFor
<1> QED
  BY <1>1, <1>2, <1>3, <1>4, DisturbingStep

LEMMA NextSyncInv == SyncInv /\ [Next]_vars => SyncInv'
<1> SUFFICES ASSUME SyncInv, [Next]_vars
             PROVE  SyncInv'
  OBVIOUS
<1>1. ASSUME NEW r \in Run, Start(r) \/ ClientStep(r) \/ PlanStep(r) \/ GiveUp(r)
      PROVE  SyncInv'
  <2>1. CASE Start(r)
    BY <2>1, StartStep
  <2>2. ASSUME NEW s \in Session, Inspect(r, s)
        PROVE  SyncInv'
    BY <2>2, InspectStep
  <2>3. CASE ReceiveRefusal(r)
    <3>1. Fail(r) /\ UNCHANGED <<db, files, deletes>> /\ net' \subseteq net
      BY <2>3 DEF ReceiveRefusal
    <3> QED
      BY <3>1, FailStep
  <2>4. CASE OpenFile(r)
    BY <2>4, OpenFileStep
  <2>5. CASE SendChunk(r)
    BY <2>5, SendChunkStep
  <2>6. CASE FinishFile(r)
    BY <2>6, FinishFileStep
  <2>7. ASSUME NEW m \in net, Receive(r, m)
        PROVE  SyncInv'
    BY <2>7, ReceiveStep
  <2>8. ASSUME NEW s \in Session, ReadCheckpoint(r, s)
        PROVE  SyncInv'
    BY <2>8, ReadCheckpointStep
  <2>9. CASE AnswerPlan(r)
    BY <2>9, AnswerPlanStep
  <2>10. CASE GiveUp(r)
    BY <2>10, GiveUpStep
  <2> QED
    BY <1>1, <2>1, <2>2, <2>3, <2>4, <2>5, <2>6, <2>7, <2>8, <2>9, <2>10
       DEF ClientStep, PlanStep
<1>2. ASSUME NEW m \in net, ServerStep(m) \/ TransactionFails(m) \/ Lose(m)
      PROVE  SyncInv'
  BY <1>2, StoreChunkStep, AnswerOnlyStep, TransactionFailsStep, LoseStep DEF ServerStep
<1>3. ASSUME NEW s \in Session, AdminDelete(s)
      PROVE  SyncInv'
  BY <1>3, AdminDeleteStep
<1>4. ASSUME NEW s \in Session, NEW rec \in NewRecord, AppendRecord(s, rec)
      PROVE  SyncInv'
  BY <1>4, AppendRecordStep
<1>5. ASSUME NEW s \in Session, NEW t \in NewFile[s], Replace(s, t) \/ Overwrite(s, t)
      PROVE  SyncInv'
  BY <1>5, ReplaceStep, OverwriteStep
<1>6. CASE UNCHANGED vars
  BY <1>6, UnchangedSyncInv
<1> QED
  BY <1>1, <1>2, <1>3, <1>4, <1>5, <1>6 DEF Next

LEMMA SyncInvariant == Spec => []SyncInv
BY InitSyncInv, NextSyncInv, PTL DEF Spec

(* Processes, files and requests keep to their kinds, and a process waits  *)
(* for an answer exactly while it has a connection.                        *)
THEOREM SyncTypes == Spec => []TypeOK
<1>1. SyncInv => TypeOK
  <2> SUFFICES ASSUME SyncInv
               PROVE  TypeOK
    OBVIOUS
  <2>1. ASSUME NEW r \in Run
        PROVE  /\ run[r].pc \in Pc
               /\ run[r].todo \subseteq Session /\ run[r].disturbed \subseteq Session
               /\ run[r].view \in Seq(Record) /\ run[r].conn \in Conn \cup {NoConn}
               /\ (run[r].conn # NoConn) <=> (run[r].pc = "waiting")
    BY RunTypes DEF SyncInv, RunOK, Steps
  <2> QED
    BY <2>1, MessageTypes DEF SyncInv, TypeOK, FilesOK
<1> QED
  BY <1>1, SyncInvariant, PTL

(***************************************************************************)
(* REQ-003: where files are replaced by renaming (run "sync_in_place"      *)
(* shows what overwriting does), the archive of every session begins one   *)
(* version of its file, whichever processes race, whatever is replaced,    *)
(* deleted, repeated, lost or late.                                        *)
(***************************************************************************)
THEOREM HistoriesNeverJoin ==
    ASSUME InPlace = FALSE
    PROVE  Spec => []OneHistory
<1>1. SyncInv => OneHistory
  <2> SUFFICES ASSUME SyncInv, NEW s \in Session
               PROVE  \E v \in Versions(s) : Prefix(Archived(s), v)
    BY DEF OneHistory
  <2>1. FromOneFile(Hashed(s), s) /\ Archived(s) = Hashed(s)
    BY ArchivedIsHashed DEF SyncInv
  <2>2. PICK g \in Generation : Prefix(Hashed(s), disk[s][g])
    BY <2>1 DEF FromOneFile
  <2> QED
    BY <2>1, <2>2 DEF Versions
<1> QED
  BY <1>1, SyncInvariant, PTL

(***************************************************************************)
(* What a client believes shared is in the archive: all it has read of a   *)
(* session while it reads on, and all the file held when the run looked at *)
(* it once the run is through with the session.                            *)
(***************************************************************************)
THEOREM SyncedShared == Spec => []SyncedIsShared
<1>1. SyncInv => SyncedIsShared
  <2> SUFFICES ASSUME SyncInv, NEW r \in Run
               PROVE  /\ \A s \in Through(r) \ run[r].disturbed :
                            Prefix(SubSeq(File(s), 1, run[r].size[s]), Archived(s))
                      /\ (run[r].pc = "reading" /\ Current(r) \notin run[r].disturbed) =>
                            Prefix(run[r].view, Archived(Current(r)))
    BY DEF SyncedIsShared
  <2>1. /\ Store!ArchiveInv /\ RunsOK
        /\ Steps(r) /\ KnowsFile(r) /\ KnowsRest(r)
    BY DEF SyncInv, RunOK
  <2>2. \A s \in Session : Archived(s) = Hashed(s)
    BY <2>1, ArchivedIsHashed
  <2>3. ASSUME NEW s \in Through(r) \ run[r].disturbed
        PROVE  Prefix(SubSeq(File(s), 1, run[r].size[s]), Archived(s))
    <3>1. s \in Session /\ s \in Calm(r)
      BY <2>3 DEF Through, Calm
    <3> QED
      BY <2>1, <2>2, <2>3, <3>1 DEF KnowsRest
  <2>4. ASSUME run[r].pc = "reading", Current(r) \notin run[r].disturbed
        PROVE  Prefix(run[r].view, Archived(Current(r)))
    <3>1. Current(r) \in Session
      BY <2>1, <2>4, CurrentType DEF Steps
    <3>2. Busy(r) /\ Current(r) \in Calm(r)
      BY <2>4, <3>1 DEF Busy, Calm
    <3> QED
      BY <2>1, <2>2, <2>4, <3>1, <3>2 DEF KnowsFile
  <2> QED
    BY <2>3, <2>4
<1> QED
  BY <1>1, SyncInvariant, PTL

(***************************************************************************)
(* A session that only grew is not refused as rewritten: what the plan     *)
(* said of it still begins its archive, and thereby its file.              *)
(***************************************************************************)
THEOREM GrownAccepted == Spec => []GrowthIsAccepted
<1>1. SyncInv => GrowthIsAccepted
  <2> SUFFICES ASSUME SyncInv, NEW r \in Run, run[r].pc = "opening",
                      Current(r) \notin run[r].disturbed,
                      Prefix(Archived(Current(r)), File(Current(r)))
               PROVE  PrefixUnchanged(r, File(Current(r)))
    BY DEF GrowthIsAccepted
  <2> DEFINE s == Current(r)
             point == run[r].plan[s]
  <2>1. Store!ArchiveInv /\ RunsOK /\ FilesOK /\ Steps(r) /\ KnowsRest(r)
    BY DEF SyncInv, RunOK
  <2>2. s \in Session /\ s \in run[r].todo
    BY <2>1, CurrentType DEF Steps
  <2>3. s \in DOMAIN run[r].plan \cap Calm(r)
    BY <2>1, <2>2 DEF Steps, Calm
  <2>4. point \in Point /\ Prefix(point.hash, Hashed(s))
    BY <2>1, <2>3, RunTypes, PartialTypes DEF KnowsRest
  <2>5. Archived(s) = Hashed(s) /\ Hashed(s) \in Seq(Record) /\ File(s) \in Seq(Record)
    BY <2>1, <2>2, ArchivedIsHashed, HashedType, FileTypes
  <2> HIDE DEF s
  <2>6. Prefix(point.hash, File(s))
    BY <2>4, <2>5, PrefixIsOrder DEF Point, s
  <2> QED
    BY <2>4, <2>6 DEF PrefixUnchanged, Prefix, Point, s
<1> QED
  BY <1>1, SyncInvariant, PTL


-----------------------------------------------------------------------------
(***************************************************************************)
(* Sync implements Store: the handlers and the administrators are the only *)
(* ones that change a table, and each of their steps is one of Store under *)
(* some request.  What is proved of Store holds of the tables of Sync.     *)
(***************************************************************************)
(* Only a chunk that is stored and a deletion change a table.             *)
LEMMA TablesStep ==
    ASSUME [Next]_vars
    PROVE  \/ UNCHANGED db
           \/ \E m \in net : StoreChunk(m)
           \/ \E s \in Session : AdminDelete(s)
BY DEF vars, Next, Start, ClientStep, Inspect, ReceiveRefusal, OpenFile, SendChunk,
       FinishFile, Receive, PlanStep, ReadCheckpoint, AnswerPlan, GiveUp, ServerStep,
       AnswerOnly, TransactionFails, Lose, AppendRecord, Replace, Overwrite

LEMMA OnlyHandlersWrite ==
    ASSUME SyncInv, [Next]_vars
    PROVE  [Database!Next]_(Database!vars)
<1>1. CASE UNCHANGED db
  BY <1>1 DEF db, Database!vars
<1>2. ASSUME NEW m \in net, StoreChunk(m)
      PROVE  Database!Next
  <2>1. m.session \in Session /\ m.request \in Store!Request
    BY MessageTypes DEF SyncInv
  <2>2. Database!PutChunk(KeyOf(m.session), m.request)
    BY <1>2, SamePut DEF StoreChunk
  <2> QED
    BY <2>1, <2>2, KeyType DEF Database!Next
<1>3. ASSUME NEW s \in Session, AdminDelete(s)
      PROVE  Database!Next
  <2>1. Database!DeleteSession(KeyOf(s))
    BY <1>3, SameDelete DEF AdminDelete
  <2> QED
    BY <2>1, KeyType DEF Database!Next
<1> QED
  BY <1>1, <1>2, <1>3, TablesStep

(***************************************************************************)
(* Whatever clients, networks and administrators do, the tables of the     *)
(* server behave as those of module Store do under some requests.          *)
(***************************************************************************)
THEOREM HandlersImplementStore == Spec => Database!Spec
<1>1. Init => Database!Init
  BY SameInit DEF Init
<1>2. SyncInv /\ [Next]_vars => [Database!Next]_(Database!vars)
  BY OnlyHandlersWrite
<1> QED
  BY <1>1, <1>2, SyncInvariant, PTL DEF Spec, Database!Spec

LEMMA SameContent == Store!Content = Database!Content
BY SameSets, SameArchive DEF Store!Content, Database!Content

ContentIsSame == Store!Content = Database!Content

LEMMA SameContentNext == ContentIsSame'
<1>1. ContentIsSame
  BY SameContent DEF ContentIsSame
<1> QED
  BY <1>1, PTL

LEMMA SameAbstractInit == Database!Abstract!Init <=> Store!Abstract!Init
BY SameContent
   DEF Database!Abstract!Init, Store!Abstract!Init, Database!Abstract!Key,
       Store!Abstract!Key

LEMMA SameAbstractNext ==
    [Database!Abstract!Next]_(Database!Content) <=> [Store!Abstract!Next]_(Store!Content)
<1>1. \A k : Database!Abstract!OthersKept(k) <=> Store!Abstract!OthersKept(k)
  BY SameContent, SameContentNext
     DEF ContentIsSame, Database!Abstract!OthersKept, Store!Abstract!OthersKept,
         Database!Abstract!Key, Store!Abstract!Key
<1>2. Database!Abstract!Record = Store!Abstract!Record
  BY DEF Database!Abstract!Record, Store!Abstract!Record, Database!Abstract!Kind,
     Store!Abstract!Kind, Database!Abstract!EventKind, Store!Abstract!EventKind
<1>3. \A k, t : Database!Abstract!WellFormed(k, t) <=> Store!Abstract!WellFormed(k, t)
  BY <1>2
     DEF Database!Abstract!WellFormed, Store!Abstract!WellFormed,
         Database!Abstract!Parses, Store!Abstract!Parses, Database!Abstract!SessionOf,
         Store!Abstract!SessionOf, Database!Abstract!Valid, Store!Abstract!Valid,
         Database!Abstract!OpensSession, Store!Abstract!OpensSession
<1>4. \A k : Database!Abstract!Share(k) <=> Store!Abstract!Share(k)
  BY <1>1, <1>2, <1>3, SameContent, SameContentNext
     DEF ContentIsSame, Database!Abstract!Share, Store!Abstract!Share,
         Database!Abstract!Starts, Store!Abstract!Starts, Database!Abstract!Key,
         Store!Abstract!Key
<1>5. \A k : Database!Abstract!Forget(k) <=> Store!Abstract!Forget(k)
  BY SameContent, SameContentNext
     DEF ContentIsSame, Database!Abstract!Forget, Store!Abstract!Forget
<1> QED
  BY <1>4, <1>5, SameContent, SameContentNext
     DEF ContentIsSame, Database!Abstract!Next, Store!Abstract!Next,
         Database!Abstract!Key, Store!Abstract!Key

(***************************************************************************)
(* Synchronisation implements the archive the README promises: each chunk  *)
(* that is stored appends to one transcript, which stays well-formed, a    *)
(* deletion takes one transcript whole, and every other step of clients,   *)
(* networks and servers leaves all transcripts alone.                      *)
(***************************************************************************)
THEOREM SyncImplementsArchive == Spec => Store!ImplementsArchive
<1>1. Database!Spec => Database!ImplementsArchive
  BY Database!StoreImplementsArchive, DatabaseAssumptions, StoreAssumption, NoIdAssumption,
     BlankAssumption, TimeAssumption
<1>2. Database!ImplementsArchive => Store!ImplementsArchive
  BY SameAbstractInit, SameAbstractNext, PTL
     DEF Database!ImplementsArchive, Store!ImplementsArchive, Database!Abstract!Spec,
         Store!Abstract!Spec
<1> QED
  BY <1>1, <1>2, HandlersImplementStore

LEMMA SameChecks ==
    /\ Store!EventsMatchArchive <=> Database!EventsMatchArchive
    /\ Store!SearchMatchesArchive <=> Database!SearchMatchesArchive
    /\ Store!RowDescribesArchive <=> Database!RowDescribesArchive
<1>1. Store!EventsMatchArchive <=> Database!EventsMatchArchive
  BY SameSets, SameReads DEF Store!EventsMatchArchive, Database!EventsMatchArchive,
     Store!EventPositions, Database!EventPositions, Store!IsEvent, Database!IsEvent,
     Store!EventKind, Database!EventKind, Store!ChunksAt, Database!ChunksAt
<1>2. Store!SearchMatchesArchive <=> Database!SearchMatchesArchive
  BY SameSets, SameReads DEF Store!SearchMatchesArchive, Database!SearchMatchesArchive,
     Store!FoundBy, Database!FoundBy, Store!Searchable, Database!Searchable,
     Store!IsEvent, Database!IsEvent,
     Store!EventKind, Database!EventKind
<1>3. Store!RowDescribesArchive <=> Database!RowDescribesArchive
  <2>1. \A S : Store!Latest(S) = Database!Latest(S)
    BY DEF Store!Latest, Database!Latest
  <2>2. \A t : Store!LastActivity(t) = Database!LastActivity(t)
    BY <2>1 DEF Store!LastActivity, Database!LastActivity
  <2> QED
    BY <2>2, SameSets, SameReads DEF Store!RowDescribesArchive, Database!RowDescribesArchive
<1> QED
  BY <1>1, <1>2, <1>3

(***************************************************************************)
(* Under any interleaving of syncs and deletions the tables derived from   *)
(* the archive agree with it: the events, the search rows, and the columns *)
(* of the session row.                                                     *)
(***************************************************************************)
THEOREM SyncTablesAgree ==
    Spec => [](Store!EventsMatchArchive /\ Store!SearchMatchesArchive /\ Store!RowDescribesArchive)
<1>1. Database!Spec =>
        /\ []Database!EventsMatchArchive
        /\ []Database!SearchMatchesArchive
        /\ []Database!RowDescribesArchive
  BY Database!EventsMatch, Database!SearchMatches, Database!RowDescribes,
     DatabaseAssumptions,
     StoreAssumption, NoIdAssumption, BlankAssumption, TimeAssumption
<1> QED
  BY <1>1, SameChecks, HandlersImplementStore, PTL

-----------------------------------------------------------------------------
ArchivedIs == \A s \in Session : Archived(s) = Hashed(s)

LEMMA ArchivedNow == Store!ArchiveInv => ArchivedIs
BY ArchivedIsHashed DEF ArchivedIs

LEMMA ArchivedNext == Store!ArchiveInv' => ArchivedIs'
BY ArchivedNow, PTL

(***************************************************************************)
(* Shared records stay at their place until an administrator deletes their *)
(* session: no chunk, however late or repeated, and no failure takes one.  *)
(***************************************************************************)
SharedStays ==
    [][\A s \in Session : Prefix(Archived(s), Archived(s)') \/ AdminDelete(s)]_vars

LEMMA StepKeepsShared ==
    ASSUME SyncInv, [Next]_vars, NEW s \in Session
    PROVE  Prefix(Archived(s), Archived(s)') \/ AdminDelete(s)
<1>1. RunsOK /\ Store!ArchiveInv /\ Hashed(s) \in Seq(Record)
  BY HashedType DEF SyncInv
<1>2. Store!ArchiveInv'
  BY NextSyncInv DEF SyncInv
<1>3. Archived(s) = Hashed(s) /\ Archived(s)' = Hashed(s)'
  BY <1>1, <1>2, ArchivedNow, ArchivedNext DEF ArchivedIs
<1>4. CASE UNCHANGED db
  <2>1. Hashed(s)' = Hashed(s)
    BY <1>1, <1>4, UntouchedArchive
  <2> QED
    BY <1>1, <1>3, <2>1, PrefixIsOrder
<1>5. ASSUME NEW m \in net, StoreChunk(m)
      PROVE  Prefix(Archived(s), Archived(s)')
  <2>1. PICK t \in Session, u \in Store!Request : t = m.session /\ u = m.request
    BY <1>1, MessageTypes
  <2>2. Store!PutChunk(KeyOf(t), u) /\ u.plain \in Seq(Record)
    BY <1>1, <1>5, <2>1, MessageTypes DEF StoreChunk
  <2>3. /\ Hashed(t)' = Hashed(t) \o u.plain
        /\ \A v \in Session \ {t} : Hashed(v)' = Hashed(v)
    BY <1>1, <2>2, StoredExtends
  <2>4. CASE s = t
    <3>1. Hashed(s)' = Hashed(s) \o u.plain
      BY <2>3, <2>4
    <3>2. Prefix(Hashed(s), Hashed(s) \o u.plain)
      BY <1>1, <2>2, LongerIsPrefixOf
    <3> QED
      BY <1>3, <3>1, <3>2
  <2>5. CASE s # t
    BY <1>1, <1>3, <2>3, <2>5, PrefixIsOrder
  <2> QED
    BY <2>4, <2>5
<1>6. ASSUME NEW t \in Session, AdminDelete(t), t # s
      PROVE  Prefix(Archived(s), Archived(s)')
  <2>1. Store!DeleteSession(KeyOf(t))
    BY <1>6 DEF AdminDelete
  <2>2. Hashed(s)' = Hashed(s)
    BY <1>1, <1>6, <2>1, DeletedForgets
  <2> QED
    BY <1>1, <1>3, <2>2, PrefixIsOrder
<1> QED
  BY <1>4, <1>5, <1>6, TablesStep

(* What is shared once stays shared until it is deleted.                   *)
THEOREM SharedRecordsStay == Spec => SharedStays
<1>1. SyncInv /\ [Next]_vars =>
        [\A s \in Session : Prefix(Archived(s), Archived(s)') \/ AdminDelete(s)]_vars
  BY StepKeepsShared
<1> QED
  BY <1>1, SyncInvariant, PTL DEF Spec, SharedStays

(* The records behind those of t.                                          *)
LEMMA RecordsBehind ==
    ASSUME NEW t \in Seq(Record), NEW u \in Seq(Record)
    PROVE  SubSeq(t \o u, Len(t) + 1, Len(t) + Len(u)) = u
<1>1. PICK w \in Seq(Record), a \in Nat, b \in Nat :
         w = t \o u /\ a = Len(t) /\ b = Len(u)
  BY LongerIsPrefixOf, LenProperties
<1>2. Len(w) = a + b /\ \A i \in 1 .. b : w[a + i] = u[i]
  BY <1>1, LongerIsPrefixOf
<1>3. CASE b = 0
  <2>1. u = << >>
    BY <1>1, <1>3, EmptySeq
  <2>2. SubSeq(w, a + 1, a + b) = << >>
    BY <1>1, <1>3, SubSeqProperties, EmptySeq
  <2> QED
    BY <1>1, <2>1, <2>2
<1>4. CASE b # 0
  <2>1. a + b \in a + 1 .. Len(w)
    BY <1>1, <1>2, <1>4
  <2>2. /\ SubSeq(w, a + 1, a + b) \in Seq(Record)
        /\ Len(SubSeq(w, a + 1, a + b)) = b
        /\ \A i \in 1 .. b : SubSeq(w, a + 1, a + b)[i] = w[a + i]
    BY <1>1, <2>1, RestOfRecords
  <2>3. SubSeq(w, a + 1, a + b) = u
    <3>1. PICK p : p = SubSeq(w, a + 1, a + b)
      OBVIOUS
    <3>2. p \in Seq(Record) /\ Len(p) = Len(u) /\ \A i \in 1 .. Len(p) : p[i] = u[i]
      BY <1>1, <1>2, <2>2, <3>1
    <3>3. p = u
      BY <3>2, SeqEqual
    <3> QED
      BY <3>1, <3>3
  <2> QED
    BY <1>1, <2>3
<1> QED
  BY <1>3, <1>4

(* The two requests that are acknowledged.                                 *)
LEMMA StoredIsArchived ==
    ASSUME SyncInv, NEW m \in net, StoreChunk(m)
    PROVE  SubSeq(Archived(m.session)', m.request.start + 1, m.request.end) = m.request.plain
<1>1. RunsOK /\ Store!ArchiveInv
  BY DEF SyncInv
<1>2. PICK s \in Session, u \in Store!Request : s = m.session /\ u = m.request
  BY <1>1, MessageTypes
<1>3. /\ Store!PutChunk(KeyOf(s), u) /\ u.plain \in Seq(Record) /\ Hashed(s) \in Seq(Record)
      /\ u.start \in Nat /\ u.end \in Nat
  BY <1>1, <1>2, MessageTypes, HashedType DEF StoreChunk
<1>4. Store!ArchiveInv' /\ Hashed(s)' = Hashed(s) \o u.plain
  BY <1>1, <1>3, StoredExtends
<1>5. Archived(s)' = Hashed(s) \o u.plain
  BY <1>4, ArchivedNext DEF ArchivedIs
<1>6. u.start = Len(Hashed(s)) /\ u.end = u.start + Len(u.plain)
  <2>1. Store!Acceptable(KeyOf(s), u) /\ Store!IsNext(KeyOf(s), u)
    BY <1>3 DEF Store!PutChunk, Store!Storable
  <2>2. u.start = Len(Hashed(s))
    BY <1>1, <2>1, KeyType, SameSets
       DEF Store!IsNext, Store!ArchiveInv, Store!CheckpointCountsHashed, Hashed
  <2>3. Len(u.plain) = u.end - u.start
    BY <2>1 DEF Store!Acceptable
  <2> QED
    BY <1>3, <2>2, <2>3
<1>7. SubSeq(Hashed(s) \o u.plain, Len(Hashed(s)) + 1, Len(Hashed(s)) + Len(u.plain)) = u.plain
  BY <1>3, RecordsBehind
<1>8. SubSeq(Archived(s)', u.start + 1, u.end) = u.plain
  BY <1>5, <1>6, <1>7
<1> QED
  BY <1>2, <1>8 DEF Archived, KeyOf

LEMMA ReplayIsArchived ==
    ASSUME SyncInv, NEW m \in net, AnswerOnly(m), Outcome(m) = "duplicate"
    PROVE  SubSeq(Archived(m.session)', m.request.start + 1, m.request.end) = m.request.plain
<1>1. RunsOK /\ Store!ArchiveInv
  BY DEF SyncInv
<1>2. PICK s \in Session, u \in Store!Request : s = m.session /\ u = m.request
  BY <1>1, MessageTypes
<1>3. UNCHANGED db
  BY DEF AnswerOnly
<1>4. SubSeq(Hashed(s), u.start + 1, u.end) = u.plain
  BY <1>1, <1>2, DuplicateIsHashed DEF Outcome
<1>5. Store!ArchiveInv' /\ Hashed(s)' = Hashed(s)
  BY <1>1, <1>3, UntouchedArchive
<1>6. Archived(s)' = Hashed(s)
  BY <1>5, ArchivedNext DEF ArchivedIs
<1> QED
  BY <1>2, <1>4, <1>6 DEF Archived, KeyOf

LEMMA StepAcksTruly ==
    ASSUME SyncInv, [Next]_vars, NEW n \in net' \ net, n.status = "ok"
    PROVE  SubSeq(Archived(n.session)', n.request.start + 1, n.request.end) = n.request.plain
<1>1. ASSUME NEW m \in net, Answer(m, "ok"),
             SubSeq(Archived(m.session)', m.request.start + 1, m.request.end) = m.request.plain
      PROVE  SubSeq(Archived(n.session)', n.request.start + 1, n.request.end) = n.request.plain
  <2>1. n = [m EXCEPT !.status = "ok"]
    BY <1>1, AnswerNet
  <2>2. n.session = m.session /\ n.request = m.request
    BY <2>1 DEF SyncInv, RunsOK, Message
  <2> QED
    BY <1>1, <2>2 DEF Archived, KeyOf
<1>2. ASSUME NEW m \in net, Answer(m, "error")
      PROVE  FALSE
  <2>1. n = [m EXCEPT !.status = "error"]
    BY <1>2, AnswerNet
  <2> QED
    BY <2>1 DEF SyncInv, RunsOK, Message
<1>3. ASSUME NEW m \in net, ServerStep(m) \/ TransactionFails(m) \/ Lose(m)
      PROVE  SubSeq(Archived(n.session)', n.request.start + 1, n.request.end) = n.request.plain
  <2>1. CASE StoreChunk(m)
    BY <1>1, <2>1, StoredIsArchived DEF StoreChunk
  <2>2. CASE AnswerOnly(m) /\ Outcome(m) = "duplicate" /\ Answer(m, "ok")
    BY <1>1, <2>2, ReplayIsArchived
  <2>3. CASE Answer(m, "error")
    BY <1>2, <2>3
  <2>4. CASE Lose(m)
    BY <2>4 DEF Lose
  <2> QED
    BY <1>3, <2>1, <2>2, <2>3, <2>4 DEF ServerStep, AnswerOnly, TransactionFails
<1>4. ASSUME NEW r \in Run, SendChunk(r)
      PROVE  FALSE
  BY <1>4 DEF SendChunk
<1>5. ASSUME net' \subseteq net
      PROVE  FALSE
  BY <1>5
<1>6. \/ \E m \in net : ServerStep(m) \/ TransactionFails(m) \/ Lose(m)
      \/ \E r \in Run : SendChunk(r)
      \/ net' \subseteq net
  BY DEF vars, Next, Start, ClientStep, Inspect, ReceiveRefusal, OpenFile,
         FinishFile, Receive, PlanStep, ReadCheckpoint, AnswerPlan, GiveUp, AdminDelete,
         AppendRecord, Replace, Overwrite
<1> QED
  BY <1>3, <1>4, <1>5, <1>6

(***************************************************************************)
(* What the server acknowledges is in the archive when it does: an agent's *)
(* record that tracehub reported as shared has been stored.                *)
(***************************************************************************)
THEOREM AcknowledgedIsArchived == Spec => AcksAreTrue
<1>1. SyncInv /\ [Next]_vars =>
        [\A m \in net' \ net : m.status = "ok" =>
            SubSeq(Archived(m.session)', m.request.start + 1, m.request.end) = m.request.plain]_vars
  BY StepAcksTruly
<1> QED
  BY <1>1, SyncInvariant, PTL DEF Spec, AcksAreTrue

=============================================================================
