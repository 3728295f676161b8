---------------------------- MODULE Server_proofs ----------------------------
(***************************************************************************)
(* Proofs about the two modules that put the database of a server to use:  *)
(* Search, for every page size, every filter and every number of sessions, *)
(* and Startup, for any old database and any number of servers.            *)
(***************************************************************************)
EXTENDS Search, Startup, Store_proofs

-----------------------------------------------------------------------------
(***************************************************************************)
(* Search.  A reader who pages to the end misses no session that was there *)
(* to be found.  The invariant: he has been given each session that the    *)
(* filter kept selecting, or has it before him.  Row ids are given out in  *)
(* order, so that the cursor stays behind every id that is still to come.  *)
(***************************************************************************)
IdsAreGivenOut == \A i \in Ids : i < nextSessionId

KeptIsFoundOrAhead ==
    /\ pc = "paging" => kept \subseteq SelectedIds(filter)
    /\ pc = "paging" => \A i \in kept : i \in found \/ i > after
    /\ pc # "paging" => after = 0

SearchInv ==
    /\ TypeOK
    /\ IdsAreGivenOut
    /\ after \in Nat /\ after < nextSessionId
    /\ KeptIsFoundOrAhead
    /\ SearchMissesNothing

LEMMA SelectedAreIds ==
    ASSUME TypeOK, NEW f
    PROVE  SelectedIds(f) \subseteq Ids /\ Ids \subseteq Nat \ {0}
<1>1. \A k \in Key : Known(k) => sessions[k].id \in Nat \ {0}
  <2>1. \A r \in SessionRow : r.id \in Nat \ {0}
    BY DEF SessionRow
  <2> QED
    BY <2>1 DEF TypeOK, Known
<1> QED
  BY <1>1 DEF SelectedIds, Selects, Ids

SelectionIsKnown == SelectedIds(filter) \subseteq Ids /\ Ids \subseteq Nat

LEMMA SelectedAreIdsNow == TypeOK => SelectionIsKnown
BY SelectedAreIds DEF SelectionIsKnown

LEMMA SelectedAreIdsNext == TypeOK' => SelectionIsKnown'
BY SelectedAreIdsNow, PTL

(* What a page leaves behind the cursor: it is a first part of the ids     *)
(* behind the cursor, and it is empty only when there are none.            *)
LEMMA PageIsFirst ==
    ASSUME SearchInv, NEW page, page = PageOf(filter, after)
    PROVE  /\ page \subseteq Behind(filter, after) /\ IsFiniteSet(page)
           /\ \A i \in page, j \in Behind(filter, after) : j <= i => j \in page
           /\ page = {} => Behind(filter, after) = {}
<1> DEFINE B == Behind(filter, after)
           UpTo(i) == {j \in B : j <= i}
<1>1. B \in SUBSET Nat /\ \A i \in B : i < nextSessionId
  BY SelectedAreIds DEF SearchInv, IdsAreGivenOut, Behind
<1>2. page = {i \in B : Cardinality(UpTo(i)) <= PageSize}
  BY DEF PageOf
<1> HIDE DEF B
<1>3. IsFiniteSet(B)
  <2>1. nextSessionId \in Nat
    BY DEF SearchInv, TypeOK
  <2>2. B \subseteq 0 .. nextSessionId /\ IsFiniteSet(0 .. nextSessionId)
    BY <1>1, <2>1, FS_Interval
  <2> QED
    BY <2>2, FS_Subset
<1>4. \A i \in B : IsFiniteSet(UpTo(i)) /\ Cardinality(UpTo(i)) \in Nat
  BY <1>3, FS_Subset, FS_CardinalityType
<1>5. PageSize \in Nat \ {0}
  BY FilterAssumption
<1>6. ASSUME NEW i \in page, NEW j \in B, j <= i
      PROVE  j \in page
  <2>1. UpTo(j) \subseteq UpTo(i) /\ i \in B
    <3>1. i \in B /\ i \in Nat /\ j \in Nat
      BY <1>1, <1>2
    <3>2. ASSUME NEW x \in B, x <= j
          PROVE  x <= i
      <4>1. x \in Nat
        BY <1>1
      <4> QED
        BY <1>6, <3>1, <3>2, <4>1
    <3> QED
      BY <3>1, <3>2
  <2>2. Cardinality(UpTo(j)) <= Cardinality(UpTo(i))
    BY <1>4, <2>1, FS_Subset
  <2> HIDE DEF UpTo
  <2> QED
    BY <1>2, <1>4, <1>5, <2>1, <2>2
<1>7. ASSUME B # {} PROVE page # {}
  <2>1. PICK m \in B : \A i \in B : m <= i
    BY <1>1, <1>7, LeastOfNat
  <2>2. UpTo(m) = {m}
    <3>1. ASSUME NEW x \in B
          PROVE  x <= m <=> x = m
      <4>1. x \in Nat /\ m \in Nat /\ m <= x
        BY <1>1, <2>1
      <4> QED
        BY <4>1
    <3> QED
      BY <3>1
  <2>3. Cardinality({m}) = 1
    BY FS_Singleton
  <2> HIDE DEF UpTo
  <2> QED
    BY <1>2, <1>5, <2>1, <2>2, <2>3
<1> QED
  BY <1>2, <1>3, <1>6, <1>7, FS_Subset DEF B

LEMMA InitSearchInv == SearchInit => SearchInv
<1> SUFFICES ASSUME SearchInit PROVE SearchInv
  OBVIOUS
<1>1. Init /\ TypeOK /\ nextSessionId = 1
  BY InitTypeOK DEF SearchInit, Init
<1>2. Ids = {}
  BY <1>1 DEF Ids, Init, Known
<1> QED
  BY <1>1, <1>2 DEF SearchInit, SearchInv, IdsAreGivenOut, KeptIsFoundOrAhead, SearchMissesNothing

LEMMA BeginInv ==
    ASSUME SearchInv, NEW f \in Filter, Begin(f)
    PROVE  SearchInv'
<1>1. /\ UNCHANGED vars /\ after = 0 /\ after' = after /\ pc' = "paging"
      /\ kept' = SelectedIds(f) /\ filter' = f
  BY DEF Begin, SearchInv, KeptIsFoundOrAhead
<1>2. TypeOK' /\ IdsAreGivenOut' /\ nextSessionId' = nextSessionId
  <2>1. Ids' = Ids
    BY <1>1 DEF vars, Ids, Known
  <2> QED
    BY <1>1, <2>1, NextTypeOK DEF SearchInv, IdsAreGivenOut, vars
<1>3. SelectedIds(filter)' = SelectedIds(f)
  BY <1>1 DEF vars, SelectedIds, Selects, FoundBy, Known
<1>4. \A i \in kept' : i > 0
  BY <1>1, SelectedAreIds DEF SearchInv
<1> QED
  BY <1>1, <1>2, <1>3, <1>4 DEF SearchInv, KeptIsFoundOrAhead, SearchMissesNothing

LEMMA TurnPageInv ==
    ASSUME SearchInv, TurnPage
    PROVE  SearchInv'
<1> DEFINE page == PageOf(filter, after)
<1>1. /\ UNCHANGED vars /\ filter' = filter /\ kept' = kept /\ pc = "paging"
      /\ found' = found \cup page /\ after' = Latest({0} \cup page)
      /\ pc' = IF page = {} THEN "done" ELSE "paging"
  BY DEF TurnPage
<1>2. /\ page \subseteq Behind(filter, after) /\ IsFiniteSet(page)
      /\ \A i \in page, j \in Behind(filter, after) : j <= i => j \in page
      /\ page = {} => Behind(filter, after) = {}
  BY PageIsFirst
<1> HIDE DEF page
<1>3. page \subseteq Ids /\ Ids \subseteq Nat \ {0} /\ SelectedIds(filter) \subseteq Ids
  BY <1>2, SelectedAreIds DEF SearchInv, Behind
<1>4. kept \subseteq SelectedIds(filter) /\ \A i \in kept : i \in found \/ i > after
  BY <1>1 DEF SearchInv, KeptIsFoundOrAhead
<1>5. TypeOK' /\ IdsAreGivenOut' /\ nextSessionId' = nextSessionId
  <2>1. Ids' = Ids
    BY <1>1 DEF vars, Ids, Known
  <2> QED
    BY <1>1, <2>1, NextTypeOK DEF SearchInv, IdsAreGivenOut, vars
<1>6. SelectedIds(filter)' = SelectedIds(filter)
  BY <1>1 DEF vars, SelectedIds, Selects, FoundBy, Known
<1>7. CASE page = {}
  <2>1. after' = 0
    <3>1. {0} \cup page = {0}
      BY <1>7
    <3> QED
      BY <1>1, <3>1 DEF Latest
  <2>2. kept \subseteq found
    BY <1>2, <1>4, <1>7 DEF Behind
  <2>3. 0 < nextSessionId
    BY DEF SearchInv, TypeOK
  <2> QED
    BY <1>1, <1>5, <1>7, <2>1, <2>2, <2>3 DEF SearchInv, KeptIsFoundOrAhead, SearchMissesNothing
<1>8. CASE page # {}
  <2>1. after' \in page /\ \A i \in page : i <= after'
    <3> DEFINE g == [i \in page |-> i]
    <3>1. g \in [page -> Nat]
      BY <1>3
    <3>2. \E m \in page : \A i \in page : g[i] <= g[m]
      <4> HIDE DEF g
      <4> QED
        BY <1>2, <1>8, <3>1, GreatestOfFinite
    <3>3. PICK m \in page : \A i \in page : i <= m
      BY <3>2
    <3>4. m \in {0} \cup page /\ (\A i \in {0} \cup page : i <= m) /\ m \in Nat \ {0}
      BY <1>3, <3>3
    <3>5. \A t \in {0} \cup page : (\A i \in {0} \cup page : i <= t) => t = m
      BY <1>3, <3>4
    <3>6. Latest({0} \cup page) = m
      BY <3>4, <3>5 DEF Latest
    <3> QED
      BY <1>1, <3>3, <3>6
  <2>2. after' \in Nat /\ after' < nextSessionId
    BY <1>3, <2>1 DEF SearchInv, IdsAreGivenOut
  <2>3. ASSUME NEW i \in kept, i \notin found, i \notin page
        PROVE  i > after'
    <3>1. i \in Behind(filter, after) /\ i \in Nat
      BY <1>3, <1>4, <2>3 DEF Behind
    <3>2. ~ (i <= after')
      BY <1>2, <2>1, <2>3, <3>1
    <3> QED
      BY <2>2, <3>1, <3>2
  <2> QED
    BY <1>1, <1>4, <1>5, <1>6, <1>8, <2>2, <2>3 DEF SearchInv, KeptIsFoundOrAhead, SearchMissesNothing
<1> QED
  BY <1>7, <1>8

(* The database changes behind the reader's back.  A session shared since  *)
(* takes an id past every earlier one, thus past the cursor.               *)
LEMMA ChangeInv ==
    ASSUME SearchInv, Change
    PROVE  SearchInv'
<1>1. /\ Next /\ pc' = pc /\ filter' = filter /\ after' = after /\ found' = found
      /\ kept' = IF pc = "paging" THEN {i \in SelectedIds(filter)' : i \in kept \/ i \notin Ids}
                                  ELSE kept
  BY DEF Change
<1>2. TypeOK /\ TypeOK' /\ nextSessionId \in Nat /\ nextSessionId' \in Nat
  BY <1>1, NextTypeOK DEF SearchInv, TypeOK
<1>3. \A i \in Ids' \ Ids : i >= nextSessionId /\ i < nextSessionId'
  BY <1>1, <1>2, NewIdIsLast
<1>4. nextSessionId <= nextSessionId'
  BY <1>1, <1>2 DEF Next, PutChunk, DeleteSession
<1>5. SelectedIds(filter)' \subseteq Ids' /\ Ids' \subseteq Nat
  BY <1>2, SelectedAreIdsNext DEF SelectionIsKnown
<1>6. Ids \subseteq Nat
  BY <1>2, SelectedAreIds
<1>7. IdsAreGivenOut'
  BY <1>2, <1>3, <1>4, <1>5, <1>6 DEF SearchInv, IdsAreGivenOut
<1>8. after' \in Nat /\ after' < nextSessionId'
  BY <1>1, <1>2, <1>4 DEF SearchInv
<1>9. KeptIsFoundOrAhead'
  <2>1. CASE pc = "paging"
    <3>1. kept' \subseteq SelectedIds(filter)'
      BY <1>1, <2>1
    <3>2. ASSUME NEW i \in kept'
          PROVE  i \in found' \/ i > after'
      <4>1. i \in SelectedIds(filter)' /\ (i \in kept \/ i \notin Ids)
        BY <1>1, <2>1, <3>2
      <4>2. CASE i \in kept
        BY <1>1, <2>1, <4>2 DEF SearchInv, KeptIsFoundOrAhead
      <4>3. CASE i \notin Ids
        <5>1. i >= nextSessionId /\ i \in Nat
          BY <1>3, <1>5, <4>1, <4>3
        <5> QED
          BY <1>1, <1>2, <5>1 DEF SearchInv
      <4> QED
        BY <4>1, <4>2, <4>3
    <3> QED
      BY <1>1, <2>1, <3>1, <3>2 DEF KeptIsFoundOrAhead
  <2>2. CASE pc # "paging"
    BY <1>1, <2>2 DEF SearchInv, KeptIsFoundOrAhead
  <2> QED
    BY <2>1, <2>2
<1>10. SearchMissesNothing'
  BY <1>1 DEF SearchInv, SearchMissesNothing
<1> QED
  BY <1>2, <1>7, <1>8, <1>9, <1>10 DEF SearchInv

LEMMA NextSearchInv == SearchInv /\ [SearchNext]_searchVars => SearchInv'
<1> SUFFICES ASSUME SearchInv, [SearchNext]_searchVars
             PROVE  SearchInv'
  OBVIOUS
<1>1. ASSUME NEW f \in Filter, Begin(f)
      PROVE  SearchInv'
  BY <1>1, BeginInv
<1>2. CASE TurnPage
  BY <1>2, TurnPageInv
<1>3. ASSUME UNCHANGED vars
      PROVE  TypeOK' /\ IdsAreGivenOut' /\ nextSessionId' = nextSessionId
  <2>1. Ids' = Ids
    BY <1>3 DEF vars, Ids, Known
  <2> QED
    BY <1>3, <2>1, NextTypeOK DEF SearchInv, IdsAreGivenOut, vars
<1>4. CASE End
  BY <1>3, <1>4 DEF End, SearchInv, KeptIsFoundOrAhead, SearchMissesNothing
<1>5. CASE Change
  BY <1>5, ChangeInv
<1>6. CASE UNCHANGED searchVars
  <2>1. SelectedIds(filter)' = SelectedIds(filter)
    BY <1>6 DEF searchVars, readerVars, vars, SelectedIds, Selects, FoundBy, Known
  <2> QED
    BY <1>3, <1>6, <2>1 DEF searchVars, readerVars, SearchInv, KeptIsFoundOrAhead, SearchMissesNothing
<1> QED
  BY <1>1, <1>2, <1>4, <1>5, <1>6 DEF SearchNext

(* A search that was paged to its end has found every session that the     *)
(* filter selected all the time, whatever happened between the pages.      *)
THEOREM SearchIsComplete == SearchSpec => []SearchMissesNothing
<1>1. SearchInv => SearchMissesNothing
  BY DEF SearchInv
<1> QED
  BY <1>1, InitSearchInv, NextSearchInv, PTL DEF SearchSpec

-----------------------------------------------------------------------------
(***************************************************************************)
(* Startup.  A server that listens has migrated every session, and what is *)
(* migrated is the archive.                                                *)
(***************************************************************************)

(* Chunks that start at different offsets and are as long as these say.    *)
Keyed(cs) ==
    /\ IsFiniteSet(cs) /\ cs \in SUBSET ChunkRow
    /\ \A c \in cs : Len(c.plain) = c.end - c.start
    /\ \A c, d \in cs : c.start = d.start => c = d

(* Chunks that tile the offsets from 0 to n.                               *)
Tile(cs, n) ==
    /\ \A c \in cs :
          /\ c.start < c.end /\ c.end <= n
          /\ \A d \in cs : c = d \/ c.end <= d.start \/ d.end <= c.start
    /\ \A i \in 1 .. n : \E c \in cs : Covers(c, i)

(* The chunks hold the records of hash, and no others.                     *)
HoldTheHashed(cs, hash, n) ==
    /\ Tile(cs, n)
    /\ Len(hash) = n
    /\ \A c \in cs : \A j \in 1 .. Len(c.plain) : c.plain[j] = hash[c.start + j]

LEMMA ChunkOffsets ==
    ASSUME NEW cs \in SUBSET ChunkRow, NEW c \in cs
    PROVE  c.start \in Nat /\ c.end \in Nat /\ c.plain \in Seq(Record) /\ Len(c.plain) \in Nat
BY LenProperties DEF ChunkRow

(* LastOf is the last chunk, and there is one.                             *)
LEMMA LastOfIsLast ==
    ASSUME NEW cs \in SUBSET ChunkRow, IsFiniteSet(cs), cs # {}
    PROVE  LastOf(cs) \in cs /\ \A d \in cs : d.start <= LastOf(cs).start
<1> DEFINE f == [c \in cs |-> c.start]
<1>1. f \in [cs -> Nat]
  BY ChunkOffsets
<1>2. \E c \in cs : \A d \in cs : f[d] <= f[c]
  <2> HIDE DEF f
  <2> QED
    BY <1>1, GreatestOfFinite
<1> QED
  BY <1>2 DEF LastOf

(* The next chunk after the offset i, if there is any.                     *)
LEMMA NextAfter ==
    ASSUME NEW cs \in SUBSET ChunkRow, NEW i \in Nat, \E c \in cs : c.start > i
    PROVE  \E c \in cs : /\ c.start > i
                         /\ \A d \in cs : d.start > i => c.start <= d.start
<1> DEFINE S == {c.start : c \in {c \in cs : c.start > i}}
<1>1. S \in SUBSET Nat /\ S # {}
  BY ChunkOffsets
<1>2. \E s \in S : \A t \in S : s <= t
  <2> HIDE DEF S
  <2> QED
    BY <1>1, LeastOfNat
<1> QED
  BY <1>2

(* The check of the gaps is enough: each chunk that follows another one    *)
(* starts where that one ends, so that chunks without a gap tile.          *)
LEMMA Follows ==
    ASSUME NEW cs, Keyed(cs), NoGap(cs), NEW c \in cs, NEW d \in cs, c.start < d.start
    PROVE  \E e \in cs : /\ e.start = c.end /\ e.start <= d.start /\ c.start < e.start
                         /\ \A x \in cs : x.start > c.start => e.start <= x.start
<1>1. c.start \in Nat /\ cs \in SUBSET ChunkRow /\ IsFiniteSet(cs)
  BY ChunkOffsets DEF Keyed
<1>2. PICK e \in cs : e.start > c.start /\ \A x \in cs : x.start > c.start => e.start <= x.start
  BY <1>1, NextAfter
<1>3. c \in Before(cs, e)
  BY <1>2, ChunkOffsets DEF Before, Keyed
<1>4. Before(cs, e) \in SUBSET ChunkRow /\ IsFiniteSet(Before(cs, e))
  BY <1>1, FS_Subset DEF Before
<1> DEFINE l == LastOf(Before(cs, e))
<1>5. l \in Before(cs, e) /\ c.start <= l.start
  BY <1>3, <1>4, LastOfIsLast
<1> HIDE DEF l
<1>6. l = c
  <2>1. l \in cs /\ l.start < e.start /\ l.start \in Nat /\ e.start \in Nat
    BY <1>1, <1>5, ChunkOffsets DEF Before
  <2>2. ~ (l.start > c.start)
    BY <1>2, <2>1
  <2>3. l.start = c.start
    BY <1>1, <1>5, <2>1, <2>2
  <2> QED
    BY <2>1, <2>3 DEF Keyed
<1>7. e.start = c.end
  BY <1>3, <1>6 DEF NoGap, EndOf, l
<1> QED
  BY <1>1, <1>2, <1>7, ChunkOffsets

LEMMA NoGapTiles ==
    ASSUME NEW cs, Keyed(cs), NoGap(cs), \A c \in cs : c.start < c.end, cs # {}
    PROVE  Tile(cs, EndOf(cs)) /\ EndOf(cs) \in Nat
<1> DEFINE l == LastOf(cs)
<1>1. cs \in SUBSET ChunkRow /\ IsFiniteSet(cs)
  BY DEF Keyed
<1>2. \A c \in cs : c.start \in Nat /\ c.end \in Nat
  BY <1>1, ChunkOffsets
<1>3. l \in cs /\ (\A d \in cs : d.start <= l.start) /\ EndOf(cs) = l.end
  BY <1>1, LastOfIsLast DEF EndOf
<1> HIDE DEF l
<1>4. ASSUME NEW c \in cs, NEW d \in cs, c.start < d.start
      PROVE  c.end <= d.start
  BY <1>4, Follows
<1>5. ASSUME NEW c \in cs
      PROVE  c.end <= l.end
  <2>1. CASE c = l
    BY <1>2, <1>3, <2>1
  <2>2. CASE c # l
    <3>1. c.start < l.start
      BY <1>2, <1>3, <2>2 DEF Keyed
    <3> QED
      BY <1>2, <1>3, <1>4, <3>1
  <2> QED
    BY <2>1, <2>2
<1>6. ASSUME NEW c \in cs, NEW d \in cs
      PROVE  c = d \/ c.end <= d.start \/ d.end <= c.start
  <2>1. c = d \/ c.start < d.start \/ d.start < c.start
    BY <1>2 DEF Keyed
  <2> QED
    BY <1>4, <2>1
<1>7. ASSUME NEW i \in 1 .. l.end
      PROVE  \E c \in cs : Covers(c, i)
  <2> DEFINE early == {c \in cs : c.start < i}
  <2>1. early \in SUBSET ChunkRow /\ IsFiniteSet(early)
    BY <1>1, FS_Subset
  <2>2. early # {}
    <3>1. PICK c \in cs : \A d \in cs : c.start <= d.start
      <4> DEFINE S == {c.start : c \in cs}
      <4>1. S \in SUBSET Nat /\ S # {}
        BY <1>2
      <4>2. \E s \in S : \A t \in S : s <= t
        <5> HIDE DEF S
        <5> QED
          BY <4>1, LeastOfNat
      <4> QED
        BY <4>2
    <3>2. Before(cs, c) = {}
      BY <1>2, <3>1 DEF Before
    <3>3. c.start = 0
      BY <3>2 DEF NoGap, EndOf
    <3> QED
      BY <3>3
  <2> DEFINE c == LastOf(early)
  <2>3. c \in early /\ \A d \in early : d.start <= c.start
    BY <2>1, <2>2, LastOfIsLast
  <2> HIDE DEF c
  <2>4. c \in cs /\ c.start < i
    BY <2>3
  <2>5. c.end >= i
    <3> SUFFICES ASSUME c.end < i PROVE FALSE
      BY <1>2, <2>4
    <3>1. c # l /\ c.start < l.start
      BY <1>2, <1>3, <2>4 DEF Keyed
    <3>2. PICK e \in cs : e.start = c.end /\ c.start < e.start
      BY <1>3, <2>4, <3>1, Follows
    <3>3. e \in early
      BY <3>2
    <3> QED
      BY <1>2, <2>3, <2>4, <3>2, <3>3
  <2> QED
    BY <1>2, <2>4, <2>5 DEF Covers
<1> QED
  BY <1>2, <1>3, <1>5, <1>6, <1>7 DEF Tile

(* And chunks that tile leave no gap.                                      *)
LEMMA TilesNoGap ==
    ASSUME NEW cs \in SUBSET ChunkRow, NEW n \in Nat \ {0}, Tile(cs, n)
    PROVE  NoGap(cs) /\ EndOf(cs) = n /\ cs # {}
<1>1. \A c \in cs : c.start \in Nat /\ c.end \in Nat
  BY ChunkOffsets
<1>2. ASSUME NEW i \in 1 .. n, NEW es \in SUBSET cs,
             \A c \in cs : c \in es <=> c.start < i,
             \A c \in es : c.end <= i
      PROVE  EndOf(es) = i /\ es # {}
  <2>1. PICK e \in cs : Covers(e, i)
    BY DEF Tile
  <2>2. e \in es /\ e.end = i
    BY <1>1, <1>2, <2>1 DEF Covers
  <2>3. \A d \in es : d.start <= e.start /\ (d.start = e.start => d = e)
    <3> SUFFICES ASSUME NEW d \in es, d # e
                 PROVE  d.start < e.start
      BY <1>1, <2>2
    <3>1. d.start < i /\ d.start < d.end /\ e.start < e.end
      BY <1>2, <2>2 DEF Tile
    <3>2. e.end <= d.start \/ d.end <= e.start
      BY <2>2 DEF Tile
    <3> QED
      BY <1>1, <2>2, <3>1, <3>2
  <2>4. LastOf(es) = e
    <3>1. \A x \in es : (\A d \in es : d.start <= x.start) => x = e
      BY <1>1, <2>2, <2>3
    <3> QED
      BY <2>2, <2>3, <3>1 DEF LastOf
  <2> QED
    BY <2>2, <2>4 DEF EndOf
<1>3. ASSUME NEW c \in cs
      PROVE  c.start = EndOf(Before(cs, c))
  <2>1. CASE c.start = 0
    <3>1. Before(cs, c) = {}
      BY <1>1, <2>1 DEF Before
    <3> QED
      BY <2>1, <3>1 DEF EndOf
  <2>2. CASE c.start # 0
    <3>1. c.start \in 1 .. n
      BY <1>1, <2>2 DEF Tile
    <3>2. \A d \in Before(cs, c) : d.end <= c.start
      <4> SUFFICES ASSUME NEW d \in cs, d.start < c.start
                   PROVE  d.end <= c.start
        BY DEF Before
      <4>1. d.end <= c.start \/ c.end <= d.start
        BY <1>1 DEF Tile
      <4>2. c.start < c.end
        BY DEF Tile
      <4> QED
        BY <1>1, <4>1, <4>2
    <3> QED
      BY <1>2, <3>1, <3>2 DEF Before
  <2> QED
    BY <2>1, <2>2
<1>4. EndOf(cs) = n /\ cs # {}
  <2>1. \A c \in cs : c.start < n /\ c.end <= n
    BY <1>1 DEF Tile
  <2> QED
    BY <1>2, <2>1
<1> QED
  BY <1>3, <1>4 DEF NoGap

(* What the start hashes: the records in the chunks that tile.             *)
LEMMA TileRecords ==
    ASSUME NEW k \in Key, Keyed(chunks[k]), NEW n \in Nat, Tile(chunks[k], n), NEW i \in 1 .. n
    PROVE  \E c \in chunks[k] : /\ i - c.start \in 1 .. Len(c.plain)
                                /\ Covers(c, i)
                                /\ RecordAt(k, i) = c.plain[i - c.start]
<1> DEFINE c == CHOOSE c \in chunks[k] : Covers(c, i)
<1>1. c \in chunks[k] /\ Covers(c, i)
  BY DEF Tile
<1>2. RecordAt(k, i) = c.plain[i - c.start]
  BY DEF RecordAt
<1> HIDE DEF c
<1>3. c.start \in Nat /\ c.end \in Nat /\ Len(c.plain) = c.end - c.start
  BY <1>1, ChunkOffsets DEF Keyed
<1> QED
  BY <1>1, <1>2, <1>3 DEF Covers

LEMMA ConcatenationHolds ==
    ASSUME NEW k \in Key, Keyed(chunks[k]), NEW n \in Nat, Tile(chunks[k], n), EndOf(chunks[k]) = n
    PROVE  Concatenation(k) \in Seq(Record) /\ HoldTheHashed(chunks[k], Concatenation(k), n)
<1> DEFINE hash == [i \in 1 .. n |-> RecordAt(k, i)]
<1>1. ASSUME NEW i \in 1 .. n
      PROVE  RecordAt(k, i) \in Record
  <2>1. PICK c \in chunks[k] : /\ i - c.start \in 1 .. Len(c.plain)
                               /\ RecordAt(k, i) = c.plain[i - c.start]
    BY TileRecords
  <2>2. c.plain \in Seq(Record)
    BY ChunkOffsets DEF Keyed
  <2> QED
    BY <2>1, <2>2
<1>2. hash \in Seq(Record) /\ Len(hash) = n
  BY <1>1
<1>3. ASSUME NEW c \in chunks[k], NEW j \in 1 .. Len(c.plain)
      PROVE  c.plain[j] = hash[c.start + j]
  <2>1. c.start \in Nat /\ c.end \in Nat /\ c.end <= n /\ Len(c.plain) = c.end - c.start
    BY ChunkOffsets DEF Keyed, Tile
  <2>2. c.start + j \in 1 .. n /\ c.start < c.start + j /\ c.start + j <= c.end
    BY <2>1
  <2> DEFINE i == c.start + j
  <2> HIDE DEF i
  <2>3. PICK d \in chunks[k] : Covers(d, i) /\ RecordAt(k, i) = d.plain[i - d.start]
    <3>1. i \in 1 .. n
      BY <2>2 DEF i
    <3> QED
      BY <3>1, TileRecords
  <2>4. d.start \in Nat /\ d.end \in Nat
    BY ChunkOffsets DEF Keyed
  <2>5. d = c
    <3>1. c = d \/ c.end <= d.start \/ d.end <= c.start
      BY DEF Tile
    <3> QED
      BY <2>1, <2>2, <2>3, <2>4, <3>1 DEF Covers, i
  <2>6. i - c.start = j /\ hash[i] = RecordAt(k, i)
    BY <2>1, <2>2 DEF i
  <2> HIDE DEF hash
  <2> QED
    BY <2>3, <2>5, <2>6 DEF i
<1>4. Concatenation(k) = hash
  BY DEF Concatenation
<1> HIDE DEF hash
<1> QED
  BY <1>2, <1>3, <1>4 DEF HoldTheHashed

LEMMA HashedIsConcatenation ==
    ASSUME NEW k \in Key, Keyed(chunks[k]), NEW n \in Nat \ {0},
           NEW hash \in Seq(Record), HoldTheHashed(chunks[k], hash, n)
    PROVE  hash = Concatenation(k)
<1>1. EndOf(chunks[k]) = n /\ Tile(chunks[k], n) /\ Len(hash) = n
  BY TilesNoGap DEF HoldTheHashed, Keyed
<1>2. \A i \in 1 .. n : RecordAt(k, i) = hash[i]
  <2> SUFFICES ASSUME NEW i \in 1 .. n
               PROVE  RecordAt(k, i) = hash[i]
    OBVIOUS
  <2>1. PICK c \in chunks[k] : /\ i - c.start \in 1 .. Len(c.plain)
                               /\ RecordAt(k, i) = c.plain[i - c.start]
    BY <1>1, TileRecords
  <2>2. c.plain[i - c.start] = hash[c.start + (i - c.start)]
    BY <2>1 DEF HoldTheHashed
  <2>3. c.start + (i - c.start) = i
    BY ChunkOffsets DEF Keyed
  <2> QED
    BY <2>1, <2>2, <2>3
<1>3. Concatenation(k) = [i \in 1 .. Len(hash) |-> hash[i]]
  BY <1>1, <1>2 DEF Concatenation
<1> QED
  BY <1>3

LEMMA ExtendHeld ==
    ASSUME NEW cs, Keyed(cs), NEW hash \in Seq(Record), NEW n \in Nat,
           HoldTheHashed(cs, hash, n), NEW u \in Request,
           u.start = n, u.end > u.start, Len(u.plain) = u.end - u.start
    PROVE  HoldTheHashed(cs \cup {NewChunk(u)}, hash \o u.plain, u.end)
<1> DEFINE c1 == NewChunk(u)
           h1 == hash \o u.plain
<1>1. /\ u.plain \in Seq(Record) /\ u.end \in Nat /\ Len(u.plain) \in Nat
      /\ c1.start = n /\ c1.end = u.end /\ c1.plain = u.plain
  BY LenProperties DEF Request, NewChunk
<1>2. /\ Len(hash) = n /\ Tile(cs, n)
      /\ \A c \in cs : c.start \in Nat /\ c.end \in Nat /\ Len(c.plain) = c.end - c.start
  BY ChunkOffsets DEF HoldTheHashed, Keyed
<1>3. /\ Len(h1) = u.end
      /\ \A i \in 1 .. n : h1[i] = hash[i]
      /\ \A i \in 1 .. Len(u.plain) : h1[n + i] = u.plain[i]
  <2>1. /\ Len(h1) = Len(hash) + Len(u.plain)
        /\ \A i \in 1 .. Len(hash) + Len(u.plain) :
              h1[i] = IF i <= Len(hash) THEN hash[i] ELSE u.plain[i - Len(hash)]
    BY <1>1, ConcatProperties
  <2> HIDE DEF h1, c1
  <2>2. Len(h1) = u.end
    BY <1>1, <1>2, <2>1
  <2>3. ASSUME NEW i \in 1 .. n
        PROVE  h1[i] = hash[i]
    <3>1. i \in 1 .. Len(hash) + Len(u.plain) /\ i <= Len(hash)
      BY <1>1, <1>2
    <3> QED
      BY <2>1, <3>1
  <2>4. ASSUME NEW i \in 1 .. Len(u.plain)
        PROVE  h1[n + i] = u.plain[i]
    <3>1. PICK j \in 1 .. Len(hash) + Len(u.plain) : j = n + i
      BY <1>1, <1>2
    <3>2. ~ (j <= Len(hash)) /\ j - Len(hash) = i
      BY <1>1, <1>2, <3>1
    <3>3. h1[j] = u.plain[j - Len(hash)]
      BY <2>1, <3>2
    <3> QED
      BY <3>1, <3>2, <3>3
  <2> QED
    BY <2>2, <2>3, <2>4
<1> HIDE DEF c1, h1
<1>4. Tile(cs \cup {c1}, u.end)
  <2>1. \A c \in cs \cup {c1} :
          /\ c.start < c.end /\ c.end <= u.end
          /\ \A d \in cs \cup {c1} : c = d \/ c.end <= d.start \/ d.end <= c.start
    BY <1>1, <1>2 DEF Tile
  <2>2. ASSUME NEW i \in 1 .. u.end
        PROVE  \E c \in cs \cup {c1} : Covers(c, i)
    <3>1. CASE i <= n
      BY <1>2, <3>1 DEF Tile
    <3>2. CASE i > n
      BY <1>1, <3>2 DEF Covers
    <3> QED
      BY <3>1, <3>2
  <2> QED
    BY <2>1, <2>2 DEF Tile
<1>5. ASSUME NEW c \in cs \cup {c1}, NEW j \in 1 .. Len(c.plain)
      PROVE  c.plain[j] = h1[c.start + j]
  <2>1. CASE c \in cs
    <3>1. c.plain[j] = hash[c.start + j]
      BY <2>1 DEF HoldTheHashed
    <3>2. c.start + j \in 1 .. n
      BY <1>2, <2>1 DEF Tile
    <3> QED
      BY <1>3, <3>1, <3>2
  <2>2. CASE c = c1
    BY <1>1, <1>3, <2>2
  <2> QED
    BY <2>1, <2>2
<1> QED
  BY <1>3, <1>4, <1>5 DEF HoldTheHashed, c1, h1

-----------------------------------------------------------------------------
(***************************************************************************)
(* The invariant.  A session is pending until its row is of the current    *)
(* version with a hash state, and never again.  A server that has listed   *)
(* the pending ones keeps those that still are on its list, and what it    *)
(* verified stays true of a session as long as the session is pending with *)
(* the end it had: a chunk stored since moves the end on.                  *)
(***************************************************************************)
RowlessIsEmpty == \A k \in Key : ~ Known(k) => chunks[k] = {}

ChunksAreKeyed == \A k \in Key : Keyed(chunks[k])

MigratedHolds ==
    \A k \in Key : Known(k) /\ version[k] = 1 =>
        /\ HoldTheHashed(chunks[k], sessions[k].hash, sessions[k].next)
        /\ sessions[k].meta = sessions[k].hash[1]
        /\ seal[k] \subseteq ServerKey

ListsAllPending(q) ==
    q.pc \in {"verifying", "finishing"} =>
        \A k \in Key : IsPending(k) => \E p \in q.todo : p.key = k

ServesNonePending(q) == q.pc = "serving" => \A k \in Key : ~ IsPending(k)

ListedBefore(q) ==
    \A p \in q.todo : IsPending(p.key) => p.next <= sessions[p.key].next

FirstOf(todo) == CHOOSE p \in todo : \A q \in todo : p.id <= q.id

VerifiedStays(q) ==
    q.pc = "finishing" =>
        /\ q.todo # {}
        /\ Unfinished(FirstOf(q.todo)) =>
              /\ HoldTheHashed(chunks[FirstOf(q.todo).key], q.hash, FirstOf(q.todo).next)
              /\ seal[FirstOf(q.todo).key] \subseteq ServerKey

ServerInv(q) ==
    ListsAllPending(q) /\ ServesNonePending(q) /\ ListedBefore(q) /\ VerifiedStays(q)

MigrationInv ==
    /\ StartupTypeOK
    /\ RowlessIsEmpty
    /\ ChunksAreKeyed
    /\ MigratedHolds
    /\ \A s \in Server : ServerInv(servers[s])

LEMMA FirstIsListed ==
    ASSUME NEW todo \in SUBSET Pending, todo # {}
    PROVE  FirstOf(todo) \in todo /\ FirstOf(todo) \in Pending
<1> DEFINE S == {p.id : p \in todo}
<1>1. S \in SUBSET Nat /\ S # {}
  BY DEF Pending
<1>2. \E s \in S : \A t \in S : s <= t
  <2> HIDE DEF S
  <2> QED
    BY <1>1, LeastOfNat
<1> QED
  BY <1>2 DEF FirstOf

(* A row of the current version has a hash state.                          *)
LEMMA RowTypes ==
    ASSUME MigrationInv, NEW k \in Key, Known(k)
    PROVE  /\ sessions[k] \in SessionRow
           /\ sessions[k].next \in Nat \ {0} /\ sessions[k].hash \in Seq(Record)
           /\ version[k] \in {0, 1}
           /\ IsPending(k) <=> version[k] = 0
           /\ version[k] = 1 => sessions[k].hash # << >>
<1>1. sessions[k] \in SessionRow /\ version[k] \in {0, 1}
  BY DEF MigrationInv, StartupTypeOK, TypeOK, Known
<1>2. sessions[k].next \in Nat \ {0} /\ sessions[k].hash \in Seq(Record)
  BY <1>1 DEF SessionRow
<1>3. version[k] = 1 => sessions[k].hash # << >>
  <2> SUFFICES ASSUME version[k] = 1, sessions[k].hash = << >>
               PROVE  FALSE
    OBVIOUS
  <2>1. Len(sessions[k].hash) = sessions[k].next
    BY DEF MigrationInv, MigratedHolds, HoldTheHashed
  <2> QED
    BY <1>2, <2>1
<1> QED
  BY <1>1, <1>2, <1>3 DEF IsPending

LEMMA LatestOfFinite ==
    ASSUME NEW S \in SUBSET Nat, IsFiniteSet(S), S # {}
    PROVE  Latest(S) \in Nat
<1> DEFINE f == [s \in S |-> s]
<1>1. f \in [S -> Nat]
  OBVIOUS
<1>2. \E s \in S : \A t \in S : f[t] <= f[s]
  <2> HIDE DEF f
  <2> QED
    BY <1>1, GreatestOfFinite
<1> QED
  BY <1>2 DEF Latest

LEMMA InitMigrationInv == StartupInit => MigrationInv
<1> SUFFICES ASSUME StartupInit PROVE MigrationInv
  OBVIOUS
<1>1. PICK old \in [Key -> UNION {OldSession[k] : k \in Key}] :
         /\ \A k \in Key : old[k] \in OldSession[k]
         /\ sessions = [k \in Key |-> old[k].row]
         /\ chunks = [k \in Key |-> old[k].chunks]
         /\ seal = [k \in Key |-> old[k].seal]
  BY DEF StartupInit
<1>2. /\ events = [k \in Key |-> {}] /\ fts = {} /\ nextEventId = 1
      /\ nextSessionId = Latest({0} \cup {sessions[k].id : k \in {k \in Key : Known(k)}}) + 1
      /\ version = [k \in Key |-> 0] /\ servers = [s \in Server |-> Down]
  BY DEF StartupInit
<1>3. \A k \in Key :
         /\ sessions[k] \in SessionRow \cup {NoRow}
         /\ sessions[k] = NoRow => chunks[k] = {}
         /\ sessions[k] # NoRow => sessions[k].id <= MaxRowId
         /\ Keyed(chunks[k])
         /\ seal[k] \in SUBSET (ServerKey \cup {Spoilt})
         /\ chunks[k] \in SUBSET ChunkRow
  BY <1>1, OldAssumption DEF Keyed
<1>4. nextSessionId \in Nat \ {0}
  <2> DEFINE ids == {0} \cup {sessions[k].id : k \in {k \in Key : Known(k)}}
  <2>1. \A k \in Key : Known(k) => sessions[k].id \in 0 .. MaxRowId
    <3>1. \A r \in SessionRow : r.id \in Nat
      BY DEF SessionRow
    <3> QED
      BY <1>3, <3>1, MaxRowIdAssumption DEF Known
  <2>2. ids \in SUBSET (0 .. MaxRowId)
    BY <2>1, MaxRowIdAssumption
  <2> HIDE DEF ids
  <2>3. IsFiniteSet(ids) /\ ids \in SUBSET Nat
    <3>1. IsFiniteSet(0 .. MaxRowId) /\ 0 .. MaxRowId \subseteq Nat
      BY FS_Interval, MaxRowIdAssumption
    <3> QED
      BY <2>2, <3>1, FS_Subset
  <2>4. Latest(ids) \in Nat
    <3>1. ids # {}
      BY DEF ids
    <3> QED
      BY <2>3, <3>1, LatestOfFinite
  <2> QED
    BY <1>2, <2>4 DEF ids
<1>5. Down \in Process /\ Down.pc = "down" /\ Down.todo = {}
  BY DEF Down, Ended, Process
<1>6. StartupTypeOK
  <2>1. TypeOK
    BY <1>1, <1>2, <1>3, <1>4 DEF TypeOK
  <2> QED
    BY <1>1, <1>2, <1>3, <1>5, <2>1 DEF StartupTypeOK
<1>7. \A s \in Server : ServerInv(servers[s])
  <2>1. \A s \in Server : servers[s] = Down
    BY <1>2
  <2> QED
    BY <1>5, <2>1 DEF ServerInv, ListsAllPending, ServesNonePending, ListedBefore, VerifiedStays
<1>8. MigratedHolds
  BY <1>2 DEF MigratedHolds
<1> QED
  BY <1>3, <1>6, <1>7, <1>8 DEF MigrationInv, RowlessIsEmpty, ChunksAreKeyed, Known

-----------------------------------------------------------------------------
(* Steps of a server that only read the database.                          *)
LEMMA ReadingStep ==
    ASSUME MigrationInv, DatabaseUnchanged, NEW s \in Server, NEW q \in Process,
           servers' = [servers EXCEPT ![s] = q], ServerInv(q)
    PROVE  MigrationInv'
<1>1. /\ sessions' = sessions /\ chunks' = chunks /\ events' = events /\ fts' = fts
      /\ nextSessionId' = nextSessionId /\ nextEventId' = nextEventId
      /\ version' = version /\ seal' = seal
  BY DEF DatabaseUnchanged, vars
<1>2. servers' \in [Server -> Process]
  BY DEF MigrationInv, StartupTypeOK
<1>3. StartupTypeOK'
  BY <1>1, <1>2 DEF MigrationInv, StartupTypeOK, TypeOK
<1>4. RowlessIsEmpty' /\ ChunksAreKeyed' /\ MigratedHolds'
  BY <1>1 DEF MigrationInv, RowlessIsEmpty, ChunksAreKeyed, MigratedHolds, Known
<1>5. ASSUME NEW j \in Server
      PROVE  ServerInv(servers[j])'
  <2>1. servers'[j] = IF j = s THEN q ELSE servers[j]
    BY DEF MigrationInv, StartupTypeOK
  <2>2. ServerInv(servers'[j])
    BY <2>1 DEF MigrationInv
  <2> QED
    BY <1>1, <2>2 DEF ServerInv, ListsAllPending, ServesNonePending, ListedBefore, VerifiedStays,
                      IsPending, Unfinished, Known
<1> QED
  BY <1>3, <1>4, <1>5 DEF MigrationInv

LEMMA OpenInv ==
    ASSUME MigrationInv, NEW s \in Server, NEW keys \in SUBSET ServerKey, Open(s, keys)
    PROVE  MigrationInv'
<1> DEFINE q == [Down EXCEPT !.pc = "opened", !.keys = keys]
<1>1. q \in Process /\ q.pc = "opened" /\ q.todo = {}
  <2>1. Down \in Process /\ Down.todo = {}
    BY DEF Down, Ended, Process
  <2> QED
    BY <2>1 DEF Process
<1>2. servers' = [servers EXCEPT ![s] = q] /\ DatabaseUnchanged
  BY DEF Open, Goes
<1> HIDE DEF q
<1>3. ServerInv(q)
  BY <1>1 DEF ServerInv, ListsAllPending, ServesNonePending, ListedBefore, VerifiedStays
<1> QED
  BY <1>1, <1>2, <1>3, ReadingStep

LEMMA EndedInv ==
    ASSUME MigrationInv, DatabaseUnchanged, NEW s \in Server, NEW how \in {"down", "failed"},
           servers' = [servers EXCEPT ![s] = Ended(how)]
    PROVE  MigrationInv'
<1>1. Ended(how) \in Process /\ Ended(how).pc = how /\ Ended(how).todo = {}
  BY DEF Ended, Process
<1>2. ServerInv(Ended(how))
  BY <1>1 DEF ServerInv, ListsAllPending, ServesNonePending, ListedBefore, VerifiedStays
<1> QED
  BY <1>1, <1>2, ReadingStep

LEMMA ListPendingInv ==
    ASSUME MigrationInv, NEW s \in Server, ListPending(s)
    PROVE  MigrationInv'
<1> DEFINE q == [servers[s] EXCEPT !.pc = "verifying", !.todo = PendingSessions]
<1>1. servers[s] \in Process /\ servers' = [servers EXCEPT ![s] = q] /\ DatabaseUnchanged
  BY DEF ListPending, Goes, MigrationInv, StartupTypeOK
<1>2. PendingSessions \in SUBSET Pending
  <2> SUFFICES ASSUME NEW k \in Key, IsPending(k)
               PROVE  [id |-> sessions[k].id, key |-> k, next |-> sessions[k].next] \in Pending
    BY DEF PendingSessions
  <2>1. sessions[k] \in SessionRow
    BY RowTypes DEF IsPending
  <2> QED
    BY <2>1 DEF SessionRow, Pending
<1>3. q \in Process /\ q.pc = "verifying" /\ q.todo = PendingSessions
  BY <1>1, <1>2 DEF Process
<1> HIDE DEF q
<1>4. \A k \in Key : IsPending(k) => \E p \in PendingSessions : p.key = k
  <2> SUFFICES ASSUME NEW k \in Key, IsPending(k)
               PROVE  \E p \in PendingSessions : p.key = k
    OBVIOUS
  <2> DEFINE p == [id |-> sessions[k].id, key |-> k, next |-> sessions[k].next]
  <2>1. p \in PendingSessions /\ p.key = k
    BY DEF PendingSessions
  <2> HIDE DEF p
  <2> QED
    BY <2>1
<1>5. \A p \in PendingSessions : IsPending(p.key) => p.next <= sessions[p.key].next
  <2> SUFFICES ASSUME NEW k \in Key, IsPending(k)
               PROVE  sessions[k].next <= sessions[k].next
    BY DEF PendingSessions
  <2>1. sessions[k].next \in Nat
    BY RowTypes DEF IsPending
  <2> QED
    BY <2>1
<1>6. ServerInv(q)
  BY <1>3, <1>4, <1>5 DEF ServerInv, ListsAllPending, ServesNonePending, ListedBefore, VerifiedStays
<1> QED
  BY <1>1, <1>3, <1>6, ReadingStep

LEMMA ListenInv ==
    ASSUME MigrationInv, NEW s \in Server, Listen(s)
    PROVE  MigrationInv'
<1> DEFINE q == [servers[s] EXCEPT !.pc = "serving"]
<1>1. servers[s] \in Process /\ servers' = [servers EXCEPT ![s] = q] /\ DatabaseUnchanged
  BY DEF Listen, Goes, MigrationInv, StartupTypeOK
<1>2. q \in Process /\ q.pc = "serving" /\ q.todo = {}
  BY <1>1 DEF Process, Listen
<1> HIDE DEF q
<1>3. \A k \in Key : ~ IsPending(k)
  BY DEF Listen, MigrationInv, ServerInv, ListsAllPending
<1>4. ServerInv(q)
  BY <1>2, <1>3 DEF ServerInv, ListsAllPending, ServesNonePending, ListedBefore, VerifiedStays
<1> QED
  BY <1>1, <1>2, <1>4, ReadingStep

(* The checks of Verify are enough for the hash it takes to be that of the *)
(* archive up to the listed end.                                           *)
LEMMA VerifyInv ==
    ASSUME MigrationInv, NEW s \in Server, Verify(s)
    PROVE  MigrationInv'
<1> DEFINE p == FirstOf(servers[s].todo)
           k == p.key
<1>1. servers[s] \in Process /\ servers[s].todo \in SUBSET Pending /\ servers[s].todo # {}
      /\ DatabaseUnchanged /\ servers[s].pc = "verifying"
  BY DEF MigrationInv, StartupTypeOK, Verify, Process
<1>2. Current(s) = p
  BY DEF Current, FirstOf
<1>3. p \in servers[s].todo /\ k \in Key /\ p.next \in Nat
  BY <1>1, FirstIsListed DEF Pending
<1> HIDE DEF p
<1>4. CASE ~ Verified(p, servers[s].keys)
  BY <1>1, <1>2, <1>4, EndedInv DEF Verify, Goes, Failed
<1>5. CASE Verified(p, servers[s].keys)
  <2> DEFINE q == [servers[s] EXCEPT !.pc = "finishing", !.hash = Concatenation(k)]
  <2>1. servers' = [servers EXCEPT ![s] = q]
    BY <1>2, <1>5 DEF Verify, Goes
  <2>2. Keyed(chunks[k])
    BY <1>3 DEF MigrationInv, ChunksAreKeyed
  <2>3. \A c \in chunks[k] : c.start < c.end
    <3> SUFFICES ASSUME NEW c \in chunks[k]
                 PROVE  c.start < c.end
      OBVIOUS
    <3>1. c.plain # << >>
      BY <1>5 DEF Verified, Parses
    <3>2. /\ c.start \in Nat /\ c.end \in Nat /\ c.plain \in Seq(Record) /\ Len(c.plain) \in Nat
          /\ Len(c.plain) = c.end - c.start
      BY <2>2, ChunkOffsets DEF Keyed
    <3> QED
      BY <3>1, <3>2
  <2>4. Tile(chunks[k], p.next) /\ EndOf(chunks[k]) = p.next
    BY <1>5, <2>2, <2>3, NoGapTiles DEF Verified
  <2>5. Concatenation(k) \in Seq(Record) /\ HoldTheHashed(chunks[k], Concatenation(k), p.next)
    BY <1>3, <2>2, <2>4, ConcatenationHolds
  <2>6. /\ q \in Process /\ q.pc = "finishing" /\ q.todo = servers[s].todo
        /\ q.hash = Concatenation(k)
    BY <1>1, <2>5 DEF Process
  <2> HIDE DEF q
  <2>7. seal[k] \subseteq ServerKey
    BY <1>1, <1>5 DEF Verified, Process
  <2>8. VerifiedStays(q)
    BY <1>1, <2>5, <2>6, <2>7 DEF VerifiedStays, p
  <2>9. ServerInv(q)
    BY <1>1, <2>6, <2>8 DEF MigrationInv, ServerInv, ListsAllPending, ServesNonePending, ListedBefore
  <2> QED
    BY <1>1, <2>1, <2>6, <2>9, ReadingStep
<1> QED
  BY <1>4, <1>5

-----------------------------------------------------------------------------
(***************************************************************************)
(* Steps that change the database.  None makes a session pending; of one   *)
(* that stays pending the end only moves on, and as long as it does not,   *)
(* neither the chunks nor their key change.                                *)
(***************************************************************************)
PendingOnlyGrows ==
    \A k \in Key : IsPending(k)' =>
        /\ IsPending(k)
        /\ sessions[k].next \in Nat /\ sessions'[k].next \in Nat
        /\ sessions[k].next <= sessions'[k].next
        /\ sessions'[k].next = sessions[k].next => chunks'[k] = chunks[k] /\ seal'[k] = seal[k]

LEMMA ServerStays ==
    ASSUME MigrationInv, PendingOnlyGrows, NEW j \in Server, servers'[j] = servers[j]
    PROVE  ServerInv(servers[j])'
<1> DEFINE q == servers[j]
<1>1. q.todo \in SUBSET Pending /\ ServerInv(q)
  BY DEF MigrationInv, StartupTypeOK, Process
<1>2. \A x \in q.todo : x.key \in Key /\ x.next \in Nat
  BY <1>1 DEF Pending
<1>3. ListsAllPending(servers[j])'
  <2>1. ListsAllPending(q)
    BY <1>1 DEF ServerInv
  <2> QED
    BY <2>1 DEF ListsAllPending, PendingOnlyGrows
<1>4. ServesNonePending(servers[j])'
  <2>1. ServesNonePending(q)
    BY <1>1 DEF ServerInv
  <2> QED
    BY <2>1 DEF ServesNonePending, PendingOnlyGrows
<1>5. ListedBefore(servers[j])'
  <2> SUFFICES ASSUME NEW x \in q.todo, IsPending(x.key)'
               PROVE  x.next <= sessions'[x.key].next
    BY DEF ListedBefore, IsPending, Known
  <2>1. IsPending(x.key) /\ x.next <= sessions[x.key].next
    BY <1>1, <1>2 DEF ServerInv, ListedBefore, PendingOnlyGrows
  <2> QED
    BY <1>2, <2>1 DEF PendingOnlyGrows
<1>6. VerifiedStays(servers[j])'
  <2> SUFFICES ASSUME q.pc = "finishing"
               PROVE  /\ q.todo # {}
                      /\ \A p \in q.todo :
                            p = FirstOf(q.todo) /\ IsPending(p.key)' /\ sessions'[p.key].next = p.next =>
                                /\ HoldTheHashed(chunks'[p.key], q.hash, p.next)
                                /\ seal'[p.key] \subseteq ServerKey
    BY <1>1, FirstIsListed DEF VerifiedStays, Unfinished, IsPending, Known
  <2>1. q.todo # {}
    BY <1>1 DEF ServerInv, VerifiedStays
  <2> HIDE DEF q
  <2> SUFFICES ASSUME NEW p \in q.todo, p = FirstOf(q.todo),
                      IsPending(p.key)', sessions'[p.key].next = p.next
               PROVE  /\ HoldTheHashed(chunks'[p.key], q.hash, p.next)
                      /\ seal'[p.key] \subseteq ServerKey
    BY <2>1
  <2>2. /\ p.key \in Key /\ p.next \in Nat
    BY <1>2
  <2>3. IsPending(p.key) /\ p.next <= sessions[p.key].next
    BY <1>1, <2>2 DEF ServerInv, ListedBefore, PendingOnlyGrows
  <2>4. sessions[p.key].next = p.next
    BY <2>2, <2>3 DEF PendingOnlyGrows
  <2>5. chunks'[p.key] = chunks[p.key] /\ seal'[p.key] = seal[p.key]
    BY <2>2, <2>4 DEF PendingOnlyGrows
  <2>6. HoldTheHashed(chunks[p.key], q.hash, p.next) /\ seal[p.key] \subseteq ServerKey
    BY <1>1, <2>3, <2>4 DEF ServerInv, VerifiedStays, Unfinished
  <2> QED
    BY <2>5, <2>6
<1> QED
  BY <1>3, <1>4, <1>5, <1>6 DEF ServerInv

(* The hash of a start is written to the row it was taken for.             *)
LEMMA FinishInv ==
    ASSUME MigrationInv, NEW s \in Server, Finish(s)
    PROVE  MigrationInv'
<1> DEFINE p == FirstOf(servers[s].todo)
           k == p.key
           hash == servers[s].hash
           row == [sessions[k] EXCEPT !.hash = hash, !.meta = hash[1]]
           q == [servers[s] EXCEPT !.pc = "verifying", !.todo = @ \ {p}, !.hash = << >>]
<1>1. /\ servers[s] \in Process /\ servers[s].todo \in SUBSET Pending
      /\ servers[s].pc = "finishing" /\ hash \in Seq(Record) /\ ServerInv(servers[s])
  BY DEF MigrationInv, StartupTypeOK, Finish, Process
<1>2. Current(s) = p
  BY DEF Current, FirstOf
<1>3. /\ Unfinished(p) /\ version' = [version EXCEPT ![k] = 1]
      /\ sessions' = [sessions EXCEPT ![k].hash = hash, ![k].meta = hash[1]]
      /\ servers' = [servers EXCEPT ![s] = q]
      /\ UNCHANGED <<chunks, events, fts, nextSessionId, nextEventId, seal, deletes>>
  BY <1>2 DEF Finish, Goes
<1>4. p \in servers[s].todo /\ k \in Key /\ p.next \in Nat
  BY <1>1, FirstIsListed DEF Pending, ServerInv, VerifiedStays
<1> HIDE DEF p, hash, q
<1>5. /\ Known(k) /\ sessions[k] \in SessionRow /\ sessions[k].next = p.next
      /\ p.next \in Nat \ {0} /\ IsPending(k)
  BY <1>3, <1>4, RowTypes DEF Unfinished, IsPending
<1>6. HoldTheHashed(chunks[k], hash, p.next) /\ seal[k] \subseteq ServerKey
  BY <1>1, <1>3 DEF ServerInv, VerifiedStays, p, hash
<1>7. hash \in Seq(Record) /\ Len(hash) = p.next /\ hash # << >> /\ hash[1] \in Record
  BY <1>1, <1>5, <1>6 DEF HoldTheHashed
<1>8. row \in SessionRow /\ row # NoRow /\ row.hash = hash /\ row.meta = hash[1] /\ row.next = p.next
  BY <1>5, <1>7, NoRowAssumption DEF SessionRow
<1>9. \A j \in Key : /\ sessions'[j] = IF j = k THEN row ELSE sessions[j]
                     /\ version'[j] = IF j = k THEN 1 ELSE version[j]
  BY <1>3 DEF MigrationInv, StartupTypeOK, TypeOK
<1> HIDE DEF row
<1>10. StartupTypeOK'
  <2>1. sessions' \in [Key -> SessionRow \cup {NoRow}]
    <3>1. sessions' = [j \in Key |-> sessions'[j]]
      BY <1>3 DEF MigrationInv, StartupTypeOK, TypeOK
    <3>2. \A j \in Key : sessions'[j] \in SessionRow \cup {NoRow}
      BY <1>8, <1>9 DEF MigrationInv, StartupTypeOK, TypeOK
    <3> QED
      BY <3>1, <3>2
  <2>2. TypeOK'
    BY <1>3, <2>1 DEF MigrationInv, StartupTypeOK, TypeOK
  <2>3. q \in Process
    <3>1. << >> \in Seq(Record)
      OBVIOUS
    <3> QED
      BY <1>1, <3>1 DEF Process, q
  <2> QED
    BY <1>3, <2>2, <2>3 DEF MigrationInv, StartupTypeOK
<1>11. \A j \in Key : Known(j)' <=> Known(j)
  BY <1>5, <1>8, <1>9 DEF Known
<1>12. RowlessIsEmpty' /\ ChunksAreKeyed'
  BY <1>3, <1>11 DEF MigrationInv, RowlessIsEmpty, ChunksAreKeyed
<1>13. MigratedHolds'
  <2> SUFFICES ASSUME NEW j \in Key, Known(j)', version'[j] = 1
               PROVE  /\ HoldTheHashed(chunks'[j], sessions'[j].hash, sessions'[j].next)
                      /\ sessions'[j].meta = sessions'[j].hash[1]
                      /\ seal'[j] \subseteq ServerKey
    BY DEF MigratedHolds
  <2>1. CASE j = k
    BY <1>3, <1>6, <1>8, <1>9, <2>1
  <2>2. CASE j # k
    <3>1. /\ sessions'[j] = sessions[j] /\ version[j] = 1 /\ Known(j)
          /\ chunks'[j] = chunks[j] /\ seal'[j] = seal[j]
      BY <1>3, <1>9, <1>11, <2>2
    <3> QED
      BY <3>1 DEF MigrationInv, MigratedHolds
  <2> QED
    BY <2>1, <2>2
<1>14. \A j \in Key : /\ IsPending(j)' <=> j # k /\ IsPending(j)
  BY <1>7, <1>8, <1>9, <1>11 DEF IsPending
<1>15. PendingOnlyGrows
  <2> SUFFICES ASSUME NEW j \in Key, IsPending(j)'
               PROVE  /\ IsPending(j) /\ sessions'[j] = sessions[j]
                      /\ sessions[j].next \in Nat
    <3>1. chunks' = chunks /\ seal' = seal
      BY <1>3
    <3> HIDE DEF k
    <3> QED
      BY <3>1 DEF PendingOnlyGrows, IsPending, Known
  <2> QED
    BY <1>9, <1>14, RowTypes DEF IsPending
<1>16. ASSUME NEW j \in Server
       PROVE  ServerInv(servers[j])'
  <2>1. CASE j # s
    BY <1>3, <1>15, <2>1, ServerStays DEF MigrationInv, StartupTypeOK
  <2>2. CASE j = s
    <3>1. servers'[j] = q
      BY <1>3, <2>2 DEF MigrationInv, StartupTypeOK
    <3>2. q.pc = "verifying" /\ q.todo = servers[s].todo \ {p}
      BY <1>1 DEF Process, q
    <3>3. \A i \in Key : IsPending(i)' => \E x \in q.todo : x.key = i
      <4> SUFFICES ASSUME NEW i \in Key, IsPending(i), i # k
                   PROVE  \E x \in q.todo : x.key = i
        BY <1>14
      <4>1. PICK x \in servers[s].todo : x.key = i
        BY <1>1 DEF ServerInv, ListsAllPending
      <4> QED
        BY <3>2, <4>1
    <3>4. \A x \in q.todo : IsPending(x.key)' => x.next <= sessions'[x.key].next
      <4> SUFFICES ASSUME NEW x \in servers[s].todo, IsPending(x.key)'
                   PROVE  x.next <= sessions'[x.key].next
        BY <3>2 DEF IsPending, Known
      <4>1. x.key \in Key
        BY <1>1 DEF Pending
      <4> QED
        BY <1>1, <1>9, <1>14, <4>1 DEF ServerInv, ListedBefore
    <3> QED
      BY <3>1, <3>2, <3>3, <3>4 DEF ServerInv, ListsAllPending, ServesNonePending, ListedBefore,
                                    VerifiedStays, IsPending, Known
  <2> QED
    BY <2>1, <2>2
<1> QED
  BY <1>10, <1>12, <1>13, <1>16 DEF MigrationInv

LEMMA DeleteInv ==
    ASSUME MigrationInv, NEW k \in Key, Delete(k)
    PROVE  MigrationInv'
<1>1. DeleteSession(k) /\ UNCHANGED <<version, seal, servers>> /\ TypeOK
  BY DEF Delete, MigrationInv, StartupTypeOK
<1>2. TypeOK'
  BY <1>1, DeleteTypeOK
<1>3. \A j \in Key : /\ Known(j)' <=> j # k /\ Known(j)
                     /\ sessions'[j] = IF j = k THEN NoRow ELSE sessions[j]
                     /\ chunks'[j] = IF j = k THEN {} ELSE chunks[j]
  BY <1>1, DeleteReads DEF DeleteSession, TypeOK
<1>4. StartupTypeOK'
  BY <1>1, <1>2 DEF MigrationInv, StartupTypeOK
<1>5. RowlessIsEmpty'
  BY <1>3 DEF MigrationInv, RowlessIsEmpty
<1>6. ChunksAreKeyed'
  <2>1. Keyed({})
    BY FS_EmptySet DEF Keyed
  <2> QED
    BY <1>3, <2>1 DEF MigrationInv, ChunksAreKeyed
<1>7. MigratedHolds'
  <2> SUFFICES ASSUME NEW j \in Key, Known(j)', version'[j] = 1
               PROVE  /\ HoldTheHashed(chunks'[j], sessions'[j].hash, sessions'[j].next)
                      /\ sessions'[j].meta = sessions'[j].hash[1]
                      /\ seal'[j] \subseteq ServerKey
    BY DEF MigratedHolds
  <2>1. j # k /\ Known(j)
    BY <1>3
  <2> QED
    BY <1>1, <1>3, <2>1 DEF MigrationInv, MigratedHolds
<1>8. PendingOnlyGrows
  <2> SUFFICES ASSUME NEW j \in Key, IsPending(j)'
               PROVE  /\ IsPending(j) /\ sessions'[j] = sessions[j] /\ chunks'[j] = chunks[j]
                      /\ sessions[j].next \in Nat
    BY <1>1 DEF PendingOnlyGrows
  <2>1. j # k /\ Known(j)
    BY <1>3 DEF IsPending
  <2> QED
    BY <1>1, <1>3, <2>1, RowTypes DEF IsPending
<1> QED
  BY <1>1, <1>4, <1>5, <1>6, <1>7, <1>8, ServerStays DEF MigrationInv

LEMMA ServeInv ==
    ASSUME MigrationInv, NEW k \in Key, NEW u \in Upload, Serve(k, u)
    PROVE  MigrationInv'
<1>1. /\ PutChunk(k, u) /\ ~ HasNoHash(k) /\ u \in Request /\ TypeOK
      /\ version' = [version EXCEPT ![k] = IF Known(k) THEN @ ELSE 1]
      /\ seal' = [seal EXCEPT ![k] = (IF Known(k) THEN @ ELSE {}) \cup {CurrentKey}]
      /\ servers' = servers
  BY UploadAssumption DEF Serve, MigrationInv, StartupTypeOK
<1>2. /\ u.plain \in Seq(Record) /\ u.start \in Nat /\ u.end \in Nat /\ Len(u.plain) \in Nat
      /\ u.start = NextOffset(k) /\ u.end > u.start /\ Len(u.plain) = u.end - u.start
      /\ \A c \in chunks[k] : c.start # u.start
  BY <1>1, LenProperties DEF Request, PutChunk, Storable, Acceptable, IsNext, KeysFree
<1>3. /\ HashState(k) \in Seq(Record) /\ NextOffset(k) \in Nat
  BY <1>1, ReadTypes
<1>4. /\ RowAfter(k, u).next = u.end /\ RowAfter(k, u).hash = HashState(k) \o u.plain
      /\ RowAfter(k, u).meta = MetaOf(k, u)
  BY DEF RowAfter
<1>5. \A j \in Key : /\ Known(j)' <=> j = k \/ Known(j)
                     /\ sessions'[j] = IF j = k THEN RowAfter(k, u) ELSE sessions[j]
                     /\ chunks'[j] = IF j = k THEN chunks[k] \cup {NewChunk(u)} ELSE chunks[j]
                     /\ version'[j] = IF j = k /\ ~ Known(k) THEN 1 ELSE version[j]
                     /\ seal'[j] = IF j = k THEN (IF Known(k) THEN seal[k] ELSE {}) \cup {CurrentKey} ELSE seal[j]
  BY <1>1, PutChunkReads DEF PutChunk, TypeOK, MigrationInv, StartupTypeOK
<1>6. StartupTypeOK'
  <2>1. TypeOK'
    BY <1>1, PutChunkTypeOK
  <2>2. version' \in [Key -> {0, 1}] /\ seal' \in [Key -> SUBSET (ServerKey \cup {Spoilt})]
    BY <1>1, KeyAssumption DEF MigrationInv, StartupTypeOK
  <2> QED
    BY <1>1, <2>1, <2>2 DEF MigrationInv, StartupTypeOK
<1>7. RowlessIsEmpty'
  BY <1>5 DEF MigrationInv, RowlessIsEmpty
<1>8. ChunksAreKeyed'
  <2>1. Keyed(chunks[k])
    BY DEF MigrationInv, ChunksAreKeyed
  <2>2. /\ NewChunk(u) \in ChunkRow /\ NewChunk(u).start = u.start
        /\ Len(NewChunk(u).plain) = NewChunk(u).end - NewChunk(u).start
    BY <1>2 DEF NewChunk, ChunkRow
  <2>3. IsFiniteSet(chunks[k] \cup {NewChunk(u)})
    BY <2>1, FS_AddElement DEF Keyed
  <2>4. Keyed(chunks[k] \cup {NewChunk(u)})
    BY <1>2, <2>1, <2>2, <2>3 DEF Keyed
  <2> QED
    BY <1>5, <2>4 DEF MigrationInv, ChunksAreKeyed
<1>9. ASSUME ~ Known(k) \/ version[k] = 1
      PROVE  HoldTheHashed(chunks[k], HashState(k), NextOffset(k))
  <2>1. CASE Known(k)
    BY <1>9, <2>1 DEF MigrationInv, MigratedHolds, HashState, NextOffset
  <2>2. CASE ~ Known(k)
    <3>1. chunks[k] = {} /\ HashState(k) = << >> /\ NextOffset(k) = 0
      BY <2>2 DEF MigrationInv, RowlessIsEmpty, HashState, NextOffset
    <3> QED
      BY <3>1 DEF HoldTheHashed, Tile
  <2> QED
    BY <2>1, <2>2
<1>10. MigratedHolds'
  <2> SUFFICES ASSUME NEW j \in Key, Known(j)', version'[j] = 1
               PROVE  /\ HoldTheHashed(chunks'[j], sessions'[j].hash, sessions'[j].next)
                      /\ sessions'[j].meta = sessions'[j].hash[1]
                      /\ seal'[j] \subseteq ServerKey
    BY DEF MigratedHolds
  <2>1. CASE j # k
    <3>1. /\ sessions'[j] = sessions[j] /\ version[j] = 1 /\ Known(j)
          /\ chunks'[j] = chunks[j] /\ seal'[j] = seal[j]
      BY <1>5, <2>1
    <3> QED
      BY <3>1 DEF MigrationInv, MigratedHolds
  <2>2. CASE j = k
    <3>1. ~ Known(k) \/ version[k] = 1
      BY <1>5, <2>2
    <3>2. HoldTheHashed(chunks[k] \cup {NewChunk(u)}, HashState(k) \o u.plain, u.end)
      <4>1. Keyed(chunks[k])
        BY DEF MigrationInv, ChunksAreKeyed
      <4> QED
        BY <1>1, <1>2, <1>3, <1>9, <3>1, <4>1, ExtendHeld
    <3>3. MetaOf(k, u) = (HashState(k) \o u.plain)[1]
      <4>1. CASE Known(k)
        <5>1. /\ sessions[k].meta = HashState(k)[1] /\ Len(HashState(k)) = sessions[k].next
              /\ sessions[k].next \in Nat \ {0}
          BY <3>1, <4>1, RowTypes DEF MigrationInv, MigratedHolds, HoldTheHashed, HashState
        <5>2. (HashState(k) \o u.plain)[1] = HashState(k)[1]
          BY <1>2, <1>3, <5>1, ConcatProperties
        <5> QED
          BY <4>1, <5>1, <5>2 DEF MetaOf
      <4>2. CASE ~ Known(k)
        <5>1. HashState(k) = << >>
          BY <4>2 DEF HashState
        <5>2. HashState(k) \o u.plain = u.plain
          BY <1>2, <5>1
        <5> QED
          BY <4>2, <5>2 DEF MetaOf
      <4> QED
        BY <4>1, <4>2
    <3>4. seal'[k] \subseteq ServerKey
      BY <1>5, <3>1, KeyAssumption DEF MigrationInv, MigratedHolds
    <3> QED
      BY <1>4, <1>5, <2>2, <3>2, <3>3, <3>4
  <2> QED
    BY <2>1, <2>2
<1>11. PendingOnlyGrows
  <2> SUFFICES ASSUME NEW j \in Key, IsPending(j)'
               PROVE  /\ IsPending(j)
                      /\ sessions[j].next \in Nat /\ sessions'[j].next \in Nat
                      /\ sessions[j].next <= sessions'[j].next
                      /\ sessions'[j].next = sessions[j].next =>
                            chunks'[j] = chunks[j] /\ seal'[j] = seal[j]
    BY DEF PendingOnlyGrows
  <2>1. CASE j # k
    <3>1. /\ sessions'[j] = sessions[j] /\ version'[j] = version[j] /\ Known(j)
          /\ chunks'[j] = chunks[j] /\ seal'[j] = seal[j]
      BY <1>5, <2>1 DEF IsPending
    <3> QED
      BY <3>1, RowTypes DEF IsPending
  <2>2. CASE j = k
    <3>1. sessions'[k].next = u.end /\ sessions'[k].hash = HashState(k) \o u.plain
      BY <1>4, <1>5
    <3>2. HashState(k) \o u.plain # << >>
      <4>1. Len(HashState(k) \o u.plain) = Len(HashState(k)) + Len(u.plain) /\ Len(HashState(k)) \in Nat
        BY <1>2, <1>3, ConcatProperties, LenProperties
      <4> QED
        BY <1>2, <4>1
    <3>3. version'[k] < 1
      BY <2>2, <3>1, <3>2 DEF IsPending
    <3>4. Known(k) /\ version[k] = version'[k]
      BY <1>5, <3>3
    <3>5. IsPending(k)
      BY <3>3, <3>4 DEF IsPending
    <3>6. sessions[k].next = u.start
      BY <1>2, <3>4 DEF NextOffset
    <3> QED
      BY <1>2, <2>2, <3>1, <3>5, <3>6
  <2> QED
    BY <2>1, <2>2
<1>12. \A j \in Server : ServerInv(servers[j])'
  BY <1>1, <1>11, ServerStays
<1> QED
  BY <1>6, <1>7, <1>8, <1>10, <1>12 DEF MigrationInv

LEMMA NextMigrationInv == MigrationInv /\ [StartupNext]_allVars => MigrationInv'
<1> SUFFICES ASSUME MigrationInv, [StartupNext]_allVars
             PROVE  MigrationInv'
  OBVIOUS
<1>1. ASSUME NEW s \in Server, StartStep(s)
      PROVE  MigrationInv'
  <2>1. ASSUME NEW keys \in SUBSET ServerKey, Open(s, keys)
        PROVE  MigrationInv'
    BY <2>1, OpenInv
  <2>2. CASE ListPending(s)
    BY <2>2, ListPendingInv
  <2>3. CASE Verify(s)
    BY <2>3, VerifyInv
  <2>4. CASE Finish(s)
    BY <2>4, FinishInv
  <2>5. CASE FinishFails(s)
    BY <2>5, EndedInv DEF FinishFails, Goes, Failed
  <2>6. CASE Listen(s)
    BY <2>6, ListenInv
  <2> QED
    BY <1>1, <2>1, <2>2, <2>3, <2>4, <2>5, <2>6 DEF StartStep
<1>2. CASE Crashes
  BY <1>2, EndedInv DEF Crashes, Crash, Goes, Down
<1>3. ASSUME NEW k \in Key, NEW u \in Upload, Serve(k, u)
      PROVE  MigrationInv'
  BY <1>3, ServeInv
<1>4. ASSUME NEW k \in Key, Delete(k)
      PROVE  MigrationInv'
  BY <1>4, DeleteInv
<1>5. CASE UNCHANGED allVars
  <2>1. /\ sessions' = sessions /\ chunks' = chunks /\ events' = events /\ fts' = fts
        /\ nextSessionId' = nextSessionId /\ nextEventId' = nextEventId
        /\ version' = version /\ seal' = seal /\ servers' = servers
    BY <1>5 DEF allVars, vars, startupVars
  <2>2. StartupTypeOK'
    BY <2>1 DEF MigrationInv, StartupTypeOK, TypeOK
  <2>3. RowlessIsEmpty' /\ ChunksAreKeyed' /\ MigratedHolds'
    BY <2>1 DEF MigrationInv, RowlessIsEmpty, ChunksAreKeyed, MigratedHolds, Known
  <2>4. PendingOnlyGrows
    <3>1. \A k \in Key : IsPending(k)' => IsPending(k) /\ sessions[k].next \in Nat
      <4> SUFFICES ASSUME NEW k \in Key, IsPending(k)'
                   PROVE  IsPending(k) /\ sessions[k].next \in Nat
        OBVIOUS
      <4>1. IsPending(k)
        BY <2>1 DEF IsPending, Known
      <4> QED
        BY <4>1, RowTypes DEF IsPending
    <3> QED
      BY <2>1, <3>1 DEF PendingOnlyGrows
  <2> QED
    BY <2>1, <2>2, <2>3, <2>4, ServerStays DEF MigrationInv
<1> QED
  BY <1>1, <1>2, <1>3, <1>4, <1>5 DEF StartupNext

LEMMA MigrationInvariant == StartupSpec => []MigrationInv
BY InitMigrationInv, NextMigrationInv, PTL DEF StartupSpec

-----------------------------------------------------------------------------
(* The tables of an old database keep to the schema while servers start on *)
(* it, and each server keeps to its steps.                                 *)
THEOREM StartupTypes == StartupSpec => []StartupTypeOK
<1>1. MigrationInv => StartupTypeOK
  BY DEF MigrationInv
<1> QED
  BY <1>1, MigrationInvariant, PTL

(* README: the service does not listen until the migration has succeeded.  *)
(* No session of the earlier version is left when a server serves, however *)
(* many servers started and whatever was deleted or stored meanwhile.      *)
THEOREM ServersAreMigrated == StartupSpec => []ServingIsMigrated
<1>1. MigrationInv => ServingIsMigrated
  <2> SUFFICES ASSUME MigrationInv, NEW s \in Server, servers[s].pc = "serving",
                      NEW k \in Key, Known(k)
               PROVE  version[k] = 1 /\ sessions[k].hash # << >>
    BY DEF ServingIsMigrated
  <2>1. ~ IsPending(k)
    BY DEF MigrationInv, ServerInv, ServesNonePending
  <2> QED
    BY <2>1, RowTypes
<1> QED
  BY <1>1, MigrationInvariant, PTL

(* A row of the current version tells the archive: no start writes the     *)
(* hash of an earlier archive over it.                                     *)
THEOREM MigratedIsTrue == StartupSpec => []MigratedIsArchive
<1>1. MigrationInv => MigratedIsArchive
  <2> SUFFICES ASSUME MigrationInv, NEW k \in Key, Known(k), version[k] = 1
               PROVE  /\ NoGap(chunks[k])
                      /\ EndOf(chunks[k]) = sessions[k].next
                      /\ sessions[k].hash = Concatenation(k)
                      /\ sessions[k].meta = sessions[k].hash[1]
                      /\ seal[k] \subseteq ServerKey
    BY DEF MigratedIsArchive
  <2>1. /\ HoldTheHashed(chunks[k], sessions[k].hash, sessions[k].next)
        /\ sessions[k].meta = sessions[k].hash[1]
        /\ seal[k] \subseteq ServerKey
    BY DEF MigrationInv, MigratedHolds
  <2>2. /\ Keyed(chunks[k]) /\ chunks[k] \in SUBSET ChunkRow
        /\ sessions[k].next \in Nat \ {0} /\ sessions[k].hash \in Seq(Record)
    BY RowTypes DEF MigrationInv, ChunksAreKeyed, Keyed
  <2>3. NoGap(chunks[k]) /\ EndOf(chunks[k]) = sessions[k].next
    BY <2>1, <2>2, TilesNoGap DEF HoldTheHashed
  <2>4. sessions[k].hash = Concatenation(k)
    BY <2>1, <2>2, HashedIsConcatenation
  <2> QED
    BY <2>1, <2>3, <2>4
<1> QED
  BY <1>1, MigrationInvariant, PTL
=============================================================================
