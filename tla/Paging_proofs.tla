---------------------------- MODULE Paging_proofs ----------------------------
(***************************************************************************)
(* Proofs about Paging, for every text, page size and budget of bytes: a   *)
(* page is a run of the events behind its cursor, and the pages that       *)
(* follow each other's cursors are the transcript.                         *)
(***************************************************************************)
EXTENDS Paging, SequenceTheorems, FiniteSetTheorems, WellFoundedInduction, TLAPS

-----------------------------------------------------------------------------
(* A set of naturals that is not empty has a least element.                *)
LEMMA LeastOfNat ==
    ASSUME NEW S \in SUBSET Nat, S # {}
    PROVE  \E s \in S : \A t \in S : s <= t
<1> DEFINE T == {0 .. s : s \in S}
<1>1. \A s \in S : IsFiniteSet(0 .. s) /\ 0 .. s \in SUBSET Nat
  BY FS_Interval
<1>2. T \subseteq FiniteSubsetsOf(Nat) /\ T # {}
  BY <1>1 DEF FiniteSubsetsOf
<1>3. \E x \in T : \A y \in T : ~ (<<y, x>> \in StrictSubsetOrdering(Nat))
  <2>1. IsWellFoundedOn(StrictSubsetOrdering(Nat), FiniteSubsetsOf(Nat))
    BY FS_StrictSubsetOrderingWellFounded, Zenon
  <2> HIDE DEF T
  <2> QED
    BY <1>2, <2>1, WFMin, Zenon
<1>4. PICK s \in S : \A t \in S : ~ (<<0 .. t, 0 .. s>> \in StrictSubsetOrdering(Nat))
  BY <1>3
<1>5. ASSUME NEW t \in S, t < s PROVE FALSE
  <2>1. 0 .. t \subseteq 0 .. s
    BY <1>5
  <2>2. s \in 0 .. s /\ s \notin 0 .. t
    BY <1>5
  <2>3. 0 .. t \in SUBSET Nat /\ 0 .. s \in SUBSET Nat
    BY <1>1
  <2> QED
    BY <1>4, <2>1, <2>2, <2>3 DEF StrictSubsetOrdering
<1> QED
  BY <1>5

(* One that has a bound has a greatest.                                    *)
LEMMA GreatestOfBounded ==
    ASSUME NEW n \in Nat, NEW S \in SUBSET (0 .. n), S # {}
    PROVE  \E s \in S : \A t \in S : t <= s
<1> DEFINE T == {n - s : s \in S}
<1>1. T \in SUBSET Nat /\ T # {}
  <2>1. \A s \in S : n - s \in Nat
    OBVIOUS
  <2>2. PICK s \in S : TRUE
    OBVIOUS
  <2>3. n - s \in T
    OBVIOUS
  <2> QED
    BY <2>1, <2>3
<1>2. PICK m \in T : \A t \in T : m <= t
  <2> HIDE DEF T
  <2> QED
    BY <1>1, LeastOfNat
<1>3. PICK s \in S : m = n - s
  OBVIOUS
<1>4. ASSUME NEW t \in S PROVE t <= s
  <2>1. n - t \in T
    OBVIOUS
  <2> QED
    BY <1>2, <1>3, <2>1
<1> QED
  BY <1>4

-----------------------------------------------------------------------------
(* The events of a session, in order.                                      *)
EventRow == [seq : 1 .. MaxSeq, size : Nat, cuts : SUBSET Nat]

InOrder(s) == \A i, j \in 1 .. Len(s) : i < j => s[i].seq < s[j].seq

HaveTexts(s) == \A i \in 1 .. Len(s) : [size |-> s[i].size, cuts |-> s[i].cuts] \in EventText

IsTranscript(s) == s \in Seq(EventRow) /\ InOrder(s) /\ HaveTexts(s)

PagingTypeOK ==
    /\ IsTranscript(events) /\ IsTranscript(snapshot)
    /\ life \in 0 .. MaxLives /\ since \in 0 .. MaxLives /\ since <= life
    /\ pc \in {"ask", "scan", "answer", "refused", "done"}
    /\ cursor \in Cursor
    /\ page \in Seq(Piece) /\ got \in Seq(Piece)
    /\ used \in Nat

(* Between two requests there is nothing of a page.                        *)
Resting ==
    /\ pc \in {"ask", "done"} => snapshot = << >>
    /\ pc \in {"ask", "done", "refused"} => page = << >>
    /\ page = << >> => used = 0

(* The pieces of a page are the rows of its query one after the other, the *)
(* first from the offset of the cursor; a text that was cut is the last.   *)
PageIsRows ==
    /\ used <= MaxBytes
    /\ \A i \in 1 .. Len(page) :
          /\ i <= Len(Rows)
          /\ IsPieceOf(page[i], Rows[i])
          /\ page[i].from = IF i = 1 THEN cursor.offset ELSE 0
          /\ page[i].more => i = Len(page) /\ pc = "answer"

(* A page is made only for a cursor that fits, and is empty only for one   *)
(* at the end.                                                             *)
CursorFits ==
    /\ pc \in {"scan", "answer"} => ~ BadCursor(Rows)
    /\ pc = "answer" /\ page = << >> => Rows = << >>

(* The query has seen the beginning of the transcript that is there.       *)
SeesBeginning ==
    ~ Stale =>
        /\ Len(snapshot) <= Len(events)
        /\ \A i \in 1 .. Len(snapshot) : snapshot[i] = events[i]

(* The reader's cursor is where its last piece ends, ...                   *)
CursorIsLast ==
    cursor = IF got = << >> THEN Beginning
             ELSE [seq |-> got[Len(got)].seq,
                   offset |-> IF got[Len(got)].more THEN got[Len(got)].to ELSE 0]

(* ... and it has all before it to the last byte.                          *)
HasAllBehind ==
    ~ Stale =>
        \A j \in 1 .. Len(events) : ~ IsSelected(events[j]) => HasRead(events[j].seq)

PagingInv ==
    /\ PagingTypeOK
    /\ Resting
    /\ PageIsRows
    /\ CursorFits
    /\ SeesBeginning
    /\ CursorIsLast
    /\ HasAllBehind
    /\ ReadsInOrder

-----------------------------------------------------------------------------
LEMMA RowTypes ==
    ASSUME NEW s, IsTranscript(s)
    PROVE  /\ Len(s) \in Nat /\ s \in Seq(EventRow)
           /\ \A i \in 1 .. Len(s) :
                 /\ s[i] \in EventRow
                 /\ s[i].seq \in Nat \ {0}
<1>1. s \in Seq(EventRow)
  BY DEF IsTranscript
<1>2. Len(s) \in Nat /\ \A i \in 1 .. Len(s) : s[i] \in EventRow
  BY <1>1
<1>3. \A row \in EventRow : row.seq \in Nat \ {0}
  BY BoundAssumption DEF EventRow
<1> QED
  BY <1>1, <1>2, <1>3

(* The rows of a query.                                                    *)
LEMMA PassedRows ==
    ASSUME NEW s, IsTranscript(s), cursor \in Cursor
    PROVE  /\ Passed(s) \in 0 .. Len(s)
           /\ \A i \in 1 .. Len(s) : IsSelected(s[i]) <=> i > Passed(s)
<1> DEFINE Leaves(n) == \A i \in 1 .. Len(s) : i > n => IsSelected(s[i])
           S == {n \in 0 .. Len(s) : Leaves(n)}
<1>1. Len(s) \in Nat /\ \A i \in 1 .. Len(s) : s[i].seq \in Nat
  BY RowTypes
<1>2. PICK m \in S : \A n \in S : m <= n
  <2>1. S \in SUBSET Nat /\ Len(s) \in S
    BY <1>1
  <2> HIDE DEF S
  <2> QED
    BY <2>1, LeastOfNat
<1>3. ASSUME NEW i \in 1 .. Len(s), IsSelected(s[i]) PROVE i > m
  <2>1. ASSUME NEW j \in 1 .. Len(s), j > i - 1 PROVE IsSelected(s[j])
    <3>1. i = j \/ s[i].seq < s[j].seq
      BY <1>1, <2>1 DEF IsTranscript, InOrder
    <3>2. s[i].seq \in Nat /\ s[j].seq \in Nat /\ cursor.seq \in Nat
      BY <1>1 DEF Cursor
    <3> QED
      BY <1>3, <3>1, <3>2 DEF IsSelected
  <2>2. i - 1 \in S
    BY <1>1, <2>1
  <2>3. m <= i - 1
    <3> HIDE DEF S
    <3> QED
      BY <1>2, <2>2
  <2>4. m \in Nat /\ i \in Nat
    BY <1>1, <1>2
  <2> QED
    BY <2>3, <2>4
<1>4. m \in 0 .. Len(s) /\ \A i \in 1 .. Len(s) : IsSelected(s[i]) <=> i > m
  BY <1>2, <1>3
<1> QED
  BY <1>4 DEF Passed

LEMMA SelectedRows ==
    ASSUME NEW s, IsTranscript(s), cursor \in Cursor
    PROVE  /\ Len(Selected(s)) \in Nat /\ Len(Selected(s)) <= Limit
           /\ \A i \in 1 .. Len(Selected(s)) :
                 /\ Passed(s) + i \in 1 .. Len(s)
                 /\ Selected(s)[i] = s[Passed(s) + i]
                 /\ Selected(s)[i] \in EventRow
                 /\ IsSelected(Selected(s)[i])
           /\ Selected(s) = << >> => Passed(s) = Len(s)
           /\ Selected(s) # << >> => Len(Selected(s)) > 0
<1> DEFINE n == Passed(s)
           m == IF Len(s) - n < Limit THEN Len(s) ELSE n + Limit
<1>1. n \in 0 .. Len(s) /\ Len(s) \in Nat /\ s \in Seq(EventRow)
  BY PassedRows DEF IsTranscript
<1>2. \A i \in 1 .. Len(s) : i > n => IsSelected(s[i])
  BY PassedRows
<1>3. Limit \in Nat \ {0}
  BY PageAssumption
<1>4. Selected(s) = SubSeq(s, n + 1, m)
  BY DEF Selected
<1> HIDE DEF n
<1>5. m \in Nat /\ m <= Len(s) /\ n <= m /\ m - n <= Limit /\ (m = n => n = Len(s))
  BY <1>1, <1>3
<1> HIDE DEF m
<1>6. /\ Len(Selected(s)) = m - n
      /\ \A i \in 1 .. m - n : Selected(s)[i] = s[n + i]
  BY <1>1, <1>4, <1>5, SubSeqProperties
<1>7. \A i \in 1 .. m - n : n + i \in 1 .. Len(s) /\ n + i > n
  BY <1>1, <1>5
<1>8. \A i \in 1 .. m - n : s[n + i] \in EventRow /\ IsSelected(s[n + i])
  BY <1>1, <1>2, <1>7
<1>9. Selected(s) \in Seq(EventRow)
  BY <1>1, <1>4, <1>5, SubSeqProperties
<1>10. Selected(s) = << >> <=> m = n
  BY <1>1, <1>5, <1>6, <1>9, EmptySeq
<1> QED
  BY <1>1, <1>3, <1>5, <1>6, <1>7, <1>8, <1>10 DEF n

(* What the rows are of.                                                   *)
LEMMA RowText ==
    ASSUME NEW s, IsTranscript(s), NEW i \in 1 .. Len(s)
    PROVE  /\ s[i].size \in Nat
           /\ s[i].cuts \subseteq 0 .. s[i].size
           /\ 0 \in s[i].cuts /\ s[i].size \in s[i].cuts
           /\ \A c \in s[i].cuts \ {s[i].size} : \E d \in s[i].cuts : c < d /\ d <= c + MaxRune
<1>1. PICK t \in EventText : t.size = s[i].size /\ t.cuts = s[i].cuts
  BY DEF IsTranscript, HaveTexts
<1> QED
  BY <1>1, TextAssumption

LEMMA RowsStay ==
    ASSUME cursor' = cursor
    PROVE  /\ \A e : IsSelected(e)' <=> IsSelected(e)
           /\ \A s : Selected(s)' = Selected(s)
           /\ snapshot' = snapshot => Rows' = Rows
           /\ \A rows : BadCursor(rows)' <=> BadCursor(rows)
<1>1. \A e : IsSelected(e)' <=> IsSelected(e)
  BY DEF IsSelected, Resumes
<1>2. \A s : Passed(s)' = Passed(s)
  BY <1>1 DEF Passed
<1> QED
  BY <1>1, <1>2 DEF Selected, Rows, BadCursor, Resumes

(* The last of a text's cuts up to an offset.                              *)
LEMMA CutIsLast ==
    ASSUME NEW row, NEW max \in Nat, row.size \in Nat,
           row.cuts \subseteq 0 .. row.size, 0 \in row.cuts
    PROVE  /\ CutAt(row, max) \in row.cuts
           /\ CutAt(row, max) \in Nat /\ CutAt(row, max) <= max
           /\ \A d \in row.cuts : d <= max => d <= CutAt(row, max)
<1> DEFINE S == {c \in row.cuts : c <= max}
<1>1. S \subseteq 0 .. row.size /\ 0 \in S
  OBVIOUS
<1>2. \E c \in S : \A d \in S : d <= c
  <2> HIDE DEF S
  <2>1. S \in SUBSET (0 .. row.size) /\ S # {}
    BY <1>1
  <2> QED
    BY <2>1, GreatestOfBounded
<1>3. \E c \in row.cuts : c <= max /\ \A d \in row.cuts : d <= max => d <= c
  BY <1>2
<1>4. /\ CutAt(row, max) \in row.cuts
      /\ CutAt(row, max) <= max
      /\ \A d \in row.cuts : d <= max => d <= CutAt(row, max)
  BY <1>3 DEF CutAt
<1> QED
  BY <1>4

-----------------------------------------------------------------------------
(* What steps that leave one side alone keep of it.                        *)
LEMMA ReaderStays ==
    ASSUME CursorIsLast, HasAllBehind, ReadsInOrder,
           UNCHANGED <<events, life, cursor, got, since>>,
           ~ Stale => pc' # "refused"
    PROVE  CursorIsLast' /\ HasAllBehind' /\ ReadsInOrder'
<1>1. Stale' <=> Stale
  BY DEF Stale
<1>2. \A e : IsSelected(e)' <=> IsSelected(e)
  BY DEF IsSelected, Resumes
<1>3. \A q : HasRead(q)' <=> HasRead(q)
  BY DEF HasRead
<1>4. /\ \A p, e : IsPieceOf(p, e)' <=> IsPieceOf(p, e)
      /\ \A q, b : IsNextEvent(q, b)' <=> IsNextEvent(q, b)
  BY DEF IsPieceOf, IsNextEvent
<1>5. \A p, q : Follows(p, q)' <=> Follows(p, q)
  BY <1>4 DEF Follows
<1>6. CursorIsLast'
  BY DEF CursorIsLast, Beginning
<1>7. HasAllBehind'
  BY <1>1, <1>2, <1>3 DEF HasAllBehind
<1>8. ReadsInOrder'
  BY <1>1, <1>4, <1>5 DEF ReadsInOrder
<1> QED
  BY <1>6, <1>7, <1>8

LEMMA ServerStays ==
    ASSUME Resting, PageIsRows, CursorFits, UNCHANGED <<pc, snapshot, page, used, cursor>>
    PROVE  Resting' /\ PageIsRows' /\ CursorFits'
<1>1. Rows' = Rows /\ (BadCursor(Rows)' <=> BadCursor(Rows))
  <2>1. Rows' = Rows
    BY RowsStay
  <2> QED
    BY <2>1 DEF BadCursor, Resumes
<1>2. \A p, e : IsPieceOf(p, e)' <=> IsPieceOf(p, e)
  BY DEF IsPieceOf
<1>3. Resting'
  BY DEF Resting
<1>4. PageIsRows'
  BY <1>1, <1>2 DEF PageIsRows
<1>5. CursorFits'
  BY <1>1 DEF CursorFits
<1> QED
  BY <1>3, <1>4, <1>5

LEMMA InitPagingInv == Init => PagingInv
<1> SUFFICES ASSUME Init PROVE PagingInv
  OBVIOUS
<1>1. /\ Len(events) = 0 /\ Len(snapshot) = 0 /\ Len(page) = 0 /\ Len(got) = 0
      /\ DOMAIN got = {}
  BY DEF Init
<1>2. PagingTypeOK
  BY <1>1, BoundAssumption DEF Init, PagingTypeOK, IsTranscript, InOrder, HaveTexts, Cursor, Beginning
<1>3. Resting /\ PageIsRows /\ CursorFits /\ SeesBeginning
  BY <1>1, PageAssumption DEF Init, Resting, PageIsRows, CursorFits, SeesBeginning
<1>4. CursorIsLast /\ HasAllBehind /\ ReadsInOrder
  BY <1>1 DEF Init, CursorIsLast, HasAllBehind, ReadsInOrder
<1> QED
  BY <1>2, <1>3, <1>4 DEF PagingInv

-----------------------------------------------------------------------------
(* The cursor of a reader who was not disturbed is at one of the events,   *)
(* within its text if it resumes, or at the beginning.                     *)
LEMMA CursorIsAtEvent ==
    ASSUME PagingInv, ~ Stale, got # << >>
    PROVE  \E j \in 1 .. Len(events) :
              /\ cursor.seq = events[j].seq
              /\ IsPieceOf(got[Len(got)], events[j])
              /\ Resumes =>
                    cursor.offset < events[j].size /\ cursor.offset \in events[j].cuts
<1>1. Len(got) \in 1 .. Len(got) /\ got[Len(got)] \in Piece
  BY DEF PagingInv, PagingTypeOK
<1>2. \A i \in 1 .. Len(got) : \E j \in 1 .. Len(events) : IsPieceOf(got[i], events[j])
  <2>1. events \in Seq(EventRow) /\ got \in Seq(Piece)
    BY DEF PagingInv, PagingTypeOK, IsTranscript
  <2>2. DOMAIN events = 1 .. Len(events) /\ DOMAIN got = 1 .. Len(got)
    BY <2>1
  <2> QED
    BY <2>2 DEF PagingInv, ReadsInOrder
<1>3. PICK j \in 1 .. Len(events) : IsPieceOf(got[Len(got)], events[j])
  BY <1>1, <1>2
<1>4. cursor = [seq |-> got[Len(got)].seq,
                offset |-> IF got[Len(got)].more THEN got[Len(got)].to ELSE 0]
  BY DEF PagingInv, CursorIsLast
<1>5. cursor.seq = events[j].seq
  BY <1>3, <1>4 DEF IsPieceOf
<1>6. Resumes => cursor.offset < events[j].size /\ cursor.offset \in events[j].cuts
  BY <1>1, <1>3, <1>4 DEF IsPieceOf, Resumes, Piece
<1> QED
  BY <1>3, <1>5, <1>6

LEMMA CursorAtBeginning ==
    ASSUME PagingInv, got = << >>
    PROVE  cursor.seq = 0 /\ cursor.offset = 0 /\ ~ Resumes
BY DEF PagingInv, CursorIsLast, Beginning, Resumes

(* So a page is never refused to him.                                      *)
LEMMA CursorIsGood ==
    ASSUME PagingInv, ~ Stale
    PROVE  ~ BadCursor(Selected(events))
<1> SUFFICES ASSUME Resumes
             PROVE  ~ BadCursor(Selected(events))
  BY DEF BadCursor
<1>1. got # << >>
  BY CursorAtBeginning
<1>2. PICK j \in 1 .. Len(events) :
              /\ cursor.seq = events[j].seq
              /\ cursor.offset < events[j].size /\ cursor.offset \in events[j].cuts
  BY <1>1, CursorIsAtEvent
<1>3. IsTranscript(events) /\ cursor \in Cursor
  BY DEF PagingInv, PagingTypeOK
<1>4. /\ Len(events) \in Nat
      /\ \A i \in 1 .. Len(events) : events[i].seq \in Nat
  BY <1>3, RowTypes
<1>5. /\ Passed(events) \in 0 .. Len(events)
      /\ \A i \in 1 .. Len(events) : events[i].seq >= cursor.seq <=> i > Passed(events)
  BY <1>3, PassedRows DEF IsSelected
<1>6. Passed(events) + 1 = j
  <2>1. j > Passed(events)
    BY <1>2, <1>4, <1>5
  <2>2. Passed(events) + 1 \in 1 .. Len(events)
    BY <1>5, <2>1
  <2>3. events[Passed(events) + 1].seq >= cursor.seq
    BY <1>5, <2>2
  <2>4. ~ (Passed(events) + 1 < j)
    BY <1>2, <1>3, <1>4, <2>2, <2>3 DEF IsTranscript, InOrder
  <2> QED
    BY <1>5, <2>1, <2>4
<1>7. Selected(events) # << >>
  BY <1>3, <1>5, <1>6, SelectedRows
<1>8. 1 \in 1 .. Len(Selected(events)) /\ Selected(events)[1] = events[j]
  BY <1>3, <1>6, <1>7, SelectedRows
<1> QED
  BY <1>2, <1>4, <1>7, <1>8, RowText, <1>3 DEF BadCursor

-----------------------------------------------------------------------------
(* The archive.  A new event comes behind the cursor and behind what the   *)
(* query saw.                                                              *)
LEMMA LastIsLatest ==
    ASSUME IsTranscript(events)
    PROVE  /\ LastSeq \in Nat
           /\ \A j \in 1 .. Len(events) : events[j].seq <= LastSeq
<1>1. CASE events = << >>
  BY <1>1 DEF LastSeq
<1>2. CASE events # << >>
  <2>1. /\ Len(events) \in 1 .. Len(events)
        /\ \A j \in 1 .. Len(events) : events[j].seq \in Nat
    BY <1>2, RowTypes, EmptySeq
  <2>2. \A j \in 1 .. Len(events) : j = Len(events) \/ events[j].seq < events[Len(events)].seq
    BY <2>1 DEF IsTranscript, InOrder
  <2> QED
    BY <1>2, <2>1, <2>2 DEF LastSeq
<1> QED
  BY <1>1, <1>2

LEMMA AddEventTranscript ==
    ASSUME IsTranscript(events), NEW seq \in 1 .. MaxSeq, NEW t \in EventText, AddEvent(seq, t)
    PROVE  /\ IsTranscript(events)'
           /\ Len(events') = Len(events) + 1
           /\ \A i \in 1 .. Len(events) : events'[i] = events[i]
           /\ events'[Len(events) + 1].seq = seq
<1> DEFINE e == [seq |-> seq, size |-> t.size, cuts |-> t.cuts]
<1>1. events \in Seq(EventRow) /\ Len(events) \in Nat
  BY RowTypes
<1>2. e \in EventRow
  BY TextAssumption DEF EventRow
<1>3. [size |-> t.size, cuts |-> t.cuts] \in EventText
  BY TextAssumption
<1>4. events' = Append(events, e)
  BY DEF AddEvent
<1>5. e.seq = seq /\ e.size = t.size /\ e.cuts = t.cuts /\ seq \in Nat
  BY BoundAssumption
<1> HIDE DEF e
<1>6. /\ events' \in Seq(EventRow)
      /\ Len(events') = Len(events) + 1
      /\ \A i \in 1 .. Len(events) : events'[i] = events[i]
      /\ events'[Len(events) + 1] = e
  BY <1>1, <1>2, <1>4
<1>7. ASSUME NEW i \in 1 .. Len(events'), NEW j \in 1 .. Len(events'), i < j
      PROVE  events'[i].seq < events'[j].seq
  <2>1. CASE j = Len(events) + 1
    <3>1. i \in 1 .. Len(events)
      BY <1>1, <1>6, <1>7, <2>1
    <3>2. events[i].seq <= LastSeq /\ LastSeq < seq /\ LastSeq \in Nat /\ events[i].seq \in Nat
      BY <3>1, LastIsLatest, RowTypes DEF AddEvent
    <3> QED
      BY <1>5, <1>6, <2>1, <3>1, <3>2
  <2>2. CASE j # Len(events) + 1
    <3>1. i \in 1 .. Len(events) /\ j \in 1 .. Len(events)
      BY <1>1, <1>6, <1>7, <2>2
    <3> QED
      BY <1>6, <1>7, <3>1 DEF IsTranscript, InOrder
  <2> QED
    BY <2>1, <2>2
<1>8. ASSUME NEW i \in 1 .. Len(events')
      PROVE  [size |-> events'[i].size, cuts |-> events'[i].cuts] \in EventText
  <2>1. i \in 1 .. Len(events) \/ i = Len(events) + 1
    BY <1>1, <1>6
  <2> QED
    BY <1>3, <1>5, <1>6, <2>1 DEF IsTranscript, HaveTexts
<1> QED
  BY <1>5, <1>6, <1>7, <1>8 DEF IsTranscript, InOrder, HaveTexts

LEMMA AddEventPagingInv ==
    ASSUME PagingInv, NEW seq \in 1 .. MaxSeq, NEW t \in EventText, AddEvent(seq, t)
    PROVE  PagingInv'
<1>1. /\ IsTranscript(events)'
      /\ Len(events') = Len(events) + 1 /\ Len(events) \in Nat
      /\ \A i \in 1 .. Len(events) : events'[i] = events[i]
      /\ events'[Len(events) + 1].seq = seq
  BY AddEventTranscript, RowTypes DEF PagingInv, PagingTypeOK
<1>2. UNCHANGED <<life, pc, snapshot, page, used, cursor, got, since>>
  BY DEF AddEvent, serverVars, readerVars
<1>3. PagingTypeOK'
  <2>1. IsTranscript(snapshot)'
    BY <1>2 DEF PagingInv, PagingTypeOK, IsTranscript, InOrder, HaveTexts
  <2> QED
    BY <1>1, <1>2, <2>1 DEF PagingInv, PagingTypeOK
<1>4. Resting' /\ PageIsRows' /\ CursorFits'
  BY <1>2, ServerStays DEF PagingInv
<1>5. SeesBeginning'
  <2>1. Len(snapshot) \in Nat
    BY RowTypes DEF PagingInv, PagingTypeOK
  <2> QED
    BY <1>1, <1>2, <2>1 DEF PagingInv, SeesBeginning, Stale
<1>6. CursorIsLast'
  BY <1>2 DEF PagingInv, CursorIsLast, Beginning
<1>7. ASSUME ~ Stale
      PROVE  /\ \A j \in 1 .. Len(events') : (~ IsSelected(events[j]) => HasRead(events[j].seq))'
             /\ \A i \in 1 .. Len(got) : \E j \in 1 .. Len(events') : IsPieceOf(got[i], events'[j])
             /\ \A q, b : IsNextEvent(q, b) => IsNextEvent(q, b)'
  <2>1. IsSelected(events'[Len(events) + 1])
    <3>1. cursor.seq \in Nat /\ cursor.seq < seq /\ seq \in Nat
      <4>1. LastSeq \in Nat /\ \A j \in 1 .. Len(events) : events[j].seq <= LastSeq
        BY LastIsLatest DEF PagingInv, PagingTypeOK
      <4>2. LastSeq < seq /\ seq \in Nat
        BY BoundAssumption DEF AddEvent
      <4>3. \A j \in 1 .. Len(events) : events[j].seq \in Nat
        BY RowTypes DEF PagingInv, PagingTypeOK
      <4>4. CASE got = << >>
        BY <4>1, <4>2, <4>4, CursorAtBeginning
      <4>5. CASE got # << >>
        BY <1>7, <4>1, <4>2, <4>3, <4>5, CursorIsAtEvent
      <4> QED
        BY <4>4, <4>5
    <3> QED
      BY <1>1, <3>1 DEF IsSelected
  <2>2. \A e : IsSelected(e)' <=> IsSelected(e)
    BY <1>2, RowsStay
  <2>3. \A q : HasRead(q)' <=> HasRead(q)
    BY <1>2 DEF HasRead
  <2>4. \A j \in 1 .. Len(events') : j = Len(events) + 1 \/ j \in 1 .. Len(events)
    BY <1>1
  <2>5. ASSUME NEW j \in 1 .. Len(events')
        PROVE  (~ IsSelected(events[j]) => HasRead(events[j].seq))'
    <3>1. PICK e : e = events'[j]
      OBVIOUS
    <3>2. ~ IsSelected(e) => j \in 1 .. Len(events)
      BY <2>1, <2>4, <3>1
    <3>3. j \in 1 .. Len(events) => e = events[j]
      BY <1>1, <3>1
    <3>4. ~ IsSelected(e) => HasRead(e.seq)
      BY <1>7, <3>2, <3>3 DEF PagingInv, HasAllBehind
    <3> QED
      BY <1>2, <3>1, <3>4 DEF IsSelected, Resumes, HasRead
  <2>6. \A j \in 1 .. Len(events) : j \in 1 .. Len(events')
    BY <1>1
  <2>7. DOMAIN events = 1 .. Len(events) /\ DOMAIN events' = 1 .. Len(events')
        /\ DOMAIN got = 1 .. Len(got)
    BY <1>1 DEF PagingInv, PagingTypeOK, IsTranscript
  <2>8. \A i \in 1 .. Len(got) : \E j \in 1 .. Len(events') : IsPieceOf(got[i], events'[j])
    <3>1. \A i \in 1 .. Len(got) : \E j \in 1 .. Len(events) : IsPieceOf(got[i], events[j])
      BY <1>7, <2>7 DEF PagingInv, ReadsInOrder
    <3> QED
      BY <1>1, <2>6, <3>1
  <2>9. ASSUME NEW q, NEW b, IsNextEvent(q, b) PROVE IsNextEvent(q, b)'
    <3>1. PICK j \in 1 .. Len(events) :
              events[j].seq = q /\ b = (IF j = 1 THEN 0 ELSE events[j - 1].seq)
      BY <2>7, <2>9 DEF IsNextEvent
    <3>2. j = 1 \/ j - 1 \in 1 .. Len(events)
      BY <1>1
    <3> QED
      BY <1>1, <2>6, <2>7, <3>1, <3>2 DEF IsNextEvent
  <2> QED
    BY <2>5, <2>8, <2>9
<1>8. HasAllBehind'
  <2>1. Stale' <=> Stale
    BY <1>2 DEF Stale
  <2> QED
    BY <1>7, <2>1 DEF HasAllBehind
<1>9. ReadsInOrder'
  <2>1. Stale' <=> Stale
    BY <1>2 DEF Stale
  <2>2. DOMAIN events' = 1 .. Len(events') /\ DOMAIN got = 1 .. Len(got)
    BY <1>1 DEF PagingInv, PagingTypeOK, IsTranscript
  <2>3. ASSUME ~ Stale, NEW p, NEW q, Follows(p, q) PROVE Follows(p, q)'
    BY <1>7, <2>3 DEF Follows
  <2>4. \A p, e : IsPieceOf(p, e)' <=> IsPieceOf(p, e)
    BY DEF IsPieceOf
  <2> QED
    BY <1>2, <1>7, <2>1, <2>2, <2>3, <2>4 DEF PagingInv, ReadsInOrder
<1> QED
  BY <1>3, <1>4, <1>5, <1>6, <1>8, <1>9 DEF PagingInv

LEMMA DeletePagingInv == PagingInv /\ DeleteSession => PagingInv'
<1> SUFFICES ASSUME PagingInv, DeleteSession PROVE PagingInv'
  OBVIOUS
<1>1. UNCHANGED <<pc, snapshot, page, used, cursor, got, since>>
  BY DEF DeleteSession, serverVars, readerVars
<1>2. /\ events' = << >> /\ Len(events') = 0
      /\ life' = life + 1 /\ life' \in 0 .. MaxLives
      /\ since \in 0 .. MaxLives /\ since <= life /\ life \in 0 .. MaxLives
  BY BoundAssumption DEF DeleteSession, PagingInv, PagingTypeOK
<1>3. Stale' /\ since' <= life'
  BY <1>1, <1>2, BoundAssumption DEF Stale
<1>4. PagingTypeOK'
  <2>1. IsTranscript(snapshot)'
    BY <1>1 DEF PagingInv, PagingTypeOK, IsTranscript, InOrder, HaveTexts
  <2>2. IsTranscript(events)'
    BY <1>2 DEF IsTranscript, InOrder, HaveTexts
  <2> QED
    BY <1>1, <1>2, <1>3, <2>1, <2>2 DEF PagingInv, PagingTypeOK
<1>5. Resting' /\ PageIsRows' /\ CursorFits'
  BY <1>1, ServerStays DEF PagingInv
<1>6. SeesBeginning' /\ HasAllBehind' /\ ReadsInOrder'
  BY <1>3 DEF SeesBeginning, HasAllBehind, ReadsInOrder
<1>7. CursorIsLast'
  BY <1>1 DEF PagingInv, CursorIsLast, Beginning
<1> QED
  BY <1>4, <1>5, <1>6, <1>7 DEF PagingInv

-----------------------------------------------------------------------------
(* The query and the loop.                                                 *)
LEMMA QueryPagingInv == PagingInv /\ Query => PagingInv'
<1> SUFFICES ASSUME PagingInv, Query PROVE PagingInv'
  OBVIOUS
<1>1. /\ UNCHANGED <<events, life, page, used, cursor, got, since>>
      /\ pc = "ask" /\ snapshot' = events
      /\ page = << >> /\ used = 0
  BY DEF Query, archiveVars, readerVars, PagingInv, Resting
<1>2. pc' = IF BadCursor(Selected(events)) THEN "refused" ELSE "scan"
  BY DEF Query
<1>3. PagingTypeOK'
  BY <1>1, <1>2 DEF PagingInv, PagingTypeOK, IsTranscript, InOrder, HaveTexts
<1>4. Resting' /\ PageIsRows'
  <2>1. Len(page') = 0
    BY <1>1
  <2> QED
    BY <1>1, <1>2, <2>1, PageAssumption DEF Resting, PageIsRows
<1>5. CursorFits'
  <2>1. Rows' = Selected(events)
    BY <1>1, RowsStay DEF Rows
  <2>2. BadCursor(Rows)' <=> BadCursor(Selected(events))
    BY <1>1, <2>1 DEF BadCursor, Resumes
  <2> QED
    BY <1>2, <2>2 DEF CursorFits
<1>6. SeesBeginning'
  BY <1>1, RowTypes DEF PagingInv, PagingTypeOK, SeesBeginning
<1>7. CursorIsLast' /\ HasAllBehind' /\ ReadsInOrder'
  <2>1. ~ Stale => pc' # "refused"
    BY <1>2, CursorIsGood
  <2> QED
    BY <1>1, <2>1, ReaderStays DEF PagingInv
<1> QED
  BY <1>3, <1>4, <1>5, <1>6, <1>7 DEF PagingInv

(* The rows of the request, in the snapshot.                               *)
LEMMA RowsOfSnapshot ==
    ASSUME PagingInv
    PROVE  /\ Len(Rows) \in Nat /\ Len(Rows) <= Limit
           /\ Passed(snapshot) \in 0 .. Len(snapshot)
           /\ \A i \in 1 .. Len(Rows) :
                 /\ Passed(snapshot) + i \in 1 .. Len(snapshot)
                 /\ Rows[i] = snapshot[Passed(snapshot) + i]
                 /\ IsSelected(Rows[i])
                 /\ Rows[i].seq \in Nat \ {0} /\ Rows[i].size \in Nat
                 /\ Rows[i].cuts \subseteq 0 .. Rows[i].size
                 /\ 0 \in Rows[i].cuts /\ Rows[i].size \in Rows[i].cuts
                 /\ \A c \in Rows[i].cuts \ {Rows[i].size} :
                       \E d \in Rows[i].cuts : c < d /\ d <= c + MaxRune
           /\ Rows = << >> => Passed(snapshot) = Len(snapshot)
           /\ Rows # << >> => Len(Rows) > 0
<1>1. IsTranscript(snapshot) /\ cursor \in Cursor
  BY DEF PagingInv, PagingTypeOK
<1>2. /\ Len(Rows) \in Nat /\ Len(Rows) <= Limit
      /\ Passed(snapshot) \in 0 .. Len(snapshot)
      /\ \A i \in 1 .. Len(Rows) :
            /\ Passed(snapshot) + i \in 1 .. Len(snapshot)
            /\ Rows[i] = snapshot[Passed(snapshot) + i]
            /\ IsSelected(Rows[i])
      /\ Rows = << >> => Passed(snapshot) = Len(snapshot)
      /\ Rows # << >> => Len(Rows) > 0
  BY <1>1, SelectedRows, PassedRows DEF Rows
<1>3. ASSUME NEW j \in 1 .. Len(snapshot)
      PROVE  /\ snapshot[j].seq \in Nat \ {0} /\ snapshot[j].size \in Nat
             /\ snapshot[j].cuts \subseteq 0 .. snapshot[j].size
             /\ 0 \in snapshot[j].cuts /\ snapshot[j].size \in snapshot[j].cuts
             /\ \A c \in snapshot[j].cuts \ {snapshot[j].size} :
                   \E d \in snapshot[j].cuts : c < d /\ d <= c + MaxRune
  BY <1>1, RowTypes, RowText
<1> QED
  BY <1>2, <1>3

LEMMA RowIsNext ==
    ASSUME PagingInv, HasRow
    PROVE  /\ Len(page) + 1 \in 1 .. Len(Rows) /\ Row = Rows[Len(page) + 1]
           /\ Row.seq \in Nat \ {0} /\ Row.size \in Nat
           /\ Row.cuts \subseteq 0 .. Row.size
           /\ 0 \in Row.cuts /\ Row.size \in Row.cuts
           /\ \A c \in Row.cuts \ {Row.size} : \E d \in Row.cuts : c < d /\ d <= c + MaxRune
           /\ Start = (IF Len(page) + 1 = 1 THEN cursor.offset ELSE 0)
           /\ Start \in Row.cuts /\ Start \in Nat
           /\ Start < Row.size \/ Row.size = 0
<1>1. Len(page) \in Nat /\ page \in Seq(Piece) /\ cursor.offset \in Nat
  BY DEF PagingInv, PagingTypeOK, Cursor
<1>2. Len(page) + 1 \in 1 .. Len(Rows)
  BY <1>1, RowsOfSnapshot DEF HasRow
<1>3. /\ Row = Rows[Len(page) + 1]
      /\ Row.seq \in Nat \ {0} /\ Row.size \in Nat
      /\ Row.cuts \subseteq 0 .. Row.size
      /\ 0 \in Row.cuts /\ Row.size \in Row.cuts
      /\ \A c \in Row.cuts \ {Row.size} : \E d \in Row.cuts : c < d /\ d <= c + MaxRune
  BY <1>2, RowsOfSnapshot DEF Row
<1>4. page = << >> <=> Len(page) + 1 = 1
  BY <1>1, EmptySeq
<1>5. Start = IF Len(page) + 1 = 1 THEN cursor.offset ELSE 0
  BY <1>1, <1>4 DEF Start, Resumes
<1>6. Start \in Row.cuts /\ (Start < Row.size \/ Row.size = 0)
  <2>1. CASE Resumes /\ page = << >>
    <3>1. ~ BadCursor(Rows) /\ Rows[1] = Row
      BY <1>3, <1>4, <2>1 DEF HasRow, PagingInv, CursorFits
    <3>2. ~ (cursor.offset >= Row.size) /\ cursor.offset \in Row.cuts
      BY <2>1, <3>1 DEF BadCursor
    <3> QED
      BY <1>1, <1>3, <2>1, <3>2 DEF Start
  <2>2. CASE ~ (Resumes /\ page = << >>)
    BY <1>3, <2>2 DEF Start
  <2> QED
    BY <2>1, <2>2
<1>7. Start \in Nat
  BY <1>3, <1>6
<1> QED
  BY <1>2, <1>3, <1>5, <1>6, <1>7

(* One more piece of the page.                                             *)
LEMMA TakePagingInv ==
    ASSUME PagingInv, HasRow, NEW to \in Row.cuts, NEW more \in BOOLEAN, Take(to, more),
           Start < to \/ Row.size = 0, to - Start <= Remaining,
           more <=> to < Row.size,
           pc' = IF more THEN "answer" ELSE pc
    PROVE  PagingInv'
<1> DEFINE p == [seq |-> Row.seq, from |-> Start, to |-> to, more |-> more]
<1>1. /\ UNCHANGED <<events, life, snapshot, cursor, got, since>>
      /\ page' = Append(page, p) /\ used' = used + to - Start
      /\ pc = "scan"
  BY DEF Take, archiveVars, readerVars, HasRow
<1>2. /\ Len(page) + 1 \in 1 .. Len(Rows) /\ Row = Rows[Len(page) + 1]
      /\ Row.seq \in Nat \ {0} /\ Row.size \in Nat
      /\ Start = (IF Len(page) + 1 = 1 THEN cursor.offset ELSE 0)
      /\ Start \in Row.cuts /\ Start \in Nat
      /\ to \in Nat /\ to <= Row.size /\ Start <= to
  BY RowIsNext
<1>3. /\ p \in Piece
      /\ IsPieceOf(p, Row)
      /\ p.from = Start /\ p.more = more
  BY <1>2 DEF Piece, IsPieceOf
<1> HIDE DEF p
<1>4. /\ page \in Seq(Piece) /\ Len(page) \in Nat
      /\ page' \in Seq(Piece) /\ Len(page') = Len(page) + 1
      /\ \A i \in 1 .. Len(page) : page'[i] = page[i]
      /\ page'[Len(page) + 1] = p
  BY <1>1, <1>3 DEF PagingInv, PagingTypeOK
<1>5. used \in Nat /\ used' \in Nat /\ used' <= MaxBytes
  <2>1. used \in Nat /\ MaxBytes \in Nat /\ used <= MaxBytes
    BY PageAssumption DEF PagingInv, PagingTypeOK, PageIsRows
  <2> QED
    BY <1>1, <1>2, <2>1 DEF Remaining
<1>6. pc' \in {"scan", "answer"} /\ (more => pc' = "answer")
  BY <1>1
<1>7. PagingTypeOK'
  BY <1>1, <1>4, <1>5, <1>6 DEF PagingInv, PagingTypeOK, IsTranscript, InOrder, HaveTexts
<1>8. Resting'
  <2>1. page' # << >>
    BY <1>4
  <2> QED
    BY <1>6, <2>1 DEF Resting
<1>9. Rows' = Rows
  BY <1>1, RowsStay
<1>10. PageIsRows'
  <2>1. ASSUME NEW i \in 1 .. Len(page')
        PROVE  /\ i <= Len(Rows)
               /\ IsPieceOf(page'[i], Rows[i])
               /\ page'[i].from = IF i = 1 THEN cursor.offset ELSE 0
               /\ page'[i].more => i = Len(page') /\ pc' = "answer"
    <3>1. CASE i \in 1 .. Len(page)
      <4>1. /\ i <= Len(Rows)
            /\ IsPieceOf(page[i], Rows[i])
            /\ page[i].from = IF i = 1 THEN cursor.offset ELSE 0
            /\ ~ page[i].more
        BY <1>1, <3>1 DEF PagingInv, PageIsRows
      <4> QED
        BY <1>4, <3>1, <4>1
    <3>2. CASE i = Len(page) + 1
      BY <1>2, <1>3, <1>4, <1>6, <3>2
    <3> QED
      BY <1>4, <3>1, <3>2
  <2> QED
    BY <1>1, <1>5, <1>9, <2>1 DEF PageIsRows, IsPieceOf
<1>11. CursorFits'
  <2>1. ~ BadCursor(Rows)
    BY <1>1 DEF PagingInv, CursorFits
  <2>2. ~ BadCursor(Rows)'
    BY <1>1, <1>9, <2>1 DEF BadCursor, Resumes
  <2>3. page' # << >>
    BY <1>4
  <2> QED
    BY <2>2, <2>3 DEF CursorFits
<1>12. SeesBeginning'
  BY <1>1 DEF PagingInv, SeesBeginning, Stale
<1>13. CursorIsLast' /\ HasAllBehind' /\ ReadsInOrder'
  BY <1>1, <1>6, ReaderStays DEF PagingInv
<1> QED
  BY <1>7, <1>8, <1>10, <1>11, <1>12, <1>13 DEF PagingInv

LEMMA TakeWholePagingInv == PagingInv /\ TakeWhole => PagingInv'
<1> SUFFICES ASSUME PagingInv, TakeWhole PROVE PagingInv'
  OBVIOUS
<1>1. HasRow /\ RestFits /\ Take(Row.size, FALSE) /\ pc' = pc
  BY DEF TakeWhole
<1>2. /\ Row.size \in Row.cuts /\ Row.size \in Nat
      /\ Start < Row.size \/ Row.size = 0
      /\ Row.size - Start <= Remaining
  BY <1>1, RowIsNext DEF RestFits
<1>3. PICK to \in Row.cuts, more \in BOOLEAN : to = Row.size /\ more = FALSE
  BY <1>2
<1>4. more <=> to < Row.size
  BY <1>2, <1>3
<1>5. Take(to, more)
  BY <1>1, <1>3
<1>6. pc' = IF more THEN "answer" ELSE pc
  BY <1>1, <1>3
<1>7. (Start < to \/ Row.size = 0) /\ to - Start <= Remaining
  BY <1>2, <1>3
<1> QED
  BY <1>1, <1>4, <1>5, <1>6, <1>7, TakePagingInv

LEMMA TakePartPagingInv == PagingInv /\ TakePart => PagingInv'
<1> SUFFICES ASSUME PagingInv, TakePart PROVE PagingInv'
  OBVIOUS
<1>1. HasRow /\ ~ RestFits /\ Remaining > 0 /\ Cut > Start /\ Take(Cut, TRUE) /\ pc' = "answer"
  BY DEF TakePart
<1>2. Remaining \in Int
  BY PageAssumption DEF Remaining, PagingInv, PagingTypeOK
<1>3. Start \in Nat /\ Row.size \in Nat /\ Row.cuts \subseteq 0 .. Row.size /\ 0 \in Row.cuts
  BY <1>1, RowIsNext
<1>4. Start + Remaining \in Nat
  BY <1>1, <1>2, <1>3
<1>5. Cut \in Row.cuts /\ Cut \in Nat /\ Cut <= Start + Remaining
  <2>1. PICK row, max : row = Row /\ max = Start + Remaining
    OBVIOUS
  <2> QED
    BY <1>3, <1>4, <2>1, CutIsLast DEF Cut
<1>6. Cut < Row.size /\ Cut - Start <= Remaining
  BY <1>1, <1>2, <1>3, <1>5 DEF RestFits
<1> QED
  BY <1>1, <1>5, <1>6, TakePagingInv

(* An empty page has nothing to hold: the first row has room for a         *)
(* character at least.                                                     *)
LEMMA EmptyPageHasNoRow ==
    ASSUME PagingInv, pc = "scan", NothingFits, page = << >>
    PROVE  Rows = << >>
<1> SUFFICES ASSUME Rows # << >> PROVE FALSE
  OBVIOUS
<1>1. HasRow
  <2>1. Len(page) = 0
    OBVIOUS
  <2> QED
    BY <2>1, RowsOfSnapshot DEF HasRow
<1>2. Remaining = MaxBytes /\ MaxBytes \in Nat /\ MaxRune \in Nat /\ MaxRune > 0 /\ MaxRune <= MaxBytes
  BY PageAssumption DEF Remaining, PagingInv, Resting
<1>3. ~ RestFits /\ Cut <= Start
  BY <1>1, <1>2 DEF NothingFits
<1>4. /\ Start \in Nat /\ Start \in Row.cuts /\ Row.size \in Nat
      /\ Row.cuts \subseteq 0 .. Row.size /\ 0 \in Row.cuts
      /\ \A c \in Row.cuts \ {Row.size} : \E d \in Row.cuts : c < d /\ d <= c + MaxRune
  BY <1>1, RowIsNext
<1>5. Start # Row.size
  BY <1>2, <1>3, <1>4 DEF RestFits
<1>6. PICK d \in Row.cuts : Start < d /\ d <= Start + MaxRune
  BY <1>4, <1>5
<1>7. d \in Nat /\ Start + Remaining \in Nat /\ d <= Start + Remaining
  BY <1>2, <1>4, <1>6
<1>8. d <= Cut /\ Cut \in Nat
  <2>1. PICK row, max : row = Row /\ max = Start + Remaining
    OBVIOUS
  <2> QED
    BY <1>4, <1>6, <1>7, <2>1, CutIsLast DEF Cut
<1> QED
  BY <1>3, <1>4, <1>6, <1>7, <1>8

LEMMA EndPagePagingInv == PagingInv /\ EndPage => PagingInv'
<1> SUFFICES ASSUME PagingInv, EndPage PROVE PagingInv'
  OBVIOUS
<1>1. /\ UNCHANGED <<events, life, snapshot, page, used, cursor, got, since>>
      /\ pc = "scan" /\ NothingFits
  BY DEF EndPage, archiveVars, serverVars, readerVars
<1>2. page = << >> => Rows = << >>
  BY <1>1, EmptyPageHasNoRow
<1>3. ~ (Resumes /\ page = << >>)
  BY <1>1, <1>2 DEF PagingInv, CursorFits, BadCursor
<1>4. pc' = "answer"
  BY <1>3 DEF EndPage
<1>5. PagingTypeOK'
  BY <1>1, <1>4 DEF PagingInv, PagingTypeOK, IsTranscript, InOrder, HaveTexts
<1>6. Resting'
  BY <1>1, <1>4 DEF PagingInv, Resting
<1>7. Rows' = Rows
  BY <1>1, RowsStay
<1>8. PageIsRows'
  BY <1>1, <1>4, <1>7 DEF PagingInv, PageIsRows, IsPieceOf
<1>9. CursorFits'
  <2>1. ~ BadCursor(Rows)'
    BY <1>1, <1>7 DEF PagingInv, CursorFits, BadCursor, Resumes
  <2> QED
    BY <1>1, <1>2, <1>7, <2>1 DEF CursorFits
<1>10. SeesBeginning'
  BY <1>1 DEF PagingInv, SeesBeginning, Stale
<1>11. CursorIsLast' /\ HasAllBehind' /\ ReadsInOrder'
  BY <1>1, <1>4, ReaderStays DEF PagingInv
<1> QED
  BY <1>5, <1>6, <1>8, <1>9, <1>10, <1>11 DEF PagingInv

-----------------------------------------------------------------------------
(* The pages of a reader who was not disturbed.  What is on a page lies in *)
(* the transcript, one event behind the other.                             *)
LEMMA PageInTranscript ==
    ASSUME PagingInv, ~ Stale
    PROVE  /\ Passed(snapshot) \in Nat
           /\ \A j \in 1 .. Passed(snapshot) :
                 j \in 1 .. Len(events) /\ ~ IsSelected(events[j])
           /\ \A i \in 1 .. Len(page) :
                 /\ i <= Len(Rows)
                 /\ Passed(snapshot) + i \in 1 .. Len(events)
                 /\ Rows[i] = events[Passed(snapshot) + i]
                 /\ IsSelected(events[Passed(snapshot) + i])
                 /\ IsPieceOf(page[i], events[Passed(snapshot) + i])
                 /\ page[i].seq = events[Passed(snapshot) + i].seq
                 /\ page[i].from = (IF i = 1 THEN cursor.offset ELSE 0)
                 /\ i < Len(page) => ~ page[i].more
<1>1. /\ Len(Rows) \in Nat
      /\ Passed(snapshot) \in 0 .. Len(snapshot)
      /\ \A i \in 1 .. Len(Rows) :
            /\ Passed(snapshot) + i \in 1 .. Len(snapshot)
            /\ Rows[i] = snapshot[Passed(snapshot) + i]
            /\ IsSelected(Rows[i])
  BY RowsOfSnapshot
<1>2. /\ Len(snapshot) \in Nat /\ Len(events) \in Nat /\ Len(snapshot) <= Len(events)
      /\ \A i \in 1 .. Len(snapshot) : i \in 1 .. Len(events) /\ snapshot[i] = events[i]
  BY RowTypes DEF PagingInv, PagingTypeOK, SeesBeginning
<1>3. \A j \in 1 .. Passed(snapshot) : j \in 1 .. Len(events) /\ ~ IsSelected(events[j])
  <2>1. \A j \in 1 .. Len(snapshot) : IsSelected(snapshot[j]) <=> j > Passed(snapshot)
    BY PassedRows DEF PagingInv, PagingTypeOK
  <2> QED
    BY <1>1, <1>2, <2>1
<1>4. ASSUME NEW i \in 1 .. Len(page)
      PROVE  /\ i <= Len(Rows)
             /\ Passed(snapshot) + i \in 1 .. Len(events)
             /\ Rows[i] = events[Passed(snapshot) + i]
             /\ IsSelected(events[Passed(snapshot) + i])
             /\ IsPieceOf(page[i], events[Passed(snapshot) + i])
             /\ page[i].seq = events[Passed(snapshot) + i].seq
             /\ page[i].from = (IF i = 1 THEN cursor.offset ELSE 0)
             /\ i < Len(page) => ~ page[i].more
  <2>1. /\ i <= Len(Rows)
        /\ IsPieceOf(page[i], Rows[i])
        /\ page[i].from = IF i = 1 THEN cursor.offset ELSE 0
        /\ page[i].more => i = Len(page)
    BY DEF PagingInv, PageIsRows
  <2>2. i \in 1 .. Len(Rows)
    BY <1>1, <2>1
  <2>3. Passed(snapshot) + i \in 1 .. Len(events) /\ Rows[i] = events[Passed(snapshot) + i]
    BY <1>1, <1>2, <2>2
  <2>4. page[i].seq = Rows[i].seq
    BY <2>1 DEF IsPieceOf
  <2>5. i < Len(page) => i # Len(page)
    BY LenProperties DEF PagingInv, PagingTypeOK
  <2> QED
    BY <1>1, <2>1, <2>2, <2>3, <2>4, <2>5
<1> QED
  BY <1>1, <1>3, <1>4

LEMMA PageFollowsItself ==
    ASSUME PagingInv, ~ Stale, NEW i \in 1 .. Len(page) - 1
    PROVE  Follows(page[i], page[i + 1])
<1> DEFINE n == Passed(snapshot)
<1>1. Len(page) \in Nat /\ n \in Nat
  BY PageInTranscript DEF PagingInv, PagingTypeOK
<1>2. i \in 1 .. Len(page) /\ i + 1 \in 1 .. Len(page) /\ i < Len(page) /\ i + 1 # 1
  BY <1>1
<1>3. /\ ~ page[i].more /\ page[i + 1].from = 0
      /\ page[i].seq = events[n + i].seq /\ page[i + 1].seq = events[n + (i + 1)].seq
      /\ n + (i + 1) \in 1 .. Len(events)
  BY <1>2, PageInTranscript
<1> HIDE DEF n
<1>4. PICK m : m = n + (i + 1)
  OBVIOUS
<1>5. m - 1 = n + i /\ m # 1
  BY <1>1, <1>2, <1>4
<1>6. m \in DOMAIN events /\ events[m].seq = page[i + 1].seq /\ events[m - 1].seq = page[i].seq
  BY <1>3, <1>4, <1>5 DEF PagingInv, PagingTypeOK, IsTranscript
<1>7. IsNextEvent(page[i + 1].seq, page[i].seq)
  BY <1>5, <1>6 DEF IsNextEvent
<1> QED
  BY <1>3, <1>7 DEF Follows

LEMMA CutIsBehindStart ==
    ASSUME NEW p \in Piece, NEW e, e.size \in Nat, IsPieceOf(p, e), p.more
    PROVE  p.to > 0
BY DEF Piece, IsPieceOf

LEMMA PageFollowsReader ==
    ASSUME PagingInv, ~ Stale, pc = "answer", page # << >>
    PROVE  /\ got = << >> => page[1].from = 0 /\ IsNextEvent(page[1].seq, 0)
           /\ got # << >> => Follows(got[Len(got)], page[1])
<1> DEFINE n == Passed(snapshot)
<1>1. 1 \in 1 .. Len(page)
  BY EmptySeq DEF PagingInv, PagingTypeOK
<1>2. /\ n \in Nat
      /\ \A j \in 1 .. n : j \in 1 .. Len(events) /\ ~ IsSelected(events[j])
      /\ n + 1 \in 1 .. Len(events)
      /\ Rows[1] = events[n + 1]
      /\ IsSelected(events[n + 1])
      /\ page[1].seq = events[n + 1].seq
      /\ page[1].from = cursor.offset
  BY <1>1, PageInTranscript
<1> HIDE DEF n
<1>3. /\ events \in Seq(EventRow) /\ InOrder(events) /\ DOMAIN events = 1 .. Len(events)
      /\ Len(events) \in Nat
      /\ \A j \in 1 .. Len(events) : events[j].seq \in Nat \ {0}
  BY RowTypes DEF PagingInv, PagingTypeOK, IsTranscript
<1>4. cursor.seq \in Nat /\ cursor.offset \in Nat
  BY DEF PagingInv, PagingTypeOK, Cursor
<1>5. ASSUME got = << >> PROVE page[1].from = 0 /\ IsNextEvent(page[1].seq, 0)
  <2>1. cursor.seq = 0 /\ cursor.offset = 0 /\ ~ Resumes
    BY <1>5, CursorAtBeginning
  <2>2. n = 0
    <3> SUFFICES ASSUME n # 0 PROVE FALSE
      OBVIOUS
    <3>1. 1 \in 1 .. n
      BY <1>2
    <3>2. 1 \in 1 .. Len(events) /\ ~ IsSelected(events[1])
      BY <1>2, <3>1
    <3>3. events[1].seq > 0
      BY <1>3, <3>2
    <3> QED
      BY <2>1, <3>2, <3>3 DEF IsSelected
  <2>3. 1 \in DOMAIN events /\ events[1].seq = page[1].seq
    BY <1>2, <1>3, <2>2
  <2> QED
    BY <1>2, <2>1, <2>3 DEF IsNextEvent
<1>6. ASSUME got # << >> PROVE Follows(got[Len(got)], page[1])
  <2>1. PICK j \in 1 .. Len(events) :
            cursor.seq = events[j].seq /\ IsPieceOf(got[Len(got)], events[j])
    BY <1>6, CursorIsAtEvent
  <2>2. cursor = [seq |-> got[Len(got)].seq,
                  offset |-> IF got[Len(got)].more THEN got[Len(got)].to ELSE 0]
    BY <1>6 DEF PagingInv, CursorIsLast
  <2>3. CASE got[Len(got)].more
    <3>1. got[Len(got)] \in Piece
      BY <1>6 DEF PagingInv, PagingTypeOK
    <3>2. events[j].size \in Nat
      BY RowText DEF PagingInv, PagingTypeOK
    <3>3. got[Len(got)].to > 0
      <4>1. PICK p \in {got[Len(got)]}, e \in {events[j]} : p \in Piece
        BY <3>1
      <4> QED
        BY <2>1, <2>3, <3>2, <4>1, CutIsBehindStart
    <3>4. Resumes /\ cursor.offset = got[Len(got)].to
      BY <2>2, <2>3, <3>3 DEF Resumes
    <3>5. Rows[1].seq = cursor.seq
      BY <3>4 DEF PagingInv, CursorFits, BadCursor
    <3>6. page[1].seq = got[Len(got)].seq /\ page[1].from = got[Len(got)].to
      BY <1>2, <2>2, <3>4, <3>5
    <3> QED
      BY <2>3, <3>6 DEF Follows
  <2>4. CASE ~ got[Len(got)].more
    <3>1. cursor.offset = 0 /\ ~ Resumes /\ cursor.seq = got[Len(got)].seq
      BY <2>2, <2>4 DEF Resumes
    <3>2. n = j
      <4>1. events[n + 1].seq > events[j].seq
        BY <1>2, <2>1, <3>1 DEF IsSelected
      <4>2. ~ (n + 1 <= j)
        <5>1. n + 1 = j \/ n + 1 < j => events[n + 1].seq <= events[j].seq
          BY <1>2, <1>3, <2>1 DEF InOrder
        <5> QED
          BY <1>2, <1>3, <4>1, <5>1
      <4>3. ~ (j < n)
        <5> SUFFICES ASSUME j < n PROVE FALSE
          OBVIOUS
        <5>1. n \in 1 .. n
          BY <1>2, <2>1
        <5>2. n \in 1 .. Len(events) /\ ~ (events[n].seq > cursor.seq)
          BY <1>2, <3>1, <5>1 DEF IsSelected
        <5>3. events[j].seq < events[n].seq
          BY <1>3, <5>2 DEF InOrder
        <5> QED
          BY <2>1, <5>2, <5>3
      <4> QED
        BY <1>2, <4>2, <4>3
    <3>3. n + 1 \in DOMAIN events /\ n + 1 # 1 /\ (n + 1) - 1 = j
      BY <1>2, <1>3, <2>1, <3>2
    <3>4. IsNextEvent(page[1].seq, got[Len(got)].seq)
      BY <1>2, <2>1, <3>1, <3>3 DEF IsNextEvent
    <3> QED
      BY <1>2, <2>4, <3>1, <3>4 DEF Follows
  <2> QED
    BY <2>3, <2>4
<1> QED
  BY <1>5, <1>6

-----------------------------------------------------------------------------
(* The reader.                                                             *)
LEMMA EmptyRequest ==
    ASSUME PagingInv, snapshot' = << >>, page' = << >>, used' = 0, pc' \in {"ask", "done"}
    PROVE  Resting' /\ PageIsRows' /\ CursorFits' /\ IsTranscript(snapshot)' /\ page' \in Seq(Piece)
<1>1. Len(page') = 0 /\ Len(snapshot') = 0
  OBVIOUS
<1>2. Resting' /\ CursorFits'
  BY DEF Resting, CursorFits
<1>3. PageIsRows'
  BY <1>1, PageAssumption DEF PageIsRows
<1>4. IsTranscript(snapshot)'
  BY <1>1 DEF IsTranscript, InOrder, HaveTexts
<1> QED
  BY <1>2, <1>3, <1>4

(* What the reader has got with a page.                                    *)
LEMMA GotPage ==
    ASSUME PagingInv, got' = got \o page
    PROVE  /\ got' \in Seq(Piece) /\ Len(got') = Len(got) + Len(page)
           /\ Len(got) \in Nat /\ Len(page) \in Nat
           /\ \A i \in 1 .. Len(got) : got'[i] = got[i]
           /\ \A i \in 1 .. Len(page) : got'[Len(got) + i] = page[i]
<1>1. got \in Seq(Piece) /\ page \in Seq(Piece)
  BY DEF PagingInv, PagingTypeOK
<1>2. /\ Len(got') = Len(got) + Len(page)
      /\ Len(got) \in Nat /\ Len(page) \in Nat
      /\ got' \in Seq(Piece)
      /\ \A i \in 1 .. Len(got) + Len(page) :
            got'[i] = IF i <= Len(got) THEN got[i] ELSE page[i - Len(got)]
  BY <1>1, ConcatProperties
<1> QED
  BY <1>2

LEMMA CursorMoves ==
    ASSUME PagingInv, got' = got \o page, cursor' = NextCursor
    PROVE  CursorIsLast' /\ cursor' \in Cursor
<1>1. CASE page = << >>
  <2>1. got' = got /\ cursor' = cursor
    BY <1>1 DEF NextCursor, PagingInv, PagingTypeOK
  <2> QED
    BY <2>1 DEF PagingInv, PagingTypeOK, CursorIsLast, Beginning
<1>2. CASE page # << >>
  <2>1. Len(page) \in 1 .. Len(page) /\ page[Len(page)] \in Piece
    BY <1>2 DEF PagingInv, PagingTypeOK
  <2>2. got' # << >> /\ got'[Len(got')] = page[Len(page)]
    BY <2>1, GotPage
  <2>3. cursor' = [seq |-> page[Len(page)].seq,
                   offset |-> IF page[Len(page)].more THEN page[Len(page)].to ELSE 0]
    BY <1>2 DEF NextCursor
  <2> QED
    BY <2>1, <2>2, <2>3 DEF CursorIsLast, Cursor, Piece
<1> QED
  BY <1>1, <1>2

LEMMA ReceiveInOrder ==
    ASSUME PagingInv, ~ Stale, pc = "answer", got' = got \o page, UNCHANGED events
    PROVE  /\ \A i \in DOMAIN got' : \E j \in DOMAIN events : IsPieceOf(got'[i], events[j])
           /\ got' # << >> => got'[1].from = 0 /\ IsNextEvent(got'[1].seq, 0)
           /\ \A i \in 1 .. Len(got') - 1 : Follows(got'[i], got'[i + 1])
<1>1. /\ got' \in Seq(Piece) /\ Len(got') = Len(got) + Len(page)
      /\ Len(got) \in Nat /\ Len(page) \in Nat
      /\ \A i \in 1 .. Len(got) : got'[i] = got[i]
      /\ \A i \in 1 .. Len(page) : got'[Len(got) + i] = page[i]
  BY GotPage
<1>2. DOMAIN events = 1 .. Len(events) /\ DOMAIN got = 1 .. Len(got) /\ DOMAIN got' = 1 .. Len(got')
  BY <1>1 DEF PagingInv, PagingTypeOK, IsTranscript
<1>3. \A i \in 1 .. Len(page) : \E j \in 1 .. Len(events) : IsPieceOf(page[i], events[j])
  BY PageInTranscript
<1>4. ASSUME NEW i \in 1 .. Len(got')
      PROVE  \E j \in 1 .. Len(events) : IsPieceOf(got'[i], events[j])
  <2>1. CASE i <= Len(got)
    <3>1. i \in 1 .. Len(got) /\ got'[i] = got[i]
      BY <1>1, <2>1
    <3> QED
      BY <1>2, <3>1 DEF PagingInv, ReadsInOrder
  <2>2. CASE i > Len(got)
    <3>1. PICK k \in 1 .. Len(page) : i = Len(got) + k
      <4>1. i - Len(got) \in 1 .. Len(page) /\ i = Len(got) + (i - Len(got))
        BY <1>1, <2>2
      <4> QED
        BY <4>1
    <3> QED
      BY <1>1, <1>3, <3>1
  <2> QED
    BY <1>1, <2>1, <2>2
<1>5. ASSUME got' # << >> PROVE got'[1].from = 0 /\ IsNextEvent(got'[1].seq, 0)
  <2>1. CASE got # << >>
    <3>1. 1 \in 1 .. Len(got)
      BY <1>1, <2>1, EmptySeq DEF PagingInv, PagingTypeOK
    <3>2. got'[1] = got[1]
      BY <1>1, <3>1
    <3> QED
      BY <2>1, <3>2 DEF PagingInv, ReadsInOrder
  <2>2. CASE got = << >>
    <3>1. page # << >> /\ Len(got) = 0
      BY <1>5, <2>2
    <3>2. 1 \in 1 .. Len(page) /\ Len(got) + 1 = 1
      BY <1>1, <3>1, EmptySeq DEF PagingInv, PagingTypeOK
    <3>3. got'[1] = page[1]
      BY <1>1, <3>2
    <3> QED
      BY <2>2, <3>1, <3>3, PageFollowsReader
  <2> QED
    BY <2>1, <2>2
<1>6. ASSUME NEW i \in 1 .. Len(got') - 1 PROVE Follows(got'[i], got'[i + 1])
  <2>1. CASE i < Len(got)
    <3>1. i \in 1 .. Len(got) - 1 /\ i \in 1 .. Len(got) /\ i + 1 \in 1 .. Len(got)
      BY <1>1, <2>1
    <3>2. got'[i] = got[i] /\ got'[i + 1] = got[i + 1]
      BY <1>1, <3>1
    <3> QED
      BY <3>1, <3>2 DEF PagingInv, ReadsInOrder
  <2>2. CASE i = Len(got)
    <3>1. /\ i \in 1 .. Len(got) /\ 1 \in 1 .. Len(page)
          /\ got # << >> /\ page # << >>
      BY <1>1, <2>2
    <3>2. got'[i] = got[Len(got)] /\ got'[i + 1] = page[1]
      BY <1>1, <2>2, <3>1
    <3> QED
      BY <3>1, <3>2, PageFollowsReader
  <2>3. CASE i > Len(got)
    <3>1. PICK k \in 1 .. Len(page) - 1 : i = Len(got) + k
      <4>1. i - Len(got) \in 1 .. Len(page) - 1 /\ i = Len(got) + (i - Len(got))
        BY <1>1, <2>3
      <4> QED
        BY <4>1
    <3>2. k \in 1 .. Len(page) /\ k + 1 \in 1 .. Len(page) /\ i + 1 = Len(got) + (k + 1)
      BY <1>1, <3>1
    <3>3. got'[i] = page[k] /\ got'[i + 1] = page[k + 1]
      BY <1>1, <3>1, <3>2
    <3> QED
      BY <3>1, <3>3, PageFollowsItself
  <2> QED
    BY <1>1, <2>1, <2>2, <2>3
<1> QED
  BY <1>2, <1>4, <1>5, <1>6

(* The new cursor leaves behind what the old one did and what is on the    *)
(* page, but for the rest of a text that was cut.                          *)
LEMMA ReceiveHasAll ==
    ASSUME PagingInv, ~ Stale, pc = "answer", got' = got \o page, cursor' = NextCursor,
           UNCHANGED events
    PROVE  \A j \in 1 .. Len(events) : (~ IsSelected(events[j]) => HasRead(events[j].seq))'
<1> SUFFICES ASSUME NEW j \in 1 .. Len(events), ~ IsSelected(events[j])'
             PROVE  HasRead(events[j].seq)'
  OBVIOUS
<1>1. /\ got' \in Seq(Piece) /\ Len(got') = Len(got) + Len(page)
      /\ Len(got) \in Nat /\ Len(page) \in Nat
      /\ \A i \in 1 .. Len(got) : got'[i] = got[i]
      /\ \A i \in 1 .. Len(page) : got'[Len(got) + i] = page[i]
  BY GotPage
<1>2. DOMAIN got = 1 .. Len(got) /\ DOMAIN got' = 1 .. Len(got')
  BY <1>1 DEF PagingInv, PagingTypeOK
<1>3. HasRead(events[j].seq) => HasRead(events[j].seq)'
  <2>1. \A i \in 1 .. Len(got) : i \in 1 .. Len(got')
    BY <1>1
  <2> QED
    BY <1>1, <1>2, <2>1 DEF HasRead
<1>4. CASE ~ IsSelected(events[j])
  BY <1>3, <1>4 DEF PagingInv, HasAllBehind
<1>5. CASE IsSelected(events[j])
  <2> DEFINE n == Passed(snapshot)
             m == Len(page)
  <2>1. page # << >>
    <3> SUFFICES ASSUME page = << >> PROVE FALSE
      OBVIOUS
    <3>1. cursor' = cursor
      BY DEF NextCursor
    <3> QED
      BY <1>5, <3>1 DEF IsSelected, Resumes
  <2>2. m \in 1 .. m /\ m \in Nat
    BY <1>1, <2>1, EmptySeq DEF PagingInv, PagingTypeOK
  <2>3. /\ n \in Nat
        /\ \A i \in 1 .. n : i \in 1 .. Len(events) /\ ~ IsSelected(events[i])
        /\ \A i \in 1 .. m :
              /\ n + i \in 1 .. Len(events)
              /\ IsPieceOf(page[i], events[n + i])
              /\ page[i].seq = events[n + i].seq
              /\ i < m => ~ page[i].more
    BY PageInTranscript
  <2>4. page[m] \in Piece
    BY <2>2 DEF PagingInv, PagingTypeOK
  <2>5. cursor' = [seq |-> page[m].seq, offset |-> IF page[m].more THEN page[m].to ELSE 0]
    BY <2>1 DEF NextCursor
  <2> HIDE DEF n, m
  <2>6. /\ InOrder(events) /\ Len(events) \in Nat
        /\ \A i \in 1 .. Len(events) : events[i].seq \in Nat
    BY RowTypes DEF PagingInv, PagingTypeOK, IsTranscript
  <2>7. PICK l \in 1 .. Len(events) : l = n + m
    BY <2>2, <2>3
  <2>8. events[j].seq <= events[l].seq /\ (page[m].more => events[j].seq < events[l].seq)
    <3>1. cursor'.seq = events[l].seq /\ cursor'.offset = IF page[m].more THEN page[m].to ELSE 0
      BY <2>2, <2>3, <2>5, <2>7
    <3>2. page[m].more => page[m].to > 0
      <4>1. PICK p \in {page[m]}, e \in {events[l]} : p \in Piece
        BY <2>4
      <4>2. e.size \in Nat /\ IsPieceOf(p, e)
        BY <2>2, <2>3, <2>7, <4>1, RowText DEF PagingInv, PagingTypeOK
      <4> QED
        BY <4>1, <4>2, CutIsBehindStart
    <3>3. IF cursor'.offset > 0 THEN ~ (events[j].seq >= cursor'.seq) ELSE ~ (events[j].seq > cursor'.seq)
      BY DEF IsSelected, Resumes
    <3> QED
      BY <2>6, <3>1, <3>2, <3>3
  <2>9. j <= l /\ (page[m].more => j < l)
    <3>1. l < j => events[l].seq < events[j].seq
      BY <2>6 DEF InOrder
    <3>2. l = j => events[l].seq = events[j].seq
      OBVIOUS
    <3> QED
      BY <2>6, <2>8, <3>1, <3>2
  <2>10. j > n
    BY <1>5, <2>3
  <2>11. PICK i \in 1 .. m : j = n + i
    <3>1. j - n \in 1 .. m /\ j = n + (j - n)
      BY <2>2, <2>3, <2>7, <2>9, <2>10
    <3> QED
      BY <3>1
  <2>12. ~ page[i].more
    <3>1. CASE i < m
      BY <2>3, <3>1
    <3>2. CASE i = m
      BY <2>7, <2>9, <2>11, <3>2
    <3> QED
      BY <2>2, <3>1, <3>2
  <2>13. got'[Len(got) + i] = page[i] /\ Len(got) + i \in 1 .. Len(got')
    BY <1>1 DEF m
  <2>14. page[i].seq = events[j].seq
    BY <2>3, <2>11
  <2> QED
    BY <1>2, <2>12, <2>13, <2>14 DEF HasRead
<1> QED
  BY <1>4, <1>5

LEMMA ReceivePagingInv == PagingInv /\ Receive => PagingInv'
<1> SUFFICES ASSUME PagingInv, Receive PROVE PagingInv'
  OBVIOUS
<1>1. /\ UNCHANGED <<events, life, since>>
      /\ pc = "answer" /\ got' = got \o page /\ cursor' = NextCursor
      /\ pc' \in {"ask", "done"}
      /\ snapshot' = << >> /\ page' = << >> /\ used' = 0
  BY DEF Receive, archiveVars, EndRequest
<1>2. Resting' /\ PageIsRows' /\ CursorFits' /\ IsTranscript(snapshot)' /\ page' \in Seq(Piece)
  BY <1>1, EmptyRequest
<1>3. CursorIsLast' /\ cursor' \in Cursor /\ got' \in Seq(Piece)
  BY <1>1, CursorMoves, GotPage
<1>4. PagingTypeOK'
  <2>1. IsTranscript(events)'
    BY <1>1 DEF PagingInv, PagingTypeOK, IsTranscript, InOrder, HaveTexts
  <2> QED
    BY <1>1, <1>2, <1>3, <2>1 DEF PagingInv, PagingTypeOK
<1>5. Stale' <=> Stale
  BY <1>1 DEF Stale
<1>6. SeesBeginning'
  <2>1. Len(snapshot') = 0 /\ Len(events') \in Nat
    BY <1>1, <1>4, RowTypes DEF PagingInv, PagingTypeOK
  <2> QED
    BY <2>1 DEF SeesBeginning
<1>7. HasAllBehind'
  <2> SUFFICES ASSUME ~ Stale
               PROVE  \A j \in 1 .. Len(events) : (~ IsSelected(events[j]) => HasRead(events[j].seq))'
    BY <1>1, <1>5 DEF HasAllBehind
  <2> QED
    BY <1>1, ReceiveHasAll
<1>8. ReadsInOrder'
  <2>1. /\ \A p, e : IsPieceOf(p, e)' <=> IsPieceOf(p, e)
        /\ \A q, b : IsNextEvent(q, b)' <=> IsNextEvent(q, b)
    BY <1>1 DEF IsPieceOf, IsNextEvent
  <2>2. \A p, q : Follows(p, q)' <=> Follows(p, q)
    BY <2>1 DEF Follows
  <2>3. ~ Stale =>
          /\ \A i \in DOMAIN got' : \E j \in DOMAIN events : IsPieceOf(got'[i], events[j])
          /\ got' # << >> => got'[1].from = 0 /\ IsNextEvent(got'[1].seq, 0)
          /\ \A i \in 1 .. Len(got') - 1 : Follows(got'[i], got'[i + 1])
    BY <1>1, ReceiveInOrder
  <2>4. pc' # "refused"
    BY <1>1
  <2> QED
    BY <1>1, <1>5, <2>1, <2>2, <2>3, <2>4 DEF ReadsInOrder
<1> QED
  BY <1>2, <1>3, <1>4, <1>6, <1>7, <1>8 DEF PagingInv

LEMMA LosePagingInv == PagingInv /\ (Lose \/ AskAgain) => PagingInv'
<1> SUFFICES ASSUME PagingInv, Lose \/ AskAgain PROVE PagingInv'
  OBVIOUS
<1>1. /\ UNCHANGED <<events, life, cursor, got, since>> /\ pc' = "ask"
      /\ snapshot' = << >> /\ page' = << >> /\ used' = 0
  BY DEF Lose, AskAgain, EndRequest, archiveVars, serverVars, readerVars, PagingInv, Resting
<1>2. Resting' /\ PageIsRows' /\ CursorFits' /\ IsTranscript(snapshot)' /\ page' \in Seq(Piece)
  BY <1>1, EmptyRequest
<1>3. PagingTypeOK'
  <2>1. IsTranscript(events)'
    BY <1>1 DEF PagingInv, PagingTypeOK, IsTranscript, InOrder, HaveTexts
  <2> QED
    BY <1>1, <1>2, <2>1 DEF PagingInv, PagingTypeOK
<1>4. SeesBeginning'
  <2>1. Len(snapshot') = 0 /\ Len(events') \in Nat
    BY <1>1, RowTypes DEF PagingInv, PagingTypeOK
  <2> QED
    BY <2>1 DEF SeesBeginning
<1>5. CursorIsLast' /\ HasAllBehind' /\ ReadsInOrder'
  BY <1>1, ReaderStays DEF PagingInv
<1> QED
  BY <1>2, <1>3, <1>4, <1>5 DEF PagingInv

LEMMA StartOverPagingInv == PagingInv /\ StartOver => PagingInv'
<1> SUFFICES ASSUME PagingInv, StartOver PROVE PagingInv'
  OBVIOUS
<1>1. /\ UNCHANGED <<events, life>> /\ pc' = "ask"
      /\ cursor' = Beginning /\ got' = << >> /\ since' = life
      /\ snapshot' = << >> /\ page' = << >> /\ used' = 0
  BY DEF StartOver, EndRequest, archiveVars
<1>2. Resting' /\ PageIsRows' /\ CursorFits' /\ IsTranscript(snapshot)' /\ page' \in Seq(Piece)
  BY <1>1, EmptyRequest
<1>3. IsTranscript(events)'
  BY <1>1 DEF PagingInv, PagingTypeOK, IsTranscript, InOrder, HaveTexts
<1>4. PagingTypeOK'
  <2>1. life \in 0 .. MaxLives /\ life <= life
    BY BoundAssumption DEF PagingInv, PagingTypeOK
  <2> QED
    BY <1>1, <1>2, <1>3, <2>1 DEF PagingInv, PagingTypeOK, Cursor, Beginning
<1>5. Len(got') = 0 /\ DOMAIN got' = {} /\ Len(snapshot') = 0 /\ Len(events') \in Nat
  BY <1>1, RowTypes DEF PagingInv, PagingTypeOK
<1>6. SeesBeginning' /\ CursorIsLast' /\ ReadsInOrder'
  BY <1>1, <1>5 DEF SeesBeginning, CursorIsLast, Beginning, ReadsInOrder
<1>7. HasAllBehind'
  <2>1. ASSUME NEW j \in 1 .. Len(events) PROVE IsSelected(events[j])'
    <3>1. events[j].seq > 0
      BY RowTypes DEF PagingInv, PagingTypeOK
    <3> QED
      BY <1>1, <3>1 DEF IsSelected, Resumes, Beginning
  <2> QED
    BY <1>1, <2>1 DEF HasAllBehind
<1> QED
  BY <1>2, <1>4, <1>6, <1>7 DEF PagingInv

LEMMA NextPagingInv == PagingInv /\ [Next]_vars => PagingInv'
<1> SUFFICES ASSUME PagingInv, [Next]_vars PROVE PagingInv'
  OBVIOUS
<1>1. ASSUME NEW seq \in 1 .. MaxSeq, NEW t \in EventText, AddEvent(seq, t)
      PROVE  PagingInv'
  BY <1>1, AddEventPagingInv
<1>2. CASE DeleteSession
  BY <1>2, DeletePagingInv
<1>3. CASE ServerStep
  BY <1>3, QueryPagingInv, TakeWholePagingInv, TakePartPagingInv, EndPagePagingInv DEF ServerStep
<1>4. CASE ReaderStep
  BY <1>4, ReceivePagingInv, LosePagingInv, StartOverPagingInv DEF ReaderStep
<1>5. CASE Lose
  BY <1>5, LosePagingInv
<1>6. CASE UNCHANGED vars
  <2>1. UNCHANGED <<events, life, pc, snapshot, page, used, cursor, got, since>>
    BY <1>6 DEF vars, archiveVars, serverVars, readerVars
  <2>2. PagingTypeOK'
    BY <2>1 DEF PagingInv, PagingTypeOK, IsTranscript, InOrder, HaveTexts
  <2>3. Resting' /\ PageIsRows' /\ CursorFits'
    BY <2>1, ServerStays DEF PagingInv
  <2>4. SeesBeginning'
    BY <2>1 DEF PagingInv, SeesBeginning, Stale
  <2>5. CursorIsLast' /\ HasAllBehind' /\ ReadsInOrder'
    BY <2>1, ReaderStays DEF PagingInv, ReadsInOrder
  <2> QED
    BY <2>2, <2>3, <2>4, <2>5 DEF PagingInv
<1> QED
  BY <1>1, <1>2, <1>3, <1>4, <1>5, <1>6 DEF Next

LEMMA PagingInvariant == Spec => []PagingInv
BY InitPagingInv, NextPagingInv, PTL DEF Spec

-----------------------------------------------------------------------------
(* Every variable keeps to its type.                                       *)
THEOREM PagingTypes == Spec => []TypeOK
<1>1. PagingInv => TypeOK
  <2> SUFFICES ASSUME PagingInv PROVE TypeOK
    OBVIOUS
  <2>1. ASSUME NEW s, IsTranscript(s), NEW i \in DOMAIN s
        PROVE  s[i].seq \in 1 .. MaxSeq /\ [size |-> s[i].size, cuts |-> s[i].cuts] \in EventText
    <3>1. i \in 1 .. Len(s) /\ s[i] \in EventRow
      BY <2>1 DEF IsTranscript
    <3> QED
      BY <2>1, <3>1 DEF IsTranscript, HaveTexts, EventRow
  <2> QED
    BY <2>1 DEF PagingInv, PagingTypeOK, TypeOK
<1> QED
  BY <1>1, PagingInvariant, PTL

(* Whatever the cursor, a page keeps to its limits and holds whole         *)
(* characters of the events of its query.                                  *)
THEOREM PagesFit == Spec => []PageFits
<1>1. PagingInv => PageFits
  <2> SUFFICES ASSUME PagingInv PROVE PageFits
    OBVIOUS
  <2>1. DOMAIN page = 1 .. Len(page) /\ Len(page) \in Nat /\ DOMAIN snapshot = 1 .. Len(snapshot)
    BY DEF PagingInv, PagingTypeOK, IsTranscript
  <2>2. Len(page) <= Limit
    <3>1. Len(page) > 0 => Len(page) \in 1 .. Len(page)
      BY <2>1
    <3>2. Len(page) > 0 => Len(page) <= Len(Rows)
      BY <3>1 DEF PagingInv, PageIsRows
    <3> QED
      BY <2>1, <3>2, RowsOfSnapshot, PageAssumption
  <2>3. ASSUME NEW i \in 1 .. Len(page)
        PROVE  \E j \in 1 .. Len(snapshot) : IsPieceOf(page[i], snapshot[j])
    <3>1. i <= Len(Rows) /\ IsPieceOf(page[i], Rows[i])
      BY DEF PagingInv, PageIsRows
    <3>2. i \in 1 .. Len(Rows)
      BY <3>1, RowsOfSnapshot
    <3> QED
      BY <3>1, <3>2, RowsOfSnapshot
  <2> QED
    BY <2>1, <2>2, <2>3 DEF PageFits, PagingInv, PageIsRows
<1> QED
  BY <1>1, PagingInvariant, PTL

(* A reader who follows the cursors gets the events in order, each whole,  *)
(* none twice and none left out, unless the session is deleted meanwhile.  *)
THEOREM EventsInOrder == Spec => []ReadsInOrder
<1>1. PagingInv => ReadsInOrder
  BY DEF PagingInv
<1> QED
  BY <1>1, PagingInvariant, PTL

(* An empty page is given only when nothing is behind the cursor, and a    *)
(* reader who was not disturbed has read everything then.                  *)
THEOREM EmptyPageEnds == Spec => []EmptyPageIsEnd
<1>1. PagingInv => EmptyPageIsEnd
  <2> SUFFICES ASSUME PagingInv, pc = "answer", page = << >>, NEW j \in DOMAIN snapshot
               PROVE  /\ snapshot[j].seq <= cursor.seq
                      /\ ~ Stale => HasRead(snapshot[j].seq)
    BY DEF EmptyPageIsEnd
  <2>1. j \in 1 .. Len(snapshot) /\ snapshot[j].seq \in Nat /\ Len(snapshot) \in Nat
    BY RowTypes DEF PagingInv, PagingTypeOK
  <2>2. Rows = << >>
    BY DEF PagingInv, CursorFits
  <2>3. ~ IsSelected(snapshot[j])
    <3>1. Passed(snapshot) = Len(snapshot)
      BY <2>2, RowsOfSnapshot
    <3>2. \A i \in 1 .. Len(snapshot) : IsSelected(snapshot[i]) <=> i > Passed(snapshot)
      BY PassedRows DEF PagingInv, PagingTypeOK
    <3> QED
      BY <2>1, <3>1, <3>2
  <2>4. snapshot[j].seq <= cursor.seq
    BY <2>1, <2>3 DEF IsSelected, PagingInv, PagingTypeOK, Cursor
  <2>5. ASSUME ~ Stale PROVE HasRead(snapshot[j].seq)
    <3>1. j \in 1 .. Len(events) /\ events[j] = snapshot[j]
      BY <2>1, <2>5, RowTypes DEF PagingInv, PagingTypeOK, SeesBeginning
    <3> QED
      BY <2>3, <2>5, <3>1 DEF PagingInv, HasAllBehind
  <2> QED
    BY <2>4, <2>5
<1> QED
  BY <1>1, PagingInvariant, PTL

=============================================================================
