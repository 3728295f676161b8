-------------------------------- MODULE Paging --------------------------------
(***************************************************************************)
(* The event pages of one session: Events of internal/store/store.go, the  *)
(* handler of internal/server/server.go that answers with them, and a      *)
(* reader that follows the cursor from page to page while records arrive   *)
(* and an administrator deletes the session.                               *)
(*                                                                         *)
(* A text is its size in bytes and the offsets at which it may be cut      *)
(* without splitting a UTF-8 character.  A cursor is the sequence number   *)
(* and the text offset of the last answer.                                 *)
(***************************************************************************)
EXTENDS Integers, Sequences

CONSTANTS
    EventText,   \* the texts events may have
    Limit,       \* the most events of a page
    MaxBytes,    \* the most bytes of text of a page (api.MaxPageBytes)
    MaxRune,     \* the longest UTF-8 character
    MaxSeq,      \* bound: the largest sequence number of an event
    MaxLives     \* bound: how often the session is shared from the start

ASSUME PageAssumption ==
    /\ Limit \in Nat \ {0}
    /\ MaxRune \in Nat \ {0}
    /\ MaxBytes \in Nat /\ MaxRune <= MaxBytes

(* No character is longer than MaxRune: a cut follows every other cut but  *)
(* the last within that many bytes.                                        *)
ASSUME TextAssumption ==
    \A t \in EventText :
        /\ t \in [size : Nat, cuts : SUBSET Nat]
        /\ t.cuts \subseteq 0 .. t.size /\ {0, t.size} \subseteq t.cuts
        /\ \A c \in t.cuts \ {t.size} : \E d \in t.cuts : c < d /\ d <= c + MaxRune

ASSUME BoundAssumption == MaxSeq \in Nat /\ MaxLives \in Nat

VARIABLES
    events,     \* the events rows of the session, in the order of seq
    life,       \* how often the session was deleted
    pc,         \* where the request of the reader is
    cursor,     \* the cursor of the request
    snapshot,   \* the events the query of the request reads
    page,       \* the pieces of the page so far
    used,       \* their bytes
    got,        \* the pieces the reader was given since it began
    since       \* the life of the session in which it began

serverVars == <<snapshot, page, used>>
readerVars == <<cursor, got, since>>
archiveVars == <<events, life>>
vars == <<archiveVars, pc, serverVars, readerVars>>

(* Sequence number 0 is the session_meta record, which is no event.        *)
Cursor == [seq : Nat, offset : Nat]

Beginning == [seq |-> 0, offset |-> 0]

Piece == [seq : Nat \ {0}, from : Nat, to : Nat, more : BOOLEAN]

Init ==
    /\ events = << >> /\ life = 0
    /\ pc = "ask"
    /\ cursor = Beginning
    /\ snapshot = << >> /\ page = << >> /\ used = 0
    /\ got = << >> /\ since = 0
-----------------------------------------------------------------------------
(***************************************************************************)
(* The archive.  A chunk with several events is several of these steps.    *)
(***************************************************************************)
(* A new chunk starts at the checkpoint and a sequence number is an offset,*)
(* so that new events come behind all there are.                           *)
LastSeq == IF events = << >> THEN 0 ELSE events[Len(events)].seq

AddEvent(seq, t) ==
    /\ seq > LastSeq
    /\ events' = Append(events, [seq |-> seq, size |-> t.size, cuts |-> t.cuts])
    /\ UNCHANGED <<life, pc, serverVars, readerVars>>

DeleteSession ==
    /\ events # << >>
    /\ life < MaxLives
    /\ events' = << >>
    /\ life' = life + 1
    /\ UNCHANGED <<pc, serverVars, readerVars>>
-----------------------------------------------------------------------------
(***************************************************************************)
(* The query.  SQLite reads all rows of one SELECT from one snapshot.      *)
(***************************************************************************)
Resumes == cursor.offset > 0

(* Mutant of IsSelected: a text that was cut is not selected again.        *)
IsAfter(e) == e.seq > cursor.seq

IsSelected(e) == IF Resumes THEN e.seq >= cursor.seq ELSE e.seq > cursor.seq

(* How many rows the cursor has behind it: they lie in the order of seq.   *)
Passed(s) == CHOOSE n \in 0 .. Len(s) : \A i \in 1 .. Len(s) : IsSelected(s[i]) <=> i > n

(* The rows the query yields, the number of which LIMIT bounds.            *)
Selected(s) ==
    LET n == Passed(s)
    IN  SubSeq(s, n + 1, IF Len(s) - n < Limit THEN Len(s) ELSE n + Limit)

(* Mutant of BadCursor: the size is compared the wrong way round.          *)
BadRest(rows) ==
    /\ Resumes
    /\ \/ rows = << >>
       \/ rows[1].seq # cursor.seq
       \/ cursor.offset < rows[1].size

(* Mutant of BadCursor: the offset is not compared with the text.          *)
BadRow(rows) == Resumes /\ (rows = << >> \/ rows[1].seq # cursor.seq)

(* A text offset has to fall on a character of the first row, which has    *)
(* to be the row of the cursor.                                            *)
BadCursor(rows) ==
    /\ Resumes
    /\ \/ rows = << >>
       \/ rows[1].seq # cursor.seq
       \/ cursor.offset >= rows[1].size
       \/ cursor.offset \notin rows[1].cuts

Query ==
    /\ pc = "ask"
    /\ snapshot' = events
    /\ pc' = IF BadCursor(Selected(events)) THEN "refused" ELSE "scan"
    /\ UNCHANGED <<archiveVars, page, used, readerVars>>

(***************************************************************************)
(* The loop over the rows.  Each row but the last gives one piece, so the  *)
(* next row is the one behind the pieces there are.                        *)
(***************************************************************************)
Rows == Selected(snapshot)

HasRow == pc = "scan" /\ Len(page) < Len(Rows)

Row == Rows[Len(page) + 1]

Start == IF Resumes /\ page = << >> THEN cursor.offset ELSE 0

Remaining == MaxBytes - used

RestFits == Row.size - Start <= Remaining

(* Mutant of CutAt: the text is cut by bytes.                              *)
CutAtBytes(row, max) == max

(* truncateUTF8: the last cut of the text up to max.                       *)
CutAt(row, max) == CHOOSE c \in row.cuts : c <= max /\ \A d \in row.cuts : d <= max => d <= c

Cut == CutAt(Row, Start + Remaining)

Take(to, more) ==
    /\ page' = Append(page, [seq |-> Row.seq, from |-> Start, to |-> to, more |-> more])
    /\ used' = used + to - Start
    /\ UNCHANGED <<archiveVars, snapshot, readerVars>>

TakeWhole ==
    /\ HasRow
    /\ Remaining > 0
    /\ RestFits
    /\ Take(Row.size, FALSE)
    /\ UNCHANGED pc

TakePart ==
    /\ HasRow
    /\ Remaining > 0
    /\ ~ RestFits
    /\ Cut > Start
    /\ Take(Cut, TRUE)
    /\ pc' = "answer"

(* Mutant of NothingFits: a text that does not fit waits for the next page.*)
NoWholeFits == HasRow => Remaining <= 0 \/ ~ RestFits

NothingFits == HasRow => Remaining <= 0 \/ (~ RestFits /\ Cut <= Start)

EndPage ==
    /\ pc = "scan"
    /\ NothingFits
    /\ pc' = IF Resumes /\ page = << >> THEN "refused" ELSE "answer"
    /\ UNCHANGED <<archiveVars, serverVars, readerVars>>
-----------------------------------------------------------------------------
(***************************************************************************)
(* The reader.  It asks with the cursor of the last answer until a page is *)
(* empty, and may ask again later.                                         *)
(***************************************************************************)
(* next_seq and next_text_offset of the answer.                            *)
NextCursor ==
    IF page = << >> THEN cursor
    ELSE LET last == page[Len(page)]
         IN  [seq |-> last.seq, offset |-> IF last.more THEN last.to ELSE 0]

EndRequest == snapshot' = << >> /\ page' = << >> /\ used' = 0

Receive ==
    /\ pc = "answer"
    /\ got' = got \o page
    /\ cursor' = NextCursor
    /\ pc' = IF page = << >> THEN "done" ELSE "ask"
    /\ EndRequest
    /\ UNCHANGED <<archiveVars, since>>

(* The request or its answer is lost; the reader asks the same again.      *)
Lose ==
    /\ pc \in {"scan", "answer", "refused"}
    /\ pc' = "ask"
    /\ EndRequest
    /\ UNCHANGED <<archiveVars, readerVars>>

AskAgain ==
    /\ pc = "done"
    /\ pc' = "ask"
    /\ UNCHANGED <<archiveVars, serverVars, readerVars>>

(* The cursor is refused with 400: the reader has to start over.           *)
StartOver ==
    /\ pc = "refused"
    /\ pc' = "ask"
    /\ cursor' = Beginning /\ got' = << >> /\ since' = life
    /\ EndRequest
    /\ UNCHANGED archiveVars

ServerStep == Query \/ TakeWhole \/ TakePart \/ EndPage

ReaderStep == Receive \/ AskAgain \/ StartOver

Next ==
    \/ \E seq \in 1 .. MaxSeq, t \in EventText : AddEvent(seq, t)
    \/ DeleteSession
    \/ ServerStep
    \/ ReaderStep
    \/ Lose

Spec == Init /\ [][Next]_vars

(* The handler runs to its end and the reader goes on.                     *)
FairSpec == Spec /\ WF_vars(ServerStep) /\ WF_vars(ReaderStep)
-----------------------------------------------------------------------------
(* Every variable keeps to its type: no cursor makes a page count wrong.   *)
TypeOK ==
    /\ \A s \in {events, snapshot} : \A i \in DOMAIN s :
          s[i].seq \in 1 .. MaxSeq /\ [size |-> s[i].size, cuts |-> s[i].cuts] \in EventText
    /\ life \in 0 .. MaxLives /\ since \in 0 .. MaxLives
    /\ pc \in {"ask", "scan", "answer", "refused", "done"}
    /\ cursor \in Cursor
    /\ page \in Seq(Piece) /\ got \in Seq(Piece)
    /\ used \in Nat

(* The session was deleted since the reader began, so that its cursor may  *)
(* belong to a transcript that is gone.                                    *)
Stale == since # life

(***************************************************************************)
(* Whatever cursor a page is asked with, also one of a transcript that was *)
(* deleted and shared anew, it keeps to its limits, and each piece is one  *)
(* of the events of the query, from one character to another.              *)
(***************************************************************************)
IsPieceOf(p, e) ==
    /\ e.seq = p.seq
    /\ {p.from, p.to} \subseteq e.cuts
    /\ p.from < p.to \/ e.size = 0
    /\ p.more <=> p.to < e.size

PageFits ==
    /\ used <= MaxBytes
    /\ Len(page) <= Limit
    /\ \A i \in DOMAIN page : \E j \in DOMAIN snapshot : IsPieceOf(page[i], snapshot[j])

(***************************************************************************)
(* A reader that follows the cursor gets the events of the transcript from *)
(* the first one on, in order, none twice and none left out, each whole:   *)
(* the pieces of a text follow each other.  It is refused only when the    *)
(* session was deleted in the meantime.                                    *)
(***************************************************************************)
IsNextEvent(seq, before) ==
    \E j \in DOMAIN events : events[j].seq = seq /\ before = (IF j = 1 THEN 0 ELSE events[j - 1].seq)

Follows(p, q) ==
    IF p.more THEN q.seq = p.seq /\ q.from = p.to
              ELSE q.from = 0 /\ IsNextEvent(q.seq, p.seq)

ReadsInOrder ==
    ~ Stale =>
        /\ pc # "refused"
        /\ \A i \in DOMAIN got : \E j \in DOMAIN events : IsPieceOf(got[i], events[j])
        /\ got # << >> => got[1].from = 0 /\ IsNextEvent(got[1].seq, 0)
        /\ \A i \in 1 .. Len(got) - 1 : Follows(got[i], got[i + 1])

(***************************************************************************)
(* An empty page, by which a reader knows the end, is given at the end     *)
(* only: no event of the query lies behind the cursor, and a reader that   *)
(* was not disturbed has all of them to their last byte.                   *)
(***************************************************************************)
HasRead(seq) == \E i \in DOMAIN got : got[i].seq = seq /\ ~ got[i].more

EmptyPageIsEnd ==
    pc = "answer" /\ page = << >> =>
        \A j \in DOMAIN snapshot :
            /\ snapshot[j].seq <= cursor.seq
            /\ ~ Stale => HasRead(snapshot[j].seq)

(***************************************************************************)
(* Once answers are no longer lost, every event is read in time unless its *)
(* session is deleted: no cursor makes the reader stand still.             *)
(***************************************************************************)
IsShared(seq) == \E j \in DOMAIN events : events[j].seq = seq

ReadsAll ==
    <>[][~ Lose]_vars =>
        \A seq \in 1 .. MaxSeq : (IsShared(seq) /\ ~ Stale) ~> (HasRead(seq) \/ Stale)

=============================================================================
