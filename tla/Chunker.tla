------------------------------- MODULE Chunker -------------------------------
(***************************************************************************)
(* How a client cuts a session file into chunks: internal/codex ReadChunks *)
(* and readLine, over the lengths of the lines, while an agent is writing  *)
(* to the end of the file.                                                 *)
(*                                                                         *)
(* The file is given by the offsets at which its lines end.  The variables *)
(* chunk, offset and chunkStart are those of ReadChunks (chunk by its      *)
(* length); the reader has taken the first `taken` lines of the file.      *)
(***************************************************************************)
EXTENDS Integers, Sequences

CONSTANTS
    TargetChunk,   \* the size a chunk is to have, 4 MiB
    MaxLine,       \* the size of the longest line accepted, 64 MiB
    MaxLines,      \* bound: lines in the file
    MaxTail        \* bound: length of a line

ASSUME LimitsAssumption ==
    /\ TargetChunk \in Nat \ {0}
    /\ MaxLine \in Nat /\ TargetChunk <= MaxLine

ASSUME BoundsAssumption == MaxLines \in Nat /\ MaxTail \in Nat

VARIABLES
    ends,         \* the offset at which each whole line ends
    tail,         \* the length of the line being written
    start,        \* the checkpoint ReadChunks was called with
    pc,           \* "idle", "reading", "ending", "done" or "failed"
    taken,        \* the lines of the file the reader is past
    chunk,        \* the length of the buffered lines
    offset,       \* the end of the last buffered line
    chunkStart,   \* where the buffered lines start
    sent          \* the chunks the server has acknowledged

file == <<ends, tail>>
reader == <<start, pc, taken, chunk, offset, chunkStart, sent>>
vars == <<file, reader>>

LineEnd(i) == IF i = 0 THEN 0 ELSE ends[i]

Size == LineEnd(Len(ends)) + tail

LineLength(i) == LineEnd(i) - LineEnd(i - 1)

Boundary(o) == \E i \in 0 .. Len(ends) : LineEnd(i) = o

Init ==
    /\ ends = << >> /\ tail = 0
    /\ start = 0 /\ pc = "idle"
    /\ taken = 0 /\ chunk = 0 /\ offset = 0 /\ chunkStart = 0
    /\ sent = << >>
-----------------------------------------------------------------------------
(* The agent writes part of a line, or ends it with its newline.           *)
WritePart(n) ==
    /\ tail + n <= MaxTail
    /\ Len(ends) < MaxLines
    /\ tail' = tail + n
    /\ UNCHANGED <<ends, reader>>

EndLine ==
    /\ tail > 0
    /\ ends' = Append(ends, Size)
    /\ tail' = 0
    /\ UNCHANGED reader
-----------------------------------------------------------------------------
(* ReadChunks opens the file at the server's checkpoint, which must be the *)
(* end of a line and not past the end of the file.                         *)
OnBoundary(s) == s <= Size /\ (s > 0 => Boundary(s))

Open(s) ==
    /\ pc = "idle"
    /\ start' = s /\ offset' = s /\ chunkStart' = s
    /\ IF OnBoundary(s)
         THEN /\ pc' = "reading"
              /\ taken' \in {i \in 0 .. Len(ends) : LineEnd(i) = s}
         ELSE pc' = "failed" /\ taken' = taken
    /\ UNCHANGED <<file, chunk, sent>>

NextLength == LineLength(taken + 1)

(* Mutants of NoRoom: lines are added until the target is reached; and     *)
(* every line is sent by itself.                                           *)
NeverNoRoom == FALSE
NeverTwoLines == chunk > 0

(* The buffer must be sent before the next line is added to it ...         *)
NoRoom == chunk > 0 /\ chunk + NextLength > TargetChunk

(* ... or because it has reached the target.                               *)
Full == chunk >= TargetChunk

TooLong(n) == n > MaxLine

TakeLine ==
    /\ pc = "reading" /\ taken < Len(ends)
    /\ ~Full /\ ~NoRoom /\ ~TooLong(NextLength)
    /\ taken' = taken + 1
    /\ chunk' = chunk + NextLength
    /\ offset' = offset + NextLength
    /\ UNCHANGED <<file, start, pc, chunkStart, sent>>

(* readLine gives up on a line that is too long, whether it ends or not;   *)
(* what was buffered is not sent.                                          *)
RejectLine ==
    /\ pc = "reading" /\ ~Full
    /\ \/ taken < Len(ends) /\ TooLong(NextLength)
       \/ taken = Len(ends) /\ TooLong(tail)
    /\ pc' = "failed"
    /\ UNCHANGED <<file, start, taken, chunk, offset, chunkStart, sent>>

(* End of file: the unfinished line is left for another sync.              *)
(* Mutant of ReachEnd: the reader waits for the unfinished line.           *)
ReachEndOfLine ==
    /\ pc = "reading" /\ ~Full
    /\ taken = Len(ends) /\ tail = 0
    /\ pc' = "ending"
    /\ UNCHANGED <<file, start, taken, chunk, offset, chunkStart, sent>>

ReachEnd ==
    /\ pc = "reading" /\ ~Full
    /\ taken = Len(ends) /\ ~TooLong(tail)
    /\ pc' = "ending"
    /\ UNCHANGED <<file, start, taken, chunk, offset, chunkStart, sent>>

MustFlush ==
    /\ chunk > 0
    /\ \/ pc = "reading" /\ Full
       \/ pc = "reading" /\ taken < Len(ends) /\ ~TooLong(NextLength) /\ NoRoom
       \/ pc = "ending"

(* Mutant of Flush: the next chunk starts where the last line started.     *)
FlushBehind ==
    /\ MustFlush
    /\ sent' = Append(sent, [start |-> chunkStart, end |-> chunkStart + chunk])
    /\ chunkStart' = LineEnd(taken - 1)
    /\ chunk' = 0
    /\ UNCHANGED <<file, start, pc, taken, offset>>

Flush ==
    /\ MustFlush
    /\ sent' = Append(sent, [start |-> chunkStart, end |-> chunkStart + chunk])
    /\ chunkStart' = chunkStart + chunk
    /\ chunk' = 0
    /\ UNCHANGED <<file, start, pc, taken, offset>>

(* The upload of the chunk fails, and with it ReadChunks.                  *)
FlushFails ==
    /\ MustFlush
    /\ pc' = "failed"
    /\ UNCHANGED <<file, start, taken, chunk, offset, chunkStart, sent>>

(* Mutant of Finish: the last buffer is not flushed.                       *)
FinishUnflushed ==
    /\ pc = "ending"
    /\ pc' = "done"
    /\ UNCHANGED <<file, start, taken, chunk, offset, chunkStart, sent>>

Finish ==
    /\ pc = "ending" /\ chunk = 0
    /\ pc' = "done"
    /\ UNCHANGED <<file, start, taken, chunk, offset, chunkStart, sent>>

Read == TakeLine \/ RejectLine \/ ReachEnd \/ Flush \/ FlushFails \/ Finish

Next ==
    \/ \E n \in 1 .. MaxTail : WritePart(n)
    \/ EndLine
    \/ \E s \in 0 .. Size + 1 : Open(s)
    \/ Read

Spec == Init /\ [][Next]_vars

(* The reader is never blocked: it reads a regular file, and an upload     *)
(* ends with an answer or the client's timeout.                            *)
FairSpec == Spec /\ WF_vars(Read)
-----------------------------------------------------------------------------
Chunk == [start : Nat, end : Nat]

(* The variables hold numbers, and the reader is not past the file.        *)
TypeOK ==
    /\ ends \in Seq(Nat) /\ tail \in Nat
    /\ pc \in {"idle", "reading", "ending", "done", "failed"}
    /\ start \in Nat /\ chunk \in Nat /\ offset \in Nat /\ chunkStart \in Nat
    /\ taken \in 0 .. Len(ends)
    /\ sent \in Seq(Chunk)

(* Lines are not empty and end one after another.                          *)
LinesInOrder ==
    /\ \A i \in 1 .. Len(ends) : ends[i] > 0
    /\ \A i, j \in 1 .. Len(ends) : i < j => ends[i] < ends[j]

(***************************************************************************)
(* What is buffered is what lies between the last chunk sent and the last  *)
(* line taken: no line is skipped or taken twice over.                     *)
(***************************************************************************)
BufferIsUnsent ==
    pc \in {"reading", "ending", "done"} =>
        /\ offset = LineEnd(taken)
        /\ chunkStart + chunk = offset

(***************************************************************************)
(* The chunks sent follow each other from the checkpoint on, without gap   *)
(* or overlap, and each ends where a line ends: ParseChunk never sees half *)
(* a record, and every checkpoint is a line boundary (codex.go:174).       *)
(***************************************************************************)
StartOf(n) == IF n = 1 THEN start ELSE sent[n - 1].end

SentEnd == StartOf(Len(sent) + 1)

ChunksContiguous ==
    /\ \A n \in 1 .. Len(sent) :
          /\ sent[n].start = StartOf(n)
          /\ sent[n].start < sent[n].end
          /\ Boundary(sent[n].start) /\ Boundary(sent[n].end)
    /\ chunkStart = SentEnd

(***************************************************************************)
(* A chunk fits what the server accepts (plainSize <= MaxLine+TargetChunk, *)
(* server.go:225): it has at most the target size, or is one line of its   *)
(* own (README: oversized records use a dedicated chunk).                  *)
(***************************************************************************)
OneLine(c) == \E i \in 1 .. Len(ends) : LineEnd(i - 1) = c.start /\ LineEnd(i) = c.end

Fits(c) ==
    \/ c.end - c.start <= TargetChunk
    \/ OneLine(c) /\ c.end - c.start <= MaxLine

ChunksFit == \A n \in 1 .. Len(sent) : Fits(sent[n])

(***************************************************************************)
(* A chunk that is not the last is not cut short: the first line of the    *)
(* next one did not fit into it.                                           *)
(***************************************************************************)
FirstLineAfter(o) == CHOOSE i \in 1 .. Len(ends) : LineEnd(i - 1) = o

ChunksFilled ==
    \A n \in 1 .. Len(sent) - 1 :
        LineEnd(FirstLineAfter(sent[n].end)) - sent[n].start > TargetChunk

(***************************************************************************)
(* ReadChunks returns success only when every line it saw is acknowledged: *)
(* nothing is left in the buffer.                                          *)
(***************************************************************************)
DoneIsSent == pc = "done" => SentEnd = LineEnd(taken)

(***************************************************************************)
(* What the proofs rest on besides: lines are not empty, buffering starts  *)
(* on a line boundary, and the buffer could be sent as it is.              *)
(***************************************************************************)
Active == pc \in {"reading", "ending", "done"}

StartOnBoundary == Active => Boundary(chunkStart)

BufferFits ==
    (Active /\ chunk > 0) =>
        \/ chunk <= TargetChunk
        \/ taken > 0 /\ LineEnd(taken - 1) = chunkStart /\ chunk <= MaxLine

NothingBeforeOpen == pc = "idle" => chunk = 0 /\ sent = << >>

ReaderInv ==
    /\ TypeOK
    /\ LinesInOrder
    /\ BufferIsUnsent
    /\ ChunksContiguous
    /\ ChunksFit
    /\ StartOnBoundary
    /\ BufferFits
    /\ NothingBeforeOpen

(* The reader comes to an end once the agent stops writing.                *)
ReaderEnds == pc = "reading" ~> pc \in {"done", "failed"}
=============================================================================
