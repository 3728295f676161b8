--------------------------- MODULE Chunker_proofs ---------------------------
(***************************************************************************)
(* Proofs about Chunker, for every target size, line limit and file: the   *)
(* chunks a client sends are contiguous, end where lines end, and fit what *)
(* the server accepts, while the file grows.                               *)
(***************************************************************************)
EXTENDS Chunker, SequenceTheorems, TLAPS

-----------------------------------------------------------------------------
LEMMA LineEndType ==
    ASSUME TypeOK, NEW i \in 0 .. Len(ends)
    PROVE  LineEnd(i) \in Nat
BY LenProperties DEF TypeOK, LineEnd

LEMMA LineEndsGrow ==
    ASSUME TypeOK, LinesInOrder, NEW i \in 1 .. Len(ends)
    PROVE  LineEnd(i - 1) < LineEnd(i)
<1>1. Len(ends) \in Nat /\ \A j \in 1 .. Len(ends) : ends[j] \in Nat
  BY LenProperties DEF TypeOK
<1>2. CASE i = 1
  BY <1>1, <1>2 DEF LinesInOrder, LineEnd
<1>3. CASE i # 1
  <2>1. i - 1 \in 1 .. Len(ends) /\ i - 1 < i
    BY <1>1, <1>3
  <2> QED
    BY <1>1, <1>3, <2>1 DEF LinesInOrder, LineEnd
<1> QED
  BY <1>2, <1>3

-----------------------------------------------------------------------------
LEMMA InitReaderInv == Init => ReaderInv
<1> SUFFICES ASSUME Init PROVE ReaderInv
  OBVIOUS
<1>1. Len(ends) = 0 /\ Len(sent) = 0
  BY DEF Init
<1>2. TypeOK
  BY <1>1 DEF Init, TypeOK
<1> QED
  BY <1>1, <1>2 DEF Init, ReaderInv, LinesInOrder, BufferIsUnsent, ChunksContiguous,
     ChunksFit, StartOnBoundary, BufferFits, NothingBeforeOpen, Active, SentEnd, StartOf

(* The agent only adds lines behind those the reader has seen.             *)
LEMMA EndLineKeeps ==
    ASSUME TypeOK, EndLine
    PROVE  /\ ends' \in Seq(Nat) /\ Len(ends') = Len(ends) + 1 /\ Len(ends) \in Nat
           /\ \A i \in 0 .. Len(ends) : LineEnd(i)' = LineEnd(i)
           /\ ends'[Len(ends) + 1] = LineEnd(Len(ends)) + tail
           /\ \A i \in 1 .. Len(ends) : ends'[i] = ends[i]
<1>1. Len(ends) \in Nat /\ ends \in Seq(Nat) /\ tail \in Nat
  BY LenProperties DEF TypeOK
<1>2. Size \in Nat
  BY <1>1, LineEndType DEF Size
<1>3. /\ ends' \in Seq(Nat) /\ Len(ends') = Len(ends) + 1
      /\ \A i \in 1 .. Len(ends) : ends'[i] = ends[i]
      /\ ends'[Len(ends) + 1] = Size
  BY <1>1, <1>2 DEF EndLine
<1>4. \A i \in 0 .. Len(ends) : LineEnd(i)' = LineEnd(i)
  BY <1>1, <1>3 DEF LineEnd
<1> QED
  BY <1>1, <1>3, <1>4 DEF Size

LEMMA EndLineReaderInv ==
    ASSUME ReaderInv, EndLine
    PROVE  ReaderInv'
<1>1. /\ ends' \in Seq(Nat) /\ Len(ends') = Len(ends) + 1 /\ Len(ends) \in Nat
      /\ \A i \in 0 .. Len(ends) : LineEnd(i)' = LineEnd(i)
      /\ ends'[Len(ends) + 1] = LineEnd(Len(ends)) + tail
      /\ \A i \in 1 .. Len(ends) : ends'[i] = ends[i]
  BY EndLineKeeps DEF ReaderInv
<1>2. UNCHANGED reader /\ tail > 0 /\ tail \in Nat
  BY DEF EndLine, ReaderInv, TypeOK
<1>3. TypeOK'
  BY <1>1, <1>2 DEF ReaderInv, TypeOK, EndLine, reader
<1>4. LinesInOrder'
  <2>1. LineEnd(Len(ends)) \in Nat /\ \A i \in 1 .. Len(ends) : ends[i] \in Nat
    BY <1>1, LineEndType DEF ReaderInv, TypeOK
  <2>2. \A i \in 1 .. Len(ends) : ends[i] <= LineEnd(Len(ends))
    BY <1>1, <2>1 DEF ReaderInv, LinesInOrder, LineEnd
  <2>3. \A i \in 1 .. Len(ends') : ends'[i] > 0
    <3> SUFFICES ASSUME NEW i \in 1 .. Len(ends') PROVE ends'[i] > 0
      OBVIOUS
    <3>1. CASE i \in 1 .. Len(ends)
      BY <1>1, <3>1 DEF ReaderInv, LinesInOrder
    <3>2. CASE i = Len(ends) + 1
      BY <1>1, <1>2, <2>1, <3>2
    <3> QED
      BY <1>1, <3>1, <3>2
  <2>4. \A i, j \in 1 .. Len(ends') : i < j => ends'[i] < ends'[j]
    <3> SUFFICES ASSUME NEW i \in 1 .. Len(ends'), NEW j \in 1 .. Len(ends'), i < j
                 PROVE  ends'[i] < ends'[j]
      OBVIOUS
    <3>1. i \in 1 .. Len(ends)
      BY <1>1
    <3>2. CASE j \in 1 .. Len(ends)
      BY <1>1, <3>1, <3>2 DEF ReaderInv, LinesInOrder
    <3>3. CASE j = Len(ends) + 1
      BY <1>1, <1>2, <2>1, <2>2, <3>1, <3>3
    <3> QED
      BY <1>1, <3>2, <3>3
  <2> QED
    BY <2>3, <2>4 DEF LinesInOrder
<1>5. \A o : Boundary(o) => Boundary(o)'
  BY <1>1 DEF Boundary
<1>6. \A c : Fits(c) => Fits(c)'
  <2> SUFFICES ASSUME NEW c, OneLine(c) PROVE OneLine(c)'
    BY DEF Fits
  <2>1. PICK i \in 1 .. Len(ends) : LineEnd(i - 1) = c.start /\ LineEnd(i) = c.end
    BY DEF OneLine
  <2>2. i \in 0 .. Len(ends) /\ i - 1 \in 0 .. Len(ends) /\ i \in 1 .. Len(ends')
    BY <1>1, <2>1
  <2>3. LineEnd(i)' = LineEnd(i) /\ LineEnd(i - 1)' = LineEnd(i - 1)
    BY <1>1, <2>2
  <2> QED
    BY <2>1, <2>2, <2>3 DEF OneLine
<1>7. taken \in 0 .. Len(ends) /\ (taken > 0 => taken - 1 \in 0 .. Len(ends))
  BY <1>1 DEF ReaderInv, TypeOK
<1>8. BufferIsUnsent' /\ BufferFits'
  BY <1>1, <1>2, <1>7 DEF reader, ReaderInv, BufferIsUnsent, BufferFits, Active
<1>9. ChunksContiguous' /\ ChunksFit' /\ StartOnBoundary'
  BY <1>2, <1>5, <1>6 DEF reader, ReaderInv, ChunksContiguous, ChunksFit, StartOnBoundary,
                         Active, StartOf, SentEnd
<1>10. NothingBeforeOpen'
  BY <1>2 DEF reader, ReaderInv, NothingBeforeOpen
<1> QED
  BY <1>3, <1>4, <1>8, <1>9, <1>10 DEF ReaderInv

(* A step of the reader leaves the file alone.                             *)
LEMMA SameFile ==
    ASSUME UNCHANGED ends
    PROVE  /\ \A i : LineEnd(i)' = LineEnd(i)
           /\ \A o : Boundary(o)' = Boundary(o)
           /\ \A c : Fits(c)' = Fits(c)
BY DEF LineEnd, Boundary, Fits, OneLine

LEMMA OpenReaderInv ==
    ASSUME ReaderInv, NEW s \in Nat, Open(s)
    PROVE  ReaderInv'
<1>1. /\ UNCHANGED <<ends, tail, chunk, sent>>
      /\ start' = s /\ offset' = s /\ chunkStart' = s
      /\ chunk = 0 /\ sent = << >>
  BY DEF Open, file, ReaderInv, NothingBeforeOpen
<1>2. /\ pc' \in {"reading", "failed"} /\ taken' \in 0 .. Len(ends)
      /\ pc' = "reading" => LineEnd(taken') = s
  BY DEF Open, ReaderInv, TypeOK
<1>3. Len(sent) = 0
  BY <1>1
<1>4. TypeOK'
  BY <1>1, <1>2 DEF ReaderInv, TypeOK
<1>5. LinesInOrder'
  BY <1>1 DEF ReaderInv, LinesInOrder
<1>6. BufferIsUnsent' /\ BufferFits' /\ NothingBeforeOpen'
  BY <1>1, <1>2, SameFile DEF BufferIsUnsent, BufferFits, NothingBeforeOpen, Active
<1>7. ChunksContiguous' /\ ChunksFit'
  BY <1>1, <1>3 DEF ChunksContiguous, ChunksFit, SentEnd, StartOf
<1>8. StartOnBoundary'
  BY <1>1, <1>2, SameFile DEF StartOnBoundary, Active, Boundary
<1> QED
  BY <1>4, <1>5, <1>6, <1>7, <1>8 DEF ReaderInv

LEMMA TakeLineReaderInv ==
    ASSUME ReaderInv, TakeLine
    PROVE  ReaderInv'
<1>1. /\ UNCHANGED <<ends, tail, start, pc, chunkStart, sent>>
      /\ taken' = taken + 1 /\ chunk' = chunk + NextLength /\ offset' = offset + NextLength
      /\ pc = "reading" /\ NextLength <= MaxLine
      /\ chunk > 0 => chunk + NextLength <= TargetChunk
  <2>1. chunk \in Nat /\ Len(ends) \in Nat /\ taken \in Nat
    BY LenProperties DEF ReaderInv, TypeOK
  <2>2. taken + 1 \in 1 .. Len(ends)
    BY <2>1 DEF TakeLine
  <2>3. NextLength \in Int
    BY <2>1, <2>2, LineEndType DEF NextLength, LineLength, ReaderInv
  <2> QED
    BY <2>1, <2>3, LimitsAssumption DEF TakeLine, file, NoRoom, TooLong
<1>2. /\ Len(ends) \in Nat /\ taken \in 0 .. Len(ends) /\ taken + 1 \in 1 .. Len(ends)
  BY LenProperties DEF TakeLine, ReaderInv, TypeOK
<1>3. /\ LineEnd(taken) \in Nat /\ LineEnd(taken + 1) \in Nat
      /\ LineEnd(taken) < LineEnd(taken + 1)
      /\ NextLength = LineEnd(taken + 1) - LineEnd(taken)
  <2>1. (taken + 1) - 1 = taken
    BY <1>2
  <2>2. LineEnd(taken) < LineEnd(taken + 1)
    BY <1>2, <2>1, LineEndsGrow DEF ReaderInv
  <2> QED
    BY <1>2, <2>1, <2>2, LineEndType DEF ReaderInv, NextLength, LineLength
<1>4. /\ offset = LineEnd(taken) /\ chunkStart + chunk = offset
      /\ chunk \in Nat /\ chunkStart \in Nat
  BY <1>1 DEF ReaderInv, TypeOK, BufferIsUnsent
<1>5. /\ NextLength \in Nat /\ chunk' \in Nat /\ offset' \in Nat
      /\ offset' = LineEnd(taken + 1) /\ chunkStart + chunk' = offset'
  <2> HIDE DEF NextLength
  <2> QED
    BY <1>1, <1>3, <1>4
<1>6. TypeOK' /\ LinesInOrder'
  <2>1. taken' \in 0 .. Len(ends')
    BY <1>1, <1>2
  <2> QED
    BY <1>1, <1>5, <2>1 DEF ReaderInv, TypeOK, LinesInOrder
<1>7. BufferIsUnsent'
  <2>1. LineEnd(taken)' = LineEnd(taken + 1)
    BY <1>1 DEF LineEnd
  <2> QED
    BY <1>1, <1>5, <2>1 DEF BufferIsUnsent
<1>8. ChunksContiguous' /\ ChunksFit' /\ StartOnBoundary'
  BY <1>1, SameFile DEF ReaderInv, ChunksContiguous, ChunksFit, StartOnBoundary, Active,
                        StartOf, SentEnd
<1>9. BufferFits'
  <2>1. CASE chunk > 0
    BY <1>1, <2>1 DEF BufferFits
  <2>2. CASE chunk = 0
    <3>1. chunkStart = LineEnd(taken) /\ chunk' <= MaxLine /\ taken' > 0
      BY <1>1, <1>2, <1>3, <1>4, <2>2
    <3>2. taken' - 1 = taken
      BY <1>1, <1>2
    <3> QED
      BY <1>1, <3>1, <3>2, SameFile DEF BufferFits
  <2> QED
    BY <1>4, <2>1, <2>2
<1>10. NothingBeforeOpen'
  BY <1>1 DEF NothingBeforeOpen
<1> QED
  BY <1>6, <1>7, <1>8, <1>9, <1>10 DEF ReaderInv

(* What flush sends is a chunk that follows the others and fits.           *)
LEMMA FlushedChunk ==
    ASSUME ReaderInv, MustFlush
    PROVE  LET c == [start |-> chunkStart, end |-> chunkStart + chunk]
           IN  c \in Chunk /\ c.start < c.end /\ Boundary(c.start) /\ Boundary(c.end) /\ Fits(c)
<1> DEFINE c == [start |-> chunkStart, end |-> chunkStart + chunk]
<1>1. /\ Active /\ chunk > 0 /\ chunk \in Nat /\ chunkStart \in Nat
      /\ Len(ends) \in Nat /\ taken \in 0 .. Len(ends)
  BY LenProperties DEF MustFlush, Active, ReaderInv, TypeOK
<1>2. c.start = chunkStart /\ c.end = LineEnd(taken) /\ c.end - c.start = chunk
  BY <1>1 DEF ReaderInv, BufferIsUnsent, Active
<1>3. Boundary(c.start) /\ Boundary(c.end)
  BY <1>1, <1>2 DEF ReaderInv, StartOnBoundary, Boundary
<1>4. Fits(c)
  <2>1. CASE chunk <= TargetChunk
    BY <1>2, <2>1 DEF Fits
  <2>2. CASE taken > 0 /\ LineEnd(taken - 1) = chunkStart /\ chunk <= MaxLine
    <3>1. taken \in 1 .. Len(ends)
      BY <1>1, <2>2
    <3> QED
      BY <1>2, <2>2, <3>1 DEF Fits, OneLine
  <2> QED
    BY <1>1, <2>1, <2>2 DEF ReaderInv, BufferFits
<1> QED
  BY <1>1, <1>3, <1>4 DEF Chunk

LEMMA FlushReaderInv ==
    ASSUME ReaderInv, Flush
    PROVE  ReaderInv'
<1> DEFINE c == [start |-> chunkStart, end |-> chunkStart + chunk]
<1>1. /\ UNCHANGED <<ends, tail, start, pc, taken, offset>>
      /\ sent' = Append(sent, c) /\ chunkStart' = chunkStart + chunk /\ chunk' = 0
      /\ Active /\ chunk \in Nat /\ chunkStart \in Nat
  BY DEF Flush, file, MustFlush, Active, ReaderInv, TypeOK
<1>2. c \in Chunk /\ c.start < c.end /\ Boundary(c.start) /\ Boundary(c.end) /\ Fits(c)
  BY FlushedChunk DEF Flush
<1>3. c.start = chunkStart /\ c.end = chunkStart + chunk
  OBVIOUS
<1> HIDE DEF c
<1>4. /\ sent \in Seq(Chunk) /\ Len(sent) \in Nat
      /\ sent' \in Seq(Chunk) /\ Len(sent') = Len(sent) + 1
      /\ \A n \in 1 .. Len(sent) : sent'[n] = sent[n]
      /\ sent'[Len(sent) + 1] = c
  BY <1>1, <1>2, LenProperties DEF ReaderInv, TypeOK
<1>5. TypeOK'
  BY <1>1, <1>4 DEF ReaderInv, TypeOK
<1>6. LinesInOrder'
  BY <1>1 DEF ReaderInv, LinesInOrder
<1>7. BufferIsUnsent'
  BY <1>1, SameFile DEF ReaderInv, BufferIsUnsent, Active
<1>8. ChunksContiguous'
  <2>1. \A n \in 1 .. Len(sent) + 1 : StartOf(n)' = StartOf(n)
    BY <1>1, <1>4 DEF StartOf
  <2>2. \A n \in 1 .. Len(sent') :
           /\ sent'[n].start = StartOf(n)
           /\ sent'[n].start < sent'[n].end
           /\ Boundary(sent'[n].start) /\ Boundary(sent'[n].end)
    <3> SUFFICES ASSUME NEW n \in 1 .. Len(sent')
                 PROVE  /\ sent'[n].start = StartOf(n)
                        /\ sent'[n].start < sent'[n].end
                        /\ Boundary(sent'[n].start) /\ Boundary(sent'[n].end)
      OBVIOUS
    <3>1. CASE n \in 1 .. Len(sent)
      BY <1>4, <3>1 DEF ReaderInv, ChunksContiguous
    <3>2. CASE n = Len(sent) + 1
      BY <1>2, <1>3, <1>4, <3>2 DEF ReaderInv, ChunksContiguous, SentEnd
    <3> QED
      BY <1>4, <3>1, <3>2
  <2>3. chunkStart' = SentEnd'
    BY <1>1, <1>3, <1>4 DEF SentEnd, StartOf
  <2> QED
    BY <1>1, <1>4, <2>1, <2>2, <2>3, SameFile DEF ChunksContiguous
<1>9. ChunksFit'
  <2> SUFFICES ASSUME NEW n \in 1 .. Len(sent') PROVE Fits(sent'[n])
    BY <1>1, SameFile DEF ChunksFit
  <2>1. CASE n \in 1 .. Len(sent)
    BY <1>4, <2>1 DEF ReaderInv, ChunksFit
  <2>2. CASE n = Len(sent) + 1
    BY <1>2, <1>4, <2>2
  <2> QED
    BY <1>4, <2>1, <2>2
<1>10. StartOnBoundary' /\ BufferFits'
  BY <1>1, <1>2, <1>3, SameFile DEF StartOnBoundary, BufferFits
<1>11. NothingBeforeOpen'
  BY <1>1 DEF NothingBeforeOpen, Active
<1> QED
  BY <1>5, <1>6, <1>7, <1>8, <1>9, <1>10, <1>11 DEF ReaderInv

(* The other steps only move pc, never back to idle and never from failed. *)
LEMMA PcReaderInv ==
    ASSUME ReaderInv, UNCHANGED <<ends, start, taken, chunk, offset, chunkStart, sent>>,
           tail' \in Nat,
           pc' \in {pc, "failed"} \/ (Active /\ pc' \in {"reading", "ending", "done"})
    PROVE  ReaderInv'
<1>1. TypeOK'
  BY DEF ReaderInv, TypeOK, Active
<1>2. LinesInOrder'
  BY DEF ReaderInv, LinesInOrder
<1>3. Active' => Active
  BY DEF Active
<1>4. BufferIsUnsent' /\ BufferFits' /\ NothingBeforeOpen' /\ StartOnBoundary'
  BY <1>3, SameFile DEF ReaderInv, BufferIsUnsent, BufferFits, NothingBeforeOpen,
                        StartOnBoundary, Active
<1>5. ChunksContiguous' /\ ChunksFit'
  BY SameFile DEF ReaderInv, ChunksContiguous, ChunksFit, StartOf, SentEnd
<1> QED
  BY <1>1, <1>2, <1>4, <1>5 DEF ReaderInv

LEMMA NextReaderInv == ReaderInv /\ [Next]_vars => ReaderInv'
<1> SUFFICES ASSUME ReaderInv, [Next]_vars
             PROVE  ReaderInv'
  OBVIOUS
<1>1. ASSUME NEW n \in 1 .. MaxTail, WritePart(n)
      PROVE  ReaderInv'
  <2>1. tail' \in Nat /\ UNCHANGED <<ends, start, taken, chunk, offset, chunkStart, sent, pc>>
    BY <1>1, BoundsAssumption DEF WritePart, reader, ReaderInv, TypeOK
  <2> QED
    BY <2>1, PcReaderInv
<1>2. CASE EndLine
  BY <1>2, EndLineReaderInv
<1>3. ASSUME NEW s \in 0 .. Size + 1, Open(s)
      PROVE  ReaderInv'
  <2>1. Size \in Nat
    BY LineEndType, LenProperties DEF Size, ReaderInv, TypeOK
  <2>2. s \in Nat
    BY <1>3, <2>1
  <2> QED
    BY <1>3, <2>2, OpenReaderInv
<1>4. CASE TakeLine
  BY <1>4, TakeLineReaderInv
<1>5. CASE RejectLine \/ FlushFails
  BY <1>5, PcReaderInv DEF RejectLine, FlushFails, file, ReaderInv, TypeOK
<1>6. CASE ReachEnd \/ Finish
  BY <1>6, PcReaderInv DEF ReachEnd, Finish, file, ReaderInv, TypeOK, Active
<1>7. CASE Flush
  BY <1>7, FlushReaderInv
<1>8. CASE UNCHANGED vars
  BY <1>8, PcReaderInv DEF vars, file, reader, ReaderInv, TypeOK
<1> QED
  BY <1>1, <1>2, <1>3, <1>4, <1>5, <1>6, <1>7, <1>8 DEF Next, Read

LEMMA ReaderInvariant == Spec => []ReaderInv
BY InitReaderInv, NextReaderInv, PTL DEF Spec

(* Chunks follow each other from the checkpoint and end where lines end.   *)
THEOREM ChunksAreContiguous == Spec => []ChunksContiguous
<1>1. ReaderInv => ChunksContiguous
  BY DEF ReaderInv
<1> QED
  BY <1>1, ReaderInvariant, PTL

(* Every chunk has at most the target size or is a single line.            *)
THEOREM ChunksAlwaysFit == Spec => []ChunksFit
<1>1. ReaderInv => ChunksFit
  BY DEF ReaderInv
<1> QED
  BY <1>1, ReaderInvariant, PTL

-----------------------------------------------------------------------------
(* A chunk has reached the target, or the line behind it is there and does *)
(* not fit into it.                                                        *)
IsFilled(c) ==
    \/ c.end - c.start >= TargetChunk
    \/ \E i \in 1 .. Len(ends) :
          LineEnd(i - 1) = c.end /\ LineEnd(i) - c.start > TargetChunk

(* So it is of every chunk but the last one, and of that one too while     *)
(* another may follow.                                                     *)
FilledSoFar ==
    \A n \in 1 .. Len(sent) :
        n < Len(sent) \/ pc = "reading" \/ (pc = "ending" /\ chunk > 0) => IsFilled(sent[n])

SentInv ==
    /\ ReaderInv
    /\ pc = "done" => chunk = 0
    /\ FilledSoFar

LEMMA LineEndsDiffer ==
    ASSUME TypeOK, LinesInOrder, NEW i \in 0 .. Len(ends), NEW j \in 0 .. Len(ends), i < j
    PROVE  LineEnd(i) < LineEnd(j)
<1>1. Len(ends) \in Nat /\ \A k \in 1 .. Len(ends) : ends[k] \in Nat
  BY LenProperties DEF TypeOK
<1> QED
  BY <1>1 DEF LinesInOrder, LineEnd

LEMMA InitSentInv == Init => SentInv
<1> SUFFICES ASSUME Init PROVE SentInv
  OBVIOUS
<1>1. Len(sent) = 0
  BY DEF Init
<1> QED
  BY <1>1, InitReaderInv DEF Init, SentInv, FilledSoFar

(* A step that sends nothing keeps the chunks filled.                      *)
LEMMA NothingSentFilled ==
    ASSUME SentInv, UNCHANGED sent,
           \A c \in Chunk : IsFilled(c) => IsFilled(c)',
           pc' = "reading" => pc = "reading",
           pc' = "ending" /\ chunk' > 0 => pc = "reading" \/ (pc = "ending" /\ chunk > 0)
    PROVE  FilledSoFar'
<1>1. \A n \in 1 .. Len(sent) : sent[n] \in Chunk
  BY LenProperties DEF SentInv, ReaderInv, TypeOK
<1> QED
  BY <1>1 DEF SentInv, FilledSoFar

LEMMA SameFileFilled ==
    ASSUME UNCHANGED ends
    PROVE  \A c : IsFilled(c)' = IsFilled(c)
BY SameFile DEF IsFilled

(* A chunk is sent while reading only when it is filled; the one sent at   *)
(* the end of the file is the last.                                        *)
LEMMA FlushFilled ==
    ASSUME SentInv, Flush
    PROVE  FilledSoFar'
<1> DEFINE c == [start |-> chunkStart, end |-> chunkStart + chunk]
<1>1. /\ UNCHANGED <<ends, pc, taken>> /\ sent' = Append(sent, c) /\ chunk' = 0
      /\ MustFlush /\ chunk \in Nat /\ chunk > 0 /\ chunkStart \in Nat
      /\ sent \in Seq(Chunk) /\ Active
  BY DEF Flush, file, MustFlush, SentInv, ReaderInv, TypeOK, Active
<1>2. c \in Chunk
  BY <1>1 DEF Chunk
<1>3. /\ Len(sent) \in Nat /\ Len(sent') = Len(sent) + 1
      /\ \A n \in 1 .. Len(sent) : sent'[n] = sent[n]
      /\ sent'[Len(sent) + 1] = c
  BY <1>1, <1>2, LenProperties
<1>4. ASSUME pc = "reading" PROVE IsFilled(c)
  <2>1. CASE Full
    BY <1>1, <2>1 DEF IsFilled, Full
  <2>2. CASE taken < Len(ends) /\ NoRoom
    <3>1. /\ Len(ends) \in Nat /\ taken \in 0 .. Len(ends) /\ taken + 1 \in 1 .. Len(ends)
          /\ (taken + 1) - 1 = taken
      BY <2>2, LenProperties DEF SentInv, ReaderInv, TypeOK
    <3>2. LineEnd(taken) \in Nat /\ LineEnd(taken + 1) \in Nat
      BY <3>1, LineEndType DEF SentInv, ReaderInv
    <3>3. LineEnd(taken) = chunkStart + chunk
      BY <1>1 DEF SentInv, ReaderInv, BufferIsUnsent, Active
    <3>4. NextLength = LineEnd(taken + 1) - LineEnd(taken)
      BY <3>1 DEF NextLength, LineLength
    <3>5. LineEnd(taken + 1) - c.start > TargetChunk
      BY <1>1, <2>2, <3>2, <3>3, <3>4, LimitsAssumption DEF NoRoom
    <3> QED
      BY <3>1, <3>3, <3>5 DEF IsFilled
  <2> QED
    BY <1>1, <1>4, <2>1, <2>2 DEF MustFlush
<1>5. \A n \in 1 .. Len(sent) : IsFilled(sent[n])
  <2>1. pc = "reading" \/ (pc = "ending" /\ chunk > 0)
    BY <1>1 DEF MustFlush
  <2> QED
    BY <2>1 DEF SentInv, FilledSoFar
<1> HIDE DEF c
<1>6. \A n \in 1 .. Len(sent') : n < Len(sent') \/ pc = "reading" => IsFilled(sent'[n])
  BY <1>3, <1>4, <1>5
<1> QED
  BY <1>1, <1>6, SameFileFilled DEF FilledSoFar

LEMMA NextSentInv == SentInv /\ [Next]_vars => SentInv'
<1> SUFFICES ASSUME SentInv, [Next]_vars
             PROVE  SentInv'
  OBVIOUS
<1>1. ReaderInv /\ ReaderInv'
  BY NextReaderInv DEF SentInv
<1>2. ASSUME EndLine PROVE SentInv'
  <2>1. /\ Len(ends') = Len(ends) + 1 /\ Len(ends) \in Nat
        /\ \A i \in 0 .. Len(ends) : LineEnd(i)' = LineEnd(i)
    BY <1>1, <1>2, EndLineKeeps DEF ReaderInv
  <2>2. ASSUME NEW c \in Chunk, IsFilled(c) PROVE IsFilled(c)'
    <3>1. CASE c.end - c.start >= TargetChunk
      BY <3>1 DEF IsFilled
    <3>2. CASE ~ (c.end - c.start >= TargetChunk)
      <4>1. PICK i \in 1 .. Len(ends) :
               LineEnd(i - 1) = c.end /\ LineEnd(i) - c.start > TargetChunk
        BY <2>2, <3>2 DEF IsFilled
      <4>2. i \in 0 .. Len(ends) /\ i - 1 \in 0 .. Len(ends) /\ i \in 1 .. Len(ends')
        BY <2>1
      <4> QED
        BY <2>1, <4>1, <4>2 DEF IsFilled
    <3> QED
      BY <3>1, <3>2
  <2> QED
    BY <1>1, <1>2, <2>2, NothingSentFilled DEF SentInv, EndLine, reader
<1>3. ASSUME UNCHANGED <<ends, sent>>,
             pc' = "reading" => pc = "reading",
             pc' = "ending" /\ chunk' > 0 => pc = "reading" \/ (pc = "ending" /\ chunk > 0),
             pc' = "done" => chunk' = 0
      PROVE  SentInv'
  BY <1>1, <1>3, SameFileFilled, NothingSentFilled DEF SentInv
<1>4. ASSUME NEW n \in 1 .. MaxTail, WritePart(n) PROVE SentInv'
  BY <1>3, <1>4 DEF WritePart, reader, SentInv
<1>5. ASSUME NEW s \in 0 .. Size + 1, Open(s) PROVE SentInv'
  <2>1. Len(sent') = 0 /\ pc' # "done"
    BY <1>1, <1>5 DEF Open, ReaderInv, NothingBeforeOpen
  <2> QED
    BY <1>1, <2>1 DEF SentInv, FilledSoFar
<1>6. ASSUME TakeLine \/ RejectLine \/ ReachEnd \/ FlushFails \/ Finish PROVE SentInv'
  <2>1. chunk \in Nat
    BY <1>1 DEF ReaderInv, TypeOK
  <2> QED
    BY <1>3, <1>6, <2>1 DEF TakeLine, RejectLine, ReachEnd, FlushFails, Finish, file, SentInv
<1>7. ASSUME Flush PROVE SentInv'
  BY <1>1, <1>7, FlushFilled DEF SentInv, Flush, MustFlush
<1>8. ASSUME UNCHANGED vars PROVE SentInv'
  BY <1>3, <1>8 DEF vars, file, reader, SentInv
<1> QED
  BY <1>2, <1>4, <1>5, <1>6, <1>7, <1>8 DEF Next, Read

LEMMA SentInvariant == Spec => []SentInv
BY InitSentInv, NextSentInv, PTL DEF Spec

(* ReadChunks does not succeed with a line left in its buffer.             *)
THEOREM DoneMeansSent == Spec => []DoneIsSent
<1>1. SentInv => DoneIsSent
  <2> SUFFICES ASSUME SentInv, pc = "done" PROVE SentEnd = LineEnd(taken)
    BY DEF DoneIsSent
  <2>1. chunk = 0 /\ chunkStart \in Nat /\ chunkStart = SentEnd
    BY DEF SentInv, ReaderInv, TypeOK, ChunksContiguous
  <2> QED
    BY <2>1 DEF SentInv, ReaderInv, BufferIsUnsent
<1> QED
  BY <1>1, SentInvariant, PTL

(* No chunk is cut short: the first line of the next one did not fit.      *)
THEOREM ChunksAreFilled == Spec => []ChunksFilled
<1>1. SentInv => ChunksFilled
  <2> SUFFICES ASSUME SentInv, NEW n \in 1 .. Len(sent) - 1
               PROVE  LineEnd(FirstLineAfter(sent[n].end)) - sent[n].start > TargetChunk
    BY DEF ChunksFilled
  <2>1. /\ Len(sent) \in Nat /\ Len(ends) \in Nat
        /\ n \in 1 .. Len(sent) /\ n + 1 \in 1 .. Len(sent) /\ n + 1 # 1 /\ (n + 1) - 1 = n
        /\ sent[n] \in Chunk /\ sent[n + 1] \in Chunk
        /\ TypeOK /\ LinesInOrder
    BY LenProperties DEF SentInv, ReaderInv, TypeOK
  <2>2. /\ sent[n + 1].start = sent[n].end /\ sent[n + 1].start < sent[n + 1].end
        /\ Boundary(sent[n].end) /\ Boundary(sent[n + 1].end)
    BY <2>1 DEF SentInv, ReaderInv, ChunksContiguous, StartOf
  <2>3. PICK k \in 0 .. Len(ends) : LineEnd(k) = sent[n].end
    BY <2>2 DEF Boundary
  <2>4. PICK l \in 0 .. Len(ends) : LineEnd(l) = sent[n + 1].end
    BY <2>2 DEF Boundary
  <2>5. k < l
    <3>1. LineEnd(k) < LineEnd(l) /\ LineEnd(k) \in Nat /\ LineEnd(l) \in Nat
      BY <2>1, <2>2, <2>3, <2>4, LineEndType
    <3> QED
      BY <2>1, <3>1, LineEndsDiffer
  <2> DEFINE i == FirstLineAfter(sent[n].end)
  <2>6. i \in 1 .. Len(ends) /\ LineEnd(i - 1) = sent[n].end
    <3>1. k + 1 \in 1 .. Len(ends) /\ LineEnd((k + 1) - 1) = sent[n].end
      BY <2>1, <2>3, <2>5
    <3> QED
      BY <3>1 DEF FirstLineAfter
  <2> HIDE DEF i
  <2>7. /\ i - 1 \in 0 .. Len(ends) /\ i \in 0 .. Len(ends)
        /\ LineEnd(i) \in Nat /\ LineEnd(i - 1) \in Nat /\ LineEnd(i - 1) < LineEnd(i)
    BY <2>1, <2>6, LineEndType, LineEndsGrow
  <2>8. CASE sent[n].end - sent[n].start >= TargetChunk
    BY <2>1, <2>6, <2>7, <2>8, LimitsAssumption DEF Chunk, i
  <2>9. CASE \E j \in 1 .. Len(ends) :
               LineEnd(j - 1) = sent[n].end /\ LineEnd(j) - sent[n].start > TargetChunk
    <3>1. PICK j \in 1 .. Len(ends) :
             LineEnd(j - 1) = sent[n].end /\ LineEnd(j) - sent[n].start > TargetChunk
      BY <2>9
    <3>2. j - 1 \in 0 .. Len(ends)
      BY <2>1
    <3>3. j - 1 = i - 1
      <4>1. ~ (j - 1 < i - 1) /\ ~ (i - 1 < j - 1)
        BY <2>1, <2>6, <2>7, <3>1, <3>2, LineEndsDiffer
      <4> QED
        BY <2>1, <2>6, <4>1
    <3>4. j = i
      BY <2>1, <2>6, <3>3
    <3> QED
      BY <3>1, <3>4 DEF i
  <2> QED
    BY <2>1, <2>8, <2>9 DEF SentInv, FilledSoFar, IsFilled
<1> QED
  BY <1>1, SentInvariant, PTL

=============================================================================
