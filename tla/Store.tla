-------------------------------- MODULE Store --------------------------------
(***************************************************************************)
(* The archive database of the server: internal/store/store.go, with the   *)
(* checks internal/server/server.go makes of a chunk before it stores it.  *)
(*                                                                         *)
(* Each table is a variable.  PutChunk and DeleteSession each run in one   *)
(* SQLite transaction on the single connection of the process, so each is  *)
(* one step here.  SHA-256 is collision-free: a digest, and the saved hash *)
(* state, is modelled by the records that were hashed.  A ciphertext is    *)
(* modelled by its plaintext.                                              *)
(***************************************************************************)
EXTENDS Transcript

CONSTANTS
    Device,      \* the devices that authenticate to the server
    NoRow,       \* what SELECT returns for a session that has no row
    Upload,      \* the chunk requests the server may receive
    MaxRowId     \* the largest session id AUTOINCREMENT can give out

Key == Device \X Session

SessionOf(k) == k[2]

(* A PUT of /v1/sync/chunks: the claimed end, the decrypted plaintext, and *)
(* the records whose digest the prefix header carries.                     *)
Request == [start : Nat, end : Nat, plain : Seq(Record), prefix : Seq(Record)]

SessionRow ==
    [id : Nat \ {0}, next : Nat \ {0}, hash : Seq(Record), activity : Time,
     meta : Record]

ChunkRow == [start : Nat, end : Nat, plain : Seq(Record)]

EventRow == [id : Nat \ {0}, seq : Nat, chunk : Nat, kind : EventKind, text : Text]

SearchRow == [rowid : Nat \ {0}, key : Key, seq : Nat, text : Text]

ASSUME NoRowAssumption == NoRow \notin SessionRow

ASSUME UploadAssumption == Upload \subseteq Request

ASSUME MaxRowIdAssumption == MaxRowId \in Nat

VARIABLES
    sessions,       \* the sessions row of each key, or NoRow
    chunks,         \* the chunks rows of each key
    events,         \* the events rows of each key
    fts,            \* the rows of events_fts
    nextSessionId,  \* the AUTOINCREMENT counter of sessions
    nextEventId     \* the AUTOINCREMENT counter of events

vars == <<sessions, chunks, events, fts, nextSessionId, nextEventId>>

Init ==
    /\ sessions = [k \in Key |-> NoRow]
    /\ chunks = [k \in Key |-> {}]
    /\ events = [k \in Key |-> {}]
    /\ fts = {}
    /\ nextSessionId = 1
    /\ nextEventId = 1

-----------------------------------------------------------------------------
(***************************************************************************)
(* What a request reads.  A session without a row has the checkpoint       *)
(* (0, digest of nothing).                                                 *)
(***************************************************************************)
Known(k) == sessions[k] # NoRow

NextOffset(k) == IF Known(k) THEN sessions[k].next ELSE 0

HashState(k) == IF Known(k) THEN sessions[k].hash ELSE << >>

(* The checkpoint a sync plan returns for a session.                       *)
CheckpointAtZero(k) == [next |-> 0, hash |-> << >>]   \* mutant: the row is not found

Checkpoint(k) == [next |-> NextOffset(k), hash |-> HashState(k)]

(* Mutant of Acceptable: the chunk is stored unparsed.                     *)
AcceptUnparsed(k, u) == u.end > u.start /\ Len(u.plain) = u.end - u.start

(* The header, length and parse checks of handleChunk.  A request names a  *)
(* key the server has and decrypts: one that does not is refused before    *)
(* the database is read, as is one that is malformed.                      *)
Acceptable(k, u) ==
    /\ u.end > u.start
    /\ Len(u.plain) = u.end - u.start
    /\ Parses(u.plain, u.start, SessionOf(k))

(* A session is created by its first chunk only.                           *)
MayOpen(k, u) == Known(k) \/ (u.start = 0 /\ nextSessionId <= MaxRowId)

(* Mutant of IsReplay: the offsets match, the content is not compared.     *)
IsSameRange(k, u) ==
    /\ u.start < NextOffset(k)
    /\ \E c \in chunks[k] : c.start = u.start /\ c.end = u.end

(* The chunk is behind the checkpoint and was stored as it is.             *)
IsReplay(k, u) ==
    /\ u.start < NextOffset(k)
    /\ \E c \in chunks[k] : c.start = u.start /\ c.end = u.end /\ c.plain = u.plain

IsNext(k, u) == u.start = NextOffset(k)

(* Mutant of PrefixMatches: the prefix header is not checked.              *)
AnyPrefix(k, u) == TRUE

PrefixMatches(k, u) == HashState(k) \o u.plain = u.prefix

(* The primary key of chunks and the unique index of events.               *)
KeysFree(k, u) ==
    /\ \A c \in chunks[k] : c.start # u.start
    /\ \A e \in events[k] :
          ~ \E i \in EventPositions(u.plain) : e.seq = u.start + i - 1

Storable(k, u) ==
    /\ Acceptable(k, u)
    /\ MayOpen(k, u)
    /\ IsNext(k, u)
    /\ PrefixMatches(k, u)
    /\ KeysFree(k, u)

(* The answer of handleChunk: 200, 200 with duplicate set, or an error.    *)
Outcome(k, u) ==
    CASE Storable(k, u)                      -> "stored"
      [] Acceptable(k, u) /\ IsReplay(k, u)  -> "duplicate"
      [] OTHER                               -> "error"
-----------------------------------------------------------------------------
(***************************************************************************)
(* What PutChunk writes.                                                   *)
(***************************************************************************)
(* Mutant of IdOf: the next id after the rows there are, as without        *)
(* AUTOINCREMENT.                                                          *)
IdAfterRows(k) ==
    IF Known(k) THEN sessions[k].id
    ELSE Latest({1} \cup {sessions[j].id + 1 : j \in {j \in Key : Known(j)}})

IdOf(k) == IF Known(k) THEN sessions[k].id ELSE nextSessionId

MetaOf(k, u) == IF Known(k) THEN sessions[k].meta ELSE u.plain[1]

(* Mutant of ActivityAfter: the last chunk decides.                        *)
ActivityOfChunk(k, u) == LastActivity(u.plain)

ActivityAfter(k, u) ==
    IF Known(k) THEN Latest({sessions[k].activity, LastActivity(u.plain)})
                ELSE LastActivity(u.plain)

(* Mutant of RowAfter: the hash starts anew with each chunk.               *)
RowHashingChunk(k, u) ==
    [id |-> IdOf(k), next |-> u.end, hash |-> u.plain,
     activity |-> ActivityAfter(k, u), meta |-> MetaOf(k, u)]

RowAfter(k, u) ==
    [id |-> IdOf(k), next |-> u.end, hash |-> HashState(k) \o u.plain,
     activity |-> ActivityAfter(k, u), meta |-> MetaOf(k, u)]

NewChunk(u) == [start |-> u.start, end |-> u.end, plain |-> u.plain]

(* Row ids only have to be new and increasing: the i-th record of the      *)
(* chunk takes the i-th next id whether or not it is an event.             *)
RowIdOf(i) == nextEventId + i - 1

(* Mutant of EventAt: the event points to its own offset, not to its chunk.*)
EventAtItself(u, i) ==
    [id |-> RowIdOf(i), seq |-> u.start + i - 1, chunk |-> u.start + i - 1,
     kind |-> u.plain[i].kind, text |-> u.plain[i].text]

EventAt(u, i) ==
    [id |-> RowIdOf(i), seq |-> u.start + i - 1, chunk |-> u.start,
     kind |-> u.plain[i].kind, text |-> u.plain[i].text]

NewEvents(u) == {EventAt(u, i) : i \in EventPositions(u.plain)}

(* The text column of a search row.                                        *)
SearchText(e) == e.text

NewSearchRows(k, u) ==
    {[rowid |-> e.id, key |-> k, seq |-> e.seq, text |-> SearchText(e)] :
        e \in {e \in NewEvents(u) : e.text # Blank}}

(* PutChunk of a chunk that is stored; every other outcome rolls back or   *)
(* commits a transaction that wrote nothing.                               *)
PutChunk(k, u) ==
    /\ Storable(k, u)
    /\ sessions' = [sessions EXCEPT ![k] = RowAfter(k, u)]
    /\ chunks' = [chunks EXCEPT ![k] = @ \cup {NewChunk(u)}]
    /\ events' = [events EXCEPT ![k] = @ \cup NewEvents(u)]
    /\ fts' = fts \cup NewSearchRows(k, u)
    /\ nextSessionId' = IF Known(k) THEN nextSessionId ELSE nextSessionId + 1
    /\ nextEventId' = nextEventId + Len(u.plain)

(* Mutant of SearchRowsOf: search rows have no foreign key to cascade.     *)
NoSearchRows(k) == {}

(* The search rows that go with the events of a deleted session.           *)
SearchRowsOf(k) == {f \in fts : \E e \in events[k] : e.id = f.rowid}

(* Mutant of DeleteSession: foreign keys are not enforced.                 *)
DeleteRowOnly(k) ==
    /\ Known(k)
    /\ fts' = fts \ SearchRowsOf(k)
    /\ sessions' = [sessions EXCEPT ![k] = NoRow]
    /\ UNCHANGED <<chunks, events, nextSessionId, nextEventId>>

(* DELETE FROM sessions; the foreign keys cascade to chunks and events.    *)
DeleteSession(k) ==
    /\ Known(k)
    /\ fts' = fts \ SearchRowsOf(k)
    /\ sessions' = [sessions EXCEPT ![k] = NoRow]
    /\ chunks' = [chunks EXCEPT ![k] = {}]
    /\ events' = [events EXCEPT ![k] = {}]
    /\ UNCHANGED <<nextSessionId, nextEventId>>

Next ==
    \/ \E k \in Key, u \in Upload : PutChunk(k, u)
    \/ \E k \in Key : DeleteSession(k)

Spec == Init /\ [][Next]_vars
-----------------------------------------------------------------------------
(***************************************************************************)
(* What the tables say.                                                    *)
(***************************************************************************)

(* Record i of the archive, from the chunk that holds it.                  *)
Covers(c, i) == c.start < i /\ i <= c.end

RecordAt(k, i) ==
    LET c == CHOOSE c \in chunks[k] : Covers(c, i)
    IN  c.plain[i - c.start]

(* The concatenation of the chunks in offset order, as Export writes it    *)
(* and as backfillSessions hashes it.                                      *)
ArchiveOf(k) == [i \in 1 .. NextOffset(k) |-> RecordAt(k, i)]

(* The chunk EventChunk finds for an event, and the record in it that      *)
(* handleToolOutput returns.                                               *)
ChunksAt(k, offset) == {c \in chunks[k] : c.start = offset}

(* The keys SearchSessions finds for a text: events joined with events_fts.*)
FoundBy(t) ==
    {k \in Key : \E e \in events[k], f \in fts : f.rowid = e.id /\ f.text = t}
-----------------------------------------------------------------------------
(* Every table holds rows of its schema.                                   *)
TypeOK ==
    /\ sessions \in [Key -> SessionRow \cup {NoRow}]
    /\ chunks \in [Key -> SUBSET ChunkRow]
    /\ events \in [Key -> SUBSET EventRow]
    /\ fts \in SUBSET SearchRow
    /\ nextSessionId \in Nat \ {0}
    /\ nextEventId \in Nat \ {0}

(***************************************************************************)
(* The chunks of a session tile the offsets from 0 to its checkpoint: no   *)
(* gap, no overlap, nothing past next_offset, and nothing at all for a     *)
(* session without a row.  PutChunk is to keep this under replays, late    *)
(* chunks and chunks of two clients with different chunk boundaries.       *)
(***************************************************************************)
ChunksTileArchive ==
    \A k \in Key :
        /\ \A c \in chunks[k] :
              /\ c.start < c.end /\ c.end <= NextOffset(k)
              /\ Len(c.plain) = c.end - c.start
              /\ \A d \in chunks[k] : c = d \/ c.end <= d.start \/ d.end <= c.start
        /\ \A i \in 1 .. NextOffset(k) : \E c \in chunks[k] : Covers(c, i)

(***************************************************************************)
(* The saved prefix hash state is the hash of the archive itself, so that  *)
(* the checkpoint a client compares its file with vouches for every byte   *)
(* the server keeps.                                                       *)
(***************************************************************************)
HashMatchesArchive == \A k \in Key : HashState(k) = ArchiveOf(k)

(***************************************************************************)
(* The events of a session are those of its archive: one row for each      *)
(* record that is an event, at its offset, and the chunk it points to      *)
(* holds the very record it was made from, so that handleToolOutput        *)
(* returns the output of that event.                                       *)
(***************************************************************************)
EventsMatchArchive ==
    \A k \in Key :
        /\ {e.seq + 1 : e \in events[k]} = EventPositions(HashState(k))
        /\ \A e \in events[k] :
              /\ \A d \in events[k] : d.seq = e.seq => d = e
              /\ \E c \in ChunksAt(k, e.chunk) :
                    /\ e.seq - c.start + 1 \in DOMAIN c.plain
                    /\ c.plain[e.seq - c.start + 1].kind = e.kind
                    /\ c.plain[e.seq - c.start + 1].text = e.text

(***************************************************************************)
(* A text search finds exactly the sessions whose archive holds it, and    *)
(* the index keeps no row of a deleted event (REQ-006: deletion removes    *)
(* the search records).                                                    *)
(***************************************************************************)
SearchMatchesArchive ==
    /\ \A t \in Text :
          FoundBy(t) = {k \in Key : \E i \in DOMAIN HashState(k) :
                            Searchable(HashState(k)[i]) /\ HashState(k)[i].text = t}
    /\ \A f \in fts : \E e \in events[f.key] : e.id = f.rowid /\ e.seq = f.seq

(***************************************************************************)
(* The session row keeps the metadata of the first record and the latest   *)
(* timestamp of all records, whatever the order of the timestamps.         *)
(***************************************************************************)
RowDescribesArchive ==
    \A k \in Key : Known(k) =>
        /\ sessions[k].meta = HashState(k)[1]
        /\ sessions[k].activity = LastActivity(HashState(k))

(***************************************************************************)
(* A request that would be answered as a duplicate carries records the     *)
(* archive already holds at that place: a client that takes the answer for *)
(* an acknowledgement has not lost them.                                   *)
(***************************************************************************)
DuplicateIsArchived ==
    \A k \in Key, u \in Upload :
        Outcome(k, u) = "duplicate" => SubSeq(HashState(k), u.start + 1, u.end) = u.plain

(* The ids the session rows have.                                          *)
Ids == {sessions[k].id : k \in {k \in Key : Known(k)}}

(***************************************************************************)
(* The invariant the proofs rest on says the same of each row by itself:   *)
(* the checkpoint counts the hashed records, and record j of a chunk is    *)
(* hashed record start + j.  Chunks that tile the offsets and agree with   *)
(* the hash record by record can be extended one chunk at a time.  That    *)
(* the archive parses as a whole is what the refinement needs.             *)
(***************************************************************************)
CheckpointCountsHashed == \A k \in Key : NextOffset(k) = Len(HashState(k))

ChunksHoldHashed ==
    \A k \in Key : \A c \in chunks[k] : \A j \in 1 .. Len(c.plain) :
        c.plain[j] = HashState(k)[c.start + j]

ArchiveParses ==
    \A k \in Key : Known(k) => Parses(HashState(k), 0, SessionOf(k))

ArchiveInv ==
    /\ TypeOK
    /\ ChunksTileArchive
    /\ CheckpointCountsHashed
    /\ ChunksHoldHashed
    /\ ArchiveParses

(***************************************************************************)
(* The database implements the archive it promises.                        *)
(***************************************************************************)
Content == [k \in Key |-> ArchiveOf(k)]

Abstract == INSTANCE Archive WITH content <- Content

ImplementsArchive == Abstract!Spec

=============================================================================
