# A verification project for tracehub

TLA+ models of tracehub, TLC configurations that check them on small instances,
and TLAPS proofs of what holds for every instance. tracehub copies the session
transcripts of a coding agent from many devices to one server and lets readers
search them. Its promise is in `README.md` ("Sync") and
`docs/requirements/v0.1.0.md`: a growing file is shared record by record, a
repeated sync changes nothing, a rewritten history fails instead of being joined
to the old one, and a deletion removes everything.

Line numbers refer to the files under `internal/`.

## The system

| Component | State | Operations | Talks to |
|---|---|---|---|
| Chunk reader (`codex/codex.go` ReadChunks, readLine) | open file, offset, buffered lines, running prefix hash | open at the checkpoint, take a line, flush a chunk, end of file | the session file, which an agent is appending to; the upload callback |
| Discovery (`codex.go` Discover, Inspect) | sources found so far | walk two directories, inspect each file | session files |
| Sync client (`syncer/syncer.go`, `client/client.go`) | manifest, checkpoints, current session, one request | discover, plan, upload chunk after chunk, fail | server by HTTP, 5 minute timeout, no retry inside a run |
| Transcript parser (`codex.go` ParseChunk, ToolOutput) | none | accept a run of records, extract events | called by the server |
| Request handlers (`server/server.go`) | keys and devices, fixed after start | sync plan, chunk, search, events, tool output | database |
| Archive database (`store/store.go`) | tables sessions, chunks, events, events_fts and two AUTOINCREMENT counters | Checkpoints, PutChunk, DeleteSession, SearchSessions, Events, EventChunk, Chunks, backfill | SQLite, one connection per process, transactions |
| Administrator (`admin/admin.go`) | none | Export, Delete, each in a process of its own beside the server | the same database |
| Startup (`server.go` New, backfillSessions, `store.go` initialize) | sessions without hash state or with old metadata | upgrade schema, rebuild hash states and metadata from the chunks, listen | database |
| Event and session pages (`store.go` Events, SearchSessions, their handlers) | none; the cursor is the reader's | one page from a cursor | database; readers through client and MCP proxy |
| Key files (`keys/keys.go`) | two files | generate a pair, load | file system |
| Authentication, encryption, configuration, MCP proxy, command line | none between calls | check, convert, forward | |

What makes it hard:

* several syncs of one device may overlap; requests outlive the client that sent
  them; answers get lost; the next sync repeats what may or may not be stored;
* two readers of a growing file cut it at different places;
* a file may be replaced, and a session deleted on the server, between any two
  chunks;
* five places describe one transcript (checkpoint, hash state, chunks, events,
  full-text rows) and must agree after every step;
* cursors and offsets held by a client are used after the data changed;
* a server, a second server started by mistake and an administrator's process
  share one database, each transaction of several statements, and each can die or
  be refused at any statement;
* commands create files next to other programs that do the same.

What makes each part correct:

* database: chunks tile the offsets; hash, events, search rows and session row
  agree with them; ids grow; a transcript only grows at its end until deleted;
* sync: no archive mixes two versions of a file; what a client takes as shared is
  shared; a run ends; repeated syncs share everything;
* reader: chunks are contiguous, end at line ends, fit, and leave nothing out;
* pages: whoever follows a cursor to its end has seen everything once;
* startup: nothing is served before the migration is complete, a stale result
  never overwrites a newer row, and a start that failed can be repeated;
* transactions: what several statements do is what one step of the database does;
* files: existing files are never overwritten, results appear whole;
* discovery: archiving a session does not hide it, and what fails a walk is a
  file that was in motion.

## Modules

| Module | Models | Extends or instantiates |
|---|---|---|
| `Transcript` | records and ParseChunk: which runs are accepted, which records are events, the latest timestamp | |
| `Archive` | abstract: per device and session one transcript, extended at its end or deleted whole | Transcript |
| `Store` | the database; one variable per table; PutChunk with the checks of handleChunk, DeleteSession, the reads | Transcript, Archive (refinement) |
| `Store_proofs` | theorems about Store | Store |
| `Sync` | sync processes, session files, requests in flight, plan and chunk handlers over the database | Transcript, Store (the database of one device) |
| `Sync_proofs` | theorems about Sync | Sync, Store_proofs (about the database of one device, under every request) |
| `Chunker` | ReadChunks over line lengths, with a growing file | |
| `Chunker_proofs` | theorems about Chunker | Chunker |
| `Search` | a reader who pages through the sessions a filter selects while the database changes | Store |
| `Paging` | the event pages of one session and a reader who follows the cursor | |
| `Paging_proofs` | theorems about Paging | Paging |
| `Startup` | starts of servers on an old database, with crashes, deletions, uploads | Store |
| `Server_proofs` | theorems about Search and Startup | Search, Startup, Store_proofs |
| `StoreTx` | PutChunk and DeleteSession statement by statement in several processes | Transcript, Store (twice: what is committed, what a transaction sees) |
| `StoreTx_proofs` | theorems about StoreTx | StoreTx, Store_proofs (about the committed tables) |
| `Files` | Export and the key generations over a file system | |
| `Files_proofs` | theorems about Files | Files |
| `Discover` | the walk for session files while the tree changes | |
| `Discover_proofs` | theorems about Discover | Discover |
| `MCStore`, `MCSync`, `MCChunker`, `MCPaging`, `MCStartup`, `MCStoreTx`, `MCFiles`, `MCDiscover` | instances for TLC | |

### Store

A state change of the server or the administrator is one SQLite transaction, and
every process holds one connection, so `PutChunk` and `DeleteSession` are one
step each; `StoreTx` shows that this is sound. `PutChunk(k, u)` is enabled for a
request the code stores;
`Outcome(k, u)` is the answer for every request ("stored", "duplicate",
"error"), and the other two outcomes write nothing. `Acceptable` are the header,
length and parse checks of handleChunk; `MayOpen`, `IsReplay`, `IsNext`,
`PrefixMatches` and `KeysFree` are the conditions of PutChunk in turn. The new
rows are built by `RowAfter`, `NewChunk`, `EventAt`, `NewSearchRows`.
`DeleteSession` includes the cascade of the foreign keys, which `initialize`
turns on for the connection; the administrator's process has a fresh connection.

Abstractions: SHA-256 is collision-free, so a digest or saved hash state is the
sequence of records hashed; a ciphertext is its plaintext; offsets count records
(`Chunker` shows that byte offsets exchanged are line ends); the metadata
columns are the first record; the key a request names is one the server has
(handleChunk refuses others before it reads the database); message, tool name and status of an event are one
text, of which `Blank` is the one that trims to nothing; event ids are new and
increasing, not dense; `MaxRowId` bounds AUTOINCREMENT.

### Sync

A process (`run[r]`) goes through `inspecting` (Discover, one file at a time;
Checkpoints on the server, one query at a time), `refused` (409 on its way) or
`opening`, `reading`, `waiting` (a PUT is out) and back, to `done`; any error
ends the run (`stopped`), as in Run. `SendChunk` picks any end of the chunk:
where chunks are cut is Chunker's concern. The hash of a chunk covers what was
hashed when the file was opened (`view`), and its records are read from the file
generation opened then, as the process keeps its file descriptor. `GiveUp` is
the timeout, a lost connection or a killed process: a request already sent stays
in `net` and may be handled at any later time. `Lose` drops a request or an
answer; `TransactionFails` is any error that rolls back a PutChunk that would
have succeeded, among them SQLITE_BUSY against the administrator's process. The
faults are kept apart from the refusals of the code (409 for a conflict or a
stale plan), because `SyncConverges` excludes the first for ever after some time
and must not exclude the second. `AdminDelete` may happen at any
time. Files are appended to, replaced by rename (a new generation; open readers
keep the old one) and, if `InPlace`, overwritten.

Abstractions: only whole records count in a file, so a file rewritten to fewer
whole records but not fewer bytes is refused here by the plan and in the code by
the prefix check that follows; both end the run. The same set of sessions exists
throughout. All requests are those of one device. An answer 200 is the status "ok":
handleChunk answers it with the end of the chunk only (server.go:274), so the
comparison of `next_offset` in Run (syncer.go:49) cannot fail. `FreeConns` is no
code but the bound `InFlight`.

`disturbed` and `past` are history variables used by properties only.

### Chunker

The file is the sequence of offsets at which its lines end, and the length of
the unfinished line. `WritePart` and `EndLine` are the agent. `Open` is called
with any checkpoint, also one that is no line end. `TakeLine`, `RejectLine`,
`ReachEnd`, `Flush`, `FlushFails` and `Finish` are the steps of the loop, `Full`
and `NoRoom` its two reasons to flush.

### Search

Composed with Store: `Change` is any step of the database between two pages. A
filter selects by text (the join with the full-text table) and by the bounds on
the last activity; device, repository and directory never change in a row and
are left out. `TurnPage` is one request with `id > cursor ORDER BY id LIMIT`; the
handler answers the cursor 0 with an empty page, and the reader stops there.
`kept` is a history variable: the ids the filter selected at every moment since
the search began or since the row was created.

### Paging

A text is its size and the set of offsets where it may be cut; `MaxRune` is the
longest character. A request takes its snapshot in `Query` (SQLite reads the rows
of one SELECT from one snapshot, so changes during the loop do not matter, but
changes between the pages do), then `TakeWhole`, `TakePart` and `EndPage` are the
iterations of the loop, with `CutAt` for truncateUTF8. `BadCursor` is decided on
the first row, where the code meets it. The reader follows `next_seq` and
`next_text_offset`, asks the same again when the answer is lost, starts over when
the cursor is refused, and may ask again later when a page was empty. A session
can be deleted and shared anew with any other events, so the cursor may point
into a transcript that is gone.

The page limit is the one after the default of the code has been applied; the
size of a page is that of its texts, as in the code, not of its JSON.

### Startup

`StartupInit` is any old database: for each session absent or a form out of
`OldSession`: rows without hash state, rows with one but with metadata of version
0, archives with a gap, with a lost end, with chunks of older server keys, and ones
with a chunk that does not decrypt (`Spoilt`). `seal` is the set of keys the chunks
of a session are encrypted to; it grows when a server stores a chunk of the current
key, and a session is verified by a start that has all of them. `Open` is New up to
the backfill, with any set of keys that has the current one; the schema change is
one transaction and part of it.
`ListPending`, `Verify` (one session: one query, then checks of what it
returned), `Finish` or `FinishFails`, and `Listen` follow; every error closes the
database and ends the process. Rows are listed once, so a row may be finished,
extended, deleted or created anew by others before its turn comes. `Serve` is a
PutChunk of any serving server, `Delete` the administrator's process, which opens
the database without a backfill, `Crash` a kill at any step.

The events and full-text rows of old sessions play no part in the backfill and
are empty in the instance. Two servers on one database is not a recommended
setup, but nothing in the code prevents it (a second start during a slow
migration, say); both have to listen on different addresses to get to serve.

### StoreTx

Every process opens one connection (`SetMaxOpenConns(1)`), so a connection has at
most one transaction. SQLite itself is external and modelled by its rules in WAL
mode: a transaction reads from the snapshot of its first read; the first write
takes the write lock, which fails with SQLITE_BUSY when another connection holds
it or has committed since the snapshot; COMMIT publishes everything; anything
else leaves nothing. `Busy` waits for no particular time, so the busy timeout may
run out at any moment. `Fail` is an error, a cancelled request or a kill at any
statement. The statements are actions in the order of the code, with a loop over
the events of the chunk. `Committed` and `View(c)` are two instances of Store:
the conditions of PutChunk are Store's own, evaluated on what the transaction
sees. `right` is a history variable with the answers the request would have got
alone at each moment since it began.

### Files

A file is its owner and what was written to it; `CreateNew` is O_CREATE with
O_EXCL. Exports share one output path and have a temporary file each; key
generations may be given coinciding, overlapping, exchanged and equal paths.
Every system call may fail (`ExportFails`, `CannotCreate`, the `...Fails`
actions), every process be killed, and another program may create a file at any
of the paths at any time. `Together` names the processes that run at one time.

Not modelled: a removal that fails (the code ignores it, or reports it after the
output is there), and a user who removes key files while a generation runs, which
could make its undo remove another file of that name.

### Discover

The directories are numbered in the order of the walk, archived_sessions last.
`EnterDir` reads a listing, `Visit` and `VisitFails` inspect its files one by one,
as filepath.WalkDir does. A file is absent, not yet readable (the first line
incomplete) or readable. Meanwhile files are created, finished, moved, copied and
deleted. `calm` and `kept` are history variables: sessions whose files were not
touched since the walk began, and sessions that always had a readable file and
never one behind where it last was. Symbolic links, which the walk does not
follow, and files of other names are left out.

## What TLC checks

| Run | Instance | Shows |
|---|---|---|
| `store` | 1 device, 2 sessions, 3 versions of each transcript, up to 3 session ids; 3 filters, pages of one session | the tables agree with one another; duplicates are archived; the database implements `Archive`; a search misses nothing |
| `sync` | 2 runs, 1 session, 1 replacement, 1 deletion | `OneHistory`, `SyncedIsShared`, and `AcksAreTrue`: what a server acknowledges is archived, under every interleaving, loss, delay and failure |
| `sync_grow` | 2 runs, 1 growing session | every run ends; repeated syncs share the whole file |
| `sync_two` | 1 run, 2 growing sessions, 1 overwrite or replacement, 1 deletion | repeated syncs share every session with no rewritten one ahead of it, also when runs end at a rewritten one behind it; a rewritten session that is deleted on the server is shared anew; a session that only grew is not refused as rewritten (`GrowthIsAccepted`) |
| `sync_in_place` | 1 run, 1 file overwritten in place | finding 1 below |
| `sync_refused` | 2 runs, 1 growing session | finding 2 below |
| `chunker` | up to 4 lines of up to 5 bytes, target 3, longest line 4 | chunks are contiguous, fit, are filled, complete; the reader ends |
| `paging` | up to 3 events of 0, 2 or 5 bytes with characters of 1 and 2 bytes; pages of 2 events and 3 bytes; 1 deletion | pages keep to their limits; the reader gets every event once, in order, whole; an empty page is the end; nothing shared stays unread |
| `startup` | 2 servers, 2 sessions (one sound; the other absent, sound, with a gap, cut short or unreadable), 2 keys, 1 deletion | no service before the migration is complete; migrated rows tell their archive; starts succeed in the end |
| `storetx` | 2 servers, 1 administrator, 1 session of 3 versions in one or two chunks | the statements implement `Store`; answers are linear; nobody waits for ever |
| `files` | 2 exports or 2 key generations or one of each; archives of up to 3 chunks, good and bad | nothing is overwritten; outputs appear whole; commands end clean; no kill leaves a public key without its private key |
| `discover` | 2 sessions, 3 directories, 2 moves, copies or deletions, any tree at first | archived sessions are found; only disturbed files fail the walk; it succeeds when the tree rests |

Bounds and why they are enough:

* `store`: transcripts of three records give a first, a middle and a last chunk
  and every way to cut them; the requests include every slice of every version
  with its own prefix, another version's prefix and a wrong end, so that
  conflicting, overlapping, repeated and late chunks all occur. Three session ids
  let one session be deleted and shared again behind a reader who waits between
  two pages of one session each.
* `MaxLength` 3: one chunk archived, one in flight, one to come. `MaxEdits` 1 and
  `MaxDeletes` 1: one replacement and one deletion are what it takes for an old
  request to meet a new history. `InFlight` 1: one request per process, alive or
  abandoned, so two in all; `SendChunk` waits until the abandoned one is gone or
  handled, and the other process does not. The runs with growth use files of one
  or two records, as the liveness check is the expensive part.
* `chunker`: with a target of 3 and lines of 1 to 5 there are lines that fill a
  chunk exactly, overflow it, form a chunk of their own and are refused.
* `paging`: with 3 bytes a page, the text of 5 bytes takes two pages or more and
  starts at every fill of a page, the text of 2 bytes fits or not, the empty one
  fits always unless the page is full; a limit of 2 events ends a page before its
  bytes do. Three sequence numbers leave room for an event behind the cursor and
  for one at the same place in the next life of the session.
* `startup`: a stale result needs one row, two starts and one change in between;
  the sound session lies in two chunks, so that order and gaps matter, and can
  grow by one more. Crashes are not bounded.
* `storetx`: two writers are what it takes for a stale snapshot, a third
  connection for one that commits between two others. Chunks of three versions
  give replays, extensions, and conflicts of offset, content and prefix.
  Failures are not bounded.
* `files`: two processes of one path are the shortest race; three chunks have a
  first, a middle and a last.
* `discover`: three directories give a move forward, backward and across one that
  was skipped; two changes are a copy and a deletion, or a move and its reverse.
* The two processes are symmetric (`Symmetric`), used in `sync`, which has no
  liveness property. Deadlock checking is off: the bounds let the system stop,
  and an idle system with nothing to share is a legal end.

### Fairness

`FairSpec` of Sync is weak fairness of each process's own steps, of the server's
plan steps, of handling each request in flight, of the client's timeout
(`http.Client{Timeout: 5 * time.Minute}`, client.go:53) and of `Start`: a sync is
run again by its user. Nothing is assumed of `Lose`, `TransactionFails` or the
files. `RunEnds` needs the timeout and holds under any faults, for files that do
not grow for ever (a run follows the end of the file). `SyncConverges` assumes
that from some time on nothing is lost, times out or fails, and, for each session
by itself, that its archive and those of the sessions sorted before it are
prefixes of their files and that no archive is longer than its file. Without the
first a sync may fail each time; without the second the code refuses on purpose:
at the first rewritten session, or the whole manifest when one file is truncated. `FairSpec` of Chunker is weak fairness of
the reader: reads of a regular file and uploads both end.

`FairSpec` of Paging is weak fairness of the handler and of the reader, who goes
on as long as there is something to do; `ReadsAll` assumes in addition that
answers are not lost for ever. `FairSpec` of Startup is weak fairness of the steps
of each start, of which `Open` is the operator's: the unit file and the compose
file do not restart the service (`Restart=no`, `restart: "no"`), so
`StartSucceeds` says that whoever starts it again gets it up, if he configures all
keys, no start is killed any more and what is pending is sound. Crashes and
deletions before that are unrestricted. `FairSpec` of Discover is weak fairness of
the walk and of starting another one; `DiscoverySucceeds` assumes that the tree
comes to rest with at most one file, a readable one, of each session. Store,
Search, StoreTx and Files need no fairness: `NoRequestIsStuck` is an invariant with
ENABLED, and says that each open transaction has a step of its own that no other
process can take away; as no step of a transaction goes back (theorem
`RequestsGoOn`), it ends.

### Findings

1. `sync_in_place`: the prefix of a file is hashed once, at codex.go:162, and the
   suffix read later. A file overwritten in place between the two is archived as
   a mixture of both versions and the sync succeeds, where
   `docs/requirements/v0.1.0.md:56` has a rewritten history fail "instead of being
   silently joined". The next sync fails at the prefix check. Files replaced by
   rename, which the run `sync` covers, are safe.
2. `sync_refused`: handleSyncPlan compares the checkpoint with a file size that
   was taken earlier. When another sync of the growing file gets in between, the
   run is refused because the session "was truncated" (server.go:203), and with
   it every other session of the manifest. The next run succeeds, as `sync_grow`
   shows.

Not a finding but worth knowing: Run stops at the first session that fails
(syncer.go:56), so the sessions sorted after a rewritten one are not shared until
it is dealt with. `SyncConverges` shows that those sorted before it are.

## What is proved

For every set of devices, sessions, times, texts and requests, of any size, for
any number of processes, connections, servers and files, and for every value of
the bounds:

| Theorem | Says |
|---|---|
| `Store_proofs!TypeCorrect` | `TypeOK` |
| `Store_proofs!ChunksTile` | `ChunksTileArchive` |
| `Store_proofs!HashMatches` | `HashMatchesArchive` |
| `Store_proofs!DuplicatesAreArchived` | `DuplicateIsArchived` |
| `Store_proofs!SessionIdsNeverReturn` | the id of a session is of no other, and of nobody ever again once the session is deleted |
| `Store_proofs!StoreImplementsArchive` | `ImplementsArchive`: each PutChunk is a `Share`, each DeleteSession a `Forget` |
| `Store_proofs!RowDescribes` | `RowDescribesArchive` |
| `Store_proofs!EventsMatch` | `EventsMatchArchive` |
| `Store_proofs!SearchMatches` | `SearchMatchesArchive` |
| `Store_proofs!KeysNeverClash` | a chunk at the checkpoint meets neither the primary key of chunks nor the unique index of events |
| `Server_proofs!SearchIsComplete` | `SearchMissesNothing` |
| `Sync_proofs!SyncTypes` | `TypeOK` of Sync, which TLC has checked as a part of `SyncInv` |
| `Sync_proofs!HistoriesNeverJoin` | `OneHistory`, if no file is overwritten in place |
| `Sync_proofs!SyncedShared` | `SyncedIsShared` |
| `Sync_proofs!GrownAccepted` | `GrowthIsAccepted` |
| `Sync_proofs!AcknowledgedIsArchived` | `AcksAreTrue` |
| `Sync_proofs!SharedRecordsStay` | `SharedStays`: an archive is extended at its end, until an administrator deletes it |
| `Sync_proofs!HandlersImplementStore` | every step of Sync is a step of Store's tables, or leaves them alone |
| `Sync_proofs!SyncImplementsArchive` | `ImplementsArchive` of Sync's tables |
| `Sync_proofs!SyncTablesAgree` | `EventsMatchArchive`, `SearchMatchesArchive`, `RowDescribesArchive` of Sync's tables |
| `Chunker_proofs!ChunksAreContiguous` | `ChunksContiguous` |
| `Chunker_proofs!ChunksAlwaysFit` | `ChunksFit` |
| `Chunker_proofs!ChunksAreFilled` | `ChunksFilled` |
| `Chunker_proofs!DoneMeansSent` | `DoneIsSent` |
| `Server_proofs!StartupTypes` | `StartupTypeOK` |
| `Server_proofs!ServersAreMigrated` | `ServingIsMigrated` |
| `Server_proofs!MigratedIsTrue` | `MigratedIsArchive` |
| `StoreTx_proofs!AnswersLinear` | `AnswersAreLinear` |
| `StoreTx_proofs!StatementsImplementStore` | `ImplementsStore`: a COMMIT is a `PutChunk` or a `DeleteSession`, every other statement changes nothing |
| `StoreTx_proofs!StatementsImplementArchive` | `ImplementsArchive` of the committed tables |
| `StoreTx_proofs!CommittedTablesAgree` | the five agreements of the tables (chunks, hash, events, search rows, session rows) of what is committed |
| `StoreTx_proofs!RequestsGoOn` | `NoStepGoesBack`: a step of a transaction raises its stage, or its place in the loop over the records, and no other process moves it |
| `StoreTx_proofs!EachRequestCanGoOn` | `EachCanGoOn`: an open transaction has a statement whose guard holds, or gives up |
| `Paging_proofs!PagingTypes` | `TypeOK` of Paging |
| `Paging_proofs!PagesFit` | `PageFits` |
| `Paging_proofs!EventsInOrder` | `ReadsInOrder` |
| `Paging_proofs!EmptyPageEnds` | `EmptyPageIsEnd` |
| `Files_proofs!OutputWhole` | `OutputIsWhole` |
| `Files_proofs!CommandsEndClean` | `EndsClean` |
| `Files_proofs!PublicsHavePrivates` | `PublicHasPrivate` |
| `Files_proofs!OthersAreUntouched` | `OthersUntouched` |
| `Discover_proofs!KeptFound` | `KeptIsFound` |
| `Discover_proofs!FailureDisturbed` | `FailureIsDisturbance` |

### Assumptions

The constants are assumed to be what their modules say, and TLC evaluates each
assumption on every instance:

* a value that stands for nothing is none of the things it stands for: `NoRow` is
  no row, `NoId` no session, `NoConn` no connection, `Absent` no file, `Spoilt` no
  key;
* requests have natural offsets and sequences of records (`UploadAssumption`,
  `RequestAssumption`); the checks of the code on them are in the model;
* timestamps are ordered, with a latest one in every nonempty set of them; sessions are
  numbered so that every nonempty set has a first one: both are orders of
  finitely many strings in the code;
* a target chunk is no longer than the longest line (4 MiB and 64 MiB in codex.go);
* Paging: a text may be cut at its start, at its end, and everywhere between within the
  length of the longest character, which a page has room for (4 bytes of UTF-8
  and 256 KiB in the code);
* Files: os.CreateTemp gives each export a name of its own, not the output's; a
  process runs one command, and the other programs are neither of them;
* StoreTx: a connection belongs to a server or to an administrator, not both;
* Startup: an old row comes with finitely many chunks, at most one at each offset
  (the primary key of the table), each as long as its offsets say. Gaps, lost ends, old keys and
  unreadable texts are all allowed.

### Arguments

*Store.* `HashMatchesArchive` speaks of the concatenation of all chunks, which
says nothing of a single chunk when one is added. The inductive invariant
`ArchiveInv` says the same chunk by chunk: the checkpoint counts the hashed
records (`CheckpointCountsHashed`), and record j of a chunk that starts at s is
hashed record s + j (`ChunksHoldHashed`). With `ChunksTileArchive` every offset is in
exactly one chunk, so the concatenation is the hash (lemma `ArchiveIsHashed`).
`ArchiveParses` (the archive opens with its session_meta and has no invalid
record) is what makes each step a `Share` of a well-formed transcript. A step of
PutChunk extends all parts at the end; DeleteSession empties them.
`DuplicateIsArchived` follows from the invariant in one state.

`SessionIdsNeverReturn` is a temporal formula: once session k has id i, at every
later moment k alone has it, or nobody has it from then on. `IdInv` says that ids
in use are below the counter and distinct. A step keeps the owner of an id, or
retires it; a retired id (below the counter, and of nobody) stays retired.

`IndexInv` adds the derived tables, row by row: an event is the hashed record at
its offset and each event record has one, an event points to the chunk that
covers it, no two events of any sessions share an id, and search rows and events
with text belong to each other. `KeysNeverClash` follows: every chunk and every
event lies below the checkpoint. The ids matter for a deletion, which finds the
search rows by the ids of the events: were an id taken twice, it would take the
rows of another session with it.

*Search.* In `SearchInv` each session the filter kept selecting has been found or
lies behind the cursor, and the cursor is an id that was given out. A new session
gets an id above all of them, so it can only appear ahead; a page takes the
selected ids up to its last one and leaves none out below it.

*Sync.* The database of Sync is the one of Store for a single device.
`Store_proofs` is instantiated for it as `Database`, with every request there can
be as its requests, since which ones occur depends on the files; the first lemmas
say that both instances define the same. Its lemmas about one step are applied to
the steps of the handlers; lemmas `StoredExtends`, `DeletedForgets` and
`DuplicateIsHashed` say what they do to `Hashed(s)`, the hash state of s. Each step
of Sync that touches a table is one of `Database` (`OnlyHandlersWrite`), so
`Spec => Database!Spec`, and the theorems of Store hold of Sync by composition. The
inductive invariant `SyncInv` has these parts besides `Store!ArchiveInv` and the
types:

* a generation of a file has no contents before it comes into being;
* a process keeps to its steps (`Steps`): it waits exactly when it has a
  connection of its own, and what it has still to do is in its plan;
* without overwriting in place, the file it reads begins with what it has hashed
  (`ReadsOneFile`), a request's prefix begins some generation of its file
  (`FromOneFile`), and so does what the server has hashed;
* for the sessions nobody replaced or deleted since the run began (`Calm`): the
  process still reads the file that is there, its view, its plan and every session
  behind it are what the server has hashed so far or the beginning of it
  (`KnowsFile`, `KnowsRest`);
* a request ends with its records (`Joined`), and is what its client hashed while
  that client waits for it (`OwnedBy`); a request nobody waits for owes nobody
  anything, but still comes from one file.

`OneHistory` then needs only that the server stores a request whose prefix is its
own hash: the chunk extends a prefix of one generation to a longer prefix of it.
With `InPlace` the parts about one file fail, as they must: the run
`sync_in_place` shows the mixture (finding 1). `SyncedIsShared` is proved with
and without it, since an overwrite counts as a disturbance of the runs it meets.
`AcksAreTrue` and `SharedStays` look at one step from `SyncInv`: a stored chunk is
put behind what was hashed, a duplicate is among it, and the archive is what is
hashed before and after (`ArchivedIsHashed`). `GrowthIsAccepted` follows from
`KnowsRest`: what the plan said of an undisturbed session begins its archive still,
however old the plan is.

*Chunker.* `ReaderInv` adds to the two properties that lines are not empty and
lie in order, that the buffer is exactly what lies between the last chunk and the
last line taken (`BufferIsUnsent`), that it starts at a line end, and that it
could be sent as it is (`BufferFits`: within the target, or one line). The agent's
steps keep all old line ends (`EndLineKeeps`). `SentInv` adds that every chunk but
the last is filled, or did not have room for the line behind it, and that nothing is
buffered when the reader is done.

*Startup.* `MigrationInv` says of a row of the current version that its chunks
tile the offsets up to its end and hold what is hashed (`MigratedHolds`), and of
a server past its listing that every session pending now is still on its list,
with an end no smaller than the listed one (`ListsAllPending`, `ListedBefore`):
nothing becomes pending again, and a session deleted and shared anew is never
pending. The one
hard part is `VerifiedStays`: what a server verified before `Finish` is still
true if the row is still pending with the listed end. Another server may have
stored a chunk in between, but that moves the end on, and the update with the old
end in its condition then changes nothing.

*StoreTx.* In `TxInv` a transaction that only read sees the committed tables
unless somebody committed since (`stale`); one that writes is never stale, holds
the lock alone, and its view is the committed tables with exactly the statements
it has run so far (`PutWrote`, `DeleteWrote`). At COMMIT the view is then what
`PutChunk` or `DeleteSession` of Store would make of the committed tables
(`AllIsIn`). The answer that is right now, and the one that was right in the
snapshot of a transaction that only read, are among `right` all along, which
gives `AnswersAreLinear`. As the committed tables follow Store, what is proved of
Store holds of them: `Tables` is `Store_proofs` about them, and the same as the
instance `Committed` of StoreTx.

That every request ends is proved but for the step to liveness. `RequestsGoOn`
gives the measure: the stage of the transaction, and within the loop over the
records the place reached, which is bounded by their number.
`EachRequestCanGoOn` is `NoRequestIsStuck` with the guards of the actions written
out in place of ENABLED; TLC finds the two equal on the instance of `storetx`. Its
case that is not local is the INSERT of a chunk, which `KeysNeverClash` covers: a
view that is not stale has the committed chunks and events.

*Paging.* In `PagingInv` the pieces of a page are the rows of its query one after
the other, and only the last may be cut (`PageIsRows`); the query of a reader
whose session was not deleted saw a beginning of the transcript that is there
(`SeesBeginning`), his cursor is where his last piece ends (`CursorIsLast`), and
he has everything the cursor leaves behind (`HasAllBehind`). The last is what
makes an empty page the end. A cursor that fits is never refused later: a page
has room for one character at least (`EmptyPageHasNoRow`), so that the refusal of an
empty page that resumes a text (store.go:525) happens for a query without rows
only. The rows behind a cursor are given by how many it leaves behind (`Passed`),
which has a first-order meaning because the events lie in order.

*Files.* `FilesInv` says which files a process owns at each place of its command,
and what is in them: nothing before it creates the first, the temporary file
while an export writes and checks, that and the output after the link, the
private key and then both keys for a generation. Each step is a step of one
process that touches its own files only (`OnlyBy`), so the others' parts stay,
whatever paths coincide. Of a killed generation it keeps what `PublicHasPrivate`
needs: if its public key is there, so is its private key, complete.

*Discover.* In `WalkInv` a session that was always readable and never behind its
last place is found, in the listing or in a directory ahead of the walk
(`KeptIsAhead`); one that nobody touched has one file, and is found only there
(`CalmIsSingle`, `CalmIsFoundOnce`). A step of the tree changes one session's files
and can only take that session out of the two history variables.

Each inductive invariant was also checked by TLC on the instances of the module,
`SyncInv` on those of `sync`, `sync_two` and `sync_in_place`.

### Only model-checked

* Liveness: `RunEnds`, `SyncConverges`, `ReaderEnds`, `ReadsAll`,
  `StartSucceeds`, `DiscoverySucceeds`, and `NoRequestIsStuck`, which uses ENABLED, are
  outside the prover; of the last, `EachRequestCanGoOn` proves the same without
  the word.
* What is abstracted in the models is not proved either: that the chunks of
  `Chunker` are those of `SendChunk` in Sync, and that the bytes of a record are hashed,
  encrypted and parsed as the models have it.

## Not modelled

* Request signatures, encryption and compression: functions of one request
  without state. A ciphertext is modelled by its plaintext, or by whether it can
  be opened.
* Loading of key files, configuration, the MCP proxy, the command line: they
  check, convert and forward. What the user of the proxy does with cursors is in
  Paging and Search.
* Sizes of JSON: the client reads at most 2 MiB of an answer (client.go:145), and
  the texts of a page are bounded by 256 KiB before escaping; tool names and
  statuses are not counted. The manifest limit of 10000 sessions
  (server.go:177) and the 2 MiB limit of requests are single comparisons.
* The write-ahead log: DeleteSession truncates it after its commit
  (store.go:587), which changes no table. A failure there is reported as an error
  of a deletion that has happened, and a truncation another process keeps back is
  not reported; a repeated deletion answers "not found".
* Export does not compare the end of the last chunk with the checkpoint
  (admin.go:64), as the backfill does (server.go:116). `ChunksTileArchive` shows
  that the program never makes an archive on which that matters.
* Deployment files and generated documentation hold no logic.

All components, modelled or not, are listed in `PROJECT.json`.

## Plan

Done: all modules above, a theorem for every safety property of a run that the
prover can state, and the chains StoreTx - Store - Archive and Sync - Store -
Archive. What is left is to join the ends:

1. Chunker as the way Sync cuts its chunks: a refinement from byte offsets and
   line ends to record counts, so that `SendChunk` need not pick any end.
2. The transactions of `StoreTx` under the processes of Sync in one
   specification. Today each is shown to implement Store by itself, which is what
   lets Sync take PutChunk for one step.
