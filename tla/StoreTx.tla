------------------------------- MODULE StoreTx -------------------------------
(***************************************************************************)
(* PutChunk and DeleteSession of internal/store/store.go one statement     *)
(* after another, in processes of which each has one connection to the     *)
(* SQLite database: servers, and administrators who delete.  Module Store  *)
(* takes each of the two for one step.                                     *)
(*                                                                         *)
(* SQLite in WAL mode is modelled by what a connection sees of it: a       *)
(* transaction works on the state it first read, its first write needs the *)
(* write lock and a snapshot nobody has committed past, COMMIT publishes   *)
(* all it wrote, and any other end leaves nothing behind.                  *)
(***************************************************************************)
EXTENDS Transcript

CONSTANTS
    Device,       \* as in Store
    NoRow,
    Upload,
    MaxRowId,
    ServerConn,   \* the connection of each server
    AdminConn     \* the connection of each administrator's process

ASSUME ConnAssumption == ServerConn \cap AdminConn = {}

VARIABLES
    db,     \* the committed tables
    conn    \* the transaction of each connection

vars == <<db, conn>>

Conn == ServerConn \cup AdminConn

Committed ==
    INSTANCE Store WITH
        sessions <- db.sessions, chunks <- db.chunks, events <- db.events, fts <- db.fts,
        nextSessionId <- db.nextSessionId, nextEventId <- db.nextEventId

(* The tables as the transaction of c sees them.                           *)
View(c) ==
    INSTANCE Store WITH
        sessions <- conn[c].view.sessions, chunks <- conn[c].view.chunks,
        events <- conn[c].view.events, fts <- conn[c].view.fts,
        nextSessionId <- conn[c].view.nextSessionId, nextEventId <- conn[c].view.nextEventId

Key == Device \X Session

ASSUME RequestAssumption == Upload \subseteq Committed!Request

ASSUME StoreAssumption == NoRow \notin Committed!SessionRow /\ MaxRowId \in Nat

(* A connection without a transaction.                                     *)
Idle == [pc |-> "idle"]

Init ==
    /\ db = [sessions |-> [k \in Key |-> NoRow], chunks |-> [k \in Key |-> {}],
             events |-> [k \in Key |-> {}], fts |-> {},
             nextSessionId |-> 1, nextEventId |-> 1]
    /\ conn = [c \in Conn |-> Idle]
-----------------------------------------------------------------------------
(***************************************************************************)
(* Transactions: where they are, what they see, whether they hold the      *)
(* write lock, whether somebody committed since they first read, the       *)
(* answers that were right at some moment since they began (history), and  *)
(* the answer given.                                                       *)
(***************************************************************************)
Pc(c) == conn[c].pc

Active(c) == Pc(c) # "idle"

Putting(c, pc) == c \in ServerConn /\ Pc(c) = pc

Deleting(c, pc) == c \in AdminConn /\ Pc(c) = pc

HasRead(c) == Pc(c) \notin {"idle", "begun", "answered"}

Holds(c) == Active(c) /\ conn[c].writes

LockFree(c) == \A d \in Conn \ {c} : ~ Holds(d)

MayWrite(c) == Holds(c) \/ (LockFree(c) /\ ~ conn[c].stale)

(* The answer a request would get if it ran alone, now.                    *)
Truth(c, k, u) ==
    IF c \in ServerConn THEN Committed!Outcome(k, u)
    ELSE IF Committed!Known(k) THEN "deleted" ELSE "missing"

Begin(c, k, u) ==
    /\ ~ Active(c)
    /\ conn' = [conn EXCEPT ![c] =
                  [pc |-> "begun", key |-> k, request |-> u, at |-> 1, view |-> << >>,
                   writes |-> FALSE, stale |-> FALSE, right |-> {Truth(c, k, u)}]]
    /\ UNCHANGED db

(* A statement that writes; view is what the transaction sees after it.    *)
Writes(c, pc, view) ==
    /\ MayWrite(c)
    /\ conn' = [conn EXCEPT ![c].pc = pc, ![c].writes = TRUE, ![c].view = view]
    /\ UNCHANGED db

Answered(t, answer) ==
    [pc |-> "answered", answer |-> answer, right |-> t.right, writes |-> FALSE]

(* Mutant of Ends: what was written before an error is committed.          *)
EndsCommitted(c, answer) ==
    /\ conn' = [conn EXCEPT ![c] = Answered(@, answer)]
    /\ db' = IF Holds(c) THEN conn[c].view ELSE db

(* The end of a transaction that wrote nothing, or is rolled back.         *)
Ends(c, answer) ==
    /\ conn' = [conn EXCEPT ![c] = Answered(@, answer)]
    /\ UNCHANGED db

(* The answer that is right for d after the commit.                        *)
NowRight(d) ==
    {Truth(d, k, u)' : k \in {conn[d].key}, u \in {conn[d].request}}

(* COMMIT of a transaction that wrote.                                     *)
Commits(c, answer) ==
    /\ db' = conn[c].view
    /\ conn' = [d \in Conn |->
                  IF d = c THEN Answered(conn[c], answer)
                  ELSE IF Pc(d) \in {"idle", "answered"} THEN conn[d]
                  ELSE [conn[d] EXCEPT !.stale = @ \/ HasRead(d),
                                       !.right = @ \cup NowRight(d)]]

Reply(c) ==
    /\ Pc(c) = "answered"
    /\ conn' = [conn EXCEPT ![c] = Idle]
    /\ UNCHANGED db
-----------------------------------------------------------------------------
(***************************************************************************)
(* PutChunk, after the checks of handleChunk.                              *)
(***************************************************************************)
K(c) == conn[c].key
U(c) == conn[c].request

BeginPut(c, k, u) ==
    /\ c \in ServerConn
    /\ Committed!Acceptable(k, u)
    /\ Begin(c, k, u)

(* SELECT next_offset, prefix_hash_state: the snapshot is taken here.      *)
SelectSession(c) ==
    /\ Putting(c, "begun")
    /\ conn' = [conn EXCEPT ![c].pc = IF Committed!Known(K(c)) THEN "checking" ELSE "creating",
                            ![c].view = db]
    /\ UNCHANGED db

RejectNew(c) ==
    /\ Putting(c, "creating")
    /\ U(c).start # 0
    /\ Ends(c, "error")

(* SQLITE_FULL: AUTOINCREMENT is at its last id.                           *)
NoSessionId(c) ==
    /\ Putting(c, "creating")
    /\ U(c).start = 0
    /\ conn[c].view.nextSessionId > MaxRowId
    /\ Ends(c, "failed")

InsertSession(c) ==
    LET v == conn[c].view
        row == [id |-> v.nextSessionId, next |-> 0, hash |-> << >>,
                activity |-> LastActivity(U(c).plain), meta |-> U(c).plain[1]]
    IN  /\ Putting(c, "creating")
        /\ U(c).start = 0
        /\ v.nextSessionId <= MaxRowId
        /\ Writes(c, "checking", [v EXCEPT !.sessions[K(c)] = row, !.nextSessionId = @ + 1])

(* Mutant of WasStored: what is behind the checkpoint is taken for stored. *)
IsBehind(c) == TRUE

WasStored(c) == View(c)!IsReplay(K(c), U(c))

(* The chunk is behind the checkpoint: a replay, or a conflict.            *)
CheckReplay(c) ==
    /\ Putting(c, "checking")
    /\ U(c).start < View(c)!NextOffset(K(c))
    /\ Ends(c, IF WasStored(c) THEN "duplicate" ELSE "error")

MayAppend(c) == View(c)!IsNext(K(c), U(c)) /\ View(c)!PrefixMatches(K(c), U(c))

RejectChunk(c) ==
    /\ Putting(c, "checking")
    /\ U(c).start >= View(c)!NextOffset(K(c))
    /\ ~ MayAppend(c)
    /\ Ends(c, "error")

InsertChunk(c) ==
    /\ Putting(c, "checking")
    /\ MayAppend(c)
    /\ View(c)!KeysFree(K(c), U(c))
    /\ Writes(c, "inserting",
              [conn[c].view EXCEPT !.chunks[K(c)] = @ \cup {View(c)!NewChunk(U(c))}])

(* The next record that is an event, from at on.                           *)
Positions(c) == {i \in EventPositions(U(c).plain) : i >= conn[c].at}

Position(c) == CHOOSE i \in Positions(c) : \A j \in Positions(c) : i <= j

(* An event without text gets no search row: the loop goes on.             *)
InsertEvent(c) ==
    LET searchable == Searchable(U(c).plain[Position(c)])
    IN  /\ Putting(c, "inserting")
        /\ Positions(c) # {}
        /\ conn' = [conn EXCEPT
               ![c].pc = IF searchable THEN "indexing" ELSE @,
               ![c].at = IF searchable THEN @ ELSE Position(c) + 1,
               ![c].view.events[K(c)] = @ \cup {View(c)!EventAt(U(c), Position(c))}]
        /\ UNCHANGED db

InsertSearchRow(c) ==
    LET e == View(c)!EventAt(U(c), Position(c))
    IN  /\ Putting(c, "indexing")
        /\ conn' = [conn EXCEPT
               ![c].pc = "inserting",
               ![c].at = Position(c) + 1,
               ![c].view.fts = @ \cup
                   {[rowid |-> e.id, key |-> K(c), seq |-> e.seq, text |-> e.text]}]
        /\ UNCHANGED db

(* The counter of event ids moves past the records of the chunk, as Store  *)
(* has it.                                                                 *)
UpdateSession(c) ==
    LET v == conn[c].view
        row == v.sessions[K(c)]
    IN  /\ Putting(c, "inserting")
        /\ Positions(c) = {}
        /\ Writes(c, "committing",
                  [v EXCEPT !.sessions[K(c)] =
                                [row EXCEPT !.next = U(c).end,
                                            !.hash = @ \o U(c).plain,
                                            !.activity = Latest({@, LastActivity(U(c).plain)})],
                            !.nextEventId = @ + Len(U(c).plain)])

CommitPut(c) ==
    /\ Putting(c, "committing")
    /\ Commits(c, "stored")

PutStep(c) ==
    \/ SelectSession(c) \/ RejectNew(c) \/ NoSessionId(c) \/ InsertSession(c)
    \/ CheckReplay(c) \/ RejectChunk(c) \/ InsertChunk(c)
    \/ InsertEvent(c) \/ InsertSearchRow(c)
    \/ UpdateSession(c) \/ CommitPut(c)
-----------------------------------------------------------------------------
(***************************************************************************)
(* DeleteSession.  The first statement writes: it takes the snapshot with  *)
(* the lock.                                                               *)
(***************************************************************************)
BeginDelete(c, k) ==
    /\ c \in AdminConn
    /\ Begin(c, k, << >>)

DeleteSearchRows(c) ==
    /\ Deleting(c, "begun")
    /\ LockFree(c)
    /\ Writes(c, "deleting", [db EXCEPT !.fts = @ \ Committed!SearchRowsOf(K(c))])

DeleteRow(c) ==
    /\ Deleting(c, "deleting")
    /\ View(c)!Known(K(c))
    /\ Writes(c, "committing",
              [conn[c].view EXCEPT !.sessions[K(c)] = NoRow, !.chunks[K(c)] = {},
                                   !.events[K(c)] = {}])

RowMissing(c) ==
    /\ Deleting(c, "deleting")
    /\ ~ View(c)!Known(K(c))
    /\ Ends(c, "missing")

CommitDelete(c) ==
    /\ Deleting(c, "committing")
    /\ Commits(c, "deleted")

DeleteStep(c) == DeleteSearchRows(c) \/ DeleteRow(c) \/ RowMissing(c) \/ CommitDelete(c)
-----------------------------------------------------------------------------
(***************************************************************************)
(* Failures.                                                               *)
(***************************************************************************)
(* The next statement writes.                                              *)
WantsToWrite(c) ==
    \/ Putting(c, "creating") /\ U(c).start = 0
    \/ Putting(c, "checking") /\ MayAppend(c)
    \/ Deleting(c, "begun")

(* Mutant of Busy: a transaction that read too early waits like the others.*)
BusyWhileLocked(c) ==
    /\ WantsToWrite(c)
    /\ ~ LockFree(c)
    /\ Ends(c, "failed")

(* SQLITE_BUSY: the lock is held by another connection for longer than the *)
(* timeout, or another connection committed since the snapshot.            *)
Busy(c) ==
    /\ WantsToWrite(c)
    /\ ~ MayWrite(c)
    /\ Ends(c, "failed")

(* Any statement may fail, a request be cancelled, the process be killed:  *)
(* the transaction is rolled back.                                         *)
Fail(c) ==
    /\ Active(c)
    /\ Pc(c) # "answered"
    /\ Ends(c, "failed")

Step(c) == PutStep(c) \/ DeleteStep(c) \/ Busy(c) \/ Reply(c)

Next ==
    \E c \in Conn :
        \/ \E k \in Key, u \in Upload : BeginPut(c, k, u)
        \/ \E k \in Key : BeginDelete(c, k)
        \/ Step(c)
        \/ Fail(c)

Spec == Init /\ [][Next]_vars
-----------------------------------------------------------------------------
(***************************************************************************)
(* The statements implement the database of module Store: what is          *)
(* committed changes by whole chunks and whole deletions, each stored by   *)
(* the state it changes, whatever fails in between and whoever else        *)
(* writes.                                                                 *)
(***************************************************************************)
ImplementsStore == Committed!Spec

(***************************************************************************)
(* Every answer but a failure is the one the request would have got if it  *)
(* had run alone at some moment between its begin and its end: a chunk     *)
(* acknowledged as stored or as a duplicate was in the archive, and one    *)
(* that is refused as a conflict was in conflict.                          *)
(***************************************************************************)
AnswersAreLinear ==
    \A c \in Conn :
        Pc(c) = "answered" => conn[c].answer \in conn[c].right \cup {"failed"}

(***************************************************************************)
(* Every request can go on by itself, whatever the others do or leave      *)
(* undone: no two processes wait for each other at the write lock, and a   *)
(* transaction that read before another committed gives up.  As no step    *)
(* goes back, every request ends.                                          *)
(***************************************************************************)
NoRequestIsStuck == \A c \in Conn : Active(c) => ENABLED Step(c)

=============================================================================
