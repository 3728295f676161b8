------------------------------- MODULE Startup -------------------------------
(***************************************************************************)
(* The start of a server on the database of an earlier version: New and    *)
(* backfillSessions of internal/server/server.go, with initialize,         *)
(* PendingBackfills and FinishBackfill of internal/store/store.go.         *)
(*                                                                         *)
(* Rows of the earlier version have no prefix hash state, or metadata of   *)
(* version 0; both are rebuilt from the chunks before the server listens.  *)
(* Nothing keeps a second server from starting on the same database, or    *)
(* an administrator from deleting a session meanwhile, and every start may *)
(* fail or be killed at any step.                                          *)
(***************************************************************************)
EXTENDS Store, FiniteSets

CONSTANTS
    Server,       \* the server processes
    ServerKey,    \* the ids of server keys
    CurrentKey,   \* the server key the clients encrypt to
    Spoilt,       \* in the place of a key id: a chunk that no key opens, or altered
    OldSession,   \* the sessions an old database may hold of each key
    MaxDeletes    \* bound: sessions the administrator deletes

ASSUME KeyAssumption == CurrentKey \in ServerKey /\ Spoilt \notin ServerKey

(* An old session has a row, chunks, and the keys they are encrypted to,   *)
(* as the chunks of one session may be of different server keys.           *)
(* The tables are finite and keep their keys: chunks of one session start  *)
(* at different offsets, there are none without a row, and no row id is    *)
(* past the last one.  As in every PUT, a chunk has the length its offsets *)
(* say; that it has any, and that the chunks have no gaps, is not assumed. *)
ASSUME OldAssumption ==
    \A k \in Key : \A o \in OldSession[k] :
        /\ o.row \in SessionRow \cup {NoRow}
        /\ o.row = NoRow => o.chunks = {}
        /\ o.row # NoRow => o.row.id <= MaxRowId
        /\ o.chunks \in SUBSET ChunkRow /\ IsFiniteSet(o.chunks)
        /\ \A c \in o.chunks :
              /\ Len(c.plain) = c.end - c.start
              /\ \A d \in o.chunks : d.start = c.start => d = c
        /\ o.seal \subseteq ServerKey \cup {Spoilt}

VARIABLES
    version,   \* the metadata_version of each row
    seal,      \* the server keys it takes to open the chunks of each key
    deletes,   \* the sessions deleted so far
    servers    \* the servers

startupVars == <<version, seal, deletes, servers>>
allVars == <<vars, startupVars>>

(* The entries of a listing, with the row id that orders them.             *)
Pending == [id : Nat, key : Key, next : Nat]

Process ==
    [pc : {"down", "failed", "opened", "verifying", "finishing", "serving"},
     keys : SUBSET ServerKey,
     todo : SUBSET Pending,
     hash : Seq(Record)]

Ended(how) == [pc |-> how, keys |-> {}, todo |-> {}, hash |-> << >>]

(* Killed, or not started; and given up with an error.                     *)
Down == Ended("down")

Failed == Ended("failed")

(* Any database of an earlier version.                                     *)
StartupInit ==
    \E old \in [Key -> UNION {OldSession[k] : k \in Key}] :
        /\ \A k \in Key : old[k] \in OldSession[k]
        /\ \A j, k \in Key :
              j # k /\ old[j].row # NoRow /\ old[k].row # NoRow => old[j].row.id # old[k].row.id
        /\ sessions = [k \in Key |-> old[k].row]
        /\ chunks = [k \in Key |-> old[k].chunks]
        /\ seal = [k \in Key |-> old[k].seal]
        /\ events = [k \in Key |-> {}]
        /\ fts = {}
        /\ nextSessionId = Latest({0} \cup {sessions[k].id : k \in {k \in Key : Known(k)}}) + 1
        /\ nextEventId = 1
        /\ version = [k \in Key |-> 0]
        /\ deletes = 0
        /\ servers = [s \in Server |-> Down]
-----------------------------------------------------------------------------
(***************************************************************************)
(* The queries.                                                            *)
(***************************************************************************)
(* extendHashState fails.  Also a mutant of IsPending, in which the        *)
(* version of the metadata is not asked for.                               *)
HasNoHash(k) == Known(k) /\ sessions[k].hash = << >>

IsPending(k) == Known(k) /\ (sessions[k].hash = << >> \/ version[k] < 1)

(* Mutant of PendingSessions: the rows of the current version as well.     *)
AllSessions ==
    {[id |-> sessions[k].id, key |-> k, next |-> sessions[k].next] : k \in {k \in Key : Known(k)}}

PendingSessions ==
    {[id |-> sessions[k].id, key |-> k, next |-> sessions[k].next] : k \in {k \in Key : IsPending(k)}}

(* The chunks before c in the order of their offsets.                      *)
Before(cs, c) == {d \in cs : d.start < c.start}

LastOf(cs) == CHOOSE c \in cs : \A d \in cs : d.start <= c.start

(* Where the chunk that comes after the chunks cs has to start.            *)
EndOf(cs) == IF cs = {} THEN 0 ELSE LastOf(cs).end

(* Every chunk starts where the chunk before it ends, the first one at 0.  *)
NoGap(cs) == \A c \in cs : c.start = EndOf(Before(cs, c))

Concatenation(k) == [i \in 1 .. EndOf(chunks[k]) |-> RecordAt(k, i)]

(* The checks of backfillSessions on the chunks of one listed session.     *)
Verified(p, keys) ==
    /\ chunks[p.key] # {}
    /\ NoGap(chunks[p.key])
    /\ seal[p.key] \subseteq keys
    /\ \A c \in chunks[p.key] : Parses(c.plain, c.start, SessionOf(p.key))
    /\ EndOf(chunks[p.key]) = p.next
-----------------------------------------------------------------------------
(***************************************************************************)
(* A server.  Every error of a start closes the database and ends the      *)
(* process, which the operator starts again.                               *)
(***************************************************************************)
Goes(s, state) == servers' = [servers EXCEPT ![s] = state]

DatabaseUnchanged == UNCHANGED <<vars, version, seal, deletes>>

Current(s) == CHOOSE p \in servers[s].todo : \A q \in servers[s].todo : p.id <= q.id

(* The schema is brought up to date and the configured keys are loaded.    *)
Open(s, keys) ==
    /\ servers[s].pc \in {"down", "failed"}
    /\ Goes(s, [Down EXCEPT !.pc = "opened", !.keys = keys])
    /\ DatabaseUnchanged

ListPending(s) ==
    /\ servers[s].pc = "opened"
    /\ Goes(s, [servers[s] EXCEPT !.pc = "verifying", !.todo = PendingSessions])
    /\ DatabaseUnchanged

(* One query for the chunks; the checks work on what it returned.          *)
Verify(s) ==
    /\ servers[s].pc = "verifying"
    /\ servers[s].todo # {}
    /\ Goes(s, IF Verified(Current(s), servers[s].keys)
               THEN [servers[s] EXCEPT !.pc = "finishing", !.hash = Concatenation(Current(s).key)]
               ELSE Failed)
    /\ DatabaseUnchanged

(* Mutant of Unfinished: the row is updated whatever became of it.         *)
IsThere(p) == Known(p.key)

(* The WHERE clause of the UPDATE, which has to find the row.              *)
Unfinished(p) == IsPending(p.key) /\ sessions[p.key].next = p.next

Finish(s) ==
    LET p == Current(s)
        rest == [servers[s] EXCEPT !.pc = "verifying", !.todo = @ \ {p}, !.hash = << >>]
    IN  /\ servers[s].pc = "finishing"
        /\ Unfinished(p)
        /\ sessions' = [sessions EXCEPT ![p.key].hash = servers[s].hash,
                                        ![p.key].meta = servers[s].hash[1]]
        /\ version' = [version EXCEPT ![p.key] = 1]
        /\ Goes(s, rest)
        /\ UNCHANGED <<chunks, events, fts, nextSessionId, nextEventId, seal, deletes>>

(* "session changed during prefix backfill"                                *)
FinishFails(s) ==
    /\ servers[s].pc = "finishing"
    /\ ~ Unfinished(Current(s))
    /\ Goes(s, Failed)
    /\ DatabaseUnchanged

Listen(s) ==
    /\ servers[s].pc = "verifying"
    /\ servers[s].todo = {}
    /\ Goes(s, [servers[s] EXCEPT !.pc = "serving"])
    /\ DatabaseUnchanged

(* The process is killed, or a statement fails and ends the start.         *)
Crash(s) ==
    /\ servers[s].pc \notin {"down", "failed"}
    /\ Goes(s, Down)
    /\ DatabaseUnchanged

(* A serving server stores a chunk.                                        *)
Serve(k, u) ==
    /\ \E s \in Server : servers[s].pc = "serving"
    /\ ~ HasNoHash(k)
    /\ PutChunk(k, u)
    /\ version' = [version EXCEPT ![k] = IF Known(k) THEN @ ELSE 1]
    /\ seal' = [seal EXCEPT ![k] = (IF Known(k) THEN @ ELSE {}) \cup {CurrentKey}]
    /\ UNCHANGED <<deletes, servers>>

(* The administrator's process deletes a session; it opens the database    *)
(* without the backfill.                                                   *)
Delete(k) ==
    /\ deletes < MaxDeletes
    /\ DeleteSession(k)
    /\ deletes' = deletes + 1
    /\ UNCHANGED <<version, seal, servers>>

StartStep(s) ==
    \/ \E keys \in SUBSET ServerKey : CurrentKey \in keys /\ Open(s, keys)
    \/ ListPending(s)
    \/ Verify(s)
    \/ Finish(s)
    \/ FinishFails(s)
    \/ Listen(s)

Crashes == \E s \in Server : Crash(s)

StartupNext ==
    \/ \E s \in Server : StartStep(s)
    \/ Crashes
    \/ \E k \in Key, u \in Upload : Serve(k, u)
    \/ \E k \in Key : Delete(k)

StartupSpec == StartupInit /\ [][StartupNext]_allVars

(* A start runs to its end, and the operator starts the server again.      *)
FairSpec == StartupSpec /\ \A s \in Server : WF_allVars(StartStep(s))
-----------------------------------------------------------------------------
(* The tables keep to their schema, and each server to its steps.          *)
StartupTypeOK ==
    /\ TypeOK
    /\ version \in [Key -> {0, 1}]
    /\ seal \in [Key -> SUBSET (ServerKey \cup {Spoilt})]
    /\ servers \in [Server -> Process]

(***************************************************************************)
(* The service does not listen until the migration has succeeded           *)
(* (README): a serving server has no session left whose checkpoint or      *)
(* metadata is of the earlier version, whoever else wrote to the database  *)
(* while it started.                                                       *)
(***************************************************************************)
ServingIsMigrated ==
    (\E s \in Server : servers[s].pc = "serving") => \A k \in Key : Known(k) => version[k] = 1 /\ sessions[k].hash # << >>

(***************************************************************************)
(* A row of the current version tells the archive: its hash state is that  *)
(* of the chunks, to the last of them, and its metadata that of the first  *)
(* record.  A start that verified an earlier archive must not write its    *)
(* result over a row that another server has finished and a client has     *)
(* extended since, or that was deleted and shared anew.                    *)
(***************************************************************************)
MigratedIsArchive ==
    \A k \in Key : Known(k) /\ version[k] = 1 =>
        /\ NoGap(chunks[k])
        /\ EndOf(chunks[k]) = sessions[k].next
        /\ sessions[k].hash = Concatenation(k)
        /\ sessions[k].meta = sessions[k].hash[1]
        /\ seal[k] \subseteq ServerKey

(***************************************************************************)
(* Every server is up in the end if its starts are not killed for ever,    *)
(* all keys are configured and what is pending can be verified: starts     *)
(* that raced with one another or with a deletion are made good by a later *)
(* one, and one that died half way leaves nothing in its way.              *)
(***************************************************************************)
Sound == \A p \in PendingSessions : Verified(p, ServerKey)

AllKeys == \A s \in Server : servers[s].pc \in {"down", "failed"} \/ servers[s].keys = ServerKey

StartSucceeds ==
    (<>[][~ Crashes]_allVars /\ <>[]Sound /\ <>[]AllKeys)
        => \A s \in Server : <>[](servers[s].pc = "serving")

=============================================================================
