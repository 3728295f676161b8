-------------------------------- MODULE Sync --------------------------------
(***************************************************************************)
(* Synchronisation: `tracehub sync` processes of one device, the session   *)
(* files they read, the requests in flight, and the server with its        *)
(* database.  Client: internal/syncer/syncer.go Run, internal/codex        *)
(* Discover and ReadChunks, internal/client Plan and Upload.  Server:      *)
(* internal/server handleSyncPlan and handleChunk over module Store.       *)
(*                                                                         *)
(* Several processes may run at once, a request may be lost, answered to   *)
(* nobody, or handled long after its client gave up, an administrator may  *)
(* delete a session at any time, and the files change under the readers.   *)
(***************************************************************************)
EXTENDS Transcript

CONSTANTS
    Device, NoRow, MaxRowId,   \* of Store
    Host,          \* the device whose sessions are synchronised
    Run,           \* the sync processes
    InFlight,      \* bound: requests of one process in flight at once, late ones too
    NoConn,
    FirstFile,     \* the initial contents a session file may have
    NewRecord,     \* the records an agent may append
    NewFile,       \* the contents a file may be replaced or overwritten with
    MaxLength,     \* bound: records in a file
    MaxEdits,      \* bound: replacements and overwrites
    MaxDeletes,    \* bound: administrator deletions
    InPlace        \* whether a file may be overwritten in place

ASSUME HostAssumption == Host \in Device

ASSUME BoundsAssumption ==
    /\ MaxLength \in Nat /\ MaxEdits \in Nat /\ MaxDeletes \in Nat
    /\ InPlace \in BOOLEAN /\ InFlight \in Nat \ {0}

ASSUME FilesAssumption ==
    /\ NewRecord \subseteq Record
    /\ FirstFile \in [Session -> SUBSET Seq(Record)]
    /\ NewFile \in [Session -> SUBSET Seq(Record)]

(* Session ids are ordered, and a device has at least one session.         *)
ASSUME SessionAssumption ==
    /\ Session # {}
    /\ \A S \in SUBSET Session : S # {} => \E s \in S : \A t \in S : s <= t

VARIABLES
    sessions, chunks, events, fts, nextSessionId, nextEventId,   \* of Store
    path,      \* the file generation each session's path names
    disk,      \* the records of each file generation of each session
    edits,     \* how many replacements and overwrites there were
    deletes,   \* how many deletions there were
    past,      \* history: the contents overwritten in place
    run,       \* the state of each sync process
    net        \* the chunk requests in flight

db == <<sessions, chunks, events, fts, nextSessionId, nextEventId>>
files == <<path, disk, edits, past>>
vars == <<db, files, deletes, run, net>>

Store == INSTANCE Store WITH Upload <- {}

ASSUME StoreAssumption == NoRow \notin Store!SessionRow /\ MaxRowId \in Nat

(* A connection carries one request of one process.                        *)
Conn == Run \X (1 .. InFlight)

ASSUME ConnAssumption == NoConn \notin Conn

Generation == 1 .. MaxEdits + 1

KeyOf(s) == <<Host, s>>

File(s) == disk[s][path[s]]

Archived(s) == Store!ArchiveOf(KeyOf(s))

Prefix(p, t) == Len(p) <= Len(t) /\ SubSeq(t, 1, Len(p)) = p
-----------------------------------------------------------------------------
(***************************************************************************)
(* The session files.  An agent appends records; other software replaces a *)
(* file by renaming a new one over it (open readers keep the old one) or,  *)
(* if InPlace, writes over it.                                             *)
(***************************************************************************)
Disturb(s) ==
    [r \in Run |-> IF run[r].pc = "stopped" THEN run[r]
                   ELSE [run[r] EXCEPT !.disturbed = @ \cup {s}]]

AppendRecord(s, rec) ==
    /\ Len(File(s)) < MaxLength
    /\ disk' = [disk EXCEPT ![s][path[s]] = Append(@, rec)]
    /\ UNCHANGED <<db, path, edits, past, deletes, run, net>>

Replace(s, t) ==
    /\ edits < MaxEdits
    /\ t # File(s)
    /\ edits' = edits + 1
    /\ path' = [path EXCEPT ![s] = edits + 2]
    /\ disk' = [disk EXCEPT ![s][edits + 2] = t]
    /\ run' = Disturb(s)
    /\ UNCHANGED <<db, past, deletes, net>>

Overwrite(s, t) ==
    /\ InPlace
    /\ edits < MaxEdits
    /\ t # File(s)
    /\ edits' = edits + 1
    /\ past' = [past EXCEPT ![s] = @ \cup {File(s)}]
    /\ disk' = [disk EXCEPT ![s][path[s]] = t]
    /\ run' = Disturb(s)
    /\ UNCHANGED <<db, path, deletes, net>>
-----------------------------------------------------------------------------
(***************************************************************************)
(* A sync process.  size: the sessions it has discovered, with the size    *)
(* each had when it was inspected.  plan: the checkpoints the server read  *)
(* for it, until their file is opened.  view: the records of the open file *)
(* it has hashed, sent or about to be sent; its length is the offset.      *)
(* disturbed: history, the sessions replaced or deleted since it started.  *)
(***************************************************************************)
NoMap == << >>

Including(map, s, v) == [t \in DOMAIN map \cup {s} |-> IF t = s THEN v ELSE map[t]]

Stopped == [pc |-> "stopped", size |-> NoMap, plan |-> NoMap, todo |-> {},
            file |-> 0, view |-> << >>, eof |-> FALSE, conn |-> NoConn,
            disturbed |-> {}]

Set(r, v) == run' = [run EXCEPT ![r] = v]

(* Run returns an error: nothing of its state is used again.               *)
Fail(r) == Set(r, Stopped)

Start(r) ==
    /\ run[r].pc \in {"stopped", "done"}
    /\ Set(r, [Stopped EXCEPT !.pc = "inspecting"])
    /\ UNCHANGED <<db, files, deletes, net>>

(* Discover inspects one file after another; the first record must be the  *)
(* session_meta of the session.                                            *)
Inspect(r, s) ==
    /\ run[r].pc = "inspecting"
    /\ s \notin DOMAIN run[r].size
    /\ IF OpensSession(File(s), s)
         THEN Set(r, [run[r] EXCEPT !.size = Including(@, s, Len(File(s)))])
         ELSE Fail(r)
    /\ UNCHANGED <<db, files, deletes, net>>

(* The manifest is complete, and sent.                                     *)
Planning(r) == run[r].pc = "inspecting" /\ DOMAIN run[r].size = Session

(* Checkpoints reads the sessions of the manifest one query at a time.     *)
ReadCheckpoint(r, s) ==
    /\ Planning(r)
    /\ s \notin DOMAIN run[r].plan
    /\ Set(r, [run[r] EXCEPT !.plan = Including(@, s, Store!Checkpoint(KeyOf(s)))])
    /\ UNCHANGED <<db, files, deletes, net>>

(* handleSyncPlan refuses the whole manifest when one session looks        *)
(* truncated.                                                              *)
Truncated(r, s) == run[r].plan[s].next > run[r].size[s]

AnswerPlan(r) ==
    /\ Planning(r)
    /\ DOMAIN run[r].plan = Session
    /\ IF \E s \in Session : Truncated(r, s)
         THEN Set(r, [run[r] EXCEPT !.pc = "refused"])
         ELSE Set(r, [run[r] EXCEPT !.pc = "opening", !.todo = Session])
    /\ UNCHANGED <<db, files, deletes, net>>

(* The client reports the refusal, and the run is over.                    *)
ReceiveRefusal(r) ==
    /\ run[r].pc = "refused"
    /\ Fail(r)
    /\ UNCHANGED <<db, files, deletes, net>>

(* Sessions are synchronised in the order of their ids.                    *)
Current(r) == CHOOSE s \in run[r].todo : \A t \in run[r].todo : s <= t

(* Mutant of PrefixUnchanged: the whole file is hashed, not its prefix.    *)
FileUnchanged(r, t) ==
    LET point == run[r].plan[Current(r)]
    IN  point.next = 0 \/ t = point.hash

(* ReadChunks: the stat check and the comparison of the prefix hash.       *)
PrefixUnchanged(r, t) ==
    LET point == run[r].plan[Current(r)]
    IN  Len(t) >= point.next /\ SubSeq(t, 1, point.next) = point.hash

OpenFile(r) ==
    /\ run[r].pc = "opening"
    /\ IF PrefixUnchanged(r, File(Current(r)))
         THEN Set(r, [run[r] EXCEPT !.pc = "reading", !.file = path[Current(r)],
                          !.view = run[r].plan[Current(r)].hash,
                          !.plan = [s \in run[r].todo \ {Current(r)} |-> @[s]]])
         ELSE Fail(r)
    /\ UNCHANGED <<db, files, deletes, net>>

Offset(r) == Len(run[r].view)

OpenFileContent(r) == disk[Current(r)][run[r].file]

(* The slots of InFlight that are free: the bound on the requests that     *)
(* outlive their client is the model's own.                                *)
FreeConns(r) == {c \in Conn : c[1] = r /\ \A m \in net : m.conn # c}

(* What flush sends: records of the file from the offset on, and the       *)
(* digest of everything hashed so far with them.  The client saw the end   *)
(* of the file or not.                                                     *)
RequestUpTo(r, n) ==
    LET plain == SubSeq(OpenFileContent(r), Offset(r) + 1, n)
    IN  [start |-> Offset(r), end |-> n, plain |-> plain,
         prefix |-> run[r].view \o plain]

SendChunk(r) ==
    /\ run[r].pc = "reading"
    /\ ~run[r].eof
    /\ \E n \in Offset(r) + 1 .. Len(OpenFileContent(r)), c \in FreeConns(r),
          atEnd \in BOOLEAN :
          /\ atEnd => n = Len(OpenFileContent(r))
          /\ net' = net \cup {[conn |-> c, session |-> Current(r),
                               request |-> RequestUpTo(r, n), status |-> "sent"]}
          /\ Set(r, [run[r] EXCEPT !.pc = "waiting", !.eof = atEnd, !.conn = c,
                         !.view = RequestUpTo(r, n).prefix])
    /\ UNCHANGED <<db, files, deletes>>

(* End of file with nothing left to flush: on to the next session, or done.*)
FinishFile(r) ==
    /\ run[r].pc = "reading"
    /\ run[r].eof \/ Len(OpenFileContent(r)) <= Offset(r)
    /\ Set(r, [run[r] EXCEPT !.pc = IF run[r].todo = {Current(r)} THEN "done" ELSE "opening",
                   !.todo = @ \ {Current(r)}, !.file = 0, !.view = << >>, !.eof = FALSE])
    /\ UNCHANGED <<db, files, deletes, net>>

(* Mutant of Accepted: the status code is not looked at.                   *)
AnyAnswer(m) == TRUE

(* client.execute: anything but 200 is an error, and ends the run.  An     *)
(* answer 200 carries the end of the chunk as its next offset (handleChunk *)
(* writes no other), so that the comparison with it in Run always holds.   *)
Accepted(m) == m.status = "ok"

Receive(r, m) ==
    /\ run[r].pc = "waiting"
    /\ m.conn = run[r].conn
    /\ m.status # "sent"
    /\ net' = net \ {m}
    /\ IF Accepted(m)
         THEN Set(r, [run[r] EXCEPT !.pc = "reading", !.conn = NoConn])
         ELSE Fail(r)
    /\ UNCHANGED <<db, files, deletes>>

(* Mutant of GiveUp: http.Client without a timeout.                        *)
GiveUpPlan(r) ==
    /\ Planning(r)
    /\ Fail(r)
    /\ UNCHANGED <<db, files, deletes, net>>

(* The client times out, loses its connection or is killed.  A request it  *)
(* had sent stays in flight; an answer finds nobody.  (To miss a refusal   *)
(* that has arrived is the same as to receive it.)                         *)
GiveUp(r) ==
    /\ \/ Planning(r)
       \/ run[r].pc = "waiting" /\ \A m \in net : m.conn = run[r].conn => m.status # "error"
    /\ Fail(r)
    /\ net' = {m \in net : m.conn # run[r].conn \/ m.status = "sent"}
    /\ UNCHANGED <<db, files, deletes>>
-----------------------------------------------------------------------------
(***************************************************************************)
(* The server.                                                             *)
(***************************************************************************)
Answer(m, status) ==
    IF \E r \in Run : run[r].conn = m.conn
      THEN net' = (net \ {m}) \cup {[m EXCEPT !.status = status]}
      ELSE net' = net \ {m}

Outcome(m) == Store!Outcome(KeyOf(m.session), m.request)

StoreChunk(m) ==
    /\ m.status = "sent"
    /\ Store!PutChunk(KeyOf(m.session), m.request)
    /\ Answer(m, "ok")
    /\ UNCHANGED <<files, deletes, run>>

(* A duplicate is acknowledged and nothing is written; a chunk that fits   *)
(* nowhere is refused and nothing is written.                              *)
AnswerOnly(m) ==
    /\ m.status = "sent"
    /\ \/ Outcome(m) = "duplicate" /\ Answer(m, "ok")
       \/ Outcome(m) = "error" /\ Answer(m, "error")
    /\ UNCHANGED <<db, files, deletes, run>>

(* The transaction of a chunk that would have been accepted fails, and     *)
(* leaves nothing behind.                                                  *)
TransactionFails(m) ==
    /\ m.status = "sent"
    /\ Outcome(m) # "error"
    /\ Answer(m, "error")
    /\ UNCHANGED <<db, files, deletes, run>>

(* A request or an answer is lost on the way.                              *)
Lose(m) ==
    /\ net' = net \ {m}
    /\ UNCHANGED <<db, files, deletes, run>>

AdminDelete(s) ==
    /\ deletes < MaxDeletes
    /\ Store!DeleteSession(KeyOf(s))
    /\ deletes' = deletes + 1
    /\ run' = Disturb(s)
    /\ UNCHANGED <<files, net>>
-----------------------------------------------------------------------------
Init ==
    /\ Store!Init
    /\ path = [s \in Session |-> 1]
    /\ disk \in {[s \in Session |-> [g \in Generation |->
                    IF g = 1 THEN first[s] ELSE << >>]] :
                 first \in {f \in [Session -> UNION {FirstFile[s] : s \in Session}] :
                              \A s \in Session : f[s] \in FirstFile[s]}}
    /\ edits = 0
    /\ past = [s \in Session |-> {}]
    /\ deletes = 0
    /\ run = [r \in Run |-> Stopped]
    /\ net = {}

ClientStep(r) ==
    \/ \E s \in Session : Inspect(r, s)
    \/ ReceiveRefusal(r)
    \/ OpenFile(r)
    \/ SendChunk(r)
    \/ FinishFile(r)
    \/ \E m \in net : Receive(r, m)

PlanStep(r) ==
    \/ \E s \in Session : ReadCheckpoint(r, s)
    \/ AnswerPlan(r)

ServerStep(m) == StoreChunk(m) \/ AnswerOnly(m)

Next ==
    \/ \E r \in Run : Start(r) \/ ClientStep(r) \/ PlanStep(r) \/ GiveUp(r)
    \/ \E m \in net : ServerStep(m) \/ TransactionFails(m) \/ Lose(m)
    \/ \E s \in Session : AdminDelete(s)
    \/ \E s \in Session, rec \in NewRecord : AppendRecord(s, rec)
    \/ \E s \in Session : \E t \in NewFile[s] : Replace(s, t) \/ Overwrite(s, t)

Spec == Init /\ [][Next]_vars

(***************************************************************************)
(* Fairness: every process takes the steps it can, the server works on     *)
(* what it receives, http.Client gives up after its timeout (5 minutes),   *)
(* and a sync that has ended is started again.                             *)
(***************************************************************************)
FairSpec ==
    /\ Spec
    /\ \A r \in Run :
          WF_vars(Start(r)) /\ WF_vars(ClientStep(r)) /\ WF_vars(PlanStep(r))
    /\ \A r \in Run : WF_vars(GiveUp(r))
    /\ \A c \in Conn : WF_vars(\E m \in net : m.conn = c /\ ServerStep(m))
-----------------------------------------------------------------------------
(* Every variable holds values of its kind (those of Store: Store!TypeOK). *)
Pc == {"stopped", "inspecting", "refused", "opening", "reading", "waiting", "done"}

TypeOK ==
    /\ path \in [Session -> Generation]
    /\ disk \in [Session -> [Generation -> Seq(Record)]]
    /\ past \in [Session -> SUBSET Seq(Record)]
    /\ edits \in 0 .. MaxEdits /\ deletes \in 0 .. MaxDeletes
    /\ \A r \in Run :
          /\ run[r].pc \in Pc
          /\ run[r].todo \subseteq Session /\ run[r].disturbed \subseteq Session
          /\ run[r].view \in Seq(Record) /\ run[r].conn \in Conn \cup {NoConn}
          /\ (run[r].conn # NoConn) <=> (run[r].pc = "waiting")
    /\ \A m \in net : m.request \in Store!Request

(***************************************************************************)
(* The archive of a session is the beginning of one version of its file:   *)
(* records of two versions are never joined, whatever is replaced, deleted,*)
(* repeated or late (REQ-003: a rewritten history fails instead of being   *)
(* silently joined to the existing history).                               *)
(***************************************************************************)
Versions(s) == {disk[s][g] : g \in Generation} \cup past[s]

OneHistory == \A s \in Session : \E v \in Versions(s) : Prefix(Archived(s), v)

(***************************************************************************)
(* A client believes what is so.  While it reads the next chunk, all it    *)
(* has read of the session is in the archive; once it is through with a    *)
(* session, so is everything the file held when the run looked at it.      *)
(* Sessions deleted or replaced during the run are excepted.               *)
(***************************************************************************)
Through(r) ==
    IF run[r].pc \in {"opening", "reading", "waiting", "done"}
      THEN Session \ run[r].todo ELSE {}

SyncedIsShared ==
    \A r \in Run :
        /\ \A s \in Through(r) \ run[r].disturbed :
              Prefix(SubSeq(File(s), 1, run[r].size[s]), Archived(s))
        /\ (run[r].pc = "reading" /\ Current(r) \notin run[r].disturbed) =>
              Prefix(run[r].view, Archived(Current(r)))

(***************************************************************************)
(* A session that only grew is not refused as rewritten.  The checkpoint   *)
(* comes from a plan that may be old when its turn comes: file and archive *)
(* have grown meanwhile, by the agent, by other runs and by late requests. *)
(* If the archive still begins the file, and the session was not deleted   *)
(* or replaced since the run began, ReadChunks accepts it.                 *)
(***************************************************************************)
GrowthIsAccepted ==
    \A r \in Run :
        /\ run[r].pc = "opening"
        /\ Current(r) \notin run[r].disturbed
        /\ Prefix(Archived(Current(r)), File(Current(r)))
        => PrefixUnchanged(r, File(Current(r)))

(***************************************************************************)
(* An acknowledgement is true when it is given: whether the chunk was      *)
(* stored or taken for a duplicate, its records are in the archive at      *)
(* their place, however late the request comes and whoever wrote before.   *)
(***************************************************************************)
AcksAreTrue ==
    [][\A m \in net' \ net : m.status = "ok" =>
          SubSeq(Archived(m.session)', m.request.start + 1, m.request.end)
            = m.request.plain]_vars

(***************************************************************************)
(* A session is refused as truncated only when its file is shorter than    *)
(* what the server holds ("session %s was truncated below server offset",  *)
(* server.go:203).                                                         *)
(***************************************************************************)
RefusedIsTruncated ==
    \A r \in Run : run[r].pc = "refused" =>
        \E s \in Session : run[r].plan[s].next > Len(File(s))

(***************************************************************************)
(* A sync ends: no run waits or reads for ever, whatever is lost.          *)
(***************************************************************************)
Ended(r) == run[r].pc \in {"done", "stopped"}

RunEnds == \A r \in Run : run[r].pc = "inspecting" ~> Ended(r)

(***************************************************************************)
(* Syncs that are repeated share everything: if from some time on nothing  *)
(* is lost and no transaction fails, and the archive of a session can be   *)
(* reached, it becomes the whole file, however often a run is refused      *)
(* (REQ-003: newly completed records become available after another        *)
(* submission).  A run ends at the first session it fails on, so a session *)
(* is reached if its archive and those of the sessions before it begin     *)
(* their files; and the plan refuses the whole manifest for one truncated  *)
(* file.  A session that was rewritten keeps only those behind it waiting. *)
(***************************************************************************)
Reachable(s) ==
    /\ \A t \in Session : t <= s => Prefix(Archived(t), File(t))
    /\ \A t \in Session : Len(Archived(t)) <= Len(File(t))

NoFault ==
    /\ \A r \in Run : ~GiveUp(r)
    /\ \A m \in net : ~TransactionFails(m) /\ ~Lose(m)

SyncConverges ==
    \A s \in Session :
        (<>[][NoFault]_vars /\ <>[]Reachable(s)) => <>[](Archived(s) = File(s))
=============================================================================
