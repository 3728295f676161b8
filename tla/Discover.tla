------------------------------- MODULE Discover -------------------------------
(***************************************************************************)
(* The search for session files: Discover and Inspect of                   *)
(* internal/codex/codex.go, while an agent creates files, and somebody     *)
(* moves them (from sessions to archived_sessions, say), copies or deletes *)
(* them.                                                                   *)
(*                                                                         *)
(* filepath.WalkDir reads a directory when it gets there and then visits   *)
(* the entries of that listing one by one.  A file is named for its        *)
(* session, so a directory holds at most one of each.  The directories are *)
(* there all the time; symbolic links and other files are passed over and  *)
(* left out.                                                               *)
(***************************************************************************)
EXTENDS Integers

CONSTANTS
    Session,      \* session ids, in their lexical order
    Dirs,         \* the number of directories of the walk, archived_sessions included
    MaxChanges    \* bound: moves, copies and deletions

ASSUME SessionAssumption == Session \subseteq Nat

ASSUME BoundAssumption == Dirs \in Nat \ {0} /\ MaxChanges \in Nat

Dir == 1 .. Dirs    \* in the order of the walk

VARIABLES
    files,      \* the file of each session in each directory
    changes,    \* the moves, copies and deletions so far
    pc,         \* "idle", "walking", "done" or "failed"
    dir,        \* the directory the walk is in, or 0
    listing,    \* the entries of its listing to be visited yet
    found,      \* the directory in which each session was found, or 0
    calm,       \* sessions of one readable file, untouched since the walk began: history
    kept        \* sessions with a readable file since then, never behind the last: history

treeVars == <<files, changes>>
walkVars == <<pc, dir, listing, found>>
historyVars == <<calm, kept>>
vars == <<treeVars, walkVars, historyVars>>

(* A file is readable when its first line is complete and is the           *)
(* session_meta record of its session.                                     *)
FileState == {"none", "unreadable", "readable"}

ReadableDirs(fs, s) == {d \in Dir : fs[s][d] = "readable"}

Exists(s, d) == files[s][d] # "none"

(* s has one file, and it is readable.                                     *)
Single(fs, s) ==
    \E d \in ReadableDirs(fs, s) : \A e \in Dir : fs[s][e] # "none" => e = d

Init ==
    /\ files \in [Session -> [Dir -> FileState]]
    /\ changes = 0
    /\ pc = "idle" /\ dir = 0 /\ listing = {} /\ found = [s \in Session |-> 0]
    /\ calm = {} /\ kept = {}
-----------------------------------------------------------------------------
(***************************************************************************)
(* The tree.                                                               *)
(***************************************************************************)
(* s keeps a readable file no earlier in the walk than its last one.       *)
Keeps(fs, s) ==
    \E e \in ReadableDirs(fs, s) : \A d \in ReadableDirs(files, s) : d <= e

(* The files of s become those of fs.                                      *)
Changes(s, fs) ==
    /\ files' = fs
    /\ calm' = calm \ {s}
    /\ kept' = IF Keeps(fs, s) THEN kept ELSE kept \ {s}
    /\ UNCHANGED walkVars

(* The agent creates a file, and writes the first line in some steps.      *)
Create(s, d) ==
    /\ \A e \in Dir : ~ Exists(s, e)
    /\ Changes(s, [files EXCEPT ![s][d] = "unreadable"])
    /\ UNCHANGED changes

EndFirstLine(s, d) ==
    /\ files[s][d] = "unreadable"
    /\ Changes(s, [files EXCEPT ![s][d] = "readable"])
    /\ UNCHANGED changes

Counted == changes < MaxChanges /\ changes' = changes + 1

Move(s, d, e) ==
    /\ Exists(s, d) /\ ~ Exists(s, e)
    /\ Changes(s, [files EXCEPT ![s][d] = "none", ![s][e] = files[s][d]])
    /\ Counted

Copy(s, d, e) ==
    /\ Exists(s, d) /\ ~ Exists(s, e)
    /\ Changes(s, [files EXCEPT ![s][e] = files[s][d]])
    /\ Counted

Delete(s, d) ==
    /\ Exists(s, d)
    /\ Changes(s, [files EXCEPT ![s][d] = "none"])
    /\ Counted

TreeStep ==
    \/ \E s \in Session, d \in Dir : Create(s, d) \/ EndFirstLine(s, d) \/ Delete(s, d)
    \/ \E s \in Session, d, e \in Dir : Move(s, d, e) \/ Copy(s, d, e)
-----------------------------------------------------------------------------
(***************************************************************************)
(* The walk.                                                               *)
(***************************************************************************)
Walking == pc = "walking" /\ UNCHANGED <<treeVars, historyVars>>

(* Mutant of NothingFound: one map for all calls.                          *)
FoundBefore == UNCHANGED found

NothingFound == found' = [s \in Session |-> 0]

(* Discover is called.                                                     *)
Start ==
    /\ pc # "walking"
    /\ pc' = "walking" /\ dir' = 0 /\ listing' = {}
    /\ NothingFound
    /\ calm' = {s \in Session : Single(files, s)}
    /\ kept' = {s \in Session : ReadableDirs(files, s) # {}}
    /\ UNCHANGED treeVars

(* The walk enters the next directory and reads its listing.               *)
EnterDir ==
    /\ Walking
    /\ listing = {} /\ dir < Dirs
    /\ dir' = dir + 1
    /\ listing' = {s \in Session : Exists(s, dir + 1)}
    /\ UNCHANGED <<pc, found>>

(* The entries are visited in lexical order.                               *)
Entry == CHOOSE s \in listing : \A t \in listing : s <= t

(* Inspect reads the file: it is there still, and its first line complete. *)
Inspects(s) == files[s][dir] = "readable"

(* Mutant of IsNew: files are told apart by their directory.               *)
IsFirstOfDir(s) == \A t \in Session : found[t] # dir

(* The session was not found before.                                       *)
IsNew(s) == found[s] = 0

Visit ==
    /\ Walking
    /\ listing # {}
    /\ Inspects(Entry) /\ IsNew(Entry)
    /\ found' = [found EXCEPT ![Entry] = dir]
    /\ listing' = listing \ {Entry}
    /\ UNCHANGED <<pc, dir>>

(* The first file that cannot be inspected, or a duplicate, ends it all.   *)
VisitFails ==
    /\ Walking
    /\ listing # {}
    /\ ~ (Inspects(Entry) /\ IsNew(Entry))
    /\ pc' = "failed"
    /\ UNCHANGED <<dir, listing, found>>

(* Mutant of WalkOver: the first directory with files is the last.         *)
FoundSome == listing = {} /\ dir > 0 /\ (dir = Dirs \/ \E s \in Session : found[s] # 0)

WalkOver == listing = {} /\ dir = Dirs

Finish ==
    /\ Walking
    /\ WalkOver
    /\ pc' = "done"
    /\ UNCHANGED <<dir, listing, found>>

WalkStep == EnterDir \/ Visit \/ VisitFails \/ Finish

Next == TreeStep \/ Start \/ WalkStep

Spec == Init /\ [][Next]_vars

(* A walk goes on, and a sync is run again.                                *)
FairSpec == Spec /\ WF_vars(WalkStep) /\ WF_vars(Start)
-----------------------------------------------------------------------------
(* A walk that succeeds has found every session that had a readable file   *)
(* all the time and was not moved against the walk: archiving a session    *)
(* while Discover runs does not hide it.                                   *)
KeptIsFound == pc = "done" => \A s \in kept : found[s] # 0

(* Discover fails at a session only when its one readable file was touched *)
(* since the walk began, or when it has not just one: what happens to      *)
(* other sessions does not make it fail there.                             *)
FailureIsDisturbance == pc = "failed" => Entry \notin calm

(* When every session has at most one file, and that is readable, and the  *)
(* tree rests, Discover succeeds again and again, whatever it met before.  *)
DiscoverySucceeds ==
    /\ <>[](\A s \in Session : (\E d \in Dir : Exists(s, d)) => Single(files, s))
    /\ <>[][FALSE]_files
    => []<>(pc = "done")

=============================================================================
