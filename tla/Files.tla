--------------------------------- MODULE Files ---------------------------------
(***************************************************************************)
(* The commands that create files others rely on: Export of                *)
(* internal/admin/admin.go, and GenerateServer and GenerateDevice of       *)
(* internal/keys/keys.go, which differ in the key only.  Several of them   *)
(* run at a time, somebody else may create a file of the same name, every  *)
(* system call may fail, and every process may be killed.                  *)
(*                                                                         *)
(* A file is who created it and what was written to it.  Names are unique  *)
(* files: a hard link shows the same content under a second name.  Files   *)
(* are removed by name, whoever created them.                              *)
(***************************************************************************)
EXTENDS Integers, Sequences

CONSTANTS
    Exporter,      \* processes that export a session to Output
    KeyGen,        \* processes that generate a pair of keys
    Together,      \* bound: the sets of processes that run at one time
    Archive,       \* what an export may find: sequences of "good" and "bad"
    KeyPaths,      \* the pairs of paths a key generation may be given
    Output,        \* the output path of the exports
    Temp,          \* the temporary path of each exporter
    Other,         \* whoever else creates files
    Absent         \* in the place of a file

ASSUME ArchiveAssumption == Archive \subseteq Seq({"good", "bad"})

(* os.CreateTemp gives each export a name of its own.                      *)
ASSUME TempAssumption ==
    /\ \A e, f \in Exporter : Temp[e] = Temp[f] => e = f
    /\ \A e \in Exporter : Temp[e] # Output

(* A process runs one command.                                             *)
ASSUME OwnerAssumption ==
    /\ Other \notin Exporter \cup KeyGen
    /\ Exporter \cap KeyGen = {}

Process == Exporter \cup KeyGen

(* What a file may be: its creator, and the parts written to it.           *)
File == [owner : Process \cup {Other}, parts : Seq({"good", "bad", "key"})]

ASSUME AbsentAssumption == Absent \notin File

KeyPath == UNION {{kp.private, kp.public} : kp \in KeyPaths}

Path == {Output} \cup {Temp[e] : e \in Exporter} \cup KeyPath

VARIABLES
    files,    \* the file at each path, or Absent
    pc,       \* where each process is
    chunks,   \* the chunks each export read from the database
    paths     \* the paths of each key generation

vars == <<files, pc, chunks, paths>>

Init ==
    /\ files = [x \in Path |-> Absent]
    /\ \E r \in Together : pc = [p \in Process |-> IF p \in r THEN "start" ELSE "idle"]
    /\ chunks = [e \in Exporter |-> << >>]
    /\ paths \in [KeyGen -> KeyPaths]

(* A process that is not run, or runs no more: it succeeded, returned an   *)
(* error, or was killed.                                                   *)
Ended(p) == pc[p] \in {"idle", "done", "failed", "crashed"}

Exists(x) == files[x] # Absent

(* open with O_CREATE and O_EXCL.                                          *)
CreateNew(p, x) ==
    /\ ~ Exists(x)
    /\ files' = [files EXCEPT ![x] = [owner |-> p, parts |-> << >>]]

Write(x, part) == files' = [files EXCEPT ![x].parts = Append(@, part)]

Remove(x) == files' = [files EXCEPT ![x] = Absent]

Goes(p, to) == pc' = [pc EXCEPT ![p] = to]

GoesOn(p, from, to) == pc[p] = from /\ Goes(p, to)
-----------------------------------------------------------------------------
(***************************************************************************)
(* Export.                                                                 *)
(***************************************************************************)
(* One query reads all chunks; a session without chunks is not found.      *)
LoadChunks(e, a) ==
    /\ GoesOn(e, "start", IF a = << >> THEN "failed" ELSE "loaded")
    /\ chunks' = [chunks EXCEPT ![e] = a]
    /\ UNCHANGED <<files, paths>>

CreateTemp(e) ==
    /\ GoesOn(e, "loaded", "writing")
    /\ CreateNew(e, Temp[e])
    /\ UNCHANGED <<chunks, paths>>

Written(e) == Len(files[Temp[e]].parts)

NextChunk(e) == chunks[e][Written(e) + 1]

(* Mutant of Intact: the chunk is written as it is.                        *)
Unchecked(chunk) == TRUE

(* A "bad" chunk leaves a gap, has no key, cannot be decrypted, or is not  *)
(* what its row says.                                                      *)
Intact(chunk) == chunk = "good"

WriteChunk(e) ==
    /\ pc[e] = "writing"
    /\ Written(e) < Len(chunks[e])
    /\ Intact(NextChunk(e))
    /\ Write(Temp[e], NextChunk(e))
    /\ UNCHANGED <<pc, chunks, paths>>

RejectChunk(e) ==
    /\ GoesOn(e, "writing", "cleaning")
    /\ Written(e) < Len(chunks[e])
    /\ ~ Intact(NextChunk(e))
    /\ UNCHANGED <<files, chunks, paths>>

(* Sync and Close.                                                         *)
CloseTemp(e) ==
    /\ GoesOn(e, "writing", "closed")
    /\ Written(e) = Len(chunks[e])
    /\ UNCHANGED <<files, chunks, paths>>

(* Mutant of LinkOutput: the file is renamed, over what is there.          *)
RenameOutput(e) ==
    /\ GoesOn(e, "closed", "linked")
    /\ files' = [files EXCEPT ![Output] = files[Temp[e]]]
    /\ UNCHANGED <<chunks, paths>>

LinkOutput(e) ==
    /\ GoesOn(e, "closed", "linked")
    /\ ~ Exists(Output)
    /\ files' = [files EXCEPT ![Output] = files[Temp[e]]]
    /\ UNCHANGED <<chunks, paths>>

OutputExists(e) ==
    /\ GoesOn(e, "closed", "cleaning")
    /\ Exists(Output)
    /\ UNCHANGED <<files, chunks, paths>>

RemoveTemp(e) ==
    /\ GoesOn(e, "linked", "done")
    /\ Remove(Temp[e])
    /\ UNCHANGED <<chunks, paths>>

(* A system call fails before the output is there.                         *)
ExportFails(e) ==
    /\ \/ pc[e] \in {"start", "loaded"} /\ Goes(e, "failed")
       \/ pc[e] \in {"writing", "closed"} /\ Goes(e, "cleaning")
    /\ UNCHANGED <<files, chunks, paths>>

(* The deferred removal of the temporary file.                             *)
Clean(e) ==
    /\ GoesOn(e, "cleaning", "failed")
    /\ Remove(Temp[e])
    /\ UNCHANGED <<chunks, paths>>

ExportStep(e) ==
    \/ \E a \in Archive : LoadChunks(e, a)
    \/ CreateTemp(e) \/ WriteChunk(e) \/ RejectChunk(e) \/ CloseTemp(e)
    \/ LinkOutput(e) \/ OutputExists(e) \/ RemoveTemp(e)
    \/ ExportFails(e) \/ Clean(e)
-----------------------------------------------------------------------------
(***************************************************************************)
(* Key generation: writeNew for the private key, then for the public key.  *)
(***************************************************************************)
Private(g) == paths[g].private
Public(g) == paths[g].public

(* The file of a step of writeNew cannot be created.                       *)
CannotCreate(g, from, to) ==
    /\ GoesOn(g, from, to)
    /\ UNCHANGED <<files, chunks, paths>>

CreatePrivate(g) ==
    /\ GoesOn(g, "start", "private")
    /\ CreateNew(g, Private(g))
    /\ UNCHANGED <<chunks, paths>>

WritePrivate(g) ==
    /\ GoesOn(g, "private", "between")
    /\ Write(Private(g), "key")
    /\ UNCHANGED <<chunks, paths>>

(* Write, Sync or Close fails: writeNew removes its file.                  *)
WritePrivateFails(g) ==
    /\ GoesOn(g, "private", "failed")
    /\ Remove(Private(g))
    /\ UNCHANGED <<chunks, paths>>

CreatePublic(g) ==
    /\ GoesOn(g, "between", "public")
    /\ CreateNew(g, Public(g))
    /\ UNCHANGED <<chunks, paths>>

WritePublic(g) ==
    /\ GoesOn(g, "public", "done")
    /\ Write(Public(g), "key")
    /\ UNCHANGED <<chunks, paths>>

(* Mutant of WritePublicFails: the private key goes first.                 *)
RemovePrivateFirst(g) ==
    /\ GoesOn(g, "public", "undoing")
    /\ Remove(Private(g))
    /\ UNCHANGED <<chunks, paths>>

WritePublicFails(g) ==
    /\ GoesOn(g, "public", "undoing")
    /\ Remove(Public(g))
    /\ UNCHANGED <<chunks, paths>>

(* Mutant of UndoPrivate: the private key stays.                           *)
KeepPrivate(g) ==
    /\ GoesOn(g, "undoing", "failed")
    /\ UNCHANGED <<files, chunks, paths>>

UndoPrivate(g) ==
    /\ GoesOn(g, "undoing", "failed")
    /\ Remove(Private(g))
    /\ UNCHANGED <<chunks, paths>>

KeyStep(g) ==
    \/ CannotCreate(g, "start", "failed")
    \/ CreatePrivate(g) \/ WritePrivate(g) \/ WritePrivateFails(g)
    \/ CannotCreate(g, "between", "undoing")
    \/ CreatePublic(g) \/ WritePublic(g) \/ WritePublicFails(g)
    \/ UndoPrivate(g)
-----------------------------------------------------------------------------
Crash(p) ==
    /\ ~ Ended(p)
    /\ Goes(p, "crashed")
    /\ UNCHANGED <<files, chunks, paths>>

(* Somebody creates a file under a name the commands were given.           *)
SomebodyCreates(x) ==
    /\ x \in {Output} \cup KeyPath
    /\ CreateNew(Other, x)
    /\ UNCHANGED <<pc, chunks, paths>>

Next ==
    \/ \E e \in Exporter : ExportStep(e)
    \/ \E g \in KeyGen : KeyStep(g)
    \/ \E p \in Process : Crash(p)
    \/ \E x \in Path : SomebodyCreates(x)

Spec == Init /\ [][Next]_vars
-----------------------------------------------------------------------------
(***************************************************************************)
(* Existing files are never overwritten (README, "Keys"), nor removed: a   *)
(* file is changed only by the process that created it, whichever commands *)
(* were given the same paths and wherever they fail.                       *)
(***************************************************************************)
OthersUntouched ==
    [][\A x \in Path : Exists(x) /\ files'[x] # files[x] =>
          /\ files[x].owner # Other
          /\ files'[x] = Absent \/ files'[x].owner = files[x].owner
          /\ \A p \in Process \ {files[x].owner} : pc'[p] = pc[p]]_vars

(***************************************************************************)
(* The output of an export appears whole or not at all: at no moment, and  *)
(* after no crash, is there an output that lacks a chunk of the archive or *)
(* holds one that failed its check.                                        *)
(***************************************************************************)
OutputIsWhole ==
    Exists(Output) /\ files[Output].owner \in Exporter =>
        /\ files[Output].parts = chunks[files[Output].owner]
        /\ \A i \in DOMAIN files[Output].parts : files[Output].parts[i] = "good"

(***************************************************************************)
(* A command that succeeds has made all of its files, and no temporary one *)
(* is left; one that fails leaves none, so that it can be repeated.  The   *)
(* two keys of a pair are of one generation.                               *)
(***************************************************************************)
Owns(p, x) == Exists(x) /\ files[x].owner = p

Results(p) == IF p \in Exporter THEN {Output} ELSE {Private(p), Public(p)}

EndsClean ==
    \A p \in Process :
        /\ pc[p] = "done" => {x \in Path : Owns(p, x)} = Results(p)
        /\ pc[p] = "failed" => {x \in Path : Owns(p, x)} = {}
        /\ pc[p] = "done" /\ p \in KeyGen => \A x \in Results(p) : files[x].parts = <<"key">>

(***************************************************************************)
(* At no moment, and after no kill, is there a public key whose private    *)
(* key is lost or unfinished: archives may be encrypted to a public key    *)
(* that is found.  A generation that is killed leaves at most a private    *)
(* key by itself, which a second attempt does not overwrite                *)
(* (OthersUntouched).                                                      *)
(***************************************************************************)
PublicHasPrivate ==
    \A g \in KeyGen :
        Owns(g, Public(g)) /\ Public(g) # Private(g) =>
            Owns(g, Private(g)) /\ files[Private(g)].parts = <<"key">>

=============================================================================
