----------------------------- MODULE Files_proofs -----------------------------
(***************************************************************************)
(* Proofs about Files, for any number of exports and key generations on    *)
(* any paths: each process owns the files its place in the command says,   *)
(* and touches no others.                                                  *)
(***************************************************************************)
EXTENDS Files, SequenceTheorems, TLAPS

ExportState ==
    {"idle", "start", "loaded", "writing", "closed", "linked", "cleaning", "done", "failed",
     "crashed"}

KeyState ==
    {"idle", "start", "private", "between", "public", "undoing", "done", "failed", "crashed"}

FilesTypeOK ==
    /\ files \in [Path -> File \cup {Absent}]
    /\ pc \in [Process -> ExportState \cup KeyState]
    /\ \A e \in Exporter : pc[e] \in ExportState
    /\ \A g \in KeyGen : pc[g] \in KeyState
    /\ chunks \in [Exporter -> Seq({"good", "bad"})]
    /\ paths \in [KeyGen -> KeyPaths]

Held(p) == {x \in Path : Owns(p, x)}

(* What an export owns in each place.                                      *)
ExportHolds(e) ==
    /\ pc[e] \in {"idle", "start", "loaded", "failed"} => Held(e) = {}
    /\ pc[e] \in {"writing", "closed", "cleaning"} => Held(e) = {Temp[e]}
    /\ pc[e] = "linked" => Held(e) = {Temp[e], Output}
    /\ pc[e] = "done" => Held(e) = {Output}
    /\ pc[e] = "crashed" => Held(e) \subseteq {Temp[e], Output}

(* The temporary file is the checked chunks so far, in the end all.        *)
CopyIsGood(e) ==
    /\ pc[e] \in {"writing", "closed"} =>
          /\ Written(e) <= Len(chunks[e])
          /\ \A i \in 1 .. Written(e) :
                files[Temp[e]].parts[i] = chunks[e][i] /\ chunks[e][i] = "good"
    /\ pc[e] = "closed" => Written(e) = Len(chunks[e])

(* What a key generation owns in each place, and which of it is complete.  *)
KeysHeld(g) ==
    /\ pc[g] \in {"idle", "start", "failed"} => Held(g) = {}
    /\ pc[g] \in {"private", "between", "undoing"} => Held(g) = {Private(g)}
    /\ pc[g] \in {"public", "done"} => Held(g) = {Private(g), Public(g)}
    /\ pc[g] = "public" => Private(g) # Public(g) /\ files[Public(g)].parts = << >>
    /\ pc[g] = "private" => files[Private(g)].parts = << >>
    /\ pc[g] \in {"between", "public", "done"} => files[Private(g)].parts = <<"key">>
    /\ pc[g] = "done" => files[Public(g)].parts = <<"key">>
    /\ pc[g] = "crashed" /\ Public(g) # Private(g) /\ Public(g) \in Held(g) =>
          Private(g) \in Held(g) /\ files[Private(g)].parts = <<"key">>

FilesInv ==
    /\ FilesTypeOK
    /\ \A e \in Exporter : ExportHolds(e) /\ CopyIsGood(e)
    /\ \A g \in KeyGen : KeysHeld(g)
    /\ OutputIsWhole

(* A step of p alone: it touches only files p owns, or creates some of its *)
(* own, and moves no other process.                                        *)
OnlyBy(p) ==
    /\ \A x \in Path : files'[x] # files[x] =>
          /\ Exists(x) => files[x].owner = p
          /\ files'[x] # Absent => files'[x].owner = p
    /\ \A q \in Process \ {p} : pc'[q] = pc[q]
    /\ \A e \in Exporter \ {p} : chunks'[e] = chunks[e]
    /\ paths' = paths

-----------------------------------------------------------------------------
LEMMA InitFilesInv == Init => FilesInv
<1> SUFFICES ASSUME Init PROVE FilesInv
  OBVIOUS
<1>1. FilesTypeOK
  BY DEF Init, FilesTypeOK, ExportState, KeyState, Process
<1>2. \A p \in Process : pc[p] \in {"start", "idle"} /\ Held(p) = {}
  BY DEF Init, Held, Owns, Exists
<1>3. OutputIsWhole
  BY DEF Init, OutputIsWhole, Exists, Path
<1> QED
  BY <1>1, <1>2, <1>3 DEF FilesInv, ExportHolds, CopyIsGood, KeysHeld, Process

(* The paths of the commands.                                              *)
LEMMA PathsOfCommands ==
    ASSUME FilesTypeOK
    PROVE  /\ Output \in Path
           /\ \A e \in Exporter : Temp[e] \in Path
           /\ \A g \in KeyGen : Private(g) \in Path /\ Public(g) \in Path
BY DEF FilesTypeOK, Path, KeyPath, Private, Public

(* A step of p leaves what any other process owns as it was.               *)
LEMMA OthersHold ==
    ASSUME FilesInv, NEW p \in Process \cup {Other}, OnlyBy(p), FilesTypeOK'
    PROVE  /\ \A e \in Exporter \ {p} : ExportHolds(e)' /\ CopyIsGood(e)'
           /\ \A g \in KeyGen \ {p} : KeysHeld(g)'
<1>1. ASSUME NEW q \in Process \ {p}
      PROVE  /\ Held(q)' = Held(q)
             /\ \A x \in Held(q) : files'[x] = files[x]
             /\ pc'[q] = pc[q]
  <2>1. ASSUME NEW x \in Held(q) PROVE files'[x] = files[x]
    BY <2>1 DEF OnlyBy, Held, Owns
  <2>2. ASSUME NEW x \in Path, files'[x] # Absent, files'[x].owner = q
        PROVE  files'[x] = files[x]
    BY <2>2 DEF OnlyBy
  <2>3. Held(q)' = Held(q)
    BY <2>1, <2>2 DEF Held, Owns, Exists
  <2> QED
    BY <2>1, <2>3 DEF OnlyBy
<1>2. ASSUME NEW e \in Exporter \ {p} PROVE ExportHolds(e)' /\ CopyIsGood(e)'
  <2>1. e \in Process \ {p} /\ ExportHolds(e) /\ CopyIsGood(e) /\ chunks'[e] = chunks[e]
    BY DEF FilesInv, Process, OnlyBy
  <2>2. ExportHolds(e)'
    BY <1>1, <2>1 DEF ExportHolds
  <2>3. pc[e] \in {"writing", "closed"} => files'[Temp[e]] = files[Temp[e]]
    BY <1>1, <2>1 DEF ExportHolds
  <2>4. pc'[e] = pc[e]
    BY <1>1, <2>1
  <2>5. CopyIsGood(e)'
    <3>1. CASE pc[e] \in {"writing", "closed"}
      BY <2>1, <2>3, <2>4, <3>1 DEF CopyIsGood, Written
    <3>2. CASE pc[e] \notin {"writing", "closed"}
      BY <2>4, <3>2 DEF CopyIsGood
    <3> QED
      BY <3>1, <3>2
  <2> QED
    BY <2>2, <2>5
<1>3. ASSUME NEW g \in KeyGen \ {p} PROVE KeysHeld(g)'
  <2>1. g \in Process \ {p} /\ KeysHeld(g) /\ paths' = paths
    BY DEF FilesInv, Process, OnlyBy
  <2>2. /\ Private(g) \in Held(g) => files'[Private(g)] = files[Private(g)]
        /\ Public(g) \in Held(g) => files'[Public(g)] = files[Public(g)]
        /\ Held(g)' = Held(g) /\ pc'[g] = pc[g]
        /\ Private(g)' = Private(g) /\ Public(g)' = Public(g)
    BY <1>1, <2>1 DEF Private, Public
  <2> HIDE DEF Private, Public, Held
  <2> QED
    BY <2>1, <2>2 DEF KeysHeld
<1> QED
  BY <1>2, <1>3

-----------------------------------------------------------------------------
(* The system calls: a new file, a write to a file, and a removal.         *)
LEMMA Created ==
    ASSUME FilesTypeOK, NEW p \in Process \cup {Other}, NEW x \in Path, CreateNew(p, x)
    PROVE  /\ files' \in [Path -> File \cup {Absent}]
           /\ \A y \in Path \ {x} : files'[y] = files[y]
           /\ files[x] = Absent
           /\ files'[x] # Absent /\ files'[x].owner = p /\ files'[x].parts = << >>
           /\ x \notin Held(p) /\ Held(p)' = Held(p) \cup {x}
<1>1. [owner |-> p, parts |-> << >>] \in File
  BY DEF File
<1>2. files' \in [Path -> File \cup {Absent}] /\ files'[x] = [owner |-> p, parts |-> << >>]
      /\ \A y \in Path \ {x} : files'[y] = files[y]
  BY <1>1 DEF CreateNew, FilesTypeOK
<1>3. files[x] = Absent /\ files'[x] # Absent
  BY <1>1, <1>2, AbsentAssumption DEF CreateNew, Exists
<1> QED
  BY <1>2, <1>3 DEF Held, Owns, Exists

LEMMA Wrote ==
    ASSUME FilesTypeOK, NEW p \in Process, NEW x \in Held(p),
           NEW part \in {"good", "bad", "key"}, Write(x, part)
    PROVE  /\ files' \in [Path -> File \cup {Absent}]
           /\ \A y \in Path \ {x} : files'[y] = files[y]
           /\ files'[x] # Absent /\ files'[x].owner = p
           /\ files[x].parts \in Seq({"good", "bad", "key"})
           /\ files'[x].parts = Append(files[x].parts, part)
           /\ Held(p)' = Held(p)
<1>1. x \in Path /\ files[x] \in File /\ files[x].owner = p
  BY DEF Held, Owns, Exists, FilesTypeOK
<1>2. files[x].parts \in Seq({"good", "bad", "key"})
  BY <1>1 DEF File
<1> DEFINE new == [files[x] EXCEPT !.parts = Append(@, part)]
<1>3. new \in File /\ new.owner = p /\ new.parts = Append(files[x].parts, part)
  BY <1>1, <1>2 DEF File
<1>4. files' = [files EXCEPT ![x] = new]
  BY DEF Write
<1> HIDE DEF new
<1>5. files' \in [Path -> File \cup {Absent}] /\ files'[x] = new
      /\ \A y \in Path \ {x} : files'[y] = files[y]
  BY <1>1, <1>3, <1>4 DEF FilesTypeOK
<1>6. files'[x] # Absent
  BY <1>3, <1>5, AbsentAssumption
<1> QED
  BY <1>1, <1>2, <1>3, <1>5, <1>6 DEF Held, Owns, Exists

LEMMA Removed ==
    ASSUME FilesTypeOK, NEW p \in Process, NEW x \in Held(p), Remove(x)
    PROVE  /\ files' \in [Path -> File \cup {Absent}]
           /\ \A y \in Path \ {x} : files'[y] = files[y]
           /\ files'[x] = Absent /\ files[x].owner = p
           /\ Held(p)' = Held(p) \ {x}
BY DEF FilesTypeOK, Held, Owns, Exists, Remove

LEMMA WentOn ==
    ASSUME FilesTypeOK, NEW p \in Process, NEW to \in ExportState \cup KeyState,
           p \in Exporter => to \in ExportState, p \in KeyGen => to \in KeyState, Goes(p, to)
    PROVE  /\ pc' \in [Process -> ExportState \cup KeyState]
           /\ pc'[p] = to
           /\ \A q \in Process \ {p} : pc'[q] = pc[q]
           /\ \A e \in Exporter : pc'[e] \in ExportState
           /\ \A g \in KeyGen : pc'[g] \in KeyState
<1>1. /\ pc' \in [Process -> ExportState \cup KeyState] /\ pc'[p] = to
      /\ \A q \in Process \ {p} : pc'[q] = pc[q]
  BY DEF FilesTypeOK, Goes
<1> QED
  BY <1>1 DEF FilesTypeOK, Process

(* The output stays whole when its file and what its export read stay.     *)
LEMMA OutputStays ==
    ASSUME FilesInv, files'[Output] = files[Output],
           Exists(Output) /\ files[Output].owner \in Exporter =>
               chunks'[files[Output].owner] = chunks[files[Output].owner]
    PROVE  OutputIsWhole'
BY DEF FilesInv, OutputIsWhole, Exists

(* What is to be shown of a step of an export, and of a key generation.    *)
ExportStepKeeps(e) ==
    OnlyBy(e) /\ FilesTypeOK' /\ ExportHolds(e)' /\ CopyIsGood(e)' /\ OutputIsWhole'

KeyStepKeeps(g) ==
    OnlyBy(g) /\ FilesTypeOK' /\ KeysHeld(g)' /\ OutputIsWhole'
-----------------------------------------------------------------------------
LEMMA LoadChunksKeeps ==
    ASSUME FilesInv, NEW e \in Exporter, NEW a \in Archive, LoadChunks(e, a)
    PROVE  ExportStepKeeps(e)
<1> DEFINE to == IF a = << >> THEN "failed" ELSE "loaded"
<1>1. pc[e] = "start" /\ Goes(e, to) /\ files' = files /\ paths' = paths
      /\ chunks' = [chunks EXCEPT ![e] = a]
  BY DEF LoadChunks, GoesOn
<1>2. /\ FilesTypeOK /\ ExportHolds(e) /\ e \in Process /\ e \notin KeyGen
      /\ to \in {"failed", "loaded"}
  BY OwnerAssumption DEF FilesInv, Process
<1> HIDE DEF to
<1>3. /\ pc' \in [Process -> ExportState \cup KeyState] /\ pc'[e] = to
      /\ \A q \in Process \ {e} : pc'[q] = pc[q]
      /\ \A f \in Exporter : pc'[f] \in ExportState
      /\ \A g \in KeyGen : pc'[g] \in KeyState
  BY <1>1, <1>2, WentOn DEF ExportState
<1>4. FilesTypeOK' /\ OnlyBy(e)
  BY <1>1, <1>2, <1>3, ArchiveAssumption DEF FilesTypeOK, OnlyBy
<1>5. Held(e) = {} /\ Held(e)' = {}
  BY <1>1, <1>2 DEF ExportHolds, Held, Owns, Exists
<1>6. ExportHolds(e)' /\ CopyIsGood(e)'
  BY <1>2, <1>3, <1>5 DEF ExportHolds, CopyIsGood
<1>7. OutputIsWhole'
  <2>1. Output \in Path
    BY <1>2, PathsOfCommands
  <2>2. ASSUME Exists(Output), files[Output].owner \in Exporter
        PROVE  chunks'[files[Output].owner] = chunks[files[Output].owner]
    BY <1>1, <1>2, <1>5, <2>1, <2>2 DEF FilesTypeOK, Held, Owns
  <2> QED
    BY <1>1, <2>2, OutputStays
<1> QED
  BY <1>4, <1>6, <1>7 DEF ExportStepKeeps

LEMMA CreateTempKeeps ==
    ASSUME FilesInv, NEW e \in Exporter, CreateTemp(e)
    PROVE  ExportStepKeeps(e)
<1>1. /\ FilesTypeOK /\ ExportHolds(e) /\ e \in Process /\ e \notin KeyGen
      /\ pc[e] = "loaded" /\ Goes(e, "writing") /\ CreateNew(e, Temp[e])
      /\ UNCHANGED <<chunks, paths>> /\ Temp[e] \in Path
      /\ Output \in Path \ {Temp[e]}
  BY OwnerAssumption, TempAssumption, PathsOfCommands DEF FilesInv, Process, CreateTemp, GoesOn
<1>2. /\ pc' \in [Process -> ExportState \cup KeyState] /\ pc'[e] = "writing"
      /\ \A q \in Process \ {e} : pc'[q] = pc[q]
      /\ \A f \in Exporter : pc'[f] \in ExportState
      /\ \A g \in KeyGen : pc'[g] \in KeyState
  BY <1>1, WentOn DEF ExportState
<1>3. /\ files' \in [Path -> File \cup {Absent}]
      /\ \A y \in Path \ {Temp[e]} : files'[y] = files[y]
      /\ files[Temp[e]] = Absent
      /\ files'[Temp[e]] # Absent /\ files'[Temp[e]].owner = e
      /\ files'[Temp[e]].parts = << >>
      /\ Held(e)' = Held(e) \cup {Temp[e]}
  BY <1>1, Created
<1>4. FilesTypeOK' /\ OnlyBy(e)
  BY <1>1, <1>2, <1>3 DEF FilesTypeOK, OnlyBy, Exists
<1>5. ExportHolds(e)'
  BY <1>1, <1>2, <1>3 DEF ExportHolds
<1>6. CopyIsGood(e)'
  <2>1. Len(files'[Temp[e]].parts) = 0 /\ Len(chunks'[e]) \in Nat
    BY <1>3, <1>4, EmptySeq, LenProperties DEF FilesTypeOK
  <2> QED
    BY <1>2, <2>1 DEF CopyIsGood, Written
<1>7. OutputIsWhole'
  BY <1>1, <1>3, OutputStays
<1> QED
  BY <1>4, <1>5, <1>6, <1>7 DEF ExportStepKeeps

LEMMA WriteChunkKeeps ==
    ASSUME FilesInv, NEW e \in Exporter, WriteChunk(e)
    PROVE  ExportStepKeeps(e)
<1>1. /\ FilesTypeOK /\ ExportHolds(e) /\ CopyIsGood(e) /\ e \in Process
      /\ pc[e] = "writing" /\ Written(e) < Len(chunks[e])
      /\ NextChunk(e) = "good" /\ Write(Temp[e], NextChunk(e))
      /\ UNCHANGED <<pc, chunks, paths>> /\ Temp[e] \in Path
      /\ Output \in Path \ {Temp[e]}
  BY TempAssumption, PathsOfCommands DEF FilesInv, Process, WriteChunk, Intact
<1>2. Held(e) = {Temp[e]}
  BY <1>1 DEF ExportHolds
<1>3. /\ files' \in [Path -> File \cup {Absent}]
      /\ \A y \in Path \ {Temp[e]} : files'[y] = files[y]
      /\ files'[Temp[e]] # Absent /\ files'[Temp[e]].owner = e
      /\ files[Temp[e]].parts \in Seq({"good", "bad", "key"})
      /\ files'[Temp[e]].parts = Append(files[Temp[e]].parts, "good")
      /\ Held(e)' = Held(e)
  BY <1>1, <1>2, Wrote
<1>4. files[Temp[e]].owner = e
  BY <1>2 DEF Held, Owns
<1>5. FilesTypeOK' /\ OnlyBy(e)
  BY <1>1, <1>3, <1>4 DEF FilesTypeOK, OnlyBy
<1>6. ExportHolds(e)'
  BY <1>1, <1>2, <1>3 DEF ExportHolds
<1>7. CopyIsGood(e)'
  <2>1. Written(e) \in Nat /\ Len(chunks[e]) \in Nat /\ Written(e)' = Written(e) + 1
    BY <1>1, <1>3, AppendProperties, LenProperties DEF FilesTypeOK, Written
  <2>2. ASSUME NEW i \in 1 .. Written(e)'
        PROVE  files'[Temp[e]].parts[i] = chunks[e][i] /\ chunks[e][i] = "good"
    <3>1. CASE i <= Written(e)
      <4>1. files'[Temp[e]].parts[i] = files[Temp[e]].parts[i]
        BY <1>3, <2>1, <3>1, AppendProperties DEF Written
      <4> QED
        BY <1>1, <2>1, <3>1, <4>1 DEF CopyIsGood
    <3>2. CASE i = Written(e) + 1
      BY <1>1, <1>3, <2>1, <3>2, AppendProperties DEF Written, NextChunk
    <3> QED
      BY <2>1, <3>1, <3>2
  <2> QED
    BY <1>1, <2>1, <2>2 DEF CopyIsGood
<1>8. OutputIsWhole'
  BY <1>1, <1>3, OutputStays
<1> QED
  BY <1>5, <1>6, <1>7, <1>8 DEF ExportStepKeeps

(* A step of an export that changes no file.                               *)
LEMMA NoFileChangedKeeps ==
    ASSUME FilesInv, NEW e \in Exporter, NEW to \in ExportState, Goes(e, to),
           \/ pc[e] \in {"start", "loaded"} /\ to = "failed"
           \/ pc[e] \in {"writing", "closed"} /\ to = "cleaning"
           \/ pc[e] = "writing" /\ to = "closed" /\ Written(e) = Len(chunks[e])
           \/ pc[e] \in ExportState \ {"idle", "done", "failed", "crashed"} /\ to = "crashed",
           UNCHANGED <<files, chunks, paths>>
    PROVE  ExportStepKeeps(e)
<1>1. FilesTypeOK /\ ExportHolds(e) /\ CopyIsGood(e) /\ e \in Process /\ e \notin KeyGen
  BY OwnerAssumption DEF FilesInv, Process
<1>2. /\ pc' \in [Process -> ExportState \cup KeyState] /\ pc'[e] = to
      /\ \A q \in Process \ {e} : pc'[q] = pc[q]
      /\ \A f \in Exporter : pc'[f] \in ExportState
      /\ \A g \in KeyGen : pc'[g] \in KeyState
  BY <1>1, WentOn
<1>3. FilesTypeOK' /\ OnlyBy(e)
  BY <1>1, <1>2 DEF FilesTypeOK, OnlyBy
<1>4. Held(e)' = Held(e) /\ Written(e)' = Written(e)
  BY DEF Held, Owns, Exists, Written
<1>5. ExportHolds(e)'
  BY <1>1, <1>2, <1>4 DEF ExportHolds, ExportState
<1>6. CopyIsGood(e)'
  BY <1>1, <1>2, <1>4 DEF CopyIsGood
<1>7. OutputIsWhole'
  BY OutputStays
<1> QED
  BY <1>3, <1>5, <1>6, <1>7 DEF ExportStepKeeps

(* The output appears with all that the export read.                       *)
LEMMA LinkOutputKeeps ==
    ASSUME FilesInv, NEW e \in Exporter, LinkOutput(e)
    PROVE  ExportStepKeeps(e)
<1>1. /\ FilesTypeOK /\ ExportHolds(e) /\ CopyIsGood(e) /\ e \in Process /\ e \notin KeyGen
      /\ pc[e] = "closed" /\ Goes(e, "linked") /\ files[Output] = Absent
      /\ files' = [files EXCEPT ![Output] = files[Temp[e]]]
      /\ UNCHANGED <<chunks, paths>> /\ Temp[e] \in Path /\ Output \in Path
      /\ Temp[e] # Output
  BY OwnerAssumption, TempAssumption, PathsOfCommands
     DEF FilesInv, Process, LinkOutput, GoesOn, Exists
<1>2. /\ pc' \in [Process -> ExportState \cup KeyState] /\ pc'[e] = "linked"
      /\ \A q \in Process \ {e} : pc'[q] = pc[q]
      /\ \A f \in Exporter : pc'[f] \in ExportState
      /\ \A g \in KeyGen : pc'[g] \in KeyState
  BY <1>1, WentOn DEF ExportState
<1>3. Held(e) = {Temp[e]} /\ files[Temp[e]] # Absent /\ files[Temp[e]].owner = e
  <2>1. Held(e) = {Temp[e]}
    BY <1>1 DEF ExportHolds
  <2> QED
    BY <2>1 DEF Held, Owns, Exists
<1>4. /\ files' \in [Path -> File \cup {Absent}] /\ files'[Output] = files[Temp[e]]
      /\ \A y \in Path \ {Output} : files'[y] = files[y]
  BY <1>1 DEF FilesTypeOK
<1>5. FilesTypeOK' /\ OnlyBy(e)
  BY <1>1, <1>2, <1>3, <1>4 DEF FilesTypeOK, OnlyBy, Exists
<1>6. Held(e)' = {Temp[e], Output}
  BY <1>1, <1>3, <1>4 DEF Held, Owns, Exists
<1>7. ExportHolds(e)' /\ CopyIsGood(e)'
  BY <1>2, <1>6 DEF ExportHolds, CopyIsGood
<1>8. files'[Output].parts = chunks[e] /\ \A i \in DOMAIN chunks[e] : chunks[e][i] = "good"
  <2> DEFINE copy == files[Temp[e]].parts
  <2>1. copy \in Seq({"good", "bad", "key"}) /\ chunks[e] \in Seq({"good", "bad"})
    BY <1>1, <1>3 DEF FilesTypeOK, File
  <2>2. Len(copy) = Len(chunks[e]) /\ \A i \in 1 .. Len(copy) :
            copy[i] = chunks[e][i] /\ chunks[e][i] = "good"
    BY <1>1 DEF CopyIsGood, Written
  <2> HIDE DEF copy
  <2>3. DOMAIN copy = 1 .. Len(copy) /\ DOMAIN chunks[e] = 1 .. Len(chunks[e])
    BY <2>1, LenProperties
  <2>4. copy = chunks[e]
    BY <2>1, <2>2, <2>3, SeqEqual
  <2> QED
    BY <1>4, <2>2, <2>3, <2>4 DEF copy
<1>9. OutputIsWhole'
  BY <1>1, <1>3, <1>4, <1>8 DEF OutputIsWhole
<1> QED
  BY <1>5, <1>7, <1>9 DEF ExportStepKeeps

(* RemoveTemp and Clean.                                                   *)
LEMMA TempRemovedKeeps ==
    ASSUME FilesInv, NEW e \in Exporter, NEW to \in {"done", "failed"}, Goes(e, to),
           pc[e] = IF to = "done" THEN "linked" ELSE "cleaning",
           Remove(Temp[e]), UNCHANGED <<chunks, paths>>
    PROVE  ExportStepKeeps(e)
<1>1. /\ FilesTypeOK /\ ExportHolds(e) /\ e \in Process /\ e \notin KeyGen
      /\ Output \in Path \ {Temp[e]}
  BY OwnerAssumption, TempAssumption, PathsOfCommands DEF FilesInv, Process
<1>2. /\ pc' \in [Process -> ExportState \cup KeyState] /\ pc'[e] = to
      /\ \A q \in Process \ {e} : pc'[q] = pc[q]
      /\ \A f \in Exporter : pc'[f] \in ExportState
      /\ \A g \in KeyGen : pc'[g] \in KeyState
  BY <1>1, WentOn DEF ExportState
<1>3. Held(e) = IF to = "done" THEN {Temp[e], Output} ELSE {Temp[e]}
  BY <1>1 DEF ExportHolds
<1>4. /\ files' \in [Path -> File \cup {Absent}]
      /\ \A y \in Path \ {Temp[e]} : files'[y] = files[y]
      /\ files'[Temp[e]] = Absent /\ files[Temp[e]].owner = e
      /\ Held(e)' = Held(e) \ {Temp[e]}
  BY <1>1, <1>3, Removed
<1>5. FilesTypeOK' /\ OnlyBy(e)
  BY <1>1, <1>2, <1>4 DEF FilesTypeOK, OnlyBy
<1>6. ExportHolds(e)' /\ CopyIsGood(e)'
  BY <1>1, <1>2, <1>3, <1>4 DEF ExportHolds, CopyIsGood
<1>7. OutputIsWhole'
  BY <1>1, <1>4, OutputStays
<1> QED
  BY <1>5, <1>6, <1>7 DEF ExportStepKeeps

LEMMA ExportStepKept ==
    ASSUME FilesInv, NEW e \in Exporter, ExportStep(e)
    PROVE  ExportStepKeeps(e)
<1>1. CASE \E a \in Archive : LoadChunks(e, a)
  BY <1>1, LoadChunksKeeps
<1>2. CASE CreateTemp(e)
  BY <1>2, CreateTempKeeps
<1>3. CASE WriteChunk(e)
  BY <1>3, WriteChunkKeeps
<1>4. CASE RejectChunk(e) \/ OutputExists(e)
  BY <1>4, NoFileChangedKeeps DEF RejectChunk, OutputExists, GoesOn, ExportState
<1>5. CASE CloseTemp(e)
  BY <1>5, NoFileChangedKeeps DEF CloseTemp, GoesOn, ExportState
<1>6. CASE ExportFails(e)
  BY <1>6, NoFileChangedKeeps DEF ExportFails, ExportState
<1>7. CASE LinkOutput(e)
  BY <1>7, LinkOutputKeeps
<1>8. CASE RemoveTemp(e)
  BY <1>8, TempRemovedKeeps DEF RemoveTemp, GoesOn
<1>9. CASE Clean(e)
  BY <1>9, TempRemovedKeeps DEF Clean, GoesOn
<1> QED
  BY <1>1, <1>2, <1>3, <1>4, <1>5, <1>6, <1>7, <1>8, <1>9 DEF ExportStep

-----------------------------------------------------------------------------
(* The output is of an export, so that no step of a key generation on its  *)
(* own files changes it.                                                   *)
LEMMA KeyStepOutput ==
    ASSUME FilesInv, NEW g \in KeyGen, OnlyBy(g)
    PROVE  OutputIsWhole'
<1>1. g \notin Exporter /\ Output \in Path
  BY OwnerAssumption, PathsOfCommands DEF FilesInv
<1>2. \A e \in Exporter : chunks'[e] = chunks[e]
  BY <1>1 DEF OnlyBy
<1>3. CASE files'[Output] = files[Output]
  BY <1>2, <1>3, OutputStays
<1>4. CASE files'[Output] # files[Output]
  BY <1>1, <1>4 DEF OnlyBy, OutputIsWhole, Exists
<1> QED
  BY <1>3, <1>4

(* The steps that create a file.                                           *)
LEMMA KeyCreatedKeeps ==
    ASSUME FilesInv, NEW g \in KeyGen, CreatePrivate(g) \/ CreatePublic(g)
    PROVE  KeyStepKeeps(g)
<1> DEFINE x == IF pc[g] = "start" THEN Private(g) ELSE Public(g)
           to == IF pc[g] = "start" THEN "private" ELSE "public"
<1>1. /\ FilesTypeOK /\ KeysHeld(g) /\ g \in Process /\ g \notin Exporter
      /\ Private(g) \in Path /\ Public(g) \in Path
  BY OwnerAssumption, PathsOfCommands DEF FilesInv, Process
<1>2. /\ pc[g] \in {"start", "between"} /\ Goes(g, to) /\ CreateNew(g, x)
      /\ UNCHANGED <<chunks, paths>>
  BY DEF CreatePrivate, CreatePublic, GoesOn
<1>3. /\ pc' \in [Process -> ExportState \cup KeyState] /\ pc'[g] = to
      /\ \A q \in Process \ {g} : pc'[q] = pc[q]
      /\ \A f \in Exporter : pc'[f] \in ExportState
      /\ \A h \in KeyGen : pc'[h] \in KeyState
  BY <1>1, <1>2, WentOn DEF KeyState
<1>4. /\ files' \in [Path -> File \cup {Absent}]
      /\ \A y \in Path \ {x} : files'[y] = files[y]
      /\ files[x] = Absent
      /\ files'[x] # Absent /\ files'[x].owner = g /\ files'[x].parts = << >>
      /\ x \notin Held(g) /\ Held(g)' = Held(g) \cup {x}
  BY <1>1, <1>2, Created
<1>5. FilesTypeOK' /\ OnlyBy(g)
  BY <1>1, <1>2, <1>3, <1>4 DEF FilesTypeOK, OnlyBy, Exists
<1>6. Private(g)' = Private(g) /\ Public(g)' = Public(g)
  BY <1>2 DEF Private, Public
<1>7. KeysHeld(g)'
  BY <1>1, <1>2, <1>3, <1>4, <1>6 DEF KeysHeld
<1> QED
  BY <1>5, <1>7, KeyStepOutput DEF KeyStepKeeps

(* The steps that write a key.                                             *)
LEMMA KeyWrittenKeeps ==
    ASSUME FilesInv, NEW g \in KeyGen, WritePrivate(g) \/ WritePublic(g)
    PROVE  KeyStepKeeps(g)
<1> DEFINE x == IF pc[g] = "private" THEN Private(g) ELSE Public(g)
           to == IF pc[g] = "private" THEN "between" ELSE "done"
<1>1. /\ FilesTypeOK /\ KeysHeld(g) /\ g \in Process /\ g \notin Exporter
      /\ Private(g) \in Path /\ Public(g) \in Path
  BY OwnerAssumption, PathsOfCommands DEF FilesInv, Process
<1>2. /\ pc[g] \in {"private", "public"} /\ Goes(g, to) /\ Write(x, "key")
      /\ UNCHANGED <<chunks, paths>>
  BY DEF WritePrivate, WritePublic, GoesOn
<1>3. /\ pc' \in [Process -> ExportState \cup KeyState] /\ pc'[g] = to
      /\ \A q \in Process \ {g} : pc'[q] = pc[q]
      /\ \A f \in Exporter : pc'[f] \in ExportState
      /\ \A h \in KeyGen : pc'[h] \in KeyState
  BY <1>1, <1>2, WentOn DEF KeyState
<1>4. x \in Held(g) /\ files[x].parts = << >>
  BY <1>1, <1>2 DEF KeysHeld
<1>5. /\ files' \in [Path -> File \cup {Absent}]
      /\ \A y \in Path \ {x} : files'[y] = files[y]
      /\ files'[x] # Absent /\ files'[x].owner = g /\ files[x].owner = g
      /\ files'[x].parts = Append(<< >>, "key") /\ Held(g)' = Held(g)
  BY <1>1, <1>2, <1>4, Wrote DEF Held, Owns
<1>6. files'[x].parts = <<"key">>
  BY <1>5
<1>7. FilesTypeOK' /\ OnlyBy(g)
  BY <1>1, <1>2, <1>3, <1>5 DEF FilesTypeOK, OnlyBy
<1>8. Private(g)' = Private(g) /\ Public(g)' = Public(g)
  BY <1>2 DEF Private, Public
<1>9. KeysHeld(g)'
  BY <1>1, <1>2, <1>3, <1>5, <1>6, <1>8 DEF KeysHeld
<1> QED
  BY <1>7, <1>9, KeyStepOutput DEF KeyStepKeeps

(* The steps that remove a file after a failure.                           *)
LEMMA KeyRemovedKeeps ==
    ASSUME FilesInv, NEW g \in KeyGen,
           WritePrivateFails(g) \/ WritePublicFails(g) \/ UndoPrivate(g)
    PROVE  KeyStepKeeps(g)
<1> DEFINE x == IF pc[g] = "public" THEN Public(g) ELSE Private(g)
           to == IF pc[g] = "public" THEN "undoing" ELSE "failed"
<1>1. /\ FilesTypeOK /\ KeysHeld(g) /\ g \in Process /\ g \notin Exporter
      /\ Private(g) \in Path /\ Public(g) \in Path
  BY OwnerAssumption, PathsOfCommands DEF FilesInv, Process
<1>2. /\ pc[g] \in {"private", "public", "undoing"} /\ Goes(g, to) /\ Remove(x)
      /\ UNCHANGED <<chunks, paths>>
  BY DEF WritePrivateFails, WritePublicFails, UndoPrivate, GoesOn
<1>3. /\ pc' \in [Process -> ExportState \cup KeyState] /\ pc'[g] = to
      /\ \A q \in Process \ {g} : pc'[q] = pc[q]
      /\ \A f \in Exporter : pc'[f] \in ExportState
      /\ \A h \in KeyGen : pc'[h] \in KeyState
  BY <1>1, <1>2, WentOn DEF KeyState
<1>4. x \in Held(g)
  BY <1>1, <1>2 DEF KeysHeld
<1>5. /\ files' \in [Path -> File \cup {Absent}]
      /\ \A y \in Path \ {x} : files'[y] = files[y]
      /\ files'[x] = Absent /\ files[x].owner = g /\ Held(g)' = Held(g) \ {x}
  BY <1>1, <1>2, <1>4, Removed
<1>6. FilesTypeOK' /\ OnlyBy(g)
  BY <1>1, <1>2, <1>3, <1>5 DEF FilesTypeOK, OnlyBy
<1>7. Private(g)' = Private(g) /\ Public(g)' = Public(g)
  BY <1>2 DEF Private, Public
<1>8. KeysHeld(g)'
  BY <1>1, <1>2, <1>3, <1>5, <1>7 DEF KeysHeld
<1> QED
  BY <1>6, <1>8, KeyStepOutput DEF KeyStepKeeps

LEMMA CannotCreateKeeps ==
    ASSUME FilesInv, NEW g \in KeyGen,
           \/ CannotCreate(g, "start", "failed") \/ CannotCreate(g, "between", "undoing")
           \/ ~ Ended(g) /\ Goes(g, "crashed") /\ UNCHANGED <<files, chunks, paths>>
    PROVE  KeyStepKeeps(g)
<1>1. /\ FilesTypeOK /\ KeysHeld(g) /\ g \in Process /\ g \notin Exporter
  BY OwnerAssumption DEF FilesInv, Process
<1>2. PICK to \in {"failed", "undoing", "crashed"} :
         /\ Goes(g, to) /\ UNCHANGED <<files, chunks, paths>>
         /\ to = "failed" => pc[g] = "start"
         /\ to = "undoing" => pc[g] = "between"
         /\ to = "crashed" => ~ Ended(g)
  BY DEF CannotCreate, GoesOn
<1>3. /\ pc' \in [Process -> ExportState \cup KeyState] /\ pc'[g] = to
      /\ \A q \in Process \ {g} : pc'[q] = pc[q]
      /\ \A f \in Exporter : pc'[f] \in ExportState
      /\ \A h \in KeyGen : pc'[h] \in KeyState
  BY <1>1, <1>2, WentOn DEF KeyState
<1>4. FilesTypeOK' /\ OnlyBy(g)
  BY <1>1, <1>2, <1>3 DEF FilesTypeOK, OnlyBy
<1>5. Private(g)' = Private(g) /\ Public(g)' = Public(g) /\ Held(g)' = Held(g)
  BY <1>2 DEF Private, Public, Held, Owns, Exists
<1>6. KeysHeld(g)'
  <2>1. CASE to = "crashed"
    <3>1. pc[g] \in {"start", "private", "between", "public", "undoing"}
      BY <1>1, <1>2, <2>1 DEF FilesTypeOK, KeyState, Ended
    <3>2. Public(g) # Private(g) /\ Public(g) \in Held(g) => pc[g] = "public"
      BY <1>1, <3>1 DEF KeysHeld
    <3>3. pc[g] = "public" => Private(g) \in Held(g) /\ files[Private(g)].parts = <<"key">>
      BY <1>1 DEF KeysHeld
    <3>4. pc'[g] = "crashed"
      BY <1>3, <2>1
    <3> HIDE DEF Private, Public, Held
    <3> QED
      BY <1>2, <1>5, <3>2, <3>3, <3>4 DEF KeysHeld
  <2>2. CASE to = "failed"
    BY <1>1, <1>2, <1>3, <1>5, <2>2 DEF KeysHeld
  <2>3. CASE to = "undoing"
    BY <1>1, <1>2, <1>3, <1>5, <2>3 DEF KeysHeld
  <2> QED
    BY <1>2, <2>1, <2>2, <2>3
<1> QED
  BY <1>4, <1>6, KeyStepOutput DEF KeyStepKeeps

LEMMA KeyStepKept ==
    ASSUME FilesInv, NEW g \in KeyGen, KeyStep(g)
    PROVE  KeyStepKeeps(g)
BY KeyCreatedKeeps, KeyWrittenKeeps, KeyRemovedKeeps, CannotCreateKeeps DEF KeyStep

LEMMA CrashKept ==
    ASSUME FilesInv, NEW p \in Process, Crash(p)
    PROVE  /\ p \in Exporter => ExportStepKeeps(p)
           /\ p \in KeyGen => KeyStepKeeps(p)
<1>1. ~ Ended(p) /\ Goes(p, "crashed") /\ UNCHANGED <<files, chunks, paths>>
  BY DEF Crash
<1>2. ASSUME p \in Exporter PROVE ExportStepKeeps(p)
  <2>1. pc[p] \in ExportState \ {"idle", "done", "failed", "crashed"}
    BY <1>1, <1>2 DEF FilesInv, FilesTypeOK, Ended
  <2>2. "crashed" \in ExportState
    BY DEF ExportState
  <2> QED
    BY <1>1, <1>2, <2>1, <2>2, NoFileChangedKeeps
<1>3. ASSUME p \in KeyGen PROVE KeyStepKeeps(p)
  BY <1>1, <1>3, CannotCreateKeeps
<1> QED
  BY <1>2, <1>3

(* A file of somebody else appears where there was none.                   *)
LEMMA SomebodyKept ==
    ASSUME FilesInv, NEW x \in Path, SomebodyCreates(x)
    PROVE  OnlyBy(Other) /\ FilesTypeOK' /\ OutputIsWhole'
<1>1. /\ files' \in [Path -> File \cup {Absent}]
      /\ \A y \in Path \ {x} : files'[y] = files[y]
      /\ files[x] = Absent
      /\ files'[x] # Absent /\ files'[x].owner = Other
  BY Created DEF FilesInv, SomebodyCreates
<1>2. UNCHANGED <<pc, chunks, paths>> /\ Other \notin Exporter /\ Output \in Path
  BY OwnerAssumption, PathsOfCommands DEF SomebodyCreates, FilesInv
<1>3. FilesTypeOK' /\ OnlyBy(Other)
  BY <1>1, <1>2 DEF FilesInv, FilesTypeOK, OnlyBy, Exists
<1>4. OutputIsWhole'
  <2>1. CASE x = Output
    BY <1>1, <1>2, <2>1 DEF OutputIsWhole
  <2>2. CASE x # Output
    BY <1>1, <1>2, <2>2, OutputStays
  <2> QED
    BY <2>1, <2>2
<1> QED
  BY <1>3, <1>4

-----------------------------------------------------------------------------
LEMMA NextFilesInv ==
    ASSUME FilesInv, [Next]_vars
    PROVE  FilesInv'
<1>1. ASSUME NEW e \in Exporter, ExportStepKeeps(e) PROVE FilesInv'
  BY <1>1, OthersHold, OwnerAssumption DEF ExportStepKeeps, FilesInv, Process
<1>2. ASSUME NEW g \in KeyGen, KeyStepKeeps(g) PROVE FilesInv'
  BY <1>2, OthersHold, OwnerAssumption DEF KeyStepKeeps, FilesInv, Process
<1>3. ASSUME NEW x \in Path, SomebodyCreates(x) PROVE FilesInv'
  <2>1. OnlyBy(Other) /\ FilesTypeOK' /\ OutputIsWhole' /\ Other \notin Process
    BY <1>3, SomebodyKept, OwnerAssumption DEF Process
  <2> QED
    BY <2>1, OthersHold DEF FilesInv, Process
<1>4. CASE UNCHANGED vars
  BY <1>4 DEF vars, FilesInv, FilesTypeOK, ExportHolds, CopyIsGood, KeysHeld, OutputIsWhole,
     Held, Owns, Exists, Written, Private, Public
<1> QED
  BY <1>1, <1>2, <1>3, <1>4, ExportStepKept, KeyStepKept, CrashKept DEF Next, Process

LEMMA FilesInvariant == Spec => []FilesInv
<1>1. Init => FilesInv
  BY InitFilesInv
<1>2. FilesInv /\ [Next]_vars => FilesInv'
  BY NextFilesInv
<1> QED
  BY <1>1, <1>2, PTL DEF Spec

(* Export: no output lacks a chunk of the archive or holds one that failed *)
(* its check, at any moment and after any crash.                           *)
THEOREM OutputWhole == Spec => []OutputIsWhole
<1>1. FilesInv => OutputIsWhole
  BY DEF FilesInv
<1> QED
  BY <1>1, FilesInvariant, PTL

(* A command that succeeds leaves all of its files and nothing else, one   *)
(* that fails leaves none.                                                 *)
THEOREM CommandsEndClean == Spec => []EndsClean
<1>1. FilesInv => EndsClean
  <2> SUFFICES ASSUME FilesInv, NEW p \in Process
               PROVE  /\ pc[p] = "done" => Held(p) = Results(p)
                      /\ pc[p] = "failed" => Held(p) = {}
                      /\ pc[p] = "done" /\ p \in KeyGen =>
                            \A x \in Results(p) : files[x].parts = <<"key">>
    BY DEF EndsClean, Held
  <2>1. CASE p \in Exporter
    BY <2>1, OwnerAssumption DEF FilesInv, ExportHolds, Results
  <2>2. CASE p \in KeyGen
    BY <2>2, OwnerAssumption DEF FilesInv, KeysHeld, Results
  <2> QED
    BY <2>1, <2>2 DEF Process
<1> QED
  BY <1>1, FilesInvariant, PTL

(* No public key is without its private key, whoever is killed when.       *)
THEOREM PublicsHavePrivates == Spec => []PublicHasPrivate
<1>1. FilesInv => PublicHasPrivate
  <2> SUFFICES ASSUME FilesInv, NEW g \in KeyGen, Owns(g, Public(g)), Public(g) # Private(g)
               PROVE  Owns(g, Private(g)) /\ files[Private(g)].parts = <<"key">>
    BY DEF PublicHasPrivate
  <2>1. Public(g) \in Held(g) /\ KeysHeld(g) /\ pc[g] \in KeyState
    BY PathsOfCommands DEF FilesInv, FilesTypeOK, Held
  <2>2. CASE pc[g] # "crashed"
    <3>1. pc[g] \in {"public", "done"}
      BY <2>1, <2>2 DEF KeysHeld, KeyState
    <3> QED
      BY <2>1, <3>1 DEF KeysHeld, Held
  <2>3. CASE pc[g] = "crashed"
    BY <2>1, <2>3 DEF KeysHeld, Held
  <2> QED
    BY <2>2, <2>3
<1> QED
  BY <1>1, FilesInvariant, PTL


(* No command overwrites or removes a file that another process created,   *)
(* whichever paths they were given and wherever they fail.                 *)
THEOREM OthersAreUntouched == Spec => OthersUntouched
<1> DEFINE Untouched ==
        \A x \in Path : Exists(x) /\ files'[x] # files[x] =>
            /\ files[x].owner # Other
            /\ files'[x] = Absent \/ files'[x].owner = files[x].owner
            /\ \A p \in Process \ {files[x].owner} : pc'[p] = pc[p]
<1>1. ASSUME FilesInv, [Next]_vars PROVE [Untouched]_vars
  <2>1. ASSUME NEW p \in Process, OnlyBy(p) PROVE Untouched
    BY <2>1, OwnerAssumption DEF OnlyBy, Process
  <2>2. ASSUME NEW x \in Path, SomebodyCreates(x) PROVE Untouched
    <3>1. files[x] = Absent /\ \A y \in Path \ {x} : files'[y] = files[y]
      BY <1>1, <2>2, Created DEF FilesInv, SomebodyCreates
    <3> QED
      BY <3>1 DEF Exists
  <2> HIDE DEF Untouched
  <2> QED
    BY <1>1, <2>1, <2>2, ExportStepKept, KeyStepKept, CrashKept
       DEF Next, Process, ExportStepKeeps, KeyStepKeeps
<1> QED
  BY <1>1, FilesInvariant, PTL DEF Spec, OthersUntouched

=============================================================================
