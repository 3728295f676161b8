--------------------------- MODULE Discover_proofs ---------------------------
(***************************************************************************)
(* Proofs about Discover, for every set of sessions, every number of       *)
(* directories and every disturbance of the tree: what a walk that         *)
(* succeeds has found, and at whose files one fails.                       *)
(***************************************************************************)
EXTENDS Discover, FiniteSetTheorems, WellFoundedInduction, TLAPS

-----------------------------------------------------------------------------
(* A set of naturals that is not empty has a least element: the finite     *)
(* sets 0 .. s, for s in the set, have a minimal one.                      *)
LEMMA LeastOfNat ==
    ASSUME NEW S \in SUBSET Nat, S # {}
    PROVE  \E s \in S : \A t \in S : s <= t
<1> DEFINE T == {0 .. s : s \in S}
<1>1. \A s \in S : IsFiniteSet(0 .. s) /\ 0 .. s \in SUBSET Nat
  BY FS_Interval
<1>2. T \subseteq FiniteSubsetsOf(Nat) /\ T # {}
  BY <1>1 DEF FiniteSubsetsOf
<1>3. \E x \in T : \A y \in T : ~ (<<y, x>> \in StrictSubsetOrdering(Nat))
  <2>1. IsWellFoundedOn(StrictSubsetOrdering(Nat), FiniteSubsetsOf(Nat))
    BY FS_StrictSubsetOrderingWellFounded, Zenon
  <2> HIDE DEF T
  <2> QED
    BY <1>2, <2>1, WFMin, Zenon
<1>4. PICK s \in S : \A t \in S : ~ (<<0 .. t, 0 .. s>> \in StrictSubsetOrdering(Nat))
  BY <1>3
<1>5. ASSUME NEW t \in S, t < s PROVE FALSE
  <2>1. 0 .. t \subseteq 0 .. s
    BY <1>5
  <2>2. 0 .. t # 0 .. s
    <3>1. s \in 0 .. s /\ s \notin 0 .. t
      BY <1>5
    <3> QED
      BY <3>1
  <2>3. 0 .. t \in SUBSET Nat /\ 0 .. s \in SUBSET Nat
    BY <1>1
  <2> QED
    BY <1>4, <2>1, <2>2, <2>3 DEF StrictSubsetOrdering
<1> QED
  BY <1>5
-----------------------------------------------------------------------------
DiscoverTypeOK ==
    /\ files \in [Session -> [Dir -> FileState]]
    /\ pc \in {"idle", "walking", "done", "failed"}
    /\ dir \in 0 .. Dirs
    /\ listing \in SUBSET Session
    /\ found \in [Session -> 0 .. Dirs]
    /\ calm \in SUBSET Session /\ kept \in SUBSET Session

(* A kept session is found already, is in the listing, or has a readable   *)
(* file where the walk has not been yet.                                   *)
KeptIsAhead ==
    pc = "walking" =>
        \A s \in kept :
            \/ found[s] # 0
            \/ s \in listing
            \/ \E d \in ReadableDirs(files, s) : d > dir

(* A session nobody touched still has its one readable file, the walk has  *)
(* it in its listing only while it is in that file's directory, and found  *)
(* it only there.                                                          *)
CalmIsSingle == \A s \in calm : Single(files, s)

CalmIsFoundOnce ==
    pc = "walking" =>
        \A s \in calm :
            /\ s \in listing => dir \in Dir /\ Exists(s, dir) /\ found[s] = 0
            /\ found[s] # 0 => found[s] <= dir /\ Exists(s, found[s])

(* There is a listing only of a directory.                                 *)
ListingIsOfDir == listing # {} => dir \in Dir

WalkInv ==
    /\ DiscoverTypeOK
    /\ KeptIsAhead
    /\ CalmIsSingle
    /\ CalmIsFoundOnce
    /\ ListingIsOfDir
    /\ KeptIsFound
    /\ FailureIsDisturbance

-----------------------------------------------------------------------------
LEMMA InitWalkInv == Init => WalkInv
BY BoundAssumption DEF Init, WalkInv, DiscoverTypeOK, KeptIsAhead, CalmIsSingle, CalmIsFoundOnce,
   ListingIsOfDir, KeptIsFound, FailureIsDisturbance, Dir

(* What a step of the tree does to the histories: only s, the session      *)
(* whose files it changes, can lose its place in them.                     *)
LEMMA ChangesWalkInv ==
    ASSUME WalkInv, NEW s \in Session, NEW fs \in [Session -> [Dir -> FileState]],
           \A t \in Session \ {s} : fs[t] = files[t],
           Changes(s, fs)
    PROVE  WalkInv'
<1> USE DEF WalkInv
<1>1. DiscoverTypeOK' /\ ListingIsOfDir'
  BY DEF Changes, DiscoverTypeOK, ListingIsOfDir, walkVars, Dir
<1>2. \A t \in Session \ {s} : ReadableDirs(fs, t) = ReadableDirs(files, t)
  BY DEF ReadableDirs
<1>3. KeptIsAhead'
  <2> SUFFICES ASSUME pc = "walking", NEW t \in kept',
                      found[t] = 0, t \notin listing
               PROVE  \E d \in ReadableDirs(fs, t) : d > dir
    BY DEF Changes, KeptIsAhead, walkVars
  <2>1. t \in kept /\ t \in Session
    BY DEF Changes, DiscoverTypeOK
  <2>2. PICK d \in ReadableDirs(files, t) : d > dir
    BY <2>1 DEF KeptIsAhead
  <2>3. CASE t # s
    BY <1>2, <2>1, <2>2, <2>3
  <2>4. CASE t = s
    <3>1. Keeps(fs, s)
      BY <2>4 DEF Changes
    <3>2. PICK e \in ReadableDirs(fs, s) : d <= e
      BY <2>2, <2>4, <3>1 DEF Keeps
    <3> QED
      BY <2>2, <2>4, <3>2, BoundAssumption DEF ReadableDirs, Dir, DiscoverTypeOK
  <2> QED
    BY <2>3, <2>4
<1>4. \A t \in calm' : t \in calm /\ t \in Session \ {s}
  BY DEF Changes, DiscoverTypeOK
<1>5. CalmIsSingle'
  <2> SUFFICES ASSUME NEW t \in calm' PROVE Single(fs, t)
    BY DEF CalmIsSingle, Changes
  <2>1. Single(files, t) /\ t \in Session \ {s}
    BY <1>4 DEF CalmIsSingle
  <2> QED
    BY <1>2, <2>1 DEF Single
<1>6. CalmIsFoundOnce'
  <2> SUFFICES ASSUME pc = "walking", NEW t \in calm'
               PROVE  /\ t \in listing => dir \in Dir /\ fs[t][dir] # "none" /\ found[t] = 0
                      /\ found[t] # 0 => found[t] <= dir /\ fs[t][found[t]] # "none"
    BY DEF CalmIsFoundOnce, Changes, walkVars, Exists
  <2>1. t \in calm /\ t \in Session \ {s} /\ found[t] \in 0 .. Dirs
    BY <1>4 DEF DiscoverTypeOK
  <2> QED
    BY <2>1, BoundAssumption DEF CalmIsFoundOnce, Exists, Dir
<1>7. KeptIsFound'
  BY DEF KeptIsFound, Changes, walkVars
<1>8. FailureIsDisturbance'
  BY DEF FailureIsDisturbance, Changes, walkVars, Entry
<1> QED
  BY <1>1, <1>3, <1>5, <1>6, <1>7, <1>8

LEMMA TreeStepWalkInv ==
    ASSUME WalkInv, TreeStep
    PROVE  WalkInv'
<1> USE DEF WalkInv, DiscoverTypeOK, FileState
<1>1. ASSUME NEW s \in Session, NEW d \in Dir, Create(s, d) PROVE WalkInv'
  <2> DEFINE fs == [files EXCEPT ![s][d] = "unreadable"]
  <2>1. fs \in [Session -> [Dir -> FileState]] /\ Changes(s, fs)
    BY <1>1 DEF Create
  <2>2. \A t \in Session \ {s} : fs[t] = files[t]
    OBVIOUS
  <2> QED
    BY <2>1, <2>2, ChangesWalkInv
<1>2. ASSUME NEW s \in Session, NEW d \in Dir, EndFirstLine(s, d) PROVE WalkInv'
  <2> DEFINE fs == [files EXCEPT ![s][d] = "readable"]
  <2>1. fs \in [Session -> [Dir -> FileState]] /\ Changes(s, fs)
    BY <1>2 DEF EndFirstLine
  <2>2. \A t \in Session \ {s} : fs[t] = files[t]
    OBVIOUS
  <2> QED
    BY <2>1, <2>2, ChangesWalkInv
<1>3. ASSUME NEW s \in Session, NEW d \in Dir, Delete(s, d) PROVE WalkInv'
  <2> DEFINE fs == [files EXCEPT ![s][d] = "none"]
  <2>1. fs \in [Session -> [Dir -> FileState]] /\ Changes(s, fs)
    BY <1>3 DEF Delete
  <2>2. \A t \in Session \ {s} : fs[t] = files[t]
    OBVIOUS
  <2> QED
    BY <2>1, <2>2, ChangesWalkInv
<1>4. ASSUME NEW s \in Session, NEW d \in Dir, NEW e \in Dir, Move(s, d, e) PROVE WalkInv'
  <2> DEFINE fs == [files EXCEPT ![s][d] = "none", ![s][e] = files[s][d]]
  <2>1. fs \in [Session -> [Dir -> FileState]] /\ Changes(s, fs)
    BY <1>4 DEF Move
  <2>2. \A t \in Session \ {s} : fs[t] = files[t]
    OBVIOUS
  <2> QED
    BY <2>1, <2>2, ChangesWalkInv
<1>5. ASSUME NEW s \in Session, NEW d \in Dir, NEW e \in Dir, Copy(s, d, e) PROVE WalkInv'
  <2> DEFINE fs == [files EXCEPT ![s][e] = files[s][d]]
  <2>1. fs \in [Session -> [Dir -> FileState]] /\ Changes(s, fs)
    BY <1>5 DEF Copy
  <2>2. \A t \in Session \ {s} : fs[t] = files[t]
    OBVIOUS
  <2> QED
    BY <2>1, <2>2, ChangesWalkInv
<1> QED
  BY <1>1, <1>2, <1>3, <1>4, <1>5 DEF TreeStep

LEMMA StartWalkInv ==
    ASSUME WalkInv, Start
    PROVE  WalkInv'
BY BoundAssumption DEF WalkInv, DiscoverTypeOK, Start, NothingFound, treeVars, KeptIsAhead,
   CalmIsSingle, CalmIsFoundOnce, ListingIsOfDir, KeptIsFound, FailureIsDisturbance,
   ReadableDirs, Dir, Exists, Single

LEMMA EnterDirWalkInv ==
    ASSUME WalkInv, EnterDir
    PROVE  WalkInv'
<1> USE DEF WalkInv, EnterDir, Walking, treeVars, historyVars
<1>1. dir + 1 \in Dir /\ dir' = dir + 1 /\ dir \in 0 .. Dirs
  BY BoundAssumption DEF DiscoverTypeOK, Dir
<1>2. DiscoverTypeOK' /\ ListingIsOfDir'
  BY <1>1 DEF DiscoverTypeOK, ListingIsOfDir, Dir
<1>3. KeptIsAhead'
  <2> SUFFICES ASSUME NEW s \in kept, found[s] = 0, s \notin listing'
               PROVE  \E d \in ReadableDirs(files, s) : d > dir + 1
    BY <1>1 DEF KeptIsAhead, ReadableDirs
  <2>1. s \in Session
    BY DEF DiscoverTypeOK
  <2>2. PICK d \in ReadableDirs(files, s) : d > dir
    BY DEF KeptIsAhead
  <2>3. d # dir + 1
    BY <2>1, <2>2 DEF ReadableDirs, Exists
  <2>4. d \in Nat
    BY BoundAssumption, <2>2 DEF ReadableDirs, Dir
  <2> QED
    BY <1>1, <2>2, <2>3, <2>4
<1>4. CalmIsSingle'
  BY DEF CalmIsSingle, Single, ReadableDirs
<1>5. CalmIsFoundOnce'
  <2> SUFFICES ASSUME NEW s \in calm
               PROVE  /\ s \in listing' => Exists(s, dir + 1) /\ found[s] = 0
                      /\ found[s] # 0 => found[s] <= dir + 1 /\ Exists(s, found[s])
    BY <1>1 DEF CalmIsFoundOnce, Exists
  <2>1. found[s] \in 0 .. Dirs /\ Single(files, s)
    BY DEF DiscoverTypeOK, CalmIsSingle
  <2>2. found[s] # 0 => found[s] <= dir /\ Exists(s, found[s])
    BY DEF CalmIsFoundOnce
  <2>3. ASSUME s \in listing', found[s] # 0 PROVE FALSE
    <3>1. Exists(s, dir + 1) /\ Exists(s, found[s]) /\ found[s] \in Dir
      BY <2>1, <2>2, <2>3, BoundAssumption DEF Dir
    <3>2. dir + 1 = found[s]
      BY <1>1, <2>1, <3>1 DEF Single, Exists
    <3> QED
      BY <1>1, <2>1, <2>2, <2>3, <3>2
  <2> QED
    BY <1>1, <2>1, <2>2, <2>3
<1>6. KeptIsFound' /\ FailureIsDisturbance'
  BY DEF KeptIsFound, FailureIsDisturbance
<1> QED
  BY <1>2, <1>3, <1>4, <1>5, <1>6

LEMMA EntryIsListed ==
    ASSUME DiscoverTypeOK, listing # {}
    PROVE  Entry \in listing
<1>1. listing \in SUBSET Nat
  BY SessionAssumption DEF DiscoverTypeOK
<1> QED
  BY <1>1, LeastOfNat DEF Entry

LEMMA VisitWalkInv ==
    ASSUME WalkInv, Visit
    PROVE  WalkInv'
<1> USE DEF WalkInv, Walking, treeVars, historyVars
<1>1. Entry \in listing /\ Entry \in Session /\ dir \in Dir /\ dir # 0
  BY EntryIsListed, BoundAssumption DEF Visit, ListingIsOfDir, DiscoverTypeOK, Dir
<1> HIDE DEF Entry
<1>2. /\ pc = "walking" /\ files[Entry][dir] = "readable" /\ found[Entry] = 0
      /\ found' = [found EXCEPT ![Entry] = dir] /\ listing' = listing \ {Entry}
      /\ UNCHANGED <<pc, dir, files, calm, kept>>
  BY DEF Visit, Inspects, IsNew
<1>3. DiscoverTypeOK' /\ ListingIsOfDir'
  BY <1>1, <1>2 DEF DiscoverTypeOK, ListingIsOfDir, Dir
<1>4. \A s \in Session : found'[s] = IF s = Entry THEN dir ELSE found[s]
  BY <1>2 DEF DiscoverTypeOK
<1>5. KeptIsAhead'
  BY <1>1, <1>2, <1>4 DEF KeptIsAhead, ReadableDirs, DiscoverTypeOK
<1>6. CalmIsSingle'
  BY <1>2 DEF CalmIsSingle, Single, ReadableDirs
<1>7. CalmIsFoundOnce'
  BY <1>1, <1>2, <1>4, BoundAssumption DEF CalmIsFoundOnce, Exists, DiscoverTypeOK, Dir
<1>8. KeptIsFound' /\ FailureIsDisturbance'
  BY <1>2 DEF KeptIsFound, FailureIsDisturbance
<1> QED
  BY <1>3, <1>5, <1>6, <1>7, <1>8

(* A calm session in the listing can be inspected and was not found yet.   *)
LEMMA VisitFailsWalkInv ==
    ASSUME WalkInv, VisitFails
    PROVE  WalkInv'
<1> USE DEF WalkInv, VisitFails, Walking, treeVars, historyVars
<1>1. Entry \in listing /\ Entry' = Entry
  BY EntryIsListed DEF Entry
<1> HIDE DEF Entry
<1>2. DiscoverTypeOK' /\ ListingIsOfDir' /\ KeptIsAhead' /\ CalmIsFoundOnce' /\ KeptIsFound'
  BY DEF DiscoverTypeOK, ListingIsOfDir, KeptIsAhead, CalmIsFoundOnce, KeptIsFound
<1>3. CalmIsSingle'
  BY DEF CalmIsSingle, Single, ReadableDirs
<1>4. ASSUME Entry \in calm PROVE FALSE
  <2>1. dir \in Dir /\ Exists(Entry, dir) /\ found[Entry] = 0
    BY <1>1, <1>4 DEF CalmIsFoundOnce
  <2>2. files[Entry][dir] = "readable"
    BY <1>4, <2>1 DEF CalmIsSingle, Single, Exists, ReadableDirs
  <2> QED
    BY <2>1, <2>2 DEF Inspects, IsNew
<1>5. FailureIsDisturbance'
  BY <1>1, <1>4 DEF FailureIsDisturbance
<1> QED
  BY <1>2, <1>3, <1>5

(* Behind the last directory there is no file left to be found.            *)
LEMMA FinishWalkInv ==
    ASSUME WalkInv, Finish
    PROVE  WalkInv'
<1> USE DEF WalkInv, Finish, Walking, WalkOver, treeVars, historyVars
<1>1. DiscoverTypeOK' /\ ListingIsOfDir' /\ KeptIsAhead' /\ CalmIsFoundOnce'
  BY DEF DiscoverTypeOK, ListingIsOfDir, KeptIsAhead, CalmIsFoundOnce
<1>2. CalmIsSingle'
  BY DEF CalmIsSingle, Single, ReadableDirs
<1>3. KeptIsFound'
  BY BoundAssumption DEF KeptIsFound, KeptIsAhead, ReadableDirs, Dir
<1>4. FailureIsDisturbance'
  BY DEF FailureIsDisturbance
<1> QED
  BY <1>1, <1>2, <1>3, <1>4

LEMMA NextWalkInv ==
    ASSUME WalkInv, [Next]_vars
    PROVE  WalkInv'
<1>1. CASE TreeStep
  BY <1>1, TreeStepWalkInv
<1>2. CASE Start
  BY <1>2, StartWalkInv
<1>3. CASE WalkStep
  BY <1>3, EnterDirWalkInv, VisitWalkInv, VisitFailsWalkInv, FinishWalkInv DEF WalkStep
<1>4. CASE UNCHANGED vars
  BY <1>4 DEF vars, treeVars, walkVars, historyVars, WalkInv, DiscoverTypeOK, KeptIsAhead,
     CalmIsSingle, CalmIsFoundOnce, ListingIsOfDir, KeptIsFound, FailureIsDisturbance,
     ReadableDirs, Single, Exists, Entry
<1> QED
  BY <1>1, <1>2, <1>3, <1>4 DEF Next

LEMMA WalkInvariant == Spec => []WalkInv
<1>1. Init => WalkInv
  BY InitWalkInv
<1>2. WalkInv /\ [Next]_vars => WalkInv'
  BY NextWalkInv
<1> QED
  BY <1>1, <1>2, PTL DEF Spec

-----------------------------------------------------------------------------
(* A walk that succeeds has found every session that kept a readable file  *)
(* and was not moved against the walk.                                     *)
THEOREM KeptFound == Spec => []KeptIsFound
<1>1. WalkInv => KeptIsFound
  BY DEF WalkInv
<1> QED
  BY <1>1, WalkInvariant, PTL

(* Discover never fails at a session that had one readable file when the   *)
(* walk began and was left alone since, whatever happened to the others.   *)
THEOREM FailureDisturbed == Spec => []FailureIsDisturbance
<1>1. WalkInv => FailureIsDisturbance
  BY DEF WalkInv
<1> QED
  BY <1>1, WalkInvariant, PTL

=============================================================================
