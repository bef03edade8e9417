---------------------------- MODULE LogFile_proofs ----------------------------
(***************************************************************************)
(* Theorems about LogFile, for any number of processes, file size, file    *)
(* number and number of killed processes.                                  *)
(***************************************************************************)
EXTENDS LogFile, FiniteSetTheorems, SequenceTheorems, TLAPS

(***************************************************************************)
(* Paths                                                                   *)
(***************************************************************************)

\* The paths the code names are paths of the model, and they are apart.
LEMMA PathFacts ==
  /\ LastIndex \in Nat /\ LastIndex >= 1
  /\ MaxNum - 2 \in Int /\ MaxNum - 2 < LastIndex
  /\ LogPath \in Path /\ TmpPath \in Path /\ 1 \in Path
  /\ Path \subseteq Int
  /\ LogPath # TmpPath /\ LogPath # 1 /\ TmpPath # 1
  /\ \A i \in Int : i > 0 /\ i < LastIndex =>
       /\ i \in Path /\ i + 1 \in Path
       /\ i # LogPath /\ i + 1 # LogPath /\ i # TmpPath /\ i + 1 # TmpPath
  BY NumAssumption DEF LastIndex, Path, LogPath, TmpPath

(***************************************************************************)
(* Type correctness                                                        *)
(***************************************************************************)

\* A rename of two paths leaves a directory.
LEMMA RenameType ==
  ASSUME TypeOK, NEW f \in Path, NEW g \in Path, Rename(f, g)
  PROVE  dir' \in [Path -> 0 .. Len(data)]
<1>1. CASE Exists(f)
  <2>1. [dir EXCEPT ![g] = dir[f]] \in [Path -> 0 .. Len(data)]
    BY DEF TypeOK
  <2>2. 0 \in 0 .. Len(data)
    BY DEF TypeOK
  <2> QED
    BY <1>1, <2>1, <2>2 DEF Rename, NoFile
<1>2. CASE ~Exists(f)
  BY <1>2 DEF TypeOK, Rename
<1> QED
  BY <1>1, <1>2

\* Each step keeps the types: no path names an inode that was not created
\* and no process writes without a file.
THEOREM TypeInvariance == Spec => []TypeOK
<1>1. Init => TypeOK
  <2> SUFFICES ASSUME Init PROVE TypeOK
    OBVIOUS
  <2>1. data \in Seq(SUBSET (1 .. lines)) /\ Len(data) = 0
    BY DEF Init
  <2>2. dir \in [Path -> 0 .. Len(data)] /\ fd \in [Proc -> 0 .. Len(data)]
    BY <2>1 DEF Init, NoFile
  <2>3. idx \in [Proc -> Int] /\ \A p \in Proc : idx[p] < LastIndex
    BY PathFacts DEF Init
  <2>4. pc \in [Proc -> PC] /\ \A p \in Proc : pc[p] # "write"
    BY DEF Init, PC
  <2> QED
    BY <2>1, <2>2, <2>3, <2>4 DEF Init, TypeOK, Inode
<1>2. TypeOK /\ [Next]_vars => TypeOK'
  <2> SUFFICES ASSUME TypeOK, [Next]_vars PROVE TypeOK'
    OBVIOUS
  <2> USE DEF TypeOK, PC, Inode, disk
  <2>1. ASSUME NEW p \in Proc, DoLog(p) PROVE TypeOK'
    BY <2>1 DEF DoLog, Goto
  <2>2. ASSUME NEW p \in Proc, Open(p) PROVE TypeOK'
    <3>1. CASE Exists(LogPath)
      BY <2>2, <3>1, PathFacts DEF Open, Goto, Exists, NoFile
    <3>2. CASE ~Exists(LogPath)
      <4>1. data' = Append(data, {}) /\ Len(data') = Len(data) + 1
        BY <2>2, <3>2 DEF Open
      <4>2. data' \in Seq(SUBSET (1 .. lines))
        BY <4>1
      <4>3. dir' \in [Path -> 0 .. Len(data')] /\ fd' \in [Proc -> 0 .. Len(data')]
        <5>1. Len(data') \in 0 .. Len(data') /\ \A i \in 0 .. Len(data) : i \in 0 .. Len(data')
          BY <4>1
        <5>2. dir' = [dir EXCEPT ![LogPath] = Len(data')] /\ fd' = [fd EXCEPT ![p] = Len(data')]
          BY <2>2, <3>2, <4>1 DEF Open
        <5> QED
          BY <5>1, <5>2
      <4>4. pc' \in [Proc -> PC] /\ \A q \in Proc : pc'[q] = "write" => fd'[q] # 0
        BY <2>2, <3>2 DEF Open, Goto, NoFile
      <4> QED
        BY <2>2, <4>1, <4>2, <4>3, <4>4 DEF Open, NoFile
    <3> QED
      BY <3>1, <3>2
  <2>3. ASSUME NEW p \in Proc, OpenFails(p) PROVE TypeOK'
    BY <2>3 DEF OpenFails, Goto
  <2>4. ASSUME NEW p \in Proc, Write(p) PROVE TypeOK'
    <3>1. data' \in Seq(SUBSET (1 .. lines + 1)) /\ Len(data') = Len(data)
      <4> DEFINE S == SUBSET (1 .. lines + 1)
      <4>1. fd[p] \in 1 .. Len(data)
        BY <2>4 DEF Write, NoFile
      <4>2. data[fd[p]] \union {lines + 1} \in S
        BY <4>1
      <4>3. data \in Seq(S)
        OBVIOUS
      <4> QED
        BY <2>4, <4>1, <4>2, <4>3, ExceptSeq DEF Write
    <3>2. fd' \in [Proc -> 0 .. Len(data')] /\ dir' \in [Path -> 0 .. Len(data')]
      BY <2>4, <3>1 DEF Write, NoFile
    <3>3. pc' \in [Proc -> PC] /\ \A q \in Proc : pc'[q] = "write" => fd'[q] # 0
      BY <2>4 DEF Write, Goto, NoFile
    <3> QED
      BY <2>4, <3>1, <3>2, <3>3 DEF Write, NoFile
  <2>5. ASSUME NEW p \in Proc, Stat(p) PROVE TypeOK'
    BY <2>5 DEF Stat, Goto
  <2>6. ASSUME NEW p \in Proc, MoveAside(p) PROVE TypeOK'
    BY <2>6, RenameType, PathFacts DEF MoveAside, AsideFrom, Goto
  <2>7. ASSUME NEW p \in Proc, Shift(p) PROVE TypeOK'
    <3>1. idx[p] \in Path /\ idx[p] + 1 \in Path
      BY <2>7, PathFacts DEF Shift
    <3>2. dir' \in [Path -> 0 .. Len(data)]
      BY <2>7, <3>1, RenameType DEF Shift
    <3>3. idx' \in [Proc -> Int] /\ \A q \in Proc : idx'[q] < LastIndex
      BY <2>7, PathFacts DEF Shift
    <3> QED
      BY <2>7, <3>2, <3>3 DEF Shift
  <2>8. ASSUME NEW p \in Proc, MoveBack(p) PROVE TypeOK'
    <3>1. dir' \in [Path -> 0 .. Len(data)]
      BY <2>8, RenameType, PathFacts DEF MoveBack
    <3> QED
      BY <2>8, <3>1 DEF MoveBack, Goto
  <2>9. ASSUME NEW p \in Proc, Chmod(p) PROVE TypeOK'
    <3>1. shared' \subseteq 1 .. Len(data)
      <4>1. Exists(LogPath) => dir[LogPath] \in 1 .. Len(data)
        BY PathFacts DEF Exists, NoFile
      <4>2. shared \subseteq 1 .. Len(data)
        OBVIOUS
      <4> QED
        BY <2>9, <4>1, <4>2 DEF Chmod
    <3>2. pc' \in [Proc -> PC] /\ \A q \in Proc : pc'[q] = "write" => pc[q] = "write"
      BY <2>9 DEF Chmod, Goto
    <3> QED
      BY <2>9, <3>1, <3>2 DEF Chmod
  <2>10. ASSUME NEW p \in Proc, Crash(p) PROVE TypeOK'
    BY <2>10, PathFacts DEF Crash, Goto, NoFile
  <2>11. CASE Switch
    BY <2>11 DEF Switch
  <2>12. CASE UNCHANGED vars
    BY <2>12 DEF vars
  <2> QED
    BY <2>1, <2>2, <2>3, <2>4, <2>5, <2>6, <2>7, <2>8, <2>9, <2>10, <2>11,
       <2>12 DEF Next, Step
<1> QED
  BY <1>1, <1>2, PTL DEF Spec

(***************************************************************************)
(* No file is left half rotated                                            *)
(***************************************************************************)

\* Whatever the interleaving, filename.tmp.log belongs to a process that
\* still has its rename to filename1.log ahead of it, and a filename.log
\* without the mode 0660 to one that still has its chmod ahead of it.
OwnedInv ==
  crashes = 0 =>
    /\ Exists(TmpPath) => \E p \in Proc : pc[p] = "shift"
    /\ Exists(LogPath) /\ dir[LogPath] \notin shared
         => \E p \in Proc : pc[p] \notin {"idle", "open"}

\* The duties of a rotation pass from process to process.
LEMMA OwnedInvariance == Spec => []OwnedInv
<1>1. Init => OwnedInv
  BY PathFacts DEF Init, OwnedInv, Exists
<1>2. TypeOK /\ OwnedInv /\ [Next]_vars => OwnedInv'
  <2> SUFFICES ASSUME TypeOK, OwnedInv, [Next]_vars, crashes' = 0 PROVE OwnedInv'
    BY DEF OwnedInv
  <2>0. crashes = 0 /\ \A p \in Proc : ~Crash(p)
    BY DEF TypeOK, Crash, Next, Step, vars, DoLog, Open, OpenFails, Write, Stat,
           MoveAside, AsideFrom, Shift, MoveBack, Chmod, Switch
  <2> USE <2>0 DEF OwnedInv, Exists, Goto
  <2>1. ASSUME NEW p \in Proc, DoLog(p) PROVE OwnedInv'
    BY <2>1 DEF DoLog, TypeOK
  <2>2. ASSUME NEW p \in Proc, Open(p) PROVE OwnedInv'
    BY <2>2, PathFacts DEF Open, TypeOK
  <2>3. ASSUME NEW p \in Proc, OpenFails(p) PROVE OwnedInv'
    BY <2>3 DEF OpenFails, TypeOK
  <2>4. ASSUME NEW p \in Proc, Write(p) PROVE OwnedInv'
    BY <2>4 DEF Write, TypeOK
  <2>5. ASSUME NEW p \in Proc, Stat(p) PROVE OwnedInv'
    BY <2>5 DEF Stat, TypeOK
  <2>6. ASSUME NEW p \in Proc, MoveAside(p) PROVE OwnedInv'
    BY <2>6, PathFacts DEF MoveAside, AsideFrom, Rename, TypeOK
  <2>7. ASSUME NEW p \in Proc, Shift(p) PROVE OwnedInv'
    <3>1. dir'[TmpPath] = dir[TmpPath] /\ dir'[LogPath] = dir[LogPath]
      BY <2>7, PathFacts DEF Shift, Rename, TypeOK
    <3> QED
      BY <2>7, <3>1 DEF Shift, TypeOK
  <2>8. ASSUME NEW p \in Proc, MoveBack(p) PROVE OwnedInv'
    <3>1. dir'[TmpPath] = NoFile /\ dir'[LogPath] = dir[LogPath]
      BY <2>8, PathFacts DEF MoveBack, Rename, TypeOK
    <3> QED
      BY <2>8, <3>1 DEF MoveBack, TypeOK
  <2>9. ASSUME NEW p \in Proc, Chmod(p) PROVE OwnedInv'
    BY <2>9 DEF Chmod, TypeOK
  <2>10. CASE Switch
    BY <2>10 DEF Switch
  <2>11. CASE UNCHANGED vars
    BY <2>11 DEF vars
  <2> QED
    BY <2>0, <2>1, <2>2, <2>3, <2>4, <2>5, <2>6, <2>7, <2>8, <2>9, <2>10, <2>11
       DEF Next, Step
<1> QED
  BY <1>1, <1>2, TypeInvariance, PTL DEF Spec

\* With no process killed, filename.tmp.log exists only between the renames
\* of a process that is rotating.
THEOREM TmpOwned == Spec => []TmpIsOwned
<1>1. OwnedInv => TmpIsOwned
  BY DEF OwnedInv, TmpIsOwned
<1> QED
  BY <1>1, OwnedInvariance, PTL

\* With no process killed, filename.log has the mode 0660 whenever every
\* process has returned from DoLog.
THEOREM CurrentShared == Spec => []CurrentIsShared
<1>1. OwnedInv => CurrentIsShared
  BY DEF OwnedInv, CurrentIsShared
<1> QED
  BY <1>1, OwnedInvariance, PTL

(***************************************************************************)
(* The size of a file                                                      *)
(***************************************************************************)

\* The processes that can still write to the inode f: those that have it
\* open, and while f is filename.log those that could open it before they
\* pass by the stat of LogFileRotate.
Reach(f) ==
  {p \in Proc :
     IF dir[LogPath] = f
       THEN /\ pc[p] \notin {"stat", "aside"}
            /\ pc[p] = "write" => fd[p] = f
       ELSE pc[p] = "write" /\ fd[p] = f}

\* A file at its limit leaves room for one line of each process in reach.
SizeInv ==
  \A f \in Inode : Cardinality(data[f]) >= MaxSize =>
    Cardinality(data[f]) + Cardinality(Reach(f))
      < MaxSize + Cardinality(Proc) + crashes

\* Contents are finite, and so is every set of processes.
LEMMA Finiteness ==
  ASSUME TypeOK
  PROVE  /\ \A f \in Inode : IsFiniteSet(data[f]) /\ Cardinality(data[f]) \in Nat
         /\ \A S \in SUBSET Proc : /\ IsFiniteSet(S) /\ Cardinality(S) \in Nat
                                  /\ Cardinality(S) <= Cardinality(Proc)
         /\ Cardinality(Proc) \in Nat \ {0}
<1>1. IsFiniteSet(1 .. lines)
  BY FS_Interval DEF TypeOK
<1>2. ASSUME NEW f \in Inode PROVE IsFiniteSet(data[f]) /\ Cardinality(data[f]) \in Nat
  <2>1. data[f] \subseteq 1 .. lines
    BY DEF TypeOK, Inode
  <2> QED
    BY <1>1, <2>1, FS_Subset, FS_CardinalityType
<1>3. ASSUME NEW S \in SUBSET Proc
      PROVE  /\ IsFiniteSet(S) /\ Cardinality(S) \in Nat
             /\ Cardinality(S) <= Cardinality(Proc)
  BY ProcAssumption, FS_Subset, FS_CardinalityType
<1>4. Cardinality(Proc) \in Nat \ {0}
  BY ProcAssumption, FS_EmptySet, FS_CardinalityType
<1> QED
  BY <1>2, <1>3, <1>4

\* A step that writes nothing and brings no process into reach of a full
\* file keeps the bound.
LEMMA SizeStep ==
  ASSUME TypeOK, TypeOK', SizeInv, crashes' = crashes,
         \A f \in Inode' : \/ (f \in Inode /\ data'[f] = data[f])
                           \/ data'[f] = {},
         \A f \in Inode : Cardinality(data[f]) >= MaxSize => Reach(f)' \subseteq Reach(f)
  PROVE  SizeInv'
<1> SUFFICES ASSUME NEW f \in Inode', Cardinality(data'[f]) >= MaxSize
             PROVE  Cardinality(data'[f]) + Cardinality(Reach(f)')
                      < MaxSize + Cardinality(Proc) + crashes
  BY DEF SizeInv
<1>1. data'[f] # {}
  BY SizeAssumption, FS_EmptySet
<1>2. f \in Inode /\ data'[f] = data[f]
  BY <1>1
<1>3. Reach(f)' \subseteq Reach(f) /\ Reach(f) \subseteq Proc
  BY <1>2 DEF Reach
<1>4. IsFiniteSet(Reach(f)) /\ Cardinality(Reach(f)) \in Nat
  BY <1>3, Finiteness
<1>5. Cardinality(Reach(f)') \in Nat /\ Cardinality(Reach(f)') <= Cardinality(Reach(f))
  BY <1>3, <1>4, FS_Subset, FS_CardinalityType
<1>6. Cardinality(data[f]) \in Nat /\ Cardinality(Proc) \in Nat
  BY <1>2, Finiteness
<1>7. Cardinality(data[f]) + Cardinality(Reach(f)) < MaxSize + Cardinality(Proc) + crashes
  BY <1>2 DEF SizeInv
<1> QED
  BY <1>2, <1>5, <1>4, <1>6, <1>7, SizeAssumption DEF TypeOK

\* The line of a write uses up the room its process had.
LEMMA SizeWrite ==
  ASSUME TypeOK, TypeOK', SizeInv, NEW p \in Proc, Write(p)
  PROVE  SizeInv'
<1>0. PICK e \in Inode : e = fd[p]
  BY DEF Write, TypeOK, Inode, NoFile
<1>1. e \in Inode /\ Inode' = Inode
  BY DEF Write, TypeOK, Inode
<1>2. /\ data'[e] = data[e] \union {lines + 1}
      /\ \A f \in Inode : f # e => data'[f] = data[f]
  BY <1>0 DEF Write, TypeOK, Inode
<1>3. \A f \in Inode : Reach(f)' = Reach(f) \ {p}
  BY DEF Write, Goto, Reach, TypeOK
<1>4. p \in Reach(e)
  BY <1>0 DEF Write, Reach
<1>5. ASSUME NEW f \in Inode, f # e, Cardinality(data'[f]) >= MaxSize
      PROVE  Cardinality(data'[f]) + Cardinality(Reach(f)')
               < MaxSize + Cardinality(Proc) + crashes
  <2>1. Reach(f)' \subseteq Reach(f) /\ Reach(f) \in SUBSET Proc
    BY <1>3 DEF Reach
  <2>2. Cardinality(Reach(f)') <= Cardinality(Reach(f)) /\ Cardinality(Reach(f)') \in Nat
    BY <2>1, Finiteness, FS_Subset, FS_CardinalityType
  <2>3. Cardinality(Reach(f)) \in Nat /\ Cardinality(data[f]) \in Nat
    BY <2>1, Finiteness
  <2>4. Cardinality(data'[f]) = Cardinality(data[f])
    BY <1>2, <1>5
  <2>5. Cardinality(data[f]) + Cardinality(Reach(f)) < MaxSize + Cardinality(Proc) + crashes
    BY <1>5, <2>4 DEF SizeInv
  <2>6. Cardinality(Proc) \in Nat /\ MaxSize \in Nat /\ crashes \in Nat
    BY Finiteness, SizeAssumption DEF TypeOK
  <2> QED
    BY <2>2, <2>3, <2>4, <2>5, <2>6
<1>6. ASSUME Cardinality(data'[e]) >= MaxSize
      PROVE  Cardinality(data'[e]) + Cardinality(Reach(e)')
               < MaxSize + Cardinality(Proc) + crashes
  <2>1. IsFiniteSet(data[e]) /\ Cardinality(data[e]) \in Nat
    BY <1>1, Finiteness
  <2>2. lines + 1 \notin data[e]
    BY <1>1 DEF TypeOK, Inode
  <2>3. Cardinality(data'[e]) = Cardinality(data[e]) + 1
    BY <1>2, <2>1, <2>2, FS_AddElement
  <2>4. Reach(e) \in SUBSET Proc
    BY DEF Reach
  <2>5. IsFiniteSet(Reach(e)) /\ Cardinality(Reach(e)) \in Nat
        /\ Cardinality(Reach(e)) <= Cardinality(Proc)
    BY <2>4, Finiteness
  <2>6. Cardinality(Reach(e)') = Cardinality(Reach(e)) - 1
    BY <1>1, <1>3, <1>4, <2>5, FS_RemoveElement
  <2>0. Cardinality(Proc) \in Nat \ {0} /\ MaxSize \in Nat /\ crashes \in Nat
    BY Finiteness, SizeAssumption DEF TypeOK
  <2>7. CASE Cardinality(data[e]) >= MaxSize
    <3>1. Cardinality(data[e]) + Cardinality(Reach(e)) < MaxSize + Cardinality(Proc) + crashes
      BY <1>1, <2>7 DEF SizeInv
    <3> QED
      BY <3>1, <2>0, <2>1, <2>3, <2>5, <2>6
  <2>8. CASE Cardinality(data[e]) < MaxSize
    BY <2>8, <2>0, <2>1, <2>3, <2>5, <2>6
  <2> QED
    BY <2>7, <2>8, <2>1, SizeAssumption
<1>7. crashes' = crashes
  BY DEF Write
<1> QED
  BY <1>1, <1>5, <1>6, <1>7 DEF SizeInv

\* A process killed on its way to the rotation may come back for one more line.
LEMMA SizeCrash ==
  ASSUME TypeOK, TypeOK', SizeInv, NEW p \in Proc, Crash(p)
  PROVE  SizeInv'
<1> SUFFICES ASSUME NEW f \in Inode', Cardinality(data'[f]) >= MaxSize
             PROVE  Cardinality(data'[f]) + Cardinality(Reach(f)')
                      < MaxSize + Cardinality(Proc) + crashes'
  BY DEF SizeInv
<1>1. f \in Inode /\ data' = data /\ crashes' = crashes + 1
  BY DEF Crash, Inode, disk
<1>2. Reach(f)' \subseteq Reach(f) \union {p} /\ Reach(f) \in SUBSET Proc
  BY DEF Crash, Reach, Goto, TypeOK
<1>3. IsFiniteSet(Reach(f)) /\ Cardinality(Reach(f)) \in Nat
  BY <1>2, Finiteness
<1>4. IsFiniteSet(Reach(f) \union {p})
      /\ Cardinality(Reach(f) \union {p}) <= Cardinality(Reach(f)) + 1
      /\ Cardinality(Reach(f) \union {p}) \in Nat
  <2>1. CASE p \in Reach(f)
    BY <1>3, <2>1
  <2>2. CASE p \notin Reach(f)
    BY <1>3, <2>2, FS_AddElement
  <2> QED
    BY <2>1, <2>2
<1>5. Cardinality(Reach(f)') \in Nat
      /\ Cardinality(Reach(f)') <= Cardinality(Reach(f) \union {p})
  BY <1>2, <1>4, FS_Subset, FS_CardinalityType
<1>6. Cardinality(data[f]) + Cardinality(Reach(f)) < MaxSize + Cardinality(Proc) + crashes
  BY <1>1 DEF SizeInv
<1>7. Cardinality(data[f]) \in Nat /\ Cardinality(Proc) \in Nat
  BY <1>1, Finiteness
<1>8. Cardinality(data'[f]) = Cardinality(data[f]) /\ crashes' = crashes + 1
  BY <1>1
<1>9. MaxSize \in Nat /\ crashes \in Nat
  BY SizeAssumption DEF TypeOK
<1> QED
  BY <1>3, <1>4, <1>5, <1>6, <1>7, <1>8, <1>9

\* The room of a full file shrinks with each line and each kill.
LEMMA SizeInvariance == Spec => []SizeInv
<1>1. Init => SizeInv
  BY DEF Init, SizeInv, Inode
<1>2. TypeOK /\ TypeOK' /\ SizeInv /\ [Next]_vars => SizeInv'
  <2> SUFFICES ASSUME TypeOK, TypeOK', SizeInv, [Next]_vars PROVE SizeInv'
    OBVIOUS
  <2> DEFINE Full(f) == Cardinality(data[f]) >= MaxSize
             Quiet == /\ crashes' = crashes
                      /\ \A f \in Inode' : \/ (f \in Inode /\ data'[f] = data[f])
                                           \/ data'[f] = {}
                      /\ \A f \in Inode : Full(f) => Reach(f)' \subseteq Reach(f)
  <2>0. Quiet => SizeInv'
    BY SizeStep
  <2> USE DEF Goto, Inode, disk
  <2>1. ASSUME NEW p \in Proc, DoLog(p) PROVE Quiet
    BY <2>1 DEF DoLog, TypeOK, Reach
  <2>2. ASSUME NEW p \in Proc, Open(p) PROVE Quiet
    <3>1. CASE Exists(LogPath)
      BY <2>2, <3>1 DEF Open, TypeOK, Reach
    <3>2. CASE ~Exists(LogPath)
      <4>1. dir[LogPath] = 0 /\ dir'[LogPath] = Len(data) + 1
        BY <2>2, <3>2, PathFacts DEF Open, TypeOK, Exists, NoFile
      <4>2. \A f \in Inode' : \/ (f \in Inode /\ data'[f] = data[f])
                               \/ data'[f] = {}
        BY <2>2, <3>2 DEF Open, TypeOK
      <4>3. \A f \in Inode : Reach(f)' \subseteq Reach(f)
        BY <2>2, <3>2, <4>1 DEF Open, TypeOK, Reach
      <4> QED
        BY <2>2, <4>2, <4>3 DEF Open
    <3> QED
      BY <3>1, <3>2
  <2>3. ASSUME NEW p \in Proc, OpenFails(p) PROVE Quiet
    BY <2>3 DEF OpenFails, TypeOK, Reach
  <2>4. ASSUME NEW p \in Proc, Write(p) PROVE SizeInv'
    BY <2>4, SizeWrite
  <2>5. ASSUME NEW p \in Proc, Stat(p) PROVE Quiet
    <3>1. ASSUME NEW f \in Inode, Full(f) PROVE Reach(f)' \subseteq Reach(f)
      <4>1. CASE dir[LogPath] = f
        <5>1. pc'[p] = "aside"
          <6>1. ~(Exists(LogPath) /\ Cardinality(Content(LogPath)) < MaxSize)
            BY <3>1, <4>1, Finiteness, SizeAssumption DEF Content
          <6> QED
            BY <2>5, <6>1 DEF Stat, TypeOK
        <5> QED
          BY <2>5, <4>1, <5>1 DEF Stat, TypeOK, Reach
      <4>2. CASE dir[LogPath] # f
        BY <2>5, <4>2 DEF Stat, TypeOK, Reach
      <4> QED
        BY <4>1, <4>2
    <3> QED
      BY <2>5, <3>1 DEF Stat
  <2>6. ASSUME NEW p \in Proc, MoveAside(p) PROVE Quiet
    <3>1. dir'[LogPath] = NoFile
      BY <2>6, PathFacts DEF MoveAside, AsideFrom, Rename, TypeOK, Exists, NoFile
    <3>2. \A f \in Inode : Reach(f)' \subseteq Reach(f)
      BY <2>6, <3>1 DEF MoveAside, AsideFrom, TypeOK, Reach, NoFile
    <3> QED
      BY <2>6, <3>2 DEF MoveAside, AsideFrom
  <2>7. ASSUME NEW p \in Proc, Shift(p) PROVE Quiet
    <3>1. dir'[LogPath] = dir[LogPath]
      BY <2>7, PathFacts DEF Shift, Rename, TypeOK
    <3> QED
      BY <2>7, <3>1 DEF Shift, Reach
  <2>8. ASSUME NEW p \in Proc, MoveBack(p) PROVE Quiet
    <3>1. dir'[LogPath] = dir[LogPath]
      BY <2>8, PathFacts DEF MoveBack, Rename, TypeOK
    <3> QED
      BY <2>8, <3>1 DEF MoveBack, TypeOK, Reach
  <2>9. ASSUME NEW p \in Proc, Chmod(p) PROVE Quiet
    BY <2>9 DEF Chmod, TypeOK, Reach
  <2>10. ASSUME NEW p \in Proc, Crash(p) PROVE SizeInv'
    BY <2>10, SizeCrash
  <2>11. ASSUME Switch PROVE Quiet
    BY <2>11 DEF Switch, Reach
  <2>12. ASSUME UNCHANGED vars PROVE Quiet
    BY <2>12 DEF vars, Reach
  <2> QED
    BY <2>0, <2>1, <2>2, <2>3, <2>4, <2>5, <2>6, <2>7, <2>8, <2>9, <2>10,
       <2>11, <2>12 DEF Next, Step
<1> QED
  BY <1>1, <1>2, TypeInvariance, PTL DEF Spec

\* No file outgrows the limit by more than one line per other process and
\* per killed process, for any number of either.
THEOREM SizesBounded == Spec => []SizeBound
<1>1. TypeOK /\ SizeInv => SizeBound
  <2> SUFFICES ASSUME TypeOK, SizeInv, NEW f \in Inode
               PROVE  Cardinality(data[f]) < MaxSize + Cardinality(Proc) + crashes
    BY DEF SizeBound
  <2>1. Reach(f) \in SUBSET Proc
    BY DEF Reach
  <2>2. Cardinality(Reach(f)) \in Nat /\ Cardinality(data[f]) \in Nat
        /\ Cardinality(Proc) \in Nat \ {0}
    BY <2>1, Finiteness
  <2>3. Cardinality(data[f]) >= MaxSize =>
          Cardinality(data[f]) + Cardinality(Reach(f))
            < MaxSize + Cardinality(Proc) + crashes
    BY DEF SizeInv
  <2> QED
    BY <2>2, <2>3, SizeAssumption DEF TypeOK
<1> QED
  BY <1>1, TypeInvariance, SizeInvariance, PTL

(***************************************************************************)
(* The order of the files                                                  *)
(***************************************************************************)

\* No two paths share an inode.
Injective == \A f, g \in Path : Exists(f) /\ dir[f] = dir[g] => f = g

\* What a process holds open is filename.log: true of a process that has
\* the files to itself, and the reason why AgeOrder holds then.
OpenIsCurrent == \A p \in Proc : pc[p] = "write" => fd[p] = dir[LogPath]

AgeInv == Injective /\ AgeOrder /\ OpenIsCurrent

\* What a rename does to the contents: the target holds what the source
\* held, the source nothing, and no other path is touched.
LEMMA RenameContents ==
  ASSUME TypeOK, data' = data, NEW f \in Path, NEW g \in Path, f # g,
         Rename(f, g), Exists(f)
  PROVE  /\ ~Exists(f)' /\ Content(f)' = {}
         /\ Content(g)' = Content(f)
         /\ \A h \in Path : h # f /\ h # g =>
              (Exists(h)' <=> Exists(h)) /\ Content(h)' = Content(h)
<1>1. /\ dir'[f] = NoFile /\ dir'[g] = dir[f]
      /\ \A h \in Path : h # f /\ h # g => dir'[h] = dir[h]
  BY DEF Rename, TypeOK
<1> QED
  BY <1>1 DEF Content, Exists

\* Every rename of the rotation goes from a path to the next one, and such
\* a rename keeps the order of ages.
LEMMA RenameKeepsOrder ==
  ASSUME TypeOK, Injective, AgeOrder, data' = data,
         NEW f \in Path, f + 1 \in Path, Rename(f, f + 1)
  PROVE  Injective' /\ AgeOrder'
<1>1. CASE Exists(f)
  <2>1. /\ dir'[f] = NoFile /\ dir'[f + 1] = dir[f]
        /\ \A g \in Path : g # f /\ g # f + 1 => dir'[g] = dir[g]
    BY <1>1, PathFacts DEF Rename, TypeOK
  <2>2. Injective'
    BY <1>1, <2>1, PathFacts DEF Injective, Exists
  <2>3. /\ Content(f)' = {} /\ Content(f + 1)' = Content(f)
        /\ \A g \in Path : g # f /\ g # f + 1 => Content(g)' = Content(g)
    BY <1>1, RenameContents, PathFacts
  <2>4. ASSUME NEW g \in Path, NEW h \in Path, g < h,
               NEW l \in Content(g)', NEW m \in Content(h)'
        PROVE  m < l
    <3>1. g # f /\ h # f
      BY <2>3, <2>4
    <3>2. CASE g = f + 1
      <4>1. h # f + 1 /\ f < h
        BY <2>4, <3>2, PathFacts
      <4>2. l \in Content(f) /\ m \in Content(h)
        BY <2>3, <2>4, <3>1, <3>2, <4>1
      <4> QED
        BY <4>1, <4>2 DEF AgeOrder
    <3>3. CASE h = f + 1
      <4>1. g < f /\ g # f + 1
        BY <2>4, <3>1, <3>3, PathFacts
      <4>2. l \in Content(g) /\ m \in Content(f)
        BY <2>3, <2>4, <3>1, <3>3, <4>1
      <4> QED
        BY <4>1, <4>2 DEF AgeOrder
    <3>4. CASE g # f + 1 /\ h # f + 1
      BY <2>3, <2>4, <3>1, <3>4 DEF AgeOrder
    <3> QED
      BY <3>2, <3>3, <3>4
  <2> QED
    BY <2>2, <2>4 DEF AgeOrder
<1>2. CASE ~Exists(f)
  <2>1. dir' = dir
    BY <1>2 DEF Rename
  <2> QED
    BY <2>1 DEF Injective, AgeOrder, Content, Exists
<1> QED
  BY <1>1, <1>2

\* A line of a process that has the files to itself goes to filename.log.
LEMMA WriteContents ==
  ASSUME TypeOK, AgeInv, NEW p \in Proc, Write(p)
  PROVE  /\ Exists(LogPath)
         /\ Content(LogPath)' = Content(LogPath) \union {lines + 1}
         /\ \A g \in Path : g # LogPath => Content(g)' = Content(g)
<1>0. PICK e \in Inode : e = fd[p]
  BY DEF Write, TypeOK, Inode, NoFile
<1>1. e = dir[LogPath] /\ Exists(LogPath)
  BY <1>0 DEF AgeInv, OpenIsCurrent, Write, Exists, TypeOK, NoFile
<1>2. Content(LogPath)' = Content(LogPath) \union {lines + 1}
  BY <1>0, <1>1, PathFacts DEF Write, Content, Exists, TypeOK, Inode
<1>3. ASSUME NEW g \in Path, g # LogPath PROVE Content(g)' = Content(g)
  <2>1. dir'[g] = dir[g] /\ dir[g] # e
    BY <1>1, <1>3, PathFacts DEF Write, AgeInv, Injective, Exists
  <2>2. Exists(g) => dir[g] \in Inode
    BY DEF TypeOK, Exists, Inode, NoFile
  <2> QED
    BY <1>0, <2>1, <2>2 DEF Write, Content, Exists, TypeOK, Inode
<1> QED
  BY <1>1, <1>2, <1>3

\* A line written to filename.log is newer than every other.
LEMMA WriteKeepsOrder ==
  ASSUME TypeOK, AgeInv, NEW p \in Proc, Write(p)
  PROVE  Injective' /\ AgeOrder'
<1>2. Content(LogPath)' = Content(LogPath) \union {lines + 1}
  BY WriteContents
<1>3. \A g \in Path : g # LogPath => Content(g)' = Content(g)
  BY WriteContents
<1>4. \A g \in Path : Content(g) \subseteq 1 .. lines
  BY DEF Content, Exists, TypeOK, NoFile
<1>5. \A g \in Path : g # LogPath => LogPath < g /\ ~(g < LogPath)
  BY PathFacts DEF Path, LogPath
<1>6. ASSUME NEW g \in Path, NEW h \in Path, g < h,
             NEW l \in Content(g)', NEW m \in Content(h)'
      PROVE  m < l
  <2>1. h # LogPath
    BY <1>5, <1>6, PathFacts
  <2>2. m \in Content(h) /\ m \in 1 .. lines
    BY <1>3, <1>4, <1>6, <2>1
  <2>3. l \in Content(g) \/ l = lines + 1
    BY <1>2, <1>3, <1>6
  <2> QED
    BY <1>6, <2>2, <2>3 DEF AgeInv, AgeOrder, TypeOK
<1>7. AgeOrder'
  BY <1>6 DEF AgeOrder
<1> QED
  BY <1>7 DEF AgeInv, Injective, Exists, Write

\* fopen changes no content: a file it creates is empty.
LEMMA OpenContents ==
  ASSUME TypeOK, NEW p \in Proc, Open(p), NEW g \in Path
  PROVE  Content(g)' = Content(g)
<1>1. CASE Exists(LogPath)
  BY <1>1 DEF Open, Content, Exists
<1>2. CASE ~Exists(LogPath)
  <2>1. CASE g = LogPath
    <3>1. dir'[g] = Len(data) + 1 /\ data'[Len(data) + 1] = {}
      BY <1>2, <2>1 DEF Open, TypeOK
    <3>2. Content(g) = {}
      BY <1>2, <2>1 DEF Content
    <3> QED
      BY <3>1, <3>2 DEF Content, Exists
  <2>2. CASE g # LogPath
    <3>1. dir'[g] = dir[g] /\ (Exists(g) => dir[g] \in 1 .. Len(data))
      BY <1>2, <2>2 DEF Open, TypeOK, Exists, NoFile
    <3> QED
      BY <1>2, <3>1 DEF Open, Content, Exists, TypeOK
  <2> QED
    BY <2>1, <2>2
<1> QED
  BY <1>1, <1>2

\* A single process writes to filename.log only, so that the order is kept.
LEMMA AgeInvariance ==
  ASSUME NEW s, Proc = {s}
  PROVE  Spec => []AgeInv
<1>1. Init => AgeInv
  BY PathFacts DEF Init, AgeInv, Injective, AgeOrder, OpenIsCurrent, Exists, Content
<1>2. TypeOK /\ AgeInv /\ [Next]_vars => AgeInv'
  <2> SUFFICES ASSUME TypeOK, AgeInv, [Next]_vars PROVE AgeInv'
    OBVIOUS
  <2> DEFINE Same == dir' = dir /\ data' = data
             Quiet == \A q \in Proc : pc'[q] = "write" => pc[q] = "write" /\ fd'[q] = fd[q]
  <2>0. /\ Same => Injective' /\ AgeOrder'
        /\ Same /\ Quiet => AgeInv'
    BY DEF AgeInv, Injective, AgeOrder, OpenIsCurrent, Exists, Content
  <2>p. \A p \in Proc : p = s
    OBVIOUS
  <2> USE DEF Goto, disk
  <2>1. ASSUME NEW p \in Proc, DoLog(p) PROVE Same /\ Quiet
    BY <2>1 DEF DoLog, TypeOK
  <2>2. ASSUME NEW p \in Proc, Open(p) PROVE AgeInv'
    <3>1. OpenIsCurrent'
      BY <2>2, <2>p, PathFacts DEF Open, TypeOK, OpenIsCurrent
    <3>2. CASE Exists(LogPath)
      BY <2>0, <2>2, <3>1, <3>2 DEF Open, AgeInv
    <3>3. CASE ~Exists(LogPath)
      <4>1. /\ dir'[LogPath] = Len(data) + 1
            /\ \A g \in Path : g # LogPath => dir'[g] = dir[g]
            /\ \A g \in Path : dir[g] # Len(data) + 1
        BY <2>2, <3>3, PathFacts DEF Open, TypeOK
      <4>2. Injective'
        BY <4>1 DEF AgeInv, Injective, Exists
      <4>3. \A g \in Path : Content(g)' = Content(g)
        BY <2>2, OpenContents
      <4>4. AgeOrder'
        BY <4>3 DEF AgeOrder, AgeInv
      <4> QED
        BY <3>1, <4>2, <4>4 DEF AgeInv
    <3> QED
      BY <3>2, <3>3
  <2>3. ASSUME NEW p \in Proc, OpenFails(p) PROVE Same /\ Quiet
    BY <2>3 DEF OpenFails, TypeOK
  <2>4. ASSUME NEW p \in Proc, Write(p) PROVE AgeInv'
    <3>1. OpenIsCurrent'
      BY <2>4, <2>p DEF Write, TypeOK, OpenIsCurrent
    <3> QED
      BY <2>4, <3>1, WriteKeepsOrder DEF AgeInv
  <2>5. ASSUME NEW p \in Proc, Stat(p) PROVE Same /\ Quiet
    BY <2>5 DEF Stat, TypeOK
  <2>6. ASSUME NEW p \in Proc, MoveAside(p) PROVE AgeInv'
    <3>1. OpenIsCurrent'
      BY <2>6, <2>p DEF MoveAside, AsideFrom, TypeOK, OpenIsCurrent
    <3>2. TmpPath = LogPath + 1
      BY DEF TmpPath, LogPath
    <3> QED
      BY <2>6, <3>1, <3>2, RenameKeepsOrder, PathFacts DEF MoveAside, AsideFrom, AgeInv
  <2>7. ASSUME NEW p \in Proc, Shift(p) PROVE AgeInv'
    <3>1. OpenIsCurrent'
      BY <2>7, <2>p DEF Shift, TypeOK, OpenIsCurrent
    <3>2. idx[p] \in Path /\ idx[p] + 1 \in Path
      BY <2>7, PathFacts DEF Shift, TypeOK
    <3> QED
      BY <2>7, <3>1, <3>2, RenameKeepsOrder DEF Shift, AgeInv
  <2>8. ASSUME NEW p \in Proc, MoveBack(p) PROVE AgeInv'
    <3>1. OpenIsCurrent'
      BY <2>8, <2>p DEF MoveBack, TypeOK, OpenIsCurrent
    <3>2. 1 = TmpPath + 1
      BY DEF TmpPath
    <3> QED
      BY <2>8, <3>1, <3>2, RenameKeepsOrder, PathFacts DEF MoveBack, AgeInv
  <2>9. ASSUME NEW p \in Proc, Chmod(p) PROVE Same /\ Quiet
    BY <2>9 DEF Chmod, TypeOK
  <2>10. ASSUME NEW p \in Proc, Crash(p) PROVE Same /\ Quiet
    BY <2>10 DEF Crash, TypeOK
  <2>11. ASSUME Switch PROVE Same /\ Quiet
    BY <2>11 DEF Switch
  <2>12. ASSUME UNCHANGED vars PROVE Same /\ Quiet
    BY <2>12 DEF vars
  <2> QED
    BY <2>0, <2>1, <2>2, <2>3, <2>4, <2>5, <2>6, <2>7, <2>8, <2>9, <2>10,
       <2>11, <2>12 DEF Next, Step
<1> QED
  BY <1>1, <1>2, TypeInvariance, PTL DEF Spec

\* For a single process, killed and restarted as often as may be, the files
\* are ordered by age at every moment of every rotation.
THEOREM AgeOrdered ==
  ASSUME NEW s, Proc = {s}
  PROVE  Spec => []AgeOrder
<1>1. AgeInv => AgeOrder
  BY DEF AgeInv
<1> QED
  BY <1>1, AgeInvariance, PTL

(***************************************************************************)
(* Nothing but the oldest lines is lost                                    *)
(***************************************************************************)

\* At least n lines were written after each line of filename{f}.log.
NewerThan(f, n) == \A l \in Content(f) : lines - l >= n

\* Between two rotations filename{f}.log has f-1 full files, and what is in
\* filename.log, before it; one more full file once that has been moved
\* aside, until the loop has moved filename{f}.log as well.
Spacing ==
  \A p \in Proc :
    /\ pc[p] = "aside" /\ Exists(LogPath) => Cardinality(Content(LogPath)) >= MaxSize
    /\ pc[p] = "shift" =>
         /\ ~Exists(LogPath)
         /\ idx[p] # MaxNum - 2 => idx[p] \in Nat /\ ~Exists(idx[p] + 1)
         /\ \A f \in 1 .. LastIndex :
              IF f <= idx[p] \/ idx[p] = MaxNum - 2
                THEN NewerThan(f, f * MaxSize)
                ELSE NewerThan(f, f * MaxSize - MaxSize)
    /\ pc[p] # "shift" =>
         /\ ~Exists(TmpPath)
         /\ \A f \in 1 .. LastIndex :
              NewerThan(f, f * MaxSize - MaxSize + Cardinality(Content(LogPath)))

KeptInv == Spacing /\ NewestKept

\* The numbers of the invariant are integers, and one file more is MaxSize more.
LEMMA SpacingFacts ==
  ASSUME TypeOK
  PROVE  /\ \A f \in Path : Content(f) \subseteq 1 .. lines
         /\ \A f \in Path : /\ IsFiniteSet(Content(f))
                            /\ Cardinality(Content(f)) \in Nat
         /\ \A f \in 1 .. LastIndex : f \in Path /\ f \in Int /\ f # LogPath /\ f # TmpPath
         /\ \A f \in Int : f * MaxSize \in Int /\ (f + 1) * MaxSize = f * MaxSize + MaxSize
         /\ MaxSize \in Nat \ {0} /\ lines \in Nat /\ OnDisk \subseteq 1 .. lines
<1>1. \A f \in Path : Content(f) \subseteq 1 .. lines
  BY DEF Content, Exists, TypeOK, NoFile
<1>2. IsFiniteSet(1 .. lines)
  BY FS_Interval DEF TypeOK
<1>3. \A f \in Path : IsFiniteSet(Content(f)) /\ Cardinality(Content(f)) \in Nat
  BY <1>1, <1>2, FS_Subset, FS_CardinalityType
<1>4. \A f \in 1 .. LastIndex : f \in Path /\ f \in Int /\ f # LogPath /\ f # TmpPath
  BY PathFacts DEF Path, LogPath, TmpPath
<1>5. \A f \in Int : f * MaxSize \in Int /\ (f + 1) * MaxSize = f * MaxSize + MaxSize
  BY SizeAssumption
<1>6. OnDisk \subseteq 1 .. lines
  BY <1>1 DEF OnDisk
<1> QED
  BY <1>1, <1>3, <1>4, <1>5, <1>6, SizeAssumption DEF TypeOK

\* A step that keeps the contents, and the files that exist, and does not
\* rotate keeps the spacing.
LEMMA QuietKeeps ==
  ASSUME TypeOK, KeptInv, lines' = lines,
         \A f \in Path : Content(f)' = Content(f),
         Exists(TmpPath)' = Exists(TmpPath),
         \A p \in Proc : /\ pc[p] # "shift" /\ pc'[p] # "shift"
                         /\ pc'[p] = "aside" /\ Exists(LogPath)'
                              => Cardinality(Content(LogPath)) >= MaxSize
  PROVE  KeptInv'
<1>1. Content(LogPath)' = Content(LogPath)
  BY PathFacts
<1>2. OnDisk' = OnDisk
  BY DEF OnDisk
<1>3. NewestKept'
  BY <1>2 DEF KeptInv, NewestKept
<1>4. \A f \in 1 .. LastIndex : Content(f)' = Content(f)
  BY SpacingFacts
<1>5. Spacing'
  BY <1>1, <1>4 DEF KeptInv, Spacing, NewerThan
<1> QED
  BY <1>3, <1>5 DEF KeptInv

\* What a rename may replace: nothing, or the oldest file when as many lines
\* as Floor were written after it.
Expendable(f) ==
  Content(f) # {} => f = LastIndex /\ NewerThan(f, LastIndex * MaxSize)

\* A rename loses at most the lines of the file it replaces.
LEMMA RenameKeepsRest ==
  ASSUME TypeOK, NewestKept, data' = data, lines' = lines,
         NEW f \in Path, NEW g \in Path, f # g, Rename(f, g),
         Exists(f) => Expendable(g)
  PROVE  NewestKept'
<1>1. CASE Exists(f)
  <2> SUFFICES ASSUME NEW l \in 1 .. lines, lines - l < LastIndex * MaxSize
               PROVE  l \in OnDisk'
    BY DEF NewestKept
  <2>1. PICK h \in Path : l \in Content(h)
    BY DEF NewestKept, OnDisk
  <2>2. h # g
    <3>1. PICK n \in Int : n = LastIndex * MaxSize
      BY PathFacts, SpacingFacts
    <3>2. lines \in Int /\ l \in Int /\ lines - l < n
      BY <3>1, SpacingFacts
    <3>3. l \in Content(g) => lines - l >= n
      BY <1>1, <3>1 DEF NewerThan, Expendable
    <3> QED
      BY <2>1, <3>2, <3>3
  <2>3. \E k \in Path : l \in Content(k)'
    BY <1>1, <2>1, <2>2, RenameContents
  <2> QED
    BY <2>3 DEF OnDisk
<1>2. CASE ~Exists(f)
  <2>1. OnDisk' = OnDisk
    BY <1>2 DEF Rename, OnDisk, Content, Exists
  <2> QED
    BY <2>1 DEF NewestKept
<1> QED
  BY <1>1, <1>2

\* A line in filename.log is one more line after all others.
LEMMA WriteKeeps ==
  ASSUME NEW s, Proc = {s}, TypeOK, AgeInv, KeptInv, Write(s)
  PROVE  KeptInv'
<1>1. /\ pc[s] = "write" /\ pc'[s] = "stat" /\ lines' = lines + 1 /\ dir' = dir
      /\ s \in Proc
  BY DEF Write, Goto, TypeOK
<1>0. lines \in Nat /\ MaxSize \in Nat
  BY SpacingFacts
<1>2. /\ Content(LogPath)' = Content(LogPath) \union {lines + 1}
      /\ \A g \in Path : g # LogPath => Content(g)' = Content(g)
  BY <1>1, WriteContents
<1>3. Cardinality(Content(LogPath)') = Cardinality(Content(LogPath)) + 1
  <2>1. lines + 1 \notin Content(LogPath)
    BY SpacingFacts, PathFacts
  <2> QED
    BY <1>2, <2>1, SpacingFacts, PathFacts, FS_AddElement
<1>4. NewestKept'
  <2>0. PICK n \in Int : n = LastIndex * MaxSize
    BY PathFacts, SpacingFacts
  <2> SUFFICES ASSUME NEW l \in 1 .. lines + 1, lines + 1 - l < n
               PROVE  l \in OnDisk'
    BY <1>0, <1>1, <2>0 DEF NewestKept
  <2>1. CASE l = lines + 1
    BY <1>2, <2>1, PathFacts DEF OnDisk
  <2>2. CASE l # lines + 1
    <3>1. l \in 1 .. lines /\ lines - l < n
      BY <1>0, <2>2
    <3>2. PICK h \in Path : l \in Content(h)
      BY <2>0, <3>1 DEF KeptInv, NewestKept, OnDisk
    <3> QED
      BY <1>2, <3>2 DEF OnDisk
  <2> QED
    BY <2>1, <2>2
<1>5. ~Exists(TmpPath)'
  BY <1>1 DEF KeptInv, Spacing, Exists
<1>6. ASSUME NEW f \in 1 .. LastIndex
      PROVE  NewerThan(f, f * MaxSize - MaxSize + Cardinality(Content(LogPath)))'
  <2>1. f \in Path /\ Content(f)' = Content(f) /\ Content(f) \subseteq 1 .. lines
    BY <1>2, SpacingFacts
  <2>2. NewerThan(f, f * MaxSize - MaxSize + Cardinality(Content(LogPath)))
    BY <1>1 DEF KeptInv, Spacing
  <2>3. PICK n \in Int : n = f * MaxSize
    BY SpacingFacts
  <2>4. PICK c \in Nat : c = Cardinality(Content(LogPath))
    BY SpacingFacts, PathFacts
  <2>5. ASSUME NEW l \in Content(f) PROVE lines + 1 - l >= n - MaxSize + (c + 1)
    <3>1. l \in Int
      BY <2>1
    <3>2. lines - l >= n - MaxSize + c
      BY <2>2, <2>3, <2>4 DEF NewerThan
    <3> QED
      BY <1>0, <3>1, <3>2
  <2>6. n - MaxSize + (c + 1) = f * MaxSize - MaxSize + Cardinality(Content(LogPath)')
    BY <1>3, <2>3, <2>4
  <2>7. \A l \in Content(f)' :
          lines' - l >= f * MaxSize - MaxSize + Cardinality(Content(LogPath)')
    <3>1. \A l \in Content(f)' : lines' - l >= n - MaxSize + (c + 1)
      BY <1>0, <1>1, <2>1, <2>5
    <3> QED
      BY <2>6, <3>1, Zenon
  <2> QED
    BY <2>7, Zenon DEF NewerThan
<1>7. Spacing'
  BY <1>1, <1>5, <1>6 DEF Spacing
<1> QED
  BY <1>4, <1>7 DEF KeptInv

\* filename.log is at its limit when it is moved aside: one full file more
\* before each of the others.
LEMMA MoveAsideKeeps ==
  ASSUME NEW s, Proc = {s}, TypeOK, KeptInv, MoveAside(s)
  PROVE  KeptInv'
<1>1. pc[s] = "aside" /\ s \in Proc /\ lines' = lines /\ data' = data
      /\ Rename(LogPath, TmpPath) /\ idx'[s] = MaxNum - 2
  BY DEF MoveAside, AsideFrom, TypeOK, disk
<1>2. CASE Exists(LogPath)
  <2>1. pc'[s] = "shift"
    BY <1>2 DEF MoveAside, AsideFrom, Goto, TypeOK
  <2>2. /\ ~Exists(LogPath)'
        /\ \A f \in 1 .. LastIndex : Content(f)' = Content(f)
    BY <1>1, <1>2, RenameContents, PathFacts, SpacingFacts
  <2>3. ~Exists(TmpPath) /\ Cardinality(Content(LogPath)) >= MaxSize
    BY <1>1, <1>2 DEF KeptInv, Spacing
  <2>4. NewestKept'
    <3>1. Expendable(TmpPath)
      BY <2>3 DEF Expendable, Content
    <3> QED
      BY <1>1, <3>1, RenameKeepsRest, PathFacts DEF KeptInv
  <2>5. ASSUME NEW f \in 1 .. LastIndex PROVE NewerThan(f, f * MaxSize)'
    <3>1. PICK n \in Int : n = f * MaxSize
      BY SpacingFacts
    <3>2. PICK c \in Nat : c = Cardinality(Content(LogPath))
      BY SpacingFacts, PathFacts
    <3>3. NewerThan(f, n - MaxSize + c) /\ c >= MaxSize
      BY <1>1, <2>3, <3>1, <3>2 DEF KeptInv, Spacing
    <3>4. MaxSize \in Int /\ lines \in Int /\ Content(f) \subseteq 1 .. lines
      BY SpacingFacts
    <3>5. \A l \in Content(f) : lines - l >= n
      BY <3>3, <3>4 DEF NewerThan
    <3> QED
      BY <1>1, <2>2, <3>1, <3>5 DEF NewerThan
  <2>6. Spacing'
    BY <1>1, <2>1, <2>2, <2>5 DEF Spacing
  <2> QED
    BY <2>4, <2>6 DEF KeptInv
<1>3. CASE ~Exists(LogPath)
  <2>1. dir' = dir /\ pc'[s] = "chmod"
    BY <1>1, <1>3 DEF MoveAside, AsideFrom, Rename, Goto, TypeOK
  <2>2. \A f \in Path : Content(f)' = Content(f)
    BY <1>1, <2>1 DEF Content, Exists
  <2> QED
    BY <1>1, <2>1, <2>2, QuietKeeps DEF Exists
<1> QED
  BY <1>2, <1>3

\* The loop moves a file to a free number, or to the last one, whose lines
\* are old enough to go.
LEMMA ShiftFits ==
  ASSUME NEW s \in Proc, TypeOK, KeptInv, Shift(s)
  PROVE  Expendable(idx[s] + 1)
<1>0. PICK i \in Int : i = idx[s]
  BY DEF TypeOK
<1>1. pc[s] = "shift" /\ i > 0 /\ i < LastIndex
  BY <1>0 DEF Shift, TypeOK
<1>2. i + 1 \in 1 .. LastIndex
  BY <1>1, PathFacts
<1>3. CASE i = MaxNum - 2
  <2>1. i + 1 = LastIndex
    BY <1>1, <1>3, NumAssumption DEF LastIndex
  <2>2. NewerThan(i + 1, (i + 1) * MaxSize)
    BY <1>0, <1>1, <1>2, <1>3 DEF KeptInv, Spacing
  <2> QED
    BY <1>0, <2>1, <2>2 DEF Expendable
<1>4. CASE i # MaxNum - 2
  BY <1>0, <1>1, <1>4 DEF KeptInv, Spacing, Expendable, Content
<1> QED
  BY <1>3, <1>4

\* The last rename fills the number the loop has freed, or the only one.
LEMMA MoveBackFits ==
  ASSUME NEW s \in Proc, TypeOK, KeptInv, MoveBack(s)
  PROVE  Expendable(1)
<1>0. PICK i \in Int : i = idx[s]
  BY DEF TypeOK
<1>1. pc[s] = "shift" /\ i <= 0
  BY <1>0 DEF MoveBack
<1>2. CASE i = MaxNum - 2
  <2>1. LastIndex = 1 /\ 1 \in 1 .. LastIndex
    BY <1>1, <1>2, NumAssumption DEF LastIndex
  <2>2. NewerThan(1, 1 * MaxSize)
    BY <1>0, <1>1, <1>2, <2>1 DEF KeptInv, Spacing
  <2> QED
    BY <2>1, <2>2 DEF Expendable
<1>3. CASE i # MaxNum - 2
  <2>1. i \in Nat /\ ~Exists(i + 1)
    BY <1>0, <1>1, <1>3 DEF KeptInv, Spacing
  <2>2. i + 1 = 1
    BY <1>1, <2>1
  <2> QED
    BY <2>1, <2>2 DEF Expendable, Content
<1> QED
  BY <1>2, <1>3

\* A file of the loop keeps its distance.
LEMMA ShiftKeeps ==
  ASSUME NEW s, Proc = {s}, TypeOK, KeptInv, Shift(s)
  PROVE  KeptInv'
<1>0. PICK i \in Int : i = idx[s]
  BY DEF TypeOK
<1>1. /\ pc[s] = "shift" /\ pc'[s] = "shift" /\ s \in Proc
      /\ lines' = lines /\ data' = data
      /\ i > 0 /\ i < LastIndex /\ idx'[s] = i - 1
      /\ Rename(i, i + 1)
  BY <1>0 DEF Shift, TypeOK, disk
<1>2. /\ ~Exists(LogPath)
      /\ i # MaxNum - 2 => ~Exists(i + 1)
      /\ \A f \in 1 .. LastIndex :
           IF f <= i \/ i = MaxNum - 2
             THEN NewerThan(f, f * MaxSize)
             ELSE NewerThan(f, f * MaxSize - MaxSize)
  BY <1>0, <1>1 DEF KeptInv, Spacing
<1>3. /\ i \in Path /\ i + 1 \in Path /\ i \in 1 .. LastIndex /\ i + 1 \in 1 .. LastIndex
      /\ i # i + 1 /\ i # LogPath /\ i + 1 # LogPath
  BY <1>1, PathFacts
<1>4. Expendable(i + 1)
  BY <1>0, <1>1, ShiftFits
<1>6. NewestKept'
  BY <1>1, <1>3, <1>4, RenameKeepsRest DEF KeptInv
<1>7. ~Exists(LogPath)' /\ ~Exists(i)'
  <2>1. CASE Exists(i)
    BY <1>1, <1>2, <1>3, <2>1, RenameContents, PathFacts
  <2>2. CASE ~Exists(i)
    BY <1>1, <1>2, <2>2 DEF Rename, Exists
  <2> QED
    BY <2>1, <2>2
<1>8. ASSUME NEW f \in 1 .. LastIndex
      PROVE  IF f <= i - 1
               THEN NewerThan(f, f * MaxSize)'
               ELSE NewerThan(f, f * MaxSize - MaxSize)'
  <2>1. /\ f \in Path /\ f \in Int /\ f * MaxSize \in Int /\ MaxSize \in Nat
        /\ (i + 1) * MaxSize = i * MaxSize + MaxSize /\ i * MaxSize \in Int
        /\ lines \in Int /\ Content(f) \subseteq 1 .. lines
    BY <1>1, SpacingFacts
  <2>2. NewerThan(f, f * MaxSize - MaxSize)
    <3>1. NewerThan(f, f * MaxSize) \/ NewerThan(f, f * MaxSize - MaxSize)
      BY <1>2
    <3> DEFINE n == f * MaxSize
    <3>2. n \in Int
      BY <2>1
    <3>3. NewerThan(f, n) => NewerThan(f, n - MaxSize)
      <4> HIDE DEF n
      <4> QED
        BY <2>1, <3>2 DEF NewerThan
    <3> QED
      BY <3>1, <3>3
  <2>3. f <= i - 1 => NewerThan(f, f * MaxSize)
    BY <1>1, <1>2, <2>1
  <2>4. CASE Exists(i) /\ f = i + 1
    <3>1. Content(f)' = Content(i)
      BY <1>1, <1>3, <2>4, RenameContents
    <3>2. NewerThan(i, i * MaxSize)
      BY <1>1, <1>2, <1>3
    <3>3. f * MaxSize - MaxSize = i * MaxSize
      <4> DEFINE n == i * MaxSize
                 m == (i + 1) * MaxSize
      <4>1. n \in Int /\ m = n + MaxSize
        BY <2>1
      <4> HIDE DEF n, m
      <4>2. m - MaxSize = n
        BY <4>1, <2>1
      <4> QED
        BY <2>4, <4>2 DEF n, m
    <3>4. NewerThan(f, f * MaxSize - MaxSize)'
      BY <1>1, <3>1, <3>2, <3>3 DEF NewerThan
    <3> QED
      BY <1>1, <2>1, <2>4, <3>4
  <2>5. CASE ~(Exists(i) /\ f = i + 1)
    <3>1. Content(f)' = Content(f) \/ Content(f)' = {}
      <4>1. CASE Exists(i)
        BY <1>1, <1>3, <2>1, <2>5, <4>1, RenameContents
      <4>2. CASE ~Exists(i)
        BY <1>1, <4>2 DEF Rename, Content, Exists
      <4> QED
        BY <4>1, <4>2
    <3>2. /\ NewerThan(f, f * MaxSize - MaxSize)'
          /\ f <= i - 1 => NewerThan(f, f * MaxSize)'
      BY <1>1, <2>2, <2>3, <3>1 DEF NewerThan
    <3> QED
      BY <3>2
  <2> QED
    BY <2>4, <2>5
<1>9. idx'[s] # MaxNum - 2 /\ idx'[s] \in Nat /\ idx'[s] + 1 = i
  BY <1>1, NumAssumption DEF LastIndex
<1>10. Spacing'
  BY <1>1, <1>7, <1>8, <1>9 DEF Spacing
<1> QED
  BY <1>6, <1>10 DEF KeptInv
\* The rotated file becomes the first, with nothing after it.
LEMMA MoveBackKeeps ==
  ASSUME NEW s, Proc = {s}, TypeOK, KeptInv, MoveBack(s)
  PROVE  KeptInv'
<1>0. PICK i \in Int : i = idx[s]
  BY DEF TypeOK
<1>1. /\ pc[s] = "shift" /\ pc'[s] = "chmod" /\ s \in Proc
      /\ lines' = lines /\ data' = data /\ i <= 0
      /\ Rename(TmpPath, 1)
  BY <1>0 DEF MoveBack, Goto, TypeOK, disk
<1>2. /\ ~Exists(LogPath)
      /\ i # MaxNum - 2 => i = 0 /\ ~Exists(i + 1)
      /\ \A f \in 1 .. LastIndex :
           IF f <= i \/ i = MaxNum - 2
             THEN NewerThan(f, f * MaxSize)
             ELSE NewerThan(f, f * MaxSize - MaxSize)
  BY <1>0, <1>1 DEF KeptInv, Spacing
<1>3. Expendable(1)
  BY <1>1, MoveBackFits
<1>4. NewestKept'
  BY <1>1, <1>3, RenameKeepsRest, PathFacts DEF KeptInv
<1>5. ~Exists(LogPath)' /\ ~Exists(TmpPath)'
  <2>1. CASE Exists(TmpPath)
    BY <1>1, <1>2, <2>1, RenameContents, PathFacts
  <2>2. CASE ~Exists(TmpPath)
    BY <1>1, <1>2, <2>2 DEF Rename, Exists
  <2> QED
    BY <2>1, <2>2
<1>6. Cardinality(Content(LogPath)') = 0
  BY <1>5, FS_EmptySet DEF Content
<1>7. ASSUME NEW f \in 1 .. LastIndex
      PROVE  NewerThan(f, f * MaxSize - MaxSize + 0)'
  <2>1. PICK n \in Int : n = f * MaxSize
    BY SpacingFacts
  <2>2. /\ f \in Path /\ Content(f) \subseteq 1 .. lines /\ lines \in Nat
        /\ MaxSize \in Nat /\ Content(TmpPath) \subseteq 1 .. lines
        /\ f # LogPath /\ f # TmpPath
    BY SpacingFacts, PathFacts
  <2>3. NewerThan(f, n - MaxSize)
    <3>1. NewerThan(f, n) \/ NewerThan(f, n - MaxSize)
      BY <1>2, <2>1
    <3> QED
      BY <2>2, <3>1 DEF NewerThan
  <2>4. \A l \in Content(f)' : lines - l >= n - MaxSize + 0
    <3>1. CASE Exists(TmpPath) /\ f = 1
      <4>1. Content(f)' = Content(TmpPath)
        BY <1>1, <3>1, RenameContents, PathFacts
      <4>2. n - MaxSize + 0 = 0
        BY <2>1, <2>2, <3>1
      <4> QED
        BY <2>2, <4>1, <4>2
    <3>2. CASE ~(Exists(TmpPath) /\ f = 1)
      <4>1. Content(f)' = Content(f)
        <5>1. CASE Exists(TmpPath)
          BY <1>1, <2>2, <3>2, <5>1, RenameContents, PathFacts
        <5>2. CASE ~Exists(TmpPath)
          BY <1>1, <5>2 DEF Rename, Content, Exists
        <5> QED
          BY <5>1, <5>2
      <4> QED
        BY <2>2, <2>3, <4>1 DEF NewerThan
    <3> QED
      BY <3>1, <3>2
  <2> QED
    BY <1>1, <2>1, <2>4 DEF NewerThan
<1>8. Spacing'
  BY <1>1, <1>5, <1>6, <1>7 DEF Spacing
<1> QED
  BY <1>4, <1>8 DEF KeptInv

\* One process that is not killed keeps the files apart.
LEMMA KeptInvariance ==
  ASSUME NEW s, Proc = {s}, MaxCrashes = 0
  PROVE  Spec => []KeptInv
<1>1. Init => KeptInv
  <2> SUFFICES ASSUME Init PROVE KeptInv
    OBVIOUS
  <2>1. \A f \in Path : ~Exists(f) /\ Content(f) = {}
    BY DEF Init, Exists, Content
  <2>2. \A f \in 1 .. LastIndex : f \in Path
    BY DEF Path, LogPath
  <2>3. NewestKept
    BY DEF Init, NewestKept
  <2>4. \A p \in Proc : pc[p] = "idle"
    BY DEF Init
  <2> QED
    BY <2>1, <2>2, <2>3, <2>4, PathFacts DEF KeptInv, Spacing, NewerThan
<1>2. TypeOK /\ AgeInv /\ KeptInv /\ [Next]_vars => KeptInv'
  <2> SUFFICES ASSUME TypeOK, AgeInv, KeptInv, [Next]_vars PROVE KeptInv'
    OBVIOUS
  <2>p. \A p \in Proc : p = s
    OBVIOUS
  <2>0. ASSUME lines' = lines, data' = data, dir' = dir,
               \A p \in Proc : /\ pc[p] # "shift" /\ pc'[p] # "shift"
                               /\ pc'[p] = "aside" /\ Exists(LogPath)
                                    => Cardinality(Content(LogPath)) >= MaxSize
        PROVE  KeptInv'
    <3>1. \A f \in Path : Content(f)' = Content(f) /\ Exists(f)' = Exists(f)
      BY <2>0 DEF Content, Exists
    <3> QED
      BY <2>0, <3>1, QuietKeeps, PathFacts
  <2> USE DEF Goto, disk
  <2>1. ASSUME NEW p \in Proc, DoLog(p) PROVE KeptInv'
    BY <2>p, <2>0, <2>1 DEF DoLog, TypeOK
  <2>2. ASSUME NEW p \in Proc, Open(p) PROVE KeptInv'
    <3>1. \A f \in Path : Content(f)' = Content(f)
      BY <2>2, OpenContents
    <3>2. Exists(TmpPath)' = Exists(TmpPath) /\ lines' = lines
      BY <2>2, PathFacts DEF Open, Exists, TypeOK
    <3>3. \A q \in Proc : pc[q] = "open" /\ pc'[q] = "write"
      BY <2>p, <2>2 DEF Open, TypeOK
    <3> QED
      BY <3>1, <3>2, <3>3, QuietKeeps
  <2>3. ASSUME NEW p \in Proc, OpenFails(p) PROVE KeptInv'
    BY <2>p, <2>0, <2>3 DEF OpenFails, TypeOK
  <2>4. ASSUME NEW p \in Proc, Write(p) PROVE KeptInv'
    BY <2>p, <2>4, WriteKeeps
  <2>5. ASSUME NEW p \in Proc, Stat(p) PROVE KeptInv'
    <3>1. Exists(LogPath) /\ pc'[p] = "aside" => Cardinality(Content(LogPath)) >= MaxSize
      <4>1. Cardinality(Content(LogPath)) \in Nat /\ MaxSize \in Nat
        BY SpacingFacts, PathFacts
      <4>2. Exists(LogPath) /\ pc'[p] = "aside" => ~(Cardinality(Content(LogPath)) < MaxSize)
        BY <2>5 DEF Stat, TypeOK
      <4> QED
        BY <4>1, <4>2
    <3>2. pc[p] = "stat" /\ pc'[p] # "shift"
      BY <2>5 DEF Stat, TypeOK
    <3> QED
      BY <2>p, <2>0, <2>5, <3>1, <3>2 DEF Stat
  <2>6. ASSUME NEW p \in Proc, MoveAside(p) PROVE KeptInv'
    BY <2>p, <2>6, MoveAsideKeeps
  <2>7. ASSUME NEW p \in Proc, Shift(p) PROVE KeptInv'
    BY <2>p, <2>7, ShiftKeeps
  <2>8. ASSUME NEW p \in Proc, MoveBack(p) PROVE KeptInv'
    BY <2>p, <2>8, MoveBackKeeps
  <2>9. ASSUME NEW p \in Proc, Chmod(p) PROVE KeptInv'
    BY <2>p, <2>0, <2>9 DEF Chmod, TypeOK
  <2>10. ASSUME NEW p \in Proc, Crash(p) PROVE KeptInv'
    BY <2>10 DEF Crash, TypeOK
  <2>11. CASE dir' = dir /\ data' = data /\ lines' = lines /\ pc' = pc /\ idx' = idx
    <3>1. \A f \in Path : Content(f)' = Content(f) /\ Exists(f)' = Exists(f)
      BY <2>11 DEF Content, Exists
    <3>2. OnDisk' = OnDisk
      BY <3>1 DEF OnDisk
    <3>3. \A f \in 1 .. LastIndex : Content(f)' = Content(f)
      BY <3>1, SpacingFacts
    <3>4. Exists(LogPath)' = Exists(LogPath) /\ Exists(TmpPath)' = Exists(TmpPath)
          /\ Content(LogPath)' = Content(LogPath)
          /\ \A i : Exists(i)' = Exists(i)
      BY <2>11, <3>1, PathFacts DEF Exists
    <3> QED
      BY <2>11, <3>2, <3>3, <3>4 DEF KeptInv, Spacing, NewestKept, NewerThan
  <2> QED
    BY <2>1, <2>2, <2>3, <2>4, <2>5, <2>6, <2>7, <2>8, <2>9, <2>10, <2>11
       DEF Next, Step, Switch, vars
<1> QED
  BY <1>1, <1>2, TypeInvariance, AgeInvariance, PTL DEF Spec

\* A single process that nobody kills never loses one of the newest
\* LastIndex * MaxSize lines, whatever the limits on size and number.
THEOREM NewestAreKept ==
  ASSUME NEW s, Proc = {s}, MaxCrashes = 0
  PROVE  Spec => []NewestKept
<1>1. KeptInv => NewestKept
  BY DEF KeptInv
<1> QED
  BY <1>1, KeptInvariance, PTL
(***************************************************************************)
(* The files are a rolling log                                             *)
(***************************************************************************)

\* Every file that is not empty has a newest line.
HasNewest ==
  \A f \in Path : Content(f) # {} =>
    \E m \in Content(f) : \A l \in Content(f) : l <= m

\* Contents change by a new newest line only, and renames carry them along.
LEMMA NewestInvariance ==
  ASSUME NEW s, Proc = {s}
  PROVE  Spec => []HasNewest
<1>1. Init => HasNewest
  BY DEF Init, HasNewest, Content, Exists
<1>2. TypeOK /\ AgeInv /\ HasNewest /\ [Next]_vars => HasNewest'
  <2> SUFFICES ASSUME TypeOK, AgeInv, HasNewest, [Next]_vars PROVE HasNewest'
    OBVIOUS
  <2>0. (\A f \in Path : \E g \in Path : Content(f)' = Content(g) \/ Content(f)' = {})
           => HasNewest'
    BY DEF HasNewest
  <2>1. ASSUME data' = data, NEW f \in Path, NEW g \in Path, f # g, Rename(f, g)
        PROVE  HasNewest'
    <3>1. CASE Exists(f)
      <4>1. \A h \in Path : \E k \in Path : Content(h)' = Content(k) \/ Content(h)' = {}
        BY <2>1, <3>1, RenameContents
      <4> QED
        BY <4>1, <2>0
    <3>2. CASE ~Exists(f)
      BY <2>0, <2>1, <3>2 DEF Rename, Content, Exists
    <3> QED
      BY <3>1, <3>2
  <2>2. ASSUME NEW p \in Proc, Open(p) PROVE HasNewest'
    BY <2>0, <2>2, OpenContents
  <2>3. ASSUME NEW p \in Proc, Write(p) PROVE HasNewest'
    <3>1. /\ Content(LogPath)' = Content(LogPath) \union {lines + 1}
          /\ \A g \in Path : g # LogPath => Content(g)' = Content(g)
      BY <2>3, WriteContents
    <3>2. Content(LogPath) \subseteq 1 .. lines /\ lines \in Nat
      BY SpacingFacts, PathFacts
    <3>3. \A l \in Content(LogPath)' : l <= lines + 1
      BY <3>1, <3>2
    <3> QED
      BY <3>1, <3>3 DEF HasNewest
  <2>4. ASSUME NEW p \in Proc, MoveAside(p) PROVE HasNewest'
    BY <2>1, <2>4, PathFacts DEF MoveAside, AsideFrom, disk
  <2>5. ASSUME NEW p \in Proc, Shift(p) PROVE HasNewest'
    <3>1. PICK i \in Int : i = idx[p]
      BY DEF TypeOK
    <3>2. i \in Path /\ i + 1 \in Path /\ i # i + 1
      BY <2>5, <3>1, PathFacts DEF Shift, TypeOK
    <3> QED
      BY <2>1, <2>5, <3>1, <3>2 DEF Shift, disk
  <2>6. ASSUME NEW p \in Proc, MoveBack(p) PROVE HasNewest'
    BY <2>1, <2>6, PathFacts DEF MoveBack, disk
  <2>7. CASE dir' = dir /\ data' = data
    BY <2>7, <2>0 DEF Content, Exists
  <2> QED
    BY <2>2, <2>3, <2>4, <2>5, <2>6, <2>7
       DEF Next, Step, DoLog, OpenFails, Stat, Chmod, Crash, Switch, vars, disk
<1> QED
  BY <1>1, <1>2, TypeInvariance, AgeInvariance, PTL DEF Spec

\* A rename of the rotation keeps all lines, or discards the oldest file
\* while Floor lines stay.
LEMMA RenameDiscards ==
  ASSUME TypeOK, AgeOrder, HasNewest, NewestKept', data' = data, lines' = lines,
         NEW f \in Path, f + 1 \in Path, Rename(f, f + 1),
         Exists(f) => Expendable(f + 1)
  PROVE  Rolling!Discard \/ UNCHANGED <<OnDisk, lines>>
<1>0. f \in Int /\ f # f + 1 /\ OnDisk' \subseteq 1 .. lines /\ OnDisk \subseteq 1 .. lines
  <2>1. OnDisk' \subseteq OnDisk
    <3>1. CASE Exists(f)
      BY <3>1, RenameContents, PathFacts DEF OnDisk
    <3>2. CASE ~Exists(f)
      BY <3>2 DEF Rename, OnDisk, Content, Exists
    <3> QED
      BY <3>1, <3>2
  <2>2. OnDisk \subseteq 1 .. lines
    BY SpacingFacts
  <2>3. f \in Int /\ f # f + 1
    BY PathFacts
  <2> QED
    BY <2>1, <2>2, <2>3
<1>1. CASE ~Exists(f)
  BY <1>1 DEF Rename, OnDisk, Content, Exists
<1>2. CASE Exists(f)
  <2>1. /\ Content(f)' = {} /\ Content(f + 1)' = Content(f)
        /\ \A h \in Path : h # f /\ h # f + 1 => Content(h)' = Content(h)
    BY <1>0, <1>2, RenameContents
  <2>2. CASE Content(f + 1) = {}
    <3>1. \A k : k \in OnDisk' <=> k \in OnDisk
      BY <2>1, <2>2 DEF OnDisk
    <3> QED
      BY <3>1
  <2>3. CASE Content(f + 1) # {}
    <3>1. PICK m \in Content(f + 1) : \A l \in Content(f + 1) : l <= m
      BY <2>3 DEF HasNewest
    <3>2. /\ f + 1 = LastIndex /\ NewerThan(f + 1, LastIndex * MaxSize)
          /\ \A h \in Path : h # f + 1 => h < f + 1
      BY <1>2, <2>3, PathFacts DEF Expendable, Path, LogPath
    <3>3. m \in OnDisk /\ m \in 1 .. lines
      BY <3>1, SpacingFacts DEF OnDisk
    <3>4. ASSUME NEW k \in OnDisk' PROVE k \in OnDisk /\ k > m
      <4>1. PICK h \in Path : k \in Content(h)'
        BY DEF OnDisk
      <4>2. PICK g \in Path : g # f + 1 /\ k \in Content(g)
        BY <1>0, <2>1, <4>1
      <4>3. m < k
        BY <3>1, <3>2, <4>2 DEF AgeOrder
      <4> QED
        BY <1>0, <3>3, <4>2, <4>3 DEF OnDisk
    <3>5. ASSUME NEW k \in OnDisk, k > m PROVE k \in OnDisk'
      <4>1. PICK h \in Path : k \in Content(h)
        BY DEF OnDisk
      <4>2. h # f + 1
        <5>1. k \in Int /\ m \in Int
          BY <1>0, <3>3
        <5> QED
          BY <3>1, <3>5, <4>1, <5>1
      <4>3. \E g \in Path : k \in Content(g)'
        BY <2>1, <4>1, <4>2
      <4> QED
        BY <4>3 DEF OnDisk
    <3>6. OnDisk' = {k \in OnDisk : k > m}
      BY <3>4, <3>5
    <3>7. Cardinality(OnDisk') >= LastIndex * MaxSize
      <4>1. PICK n \in Nat : n = LastIndex * MaxSize
        BY PathFacts, SizeAssumption
      <4>2. lines \in Nat /\ lines - m >= n
        BY <3>1, <3>2, <4>1, SpacingFacts DEF NewerThan
      <4>3. \A l \in lines - n + 1 .. lines : l \in 1 .. lines /\ lines - l < n
        BY <3>3, <4>1, <4>2
      <4>4. lines - n + 1 .. lines \subseteq OnDisk'
        BY <4>1, <4>3 DEF NewestKept
      <4>5. Cardinality(lines - n + 1 .. lines) = n
        BY <4>1, <4>2, FS_Interval
      <4>6. /\ IsFiniteSet(OnDisk') /\ Cardinality(OnDisk') \in Nat
            /\ n <= Cardinality(OnDisk')
        <5>1. IsFiniteSet(1 .. lines)
          BY <4>2, FS_Interval
        <5>2. IsFiniteSet(OnDisk')
          BY <1>0, <5>1, FS_Subset
        <5> QED
          BY <4>4, <4>5, <5>2, FS_Subset, FS_CardinalityType
      <4> QED
        BY <4>1, <4>6
    <3> QED
      BY <3>3, <3>6, <3>7, Zenon DEF Rolling!Discard, Rolling!Cardinality, Cardinality, Rolling!IsFiniteSet, IsFiniteSet
  <2> QED
    BY <2>2, <2>3
<1> QED
  BY <1>1, <1>2

\* Between any two system calls of a single process that nobody kills, the
\* files are a rolling log: a write appends one line, and a rotation only
\* ever discards the oldest lines, never one of the newest Floor.
THEOREM RotationRefines ==
  ASSUME NEW s, Proc = {s}, MaxCrashes = 0
  PROVE  Spec => RefinesRollingLog
<1>1. Init => Rolling!Init
  BY DEF Init, Rolling!Init, OnDisk, Content, Exists
<1>2. TypeOK /\ AgeInv /\ HasNewest /\ KeptInv /\ KeptInv' /\ [Next]_vars
        => [Rolling!Next]_<<OnDisk, lines>>
  <2> SUFFICES ASSUME TypeOK, AgeInv, HasNewest, KeptInv, KeptInv', [Next]_vars
               PROVE  Rolling!Next \/ UNCHANGED <<OnDisk, lines>>
    OBVIOUS
  <2> DEFINE Goal == Rolling!Next \/ UNCHANGED <<OnDisk, lines>>
  <2>0. ASSUME data' = data, lines' = lines, NEW f \in Path, f + 1 \in Path,
               Rename(f, f + 1), Exists(f) => Expendable(f + 1)
        PROVE  Goal
    BY <2>0, RenameDiscards DEF AgeInv, KeptInv, Rolling!Next
  <2> USE DEF disk
  <2>1. ASSUME NEW p \in Proc, Open(p) PROVE Goal
    <3>1. OnDisk' = OnDisk
      BY <2>1, OpenContents DEF OnDisk
    <3> QED
      BY <2>1, <3>1 DEF Open
  <2>2. ASSUME NEW p \in Proc, Write(p) PROVE Goal
    <3>1. OnDisk' = OnDisk \union {lines + 1}
      BY <2>2, WriteContents, PathFacts DEF OnDisk
    <3> QED
      BY <2>2, <3>1 DEF Write, Rolling!Next, Rolling!Append
  <2>3. ASSUME NEW p \in Proc, MoveAside(p) PROVE Goal
    <3>1. pc[p] = "aside" /\ Rename(LogPath, LogPath + 1) /\ data' = data /\ lines' = lines
      BY <2>3 DEF MoveAside, AsideFrom, TmpPath, LogPath
    <3>2. LogPath + 1 = TmpPath
      BY DEF TmpPath, LogPath
    <3>3. Expendable(TmpPath)
      BY <3>1 DEF KeptInv, Spacing, Expendable, Content
    <3> QED
      BY <2>0, <3>1, <3>2, <3>3, PathFacts
  <2>4. ASSUME NEW p \in Proc, Shift(p) PROVE Goal
    <3>1. PICK i \in Int : i = idx[p]
      BY DEF TypeOK
    <3>2. i \in Path /\ i + 1 \in Path
      BY <2>4, <3>1, PathFacts DEF Shift, TypeOK
    <3>3. Expendable(i + 1)
      BY <2>4, <3>1, ShiftFits
    <3> QED
      BY <2>0, <2>4, <3>1, <3>2, <3>3 DEF Shift
  <2>5. ASSUME NEW p \in Proc, MoveBack(p) PROVE Goal
    <3>1. Rename(TmpPath, TmpPath + 1) /\ data' = data /\ lines' = lines
      BY <2>5 DEF MoveBack, TmpPath
    <3>2. TmpPath + 1 = 1
      BY DEF TmpPath
    <3> QED
      BY <2>0, <2>5, <3>1, <3>2, MoveBackFits, PathFacts
  <2>6. CASE dir' = dir /\ data' = data /\ lines' = lines
    BY <2>6 DEF OnDisk, Content, Exists
  <2> QED
    BY <2>1, <2>2, <2>3, <2>4, <2>5, <2>6
       DEF Next, Step, DoLog, OpenFails, Stat, Chmod, Crash, Switch, vars
<1> QED
  BY <1>1, <1>2, TypeInvariance, AgeInvariance, NewestInvariance, KeptInvariance, PTL
     DEF Spec, RefinesRollingLog, Rolling!Spec

\* What a reader finds in the files of a single process that nobody kills is
\* the end of what was written, without a gap: every line after the oldest one
\* that is still there, also in the middle of a rotation.
THEOREM ReaderSeesTheEnd ==
  ASSUME NEW s, Proc = {s}, MaxCrashes = 0
  PROVE  Spec => []Rolling!NoGaps
<1>1. Rolling!Init => Rolling!NoGaps
  BY DEF Rolling!Init, Rolling!NoGaps
<1>2. Rolling!NoGaps /\ [Rolling!Next]_<<OnDisk, lines>> => Rolling!NoGaps'
  <2> SUFFICES ASSUME Rolling!NoGaps, [Rolling!Next]_<<OnDisk, lines>>
               PROVE  Rolling!NoGaps'
    OBVIOUS
  <2>1. CASE Rolling!Append
    <3>1. lines \in Nat /\ lines' = lines + 1 /\ OnDisk' = OnDisk \union {lines + 1}
      BY <2>1 DEF Rolling!Append, Rolling!NoGaps
    <3>2. lines + 1 \in Nat /\ OnDisk' \subseteq 1 .. lines + 1
      BY <3>1 DEF Rolling!NoGaps
    <3>3. ASSUME NEW l \in OnDisk' PROVE l .. lines + 1 \subseteq OnDisk'
      <4> SUFFICES ASSUME NEW k \in l .. lines + 1 PROVE k \in OnDisk \union {lines + 1}
        BY <3>1
      <4>1. CASE k = lines + 1
        BY <4>1
      <4>2. CASE k # lines + 1
        <5>1. l \in 1 .. lines + 1 /\ l # lines + 1
          BY <3>1, <3>2, <3>3, <4>2
        <5>2. l \in OnDisk /\ k \in l .. lines
          BY <3>1, <3>3, <4>2, <5>1
        <5> QED
          BY <5>2 DEF Rolling!NoGaps
      <4> QED
        BY <4>1, <4>2
    <3> QED
      BY <3>1, <3>2, <3>3 DEF Rolling!NoGaps
  <2>2. CASE Rolling!Discard
    <3>1. PICK o \in OnDisk : OnDisk' = {k \in OnDisk : k > o}
      BY <2>2 DEF Rolling!Discard
    <3>2. lines \in Nat /\ lines' = lines /\ OnDisk \subseteq 1 .. lines
      BY <2>2 DEF Rolling!Discard, Rolling!NoGaps
    <3>3. ASSUME NEW l \in OnDisk' PROVE l .. lines \subseteq OnDisk'
      <4>1. l \in OnDisk /\ l > o /\ l .. lines \subseteq OnDisk /\ o \in Int /\ l \in Int
        BY <3>1, <3>2, <3>3 DEF Rolling!NoGaps
      <4>2. \A k \in l .. lines : k > o
        BY <3>2, <4>1
      <4> QED
        BY <3>1, <4>1, <4>2
    <3> QED
      BY <3>1, <3>2, <3>3 DEF Rolling!NoGaps
  <2>3. CASE UNCHANGED <<OnDisk, lines>>
    BY <2>3 DEF Rolling!NoGaps
  <2> QED
    BY <2>1, <2>2, <2>3 DEF Rolling!Next
<1> QED
  BY <1>1, <1>2, RotationRefines, PTL DEF RefinesRollingLog, Rolling!Spec

(***************************************************************************)
(* How many system calls a process is from the end of its DoLog: at most   *)
(* one rename for each turn of the loop, and six others.                   *)
(***************************************************************************)
Turns(i) == IF i > 0 THEN i ELSE 0

Ahead(label, i) ==
  CASE label = "idle"  -> 0
    [] label = "chmod" -> 1
    [] label = "shift" -> 2 + Turns(i)
    [] label = "aside" -> 3 + Turns(MaxNum - 2)
    [] label = "stat"  -> 4 + Turns(MaxNum - 2)
    [] label = "write" -> 5 + Turns(MaxNum - 2)
    [] label = "open"  -> 6 + Turns(MaxNum - 2)

Left(p) == Ahead(pc[p], idx[p])

\* The count is largest at the start.
LEMMA AheadBound ==
  ASSUME NEW label \in PC, NEW i \in Int, i < LastIndex
  PROVE  Ahead(label, i) \in 0 .. 6 + Turns(MaxNum - 2)
<1>1. Turns(i) \in 0 .. Turns(MaxNum - 2) /\ Turns(MaxNum - 2) \in Nat
  BY NumAssumption DEF LastIndex, Turns
<1> QED
  BY <1>1 DEF Ahead, PC

\* A DoLog that got past the switch is over after 6 + Turns(MaxNum - 2) steps of its
\* process, whatever the other processes rename, write and remove meanwhile:
\* each call takes it nearer to its end and no step of another one takes it back.
\* With the scheduling that DoLogReturns assumes, it returns.
THEOREM DoLogIsBounded ==
  Spec => [][\A p \in Proc : /\ Step(p) => Left(p)' < Left(p)
                             /\ pc[p] # "idle" => Left(p)' <= Left(p)]_vars
<1> DEFINE Nearer(p) == /\ Step(p) => Left(p)' < Left(p)
                        /\ pc[p] # "idle" => Left(p)' <= Left(p)
<1>1. TypeOK /\ TypeOK' /\ [Next]_vars => [\A p \in Proc : Nearer(p)]_vars
  <2> SUFFICES ASSUME TypeOK, TypeOK', Next, NEW p \in Proc PROVE Nearer(p)
    OBVIOUS
  <2> DEFINE most == Turns(MaxNum - 2)
  <2>1. /\ most \in Nat /\ idx[p] \in Int /\ pc[p] \in PC
        /\ Left(p) \in Nat /\ Left(p)' \in Nat
    <3>1. most \in Nat
      BY NumAssumption DEF Turns
    <3>2. idx[p] \in Int /\ idx[p] < LastIndex /\ pc[p] \in PC
      BY DEF TypeOK
    <3>3. idx'[p] \in Int /\ idx'[p] < LastIndex /\ pc'[p] \in PC
      BY DEF TypeOK
    <3>4. Left(p) \in 0 .. 6 + most
      BY <3>2, AheadBound DEF Left
    <3>5. Left(p)' \in 0 .. 6 + most
      BY <3>3, AheadBound DEF Left
    <3> QED
      BY <3>1, <3>2, <3>4, <3>5
  <2>2. ASSUME Step(p) PROVE Left(p)' < Left(p)
    <3>1. /\ pc' \in [Proc -> PC] /\ idx' \in [Proc -> Int]
          /\ pc \in [Proc -> PC] /\ idx \in [Proc -> Int]
      BY DEF TypeOK
    <3>2. CASE Open(p) \/ OpenFails(p) \/ Write(p) \/ Stat(p) \/ Chmod(p)
      BY <2>1, <3>1, <3>2
         DEF Open, OpenFails, Write, Stat, Chmod, Goto, Left, Ahead
    <3>3. CASE MoveAside(p)
      <4>1. pc[p] = "aside" /\ pc'[p] \in {"shift", "chmod"} /\ idx'[p] = MaxNum - 2
        BY <3>1, <3>3 DEF MoveAside, AsideFrom, Goto
      <4> QED
        BY <2>1, <4>1 DEF Left, Ahead
    <3>4. CASE Shift(p)
      <4>1. pc[p] = "shift" /\ pc'[p] = "shift" /\ idx[p] > 0 /\ idx'[p] = idx[p] - 1
        BY <3>1, <3>4 DEF Shift
      <4> QED
        BY <2>1, <4>1 DEF Left, Ahead, Turns
    <3>5. CASE MoveBack(p)
      <4>1. pc[p] = "shift" /\ pc'[p] = "chmod"
        BY <3>1, <3>5 DEF MoveBack, Goto
      <4>2. Turns(idx[p]) \in Nat
        BY <2>1 DEF Turns
      <4> QED
        BY <4>1, <4>2 DEF Left, Ahead
    <3> QED
      BY <2>2, <3>2, <3>3, <3>4, <3>5 DEF Step
  <2>3. ASSUME pc[p] # "idle" PROVE Left(p)' <= Left(p)
    <3>1. CASE Step(p)
      BY <2>1, <2>2, <3>1
    <3>2. CASE ~Step(p)
      <4>1. \/ pc'[p] = pc[p] /\ idx'[p] = idx[p]
            \/ pc'[p] = "idle"
        <5>1. ASSUME NEW q \in Proc, DoLog(q) \/ Crash(q) PROVE q # p \/ pc'[p] = "idle"
          BY <2>3, <5>1 DEF DoLog, Crash, Goto, TypeOK
        <5>2. ASSUME NEW q \in Proc, q # p, DoLog(q) \/ Step(q) \/ Crash(q)
              PROVE  pc'[p] = pc[p] /\ idx'[p] = idx[p]
          BY <5>2 DEF DoLog, Step, Crash, Open, OpenFails, Write, Stat, MoveAside, AsideFrom,
                      Shift, MoveBack, Chmod, Goto, TypeOK
        <5>3. CASE Switch
          BY <5>3 DEF Switch
        <5> QED
          BY <3>2, <5>1, <5>2, <5>3 DEF Next
      <4>2. CASE pc'[p] = "idle"
        <5>1. Left(p)' = 0
          BY <4>2 DEF Left, Ahead
        <5> QED
          BY <2>1, <5>1
      <4>3. CASE pc'[p] = pc[p] /\ idx'[p] = idx[p]
        <5>1. Left(p)' = Left(p)
          BY <4>3, Zenon DEF Left
        <5> QED
          BY <2>1, <5>1
      <4> QED
        BY <4>1, <4>2, <4>3
    <3> QED
      BY <3>1, <3>2
  <2> QED
    BY <2>2, <2>3
<1> QED
  BY <1>1, TypeInvariance, PTL DEF Spec
=============================================================================
