------------------------------- MODULE LogFile -------------------------------
(***************************************************************************)
(* The file sink of CLog (include/neiku/log.h): several processes append   *)
(* to one filename.log and each of them rotates it when it has grown.      *)
(* Every system call of DoLog and LogFileRotate is one step, so steps of   *)
(* two processes interleave as the kernel may schedule them.               *)
(*                                                                         *)
(* A path is a number: LogPath is filename.log, TmpPath filename.tmp.log   *)
(* and i >= 1 is filename{i}.log.  The number of a path is the age of what *)
(* it should hold, and every rename of the code moves a file to the next   *)
(* number.  An inode is an index of data; inode 0 is "no such file".       *)
(* Lines are numbered in the order of their write(2), so the content of an *)
(* inode is the set of the lines in it, and a line has size one.           *)
(***************************************************************************)
EXTENDS Integers, Sequences, FiniteSets

CONSTANTS
  Proc,       \* the processes that log to the same file
  MaxSize,    \* m_llLogFileMaxSize, in lines
  MaxNum,     \* m_dwLogFileMaxNum (M in the comments of log.h)
  MaxLines,   \* bound: no DoLog starts once so many lines are written
  MaxCrashes  \* bound: number of processes killed inside DoLog

ASSUME SizeAssumption  == MaxSize \in Nat \ {0}
ASSUME NumAssumption   == MaxNum \in Nat
ASSUME ProcAssumption  == IsFiniteSet(Proc) /\ Proc # {}
ASSUME BoundAssumption == MaxLines \in Nat /\ MaxCrashes \in Nat

VARIABLES
  dir,      \* directory: path -> inode
  data,     \* inode -> the lines written to it
  lines,    \* number of lines written so far
  shared,   \* inodes whose mode is 0660
  nolog,    \* filename.nolog exists
  pc,       \* next system call of each process
  fd,       \* inode behind pFile
  idx,      \* loop variable i of LogFileRotate
  crashes

disk == <<data, lines>>
vars == <<dir, data, lines, shared, nolog, pc, fd, idx, crashes>>

(***************************************************************************)
(* Paths                                                                   *)
(***************************************************************************)
NoFile  == 0
LogPath == -1
TmpPath == 0

\* The highest index that is ever used: M-1, but 1 even when M <= 1.
LastIndex == IF MaxNum > 2 THEN MaxNum - 1 ELSE 1
Path == LogPath .. LastIndex

Inode == 1 .. Len(data)
Exists(f) == dir[f] # NoFile
Content(f) == IF Exists(f) THEN data[dir[f]] ELSE {}
OnDisk == UNION {Content(f) : f \in Path}

\* A slip: link(2) in place of rename(2).
LinkInstead(f, g) ==
  dir' = IF Exists(f) THEN [dir EXCEPT ![g] = dir[f]] ELSE dir

\* rename(f, g): fails without f, else g is replaced.
Rename(f, g) ==
  dir' = IF Exists(f) THEN [dir EXCEPT ![g] = dir[f], ![f] = NoFile] ELSE dir

PC == {"idle", "open", "write", "stat", "aside", "shift", "chmod"}

Goto(p, label) == pc' = [pc EXCEPT ![p] = label]

(***************************************************************************)
(* Slips in the steps below that the properties must notice                *)
(***************************************************************************)

\* fopen(log, "w")
OpenTruncating(p) ==
  /\ pc[p] = "open"
  /\ data' = Append(data, {})
  /\ dir' = [dir EXCEPT ![LogPath] = Len(data) + 1]
  /\ fd' = [fd EXCEPT ![p] = Len(data) + 1]
  /\ Goto(p, "write")
  /\ UNCHANGED <<lines, shared, nolog, idx, crashes>>

\* st_size <= m_llLogFileMaxSize
StatOneMore(p) ==
  /\ pc[p] = "stat"
  /\ Goto(p, IF Exists(LogPath) /\ Cardinality(Content(LogPath)) <= MaxSize
               THEN "chmod" ELSE "aside")
  /\ UNCHANGED <<dir, disk, shared, nolog, fd, idx, crashes>>

\* a small file returns from DoLog and not from LogFileRotate only
StatReturns(p) ==
  /\ pc[p] = "stat"
  /\ Goto(p, IF Exists(LogPath) /\ Cardinality(Content(LogPath)) < MaxSize
               THEN "idle" ELSE "aside")
  /\ UNCHANGED <<dir, disk, shared, nolog, fd, idx, crashes>>

\* rename(log, tmp), then the loop from index i down
AsideFrom(p, i) ==
  /\ pc[p] = "aside"
  /\ Rename(LogPath, TmpPath)
  /\ idx' = [idx EXCEPT ![p] = i]
  /\ Goto(p, IF Exists(LogPath) THEN "shift" ELSE "chmod")
  /\ UNCHANGED <<disk, shared, nolog, fd, crashes>>

AsideShort(p) == AsideFrom(p, MaxNum - 3)

\* an existing filename.tmp.log makes the rotation give way
AsideGivesWay(p) ==
  /\ pc[p] = "aside"
  /\ IF Exists(TmpPath) THEN UNCHANGED dir ELSE Rename(LogPath, TmpPath)
  /\ idx' = [idx EXCEPT ![p] = MaxNum - 2]
  /\ Goto(p, IF Exists(LogPath) /\ ~Exists(TmpPath) THEN "shift" ELSE "chmod")
  /\ UNCHANGED <<disk, shared, nolog, fd, crashes>>

\* the loop variable is not decremented
ShiftForever(p) ==
  /\ pc[p] = "shift"
  /\ idx[p] > 0
  /\ Rename(idx[p], idx[p] + 1)
  /\ UNCHANGED <<disk, idx, shared, nolog, pc, fd, crashes>>

\* rename(log, 1) after the loop
BackFromLog(p) ==
  /\ pc[p] = "shift"
  /\ idx[p] <= 0
  /\ Rename(LogPath, 1)
  /\ Goto(p, "chmod")
  /\ UNCHANGED <<disk, shared, nolog, fd, idx, crashes>>

(***************************************************************************)
(* Steps of DoLog                                                          *)
(***************************************************************************)
Init ==
  /\ dir = [f \in Path |-> NoFile]
  /\ data = << >>
  /\ lines = 0
  /\ shared = {}
  /\ nolog = FALSE
  /\ pc = [p \in Proc |-> "idle"]
  /\ fd = [p \in Proc |-> NoFile]
  /\ idx = [p \in Proc |-> 0]
  /\ crashes = 0

\* DoLog with a line that passes the level filter, the file sink being on:
\* stat(nolog) fails, so the line will be written.
DoLog(p) ==
  /\ pc[p] = "idle"
  /\ lines < MaxLines
  /\ ~nolog
  /\ Goto(p, "open")
  /\ UNCHANGED <<dir, disk, shared, nolog, fd, idx, crashes>>

\* fopen(log, "a") creates the file when it is missing.
Open(p) ==
  /\ pc[p] = "open"
  /\ IF Exists(LogPath)
       THEN /\ fd' = [fd EXCEPT ![p] = dir[LogPath]]
            /\ UNCHANGED <<dir, data>>
       ELSE /\ data' = Append(data, {})
            /\ dir' = [dir EXCEPT ![LogPath] = Len(data) + 1]
            /\ fd' = [fd EXCEPT ![p] = Len(data) + 1]
  /\ Goto(p, "write")
  /\ UNCHANGED <<lines, shared, nolog, idx, crashes>>

\* fopen returned NULL (no descriptor, no permission): the line is dropped.
OpenFails(p) ==
  /\ pc[p] = "open"
  /\ Goto(p, "chmod")
  /\ UNCHANGED <<dir, disk, shared, nolog, fd, idx, crashes>>

\* vfprintf and fclose: the line reaches the inode, wherever it is by now.
Write(p) ==
  /\ pc[p] = "write"
  /\ lines' = lines + 1
  /\ data' = [data EXCEPT ![fd[p]] = @ \union {lines + 1}]
  /\ fd' = [fd EXCEPT ![p] = NoFile]
  /\ Goto(p, "stat")
  /\ UNCHANGED <<dir, shared, nolog, idx, crashes>>

\* stat(log): a small file ends the rotation; a missing one does not.
Stat(p) ==
  /\ pc[p] = "stat"
  /\ Goto(p, IF Exists(LogPath) /\ Cardinality(Content(LogPath)) < MaxSize
               THEN "chmod" ELSE "aside")
  /\ UNCHANGED <<dir, disk, shared, nolog, fd, idx, crashes>>

\* rename(log, tmp): on failure some other process is taken to be rotating.
MoveAside(p) == AsideFrom(p, MaxNum - 2)

\* One turn of the loop: rename(i, i+1).
Shift(p) ==
  /\ pc[p] = "shift"
  /\ idx[p] > 0
  /\ Rename(idx[p], idx[p] + 1)
  /\ idx' = [idx EXCEPT ![p] = @ - 1]
  /\ UNCHANGED <<disk, shared, nolog, pc, fd, crashes>>

\* After the loop: rename(tmp, 1).
MoveBack(p) ==
  /\ pc[p] = "shift"
  /\ idx[p] <= 0
  /\ Rename(TmpPath, 1)
  /\ Goto(p, "chmod")
  /\ UNCHANGED <<disk, shared, nolog, fd, idx, crashes>>

\* chmod(log, 0660) acts on whatever is filename.log by now.
Chmod(p) ==
  /\ pc[p] = "chmod"
  /\ shared' = IF Exists(LogPath) THEN shared \union {dir[LogPath]} ELSE shared
  /\ Goto(p, "idle")
  /\ UNCHANGED <<dir, disk, nolog, fd, idx, crashes>>

\* The process dies between two calls; a new one takes its place.
Crash(p) ==
  /\ pc[p] # "idle"
  /\ crashes < MaxCrashes
  /\ crashes' = crashes + 1
  /\ fd' = [fd EXCEPT ![p] = NoFile]
  /\ idx' = [idx EXCEPT ![p] = 0]
  /\ Goto(p, "idle")
  /\ UNCHANGED <<dir, disk, shared, nolog>>

\* An operator creates or removes filename.nolog.
Switch ==
  /\ nolog' = ~nolog
  /\ UNCHANGED <<dir, disk, shared, pc, fd, idx, crashes>>

\* What a process inside DoLog does next of its own accord.
Step(p) ==
  \/ Open(p) \/ OpenFails(p) \/ Write(p) \/ Stat(p)
  \/ MoveAside(p) \/ Shift(p) \/ MoveBack(p) \/ Chmod(p)

Next ==
  \/ \E p \in Proc : DoLog(p) \/ Step(p) \/ Crash(p)
  \/ Switch

Spec == Init /\ [][Next]_vars

\* A process that entered DoLog is scheduled until it returns.
FairSpec == Spec /\ \A p \in Proc : WF_vars(Step(p))

-----------------------------------------------------------------------------
(***************************************************************************)
(* With one process the files hold a rolling log: see RollingLog.          *)
(***************************************************************************)
Rolling == INSTANCE RollingLog WITH
  kept <- OnDisk, total <- lines, Floor <- LastIndex * MaxSize

-----------------------------------------------------------------------------
(***************************************************************************)
(* Properties                                                              *)
(***************************************************************************)

\* Every path names an inode that was created, and every line was written
\* by the vfprintf of DoLog.
TypeOK ==
  /\ dir \in [Path -> 0 .. Len(data)]
  /\ data \in Seq(SUBSET (1 .. lines))
  /\ lines \in Nat
  /\ shared \subseteq Inode
  /\ nolog \in BOOLEAN
  /\ pc \in [Proc -> PC]
  /\ fd \in [Proc -> 0 .. Len(data)]
  /\ \A p \in Proc : pc[p] = "write" => fd[p] # NoFile
  /\ idx \in [Proc -> Int]
  /\ \A p \in Proc : idx[p] < LastIndex
  /\ crashes \in Nat

\* The rotation of LogFileRotate is not locked, yet no file outgrows the
\* limit by more than one line for each other process, and one for each
\* process that was killed before it could rotate.
SizeBound ==
  \A f \in Inode :
    Cardinality(data[f]) < MaxSize + Cardinality(Proc) + crashes

\* filename.tmp.log exists only while some process is between its two
\* renames: with no kill, none is left behind.
TmpIsOwned ==
  crashes = 0 => (Exists(TmpPath) => \E p \in Proc : pc[p] = "shift")

\* When no process is inside DoLog, filename.log has the mode 0660, so that
\* processes of the same group can go on writing to it.
CurrentIsShared ==
  crashes = 0 /\ (\A p \in Proc : pc[p] = "idle") =>
     (Exists(LogPath) => dir[LogPath] \in shared)

\* log.h, v16: the newest lines are in filename.log and a higher index means
\* older lines: paths are ordered by the age of what they hold.
AgeOrder ==
  \A f, g \in Path : f < g =>
    \A l \in Content(f), m \in Content(g) : m < l

\* Rotation discards only what does not fit: the newest lines, as many as
\* the rotated files can hold, are on disk.
NewestKept == \A l \in 1 .. lines : lines - l < LastIndex * MaxSize => l \in OnDisk

\* One process: the directory, looked at between any two system calls, is a
\* rolling log that loses nothing but its oldest lines.
RefinesRollingLog == Rolling!Spec

\* A filename.log at its limit does not stay: somebody rotates it, unless a
\* process is killed first.
OversizedIsRotated ==
  \A f \in 1 .. MaxLines + Cardinality(Proc) :
    (f \in Inode /\ dir[LogPath] = f /\ Cardinality(data[f]) >= MaxSize)
      ~> dir[LogPath] # f \/ crashes > 0

\* Every call of DoLog that got past the switch returns, whatever the other
\* processes do to the files meanwhile.
DoLogReturns == \A p \in Proc : pc[p] = "open" ~> pc[p] = "idle"

=============================================================================
