----------------------- MODULE OperationsLock_proofs ------------------------
(***************************************************************************)
(* Proofs about OperationsLock for every set of commands, repair passes    *)
(* and inodes.  TypeOK and FlockAccounted are together inductive, repair   *)
(* passes or not.  Mutual exclusion needs one more fact, that every open   *)
(* descriptor is on the file the path names (no Split), and that fact      *)
(* holds only where no repair pass unlinks the path; the abstract Mutex    *)
(* has Split as a variable, so that it is implemented either way.          *)
(***************************************************************************)
EXTENDS OperationsLock, TLAPS

USE ActorsDisjoint, NoFileIsNoInode, NobodyIsNoActor, NoPidIsNoProc

(* The types, and where a descriptor is open (memory.py:295-322, 364-391).  *)
THEOREM TypeCorrect == Spec => []TypeOK
<1> USE DEF TypeOK, Actors, Texts, Opened, Holding, Probing
<1>1. Init => TypeOK
  BY DEF Init
<1>2. TypeOK /\ [Next]_vars => TypeOK'
  <2> SUFFICES ASSUME TypeOK, [Next]_vars PROVE TypeOK'
    OBVIOUS
  <2>1. ASSUME NEW p \in Procs, OpenLock(p) PROVE TypeOK'
    BY <2>1 DEF OpenLock
  <2>2. ASSUME NEW p \in Procs, TryFlock(p) PROVE TypeOK'
    BY <2>2 DEF TryFlock
  <2>3. ASSUME NEW p \in Procs, Truncate(p) PROVE TypeOK'
    BY <2>3 DEF Truncate
  <2>4. ASSUME NEW p \in Procs, WritePid(p) PROVE TypeOK'
    BY <2>4 DEF WritePid
  <2>5. ASSUME NEW p \in Procs, Release(p) PROVE TypeOK'
    BY <2>5 DEF Release
  <2>6. ASSUME NEW p \in Procs, Bypass(p) \/ EndBypass(p) PROVE TypeOK'
    BY <2>6 DEF Bypass, EndBypass
  <2>7. ASSUME NEW r \in Repairers, RepairOpen(r) PROVE TypeOK'
    BY <2>7 DEF RepairOpen
  <2>8. ASSUME NEW r \in Repairers, RepairProbe(r) PROVE TypeOK'
    BY <2>8 DEF RepairProbe
  <2>9. ASSUME NEW r \in Repairers, RepairRead(r) \/ RepairJudge(r) \/ RepairUnlink(r)
        PROVE  TypeOK'
    BY <2>9 DEF RepairRead, RepairJudge, RepairUnlink
  <2>10. ASSUME NEW r \in Repairers, RepairClose(r) PROVE TypeOK'
    BY <2>10 DEF RepairClose
  <2>11. ASSUME NEW a \in Actors, ProcessEnds(a) PROVE TypeOK'
    BY <2>11 DEF ProcessEnds
  <2>12. UNCHANGED vars => TypeOK'
    BY DEF vars
  <2> QED
    BY <2>1, <2>2, <2>3, <2>4, <2>5, <2>6, <2>7, <2>8, <2>9, <2>10, <2>11, <2>12
    DEF Next, Command, Repair
<1> QED
  BY <1>1, <1>2, PTL DEF Spec

(* A flock belongs to the process that still has the locked descriptor open:  *)
(* release, refusal and death leave none behind (memory.py:301-322).          *)
THEOREM FlockAccountedCorrect == Spec => []FlockAccounted
<1> USE DEF FlockAccounted, Actors, Holding, Probing
<1>1. Init => FlockAccounted
  BY DEF Init
<1>2. TypeOK /\ FlockAccounted /\ [Next]_vars => FlockAccounted'
  <2> SUFFICES ASSUME TypeOK, FlockAccounted, [Next]_vars PROVE FlockAccounted'
    OBVIOUS
  <2> USE DEF TypeOK, Opened
  <2>1. ASSUME NEW p \in Procs, OpenLock(p) PROVE FlockAccounted'
    BY <2>1 DEF OpenLock
  <2>2. ASSUME NEW p \in Procs, TryFlock(p) PROVE FlockAccounted'
    BY <2>2 DEF TryFlock
  <2>3. ASSUME NEW p \in Procs, Truncate(p) \/ WritePid(p) PROVE FlockAccounted'
    BY <2>3 DEF Truncate, WritePid
  <2>4. ASSUME NEW p \in Procs, Release(p) PROVE FlockAccounted'
    BY <2>4 DEF Release
  <2>5. ASSUME NEW p \in Procs, Bypass(p) \/ EndBypass(p) PROVE FlockAccounted'
    BY <2>5 DEF Bypass, EndBypass
  <2>6. ASSUME NEW r \in Repairers, RepairOpen(r) PROVE FlockAccounted'
    BY <2>6 DEF RepairOpen
  <2>7. ASSUME NEW r \in Repairers, RepairProbe(r) PROVE FlockAccounted'
    BY <2>7 DEF RepairProbe
  <2>8. ASSUME NEW r \in Repairers, RepairRead(r) \/ RepairJudge(r) \/ RepairUnlink(r)
        PROVE  FlockAccounted'
    BY <2>8 DEF RepairRead, RepairJudge, RepairUnlink
  <2>9. ASSUME NEW r \in Repairers, RepairClose(r) PROVE FlockAccounted'
    BY <2>9 DEF RepairClose
  <2>10. ASSUME NEW a \in Actors, ProcessEnds(a) PROVE FlockAccounted'
    BY <2>10 DEF ProcessEnds
  <2>11. UNCHANGED vars => FlockAccounted'
    BY DEF vars
  <2> QED
    BY <2>1, <2>2, <2>3, <2>4, <2>5, <2>6, <2>7, <2>8, <2>9, <2>10, <2>11
    DEF Next, Command, Repair
<1> QED
  BY <1>1, <1>2, TypeCorrect, PTL DEF Spec

(* The PID in a locked file is the holder's, repair passes or not: whoever     *)
(* writes the text of an inode holds its flock (memory.py:310).                *)
THEOREM HolderPidCorrect == Spec => []HolderPidIntact
<1> USE DEF HolderPidIntact
<1>1. Init => HolderPidIntact
  BY DEF Init, Actors
<1>2. TypeOK /\ FlockAccounted /\ HolderPidIntact /\ [Next]_vars => HolderPidIntact'
  <2> SUFFICES ASSUME TypeOK, FlockAccounted, HolderPidIntact, [Next]_vars,
                      NEW p \in Procs, pc'[p] = "critical"
               PROVE  text'[fd'[p]] = p
    OBVIOUS
  <2> USE DEF TypeOK, Actors, Opened, Holding, Probing, FlockAccounted
  <2>1. ASSUME NEW q \in Procs, OpenLock(q) PROVE text'[fd'[p]] = p
    BY <2>1 DEF OpenLock, Free
  <2>2. ASSUME NEW q \in Procs, TryFlock(q) PROVE text'[fd'[p]] = p
    BY <2>2 DEF TryFlock
  <2>3. ASSUME NEW q \in Procs, Truncate(q) PROVE text'[fd'[p]] = p
    <3>1. p # q /\ fd' = fd /\ pc[p] = "critical" /\ pc[q] = "locked"
      BY <2>3 DEF Truncate
    <3>2. fd[p] \in Inodes /\ fd[q] \in Inodes /\ owner[fd[p]] = p /\ owner[fd[q]] = q
      BY <3>1
    <3>3. text'[fd[p]] = text[fd[p]]
      BY <2>3, <3>1, <3>2 DEF Truncate
    <3> QED
      BY <3>1, <3>3
  <2>4. ASSUME NEW q \in Procs, WritePid(q) PROVE text'[fd'[p]] = p
    <3>1. CASE p = q
      BY <2>4, <3>1 DEF WritePid
    <3>2. CASE p # q
      <4>1. fd' = fd /\ pc[p] = "critical" /\ pc[q] = "truncated"
        BY <2>4, <3>2 DEF WritePid
      <4>2. fd[p] \in Inodes /\ fd[q] \in Inodes /\ owner[fd[p]] = p /\ owner[fd[q]] = q
        BY <4>1
      <4>3. text'[fd[p]] = text[fd[p]]
        BY <2>4, <3>2, <4>2 DEF WritePid
      <4> QED
        BY <4>1, <4>3
    <3> QED
      BY <3>1, <3>2
  <2>5. ASSUME NEW q \in Procs, Release(q) PROVE text'[fd'[p]] = p
    BY <2>5 DEF Release
  <2>6. ASSUME NEW q \in Procs, Bypass(q) \/ EndBypass(q) PROVE text'[fd'[p]] = p
    BY <2>6 DEF Bypass, EndBypass
  <2>7. ASSUME NEW r \in Repairers, Repair(r) PROVE text'[fd'[p]] = p
    BY <2>7 DEF Repair, RepairOpen, RepairProbe, RepairRead, RepairJudge, RepairUnlink,
                RepairClose
  <2>8. ASSUME NEW a \in Actors, ProcessEnds(a) PROVE text'[fd'[p]] = p
    BY <2>8 DEF ProcessEnds
  <2>9. UNCHANGED vars => text'[fd'[p]] = p
    BY DEF vars
  <2> QED
    BY <2>1, <2>2, <2>3, <2>4, <2>5, <2>6, <2>7, <2>8, <2>9 DEF Next, Command
<1> QED
  BY <1>1, <1>2, TypeCorrect, FlockAccountedCorrect, PTL DEF Spec

-----------------------------------------------------------------------------
\* Two commands are inside the lock at once only where a repair pass removed the file
\* under one that had it open (memory.py:270, 376).
ExclusionUnlessSplit == ~Split => MutualExclusion

\* Two holders on one file would both own its flock.
LEMMA OneHolder == TypeOK /\ FlockAccounted => ExclusionUnlessSplit
  BY DEF TypeOK, FlockAccounted, Split, ExclusionUnlessSplit, MutualExclusion, Actors,
         Opened, Holding, Probing

(* Whatever repair passes do, two commands are inside the lock at once only    *)
(* where one of them has a file open that the path no longer names             *)
(* (memory.py:270, 376).                                                       *)
THEOREM ExclusionUnlessSplitCorrect == Spec => []ExclusionUnlessSplit
  BY TypeCorrect, FlockAccountedCorrect, OneHolder, PTL

(* Without a repair pass the path is never unlinked, so that every descriptor  *)
(* is open on the one file there is.                                           *)
LEMMA NeverSplit == ASSUME Repairers = {} PROVE Spec => []~Split
<1> USE DEF Split
<1>1. Init => ~Split
  BY DEF Init, Actors
<1>2. TypeOK /\ ~Split /\ [Next]_vars => ~Split'
  <2> SUFFICES ASSUME TypeOK, ~Split, [Next]_vars PROVE ~Split'
    OBVIOUS
  <2> USE DEF TypeOK, Actors
  <2>1. ASSUME NEW p \in Procs, OpenLock(p) PROVE ~Split'
    BY <2>1 DEF OpenLock
  <2>2. ASSUME NEW p \in Procs, TryFlock(p) \/ Truncate(p) \/ WritePid(p) \/ Release(p)
                                \/ Bypass(p) \/ EndBypass(p)
        PROVE  ~Split'
    BY <2>2 DEF TryFlock, Truncate, WritePid, Release, Bypass, EndBypass
  <2>3. ASSUME NEW a \in Actors, ProcessEnds(a) PROVE ~Split'
    BY <2>3 DEF ProcessEnds
  <2>4. UNCHANGED vars => ~Split'
    BY DEF vars
  <2> QED
    BY <2>1, <2>2, <2>3, <2>4 DEF Next, Command
<1> QED
  BY <1>1, <1>2, TypeCorrect, PTL DEF Spec

(* The lock serializes the commands that take it (memory.py:270), as long as   *)
(* no repair pass runs among them.                                             *)
THEOREM Exclusion == ASSUME Repairers = {} PROVE Spec => []MutualExclusion
<1>1. ~Split /\ ExclusionUnlessSplit => MutualExclusion
  BY DEF ExclusionUnlessSplit
<1> QED
  BY <1>1, NeverSplit, ExclusionUnlessSplitCorrect, PTL

(* A single repair pass removes only lock files nobody works under             *)
(* (memory.py:353): between its open and its unlink the path keeps naming the  *)
(* file it opened, whose flock it holds by then.                               *)
ProbedFileNamed ==
  \A r \in Repairers : pc[r] \in {"opened", "probed", "read", "stale"} => fd[r] = file

THEOREM RepairSpares ==
  ASSUME \A r, s \in Repairers : r = s PROVE Spec => RepairSparesHolder
<1> USE DEF ProbedFileNamed
<1>1. Init => ProbedFileNamed
  BY DEF Init, Actors
<1>2. TypeOK /\ ProbedFileNamed /\ [Next]_vars => ProbedFileNamed'
  <2> SUFFICES ASSUME TypeOK, ProbedFileNamed, [Next]_vars PROVE ProbedFileNamed'
    OBVIOUS
  <2> USE DEF TypeOK, Actors, Opened, Holding, Probing
  <2>1. ASSUME NEW p \in Procs, OpenLock(p) PROVE ProbedFileNamed'
    BY <2>1 DEF OpenLock, Free
  <2>2. ASSUME NEW p \in Procs, TryFlock(p) \/ Truncate(p) \/ WritePid(p) \/ Release(p)
                                \/ Bypass(p) \/ EndBypass(p)
        PROVE  ProbedFileNamed'
    BY <2>2 DEF TryFlock, Truncate, WritePid, Release, Bypass, EndBypass
  <2>3. ASSUME NEW r \in Repairers, Repair(r) PROVE ProbedFileNamed'
    <3>1. CASE RepairOpen(r) \/ RepairClose(r)
      BY <3>1 DEF RepairOpen, RepairClose
    <3>2. CASE RepairProbe(r)
      BY <3>2 DEF RepairProbe
    <3>3. CASE RepairRead(r) \/ RepairJudge(r)
      BY <3>3 DEF RepairRead, RepairJudge
    <3>4. CASE RepairUnlink(r)
      BY <3>4 DEF RepairUnlink
    <3> QED
      BY <2>3, <3>1, <3>2, <3>3, <3>4 DEF Repair
  <2>4. ASSUME NEW a \in Actors, ProcessEnds(a) PROVE ProbedFileNamed'
    BY <2>4 DEF ProcessEnds
  <2>5. UNCHANGED vars => ProbedFileNamed'
    BY DEF vars
  <2> QED
    BY <2>1, <2>2, <2>3, <2>4, <2>5 DEF Next, Command
<1>3. TypeOK /\ FlockAccounted /\ ProbedFileNamed /\ [Next]_vars
        => [file # NoFile /\ file' = NoFile => owner[file] \notin Procs]_vars
  <2> SUFFICES ASSUME TypeOK, FlockAccounted, ProbedFileNamed, Next,
                      file # NoFile, file' = NoFile
               PROVE  owner[file] \notin Procs
    BY DEF vars
  <2> USE DEF TypeOK, Actors, Opened, Holding, Probing, FlockAccounted
  <2>1. PICK r \in Repairers : RepairUnlink(r)
    BY DEF Next, Command, Repair, OpenLock, TryFlock, Truncate, WritePid, Release, Bypass,
           EndBypass, RepairOpen, RepairProbe, RepairRead, RepairJudge, RepairClose,
           ProcessEnds
  <2>2. owner[file] = r
    BY <2>1 DEF RepairUnlink
  <2> QED
    BY <2>2
<1> QED
  BY <1>1, <1>2, <1>3, TypeCorrect, FlockAccountedCorrect, PTL DEF Spec, RepairSparesHolder

-----------------------------------------------------------------------------
LEMMA NextHoldersAlone ==
  ExclusionUnlessSplit' /\ ~Split' => Lock!AtMostOne(Holders')
  BY DEF ExclusionUnlessSplit, MutualExclusion, Holders, Lock!AtMostOne

\* A step that leaves the holders alone may split the lock or heal it.
LEMMA SameHolders ==
  ASSUME ExclusionUnlessSplit', Holders' = Holders PROVE Lock!Next
<1>1. Split' \in BOOLEAN
  BY DEF Split
<1>2. Split' \/ Lock!AtMostOne(Holders)
  BY NextHoldersAlone
<1> QED
  BY <1>1, <1>2 DEF Lock!Next, Lock!Resplit

\* A step that takes one holder out of the lock and opens no file.
LEMMA OneLeaves ==
  ASSUME ExclusionUnlessSplit', NEW p \in Procs, p \in Holders, Holders' = Holders \ {p},
         Split' => Split
  PROVE  Lock!Next
<1>1. Split' \in BOOLEAN
  BY DEF Split
<1>2. Split' \/ Lock!AtMostOne(Holders')
  BY NextHoldersAlone
<1> QED
  BY <1>1, <1>2 DEF Lock!Next, Lock!Release

(* Every step of the flock discipline is a step of the abstract mutex: a       *)
(* successful LOCK_EX acquires it, LOCK_UN or the death of the holder releases *)
(* it, an unlink may split it, and a holder never enters beside another one    *)
(* otherwise (memory.py:270).                                                  *)
THEOREM Implementation == Spec => ImplementsMutex
<1>1. Init => Lock!Init
  BY DEF Init, Lock!Init, Holders, Split, Holding, Actors
<1>2. TypeOK /\ ExclusionUnlessSplit /\ ExclusionUnlessSplit' /\ FlockAccounted /\ [Next]_vars
        => [Lock!Next]_<<Holders, Split>>
  <2> SUFFICES ASSUME TypeOK, ExclusionUnlessSplit, ExclusionUnlessSplit', FlockAccounted,
                      [Next]_vars
               PROVE  Lock!Next \/ UNCHANGED <<Holders, Split>>
    BY DEF Lock!Next
  <2> USE DEF TypeOK, Actors
  <2>1. ASSUME NEW p \in Procs, TryFlock(p) PROVE Lock!Next
    <3>1. CASE pc'[p] = "locked"
      <4>1. pc[p] = "opened" /\ pc' = [pc EXCEPT ![p] = "locked"] /\ fd' = fd /\ file' = file
            /\ owner[fd[p]] = Nobody /\ fd[p] \in Inodes
        BY <2>1, <3>1 DEF TryFlock, Opened
      <4>2. p \notin Holders /\ Holders' = Holders \union {p} /\ Split' = Split
        BY <4>1 DEF Holders, Split, Holding
      <4>3. Holders = {} \/ Split
        <5> SUFFICES ASSUME NEW q \in Procs, pc[q] \in Holding, ~Split PROVE FALSE
          BY DEF Holders
        <5>1. fd[q] \in Inodes /\ owner[fd[q]] = q
          BY DEF FlockAccounted, Opened, Holding, Probing
        <5>2. fd[q] = fd[p]
          BY <4>1, <5>1 DEF Split
        <5> QED
          BY <4>1, <5>1, <5>2
      <4>4. Lock!Acquire(p)
        BY <4>2, <4>3 DEF Lock!Acquire
      <4> QED
        BY <4>4 DEF Lock!Next
    <3>2. CASE pc'[p] # "locked"
      <4>1. pc[p] = "opened" /\ pc' = [pc EXCEPT ![p] = "refused"]
        BY <2>1, <3>2 DEF TryFlock
      <4>2. Holders' = Holders
        BY <4>1 DEF Holders, Holding
      <4> QED
        BY <4>2, SameHolders
    <3> QED
      BY <3>1, <3>2
  <2>2. ASSUME NEW p \in Procs, OpenLock(p) \/ Truncate(p) \/ WritePid(p) \/ Bypass(p)
                                \/ EndBypass(p)
        PROVE  Lock!Next
    <3>1. Holders' = Holders
      BY <2>2 DEF OpenLock, Truncate, WritePid, Bypass, EndBypass, Holders, Holding
    <3> QED
      BY <3>1, SameHolders
  <2>3. ASSUME NEW r \in Repairers, Repair(r) PROVE Lock!Next
    <3>1. \E x : pc' = [pc EXCEPT ![r] = x]
      BY <2>3 DEF Repair, RepairOpen, RepairProbe, RepairRead, RepairJudge, RepairUnlink,
                  RepairClose
    <3>2. Holders' = Holders
      BY <3>1 DEF Holders
    <3> QED
      BY <3>2, SameHolders
  <2>4. ASSUME NEW p \in Procs, Release(p) PROVE Lock!Next
    <3>1. pc[p] \in Holding /\ pc' = [pc EXCEPT ![p] = "released"]
          /\ fd' = [fd EXCEPT ![p] = NoFile] /\ file' = file
      BY <2>4 DEF Release, Holding
    <3>2. p \in Holders /\ Holders' = Holders \ {p}
      BY <3>1 DEF Holders, Holding
    <3>3. Split' => Split
      BY <3>1 DEF Split
    <3> QED
      BY <3>2, <3>3, OneLeaves
  <2>5. ASSUME NEW a \in Actors, ProcessEnds(a) PROVE Lock!Next
    <3>1. pc' = [pc EXCEPT ![a] = "idle"] /\ fd' = [fd EXCEPT ![a] = NoFile] /\ file' = file
      BY <2>5 DEF ProcessEnds
    <3>2. CASE a \in Holders
      <4>1. a \in Procs /\ Holders' = Holders \ {a}
        BY <3>1, <3>2 DEF Holders, Holding
      <4>2. Split' => Split
        BY <3>1 DEF Split
      <4> QED
        BY <3>2, <4>1, <4>2, OneLeaves
    <3>3. CASE a \notin Holders
      <4>1. Holders' = Holders
        BY <3>1, <3>3 DEF Holders, Holding
      <4> QED
        BY <4>1, SameHolders
    <3> QED
      BY <3>2, <3>3
  <2>6. CASE UNCHANGED vars
    BY <2>6 DEF vars, Holders, Split
  <2> QED
    BY <2>1, <2>2, <2>3, <2>4, <2>5, <2>6 DEF Next, Command
<1> QED
  BY <1>1, <1>2, TypeCorrect, FlockAccountedCorrect, ExclusionUnlessSplitCorrect, PTL
  DEF Spec, ImplementsMutex, Lock!Spec
=============================================================================
