--------------------------- MODULE OperationsLock ---------------------------
(***************************************************************************)
(* ais_core/memory.py: the flock on ~/.local/share/asiai/operations.lock   *)
(* that serializes engine operations (OperationsLock), and the repair pass *)
(* that deletes a stale lock file (repair, behind `purge --force-repair`). *)
(*                                                                         *)
(* An flock belongs to an inode, not to a path.  The model therefore keeps *)
(* the inode the path names apart from the inodes that processes hold      *)
(* open: a file can be unlinked and created again under a process that     *)
(* opened it before.  An inode that neither the path nor a descriptor      *)
(* references is free and may be used again for a new file.                *)
(*                                                                         *)
(* Procs are the commands that take the lock (aisctl, and `asiai bench`,   *)
(* which takes the same one), Repairers the repair passes.  A process is   *)
(* one run of a command: when it ends, its PID names no process, and the   *)
(* same member of Procs stands for the next command.                       *)
(***************************************************************************)
EXTENDS FiniteSets

CONSTANTS
  Procs,      \* commands that acquire the lock
  Repairers,  \* repair passes
  Inodes,     \* lock-file inodes
  NoFile,     \* the path names no file; a descriptor is closed
  Nobody,     \* no process holds the flock
  Empty,      \* the lock file holds no PID
  Gone        \* the lock file holds the PID of a process that has ended

Actors == Procs \union Repairers

Texts == Procs \union {Empty, Gone}

ASSUME ActorsDisjoint == Procs \intersect Repairers = {}
ASSUME NoFileIsNoInode == NoFile \notin Inodes
ASSUME NobodyIsNoActor == Nobody \notin Actors
ASSUME NoPidIsNoProc == Empty \notin Procs /\ Gone \notin Procs /\ Empty # Gone

VARIABLES
  file,   \* the inode operations.lock names, or NoFile
  text,   \* the content of each inode
  owner,  \* the process that holds the flock of each inode
  fd,     \* the lock-file inode each process has open
  pc,     \* where each process is
  seen    \* the PID a repair pass read

vars == <<file, text, owner, fd, pc, seen>>

\* A command holds the flock from LOCK_EX to LOCK_UN.
Holding == {"locked", "truncated", "critical"}

\* A repair pass that got the probe flock keeps it until it closes the descriptor.
Probing == {"probed", "read", "stale", "closing"}

Opened == {"opened"} \union Holding \union Probing

Init ==
  /\ file = NoFile
  /\ text = [i \in Inodes |-> Empty]
  /\ owner = [i \in Inodes |-> Nobody]
  /\ fd = [a \in Actors |-> NoFile]
  /\ pc = [a \in Actors |-> "idle"]
  /\ seen = [r \in Repairers |-> Empty]

Free(i) == file # i /\ \A a \in Actors : fd[a] # i

-----------------------------------------------------------------------------
(* OperationsLock.acquire, release and the force bypass.                   *)

\* Mutant: O_TRUNC in the open, so that a refused contender wipes the holder's PID.
OpenLockTruncating(p) ==
  /\ pc[p] \in {"idle", "released"}
  /\ pc' = [pc EXCEPT ![p] = "opened"]
  /\ \E i \in Inodes :
       /\ IF file = NoFile THEN Free(i) ELSE i = file
       /\ file' = i
       /\ text' = [text EXCEPT ![i] = Empty]
       /\ fd' = [fd EXCEPT ![p] = i]
  /\ UNCHANGED <<owner, seen>>

\* os.open(O_CREAT | O_RDWR): the file the path names, or a new one.  A command may
\* take the lock again after it released it, as cmd_upgrade does.
OpenLock(p) ==
  /\ pc[p] \in {"idle", "released"}
  /\ pc' = [pc EXCEPT ![p] = "opened"]
  /\ \/ /\ file # NoFile
        /\ fd' = [fd EXCEPT ![p] = file]
        /\ UNCHANGED <<file, text>>
     \/ /\ file = NoFile
        /\ \E i \in Inodes :
             /\ Free(i)
             /\ file' = i
             /\ text' = [text EXCEPT ![i] = Empty]
             /\ fd' = [fd EXCEPT ![p] = i]
  /\ UNCHANGED <<owner, seen>>

\* Mutant: the BlockingIOError of a held lock is swallowed.
TryFlockIgnoringRefusal(p) ==
  /\ pc[p] = "opened"
  /\ owner' = [owner EXCEPT ![fd[p]] = p]
  /\ pc' = [pc EXCEPT ![p] = "locked"]
  /\ UNCHANGED <<file, text, fd, seen>>

\* Mutant: the refused contender does not close its descriptor.
TryFlockLeakingFd(p) ==
  /\ pc[p] = "opened"
  /\ \/ /\ owner[fd[p]] = Nobody
        /\ owner' = [owner EXCEPT ![fd[p]] = p]
        /\ pc' = [pc EXCEPT ![p] = "locked"]
     \/ /\ owner[fd[p]] # Nobody
        /\ pc' = [pc EXCEPT ![p] = "refused"]
        /\ UNCHANGED owner
  /\ UNCHANGED <<file, text, fd, seen>>

\* flock(LOCK_EX | LOCK_NB) on the descriptor; a held lock closes it and refuses.
TryFlock(p) ==
  /\ pc[p] = "opened"
  /\ \/ /\ owner[fd[p]] = Nobody
        /\ owner' = [owner EXCEPT ![fd[p]] = p]
        /\ pc' = [pc EXCEPT ![p] = "locked"]
        /\ UNCHANGED fd
     \/ /\ owner[fd[p]] # Nobody
        /\ fd' = [fd EXCEPT ![p] = NoFile]
        /\ pc' = [pc EXCEPT ![p] = "refused"]
        /\ UNCHANGED owner
  /\ UNCHANGED <<file, text, seen>>

Truncate(p) ==
  /\ pc[p] = "locked"
  /\ text' = [text EXCEPT ![fd[p]] = Empty]
  /\ pc' = [pc EXCEPT ![p] = "truncated"]
  /\ UNCHANGED <<file, owner, fd, seen>>

WritePid(p) ==
  /\ pc[p] = "truncated"
  /\ text' = [text EXCEPT ![fd[p]] = p]
  /\ pc' = [pc EXCEPT ![p] = "critical"]
  /\ UNCHANGED <<file, owner, fd, seen>>

\* Mutant: release forgets LOCK_UN and the descriptor outlives it.
ReleaseKeepingFlock(p) ==
  /\ pc[p] = "critical"
  /\ fd' = [fd EXCEPT ![p] = NoFile]
  /\ pc' = [pc EXCEPT ![p] = "released"]
  /\ UNCHANGED <<file, text, owner, seen>>

\* LOCK_UN and close.  The file and the PID in it stay behind.
Release(p) ==
  /\ pc[p] = "critical"
  /\ owner' = [owner EXCEPT ![fd[p]] = Nobody]
  /\ fd' = [fd EXCEPT ![p] = NoFile]
  /\ pc' = [pc EXCEPT ![p] = "released"]
  /\ UNCHANGED <<file, text, seen>>

\* OperationsLock(force=True): __enter__ takes nothing, __exit__ releases nothing.
Bypass(p) ==
  /\ pc[p] = "idle"
  /\ pc' = [pc EXCEPT ![p] = "forced"]
  /\ UNCHANGED <<file, text, owner, fd, seen>>

EndBypass(p) ==
  /\ pc[p] = "forced"
  /\ pc' = [pc EXCEPT ![p] = "released"]
  /\ UNCHANGED <<file, text, owner, fd, seen>>

-----------------------------------------------------------------------------
(* repair: probe the flock, read the PID by path, judge it, unlink.        *)

\* path.exists() and os.open(O_RDONLY); with no file there is nothing to do.
RepairOpen(r) ==
  /\ pc[r] = "idle"
  /\ file # NoFile
  /\ fd' = [fd EXCEPT ![r] = file]
  /\ pc' = [pc EXCEPT ![r] = "opened"]
  /\ UNCHANGED <<file, text, owner, seen>>

\* Mutant: repair goes straight to the PID, without probing the flock.
RepairProbeSkipped(r) ==
  /\ pc[r] = "opened"
  /\ pc' = [pc EXCEPT ![r] = "probed"]
  /\ UNCHANGED <<file, text, owner, fd, seen>>

\* flock(LOCK_EX | LOCK_NB) on the probe descriptor; a live holder ends the probe.
RepairProbe(r) ==
  /\ pc[r] = "opened"
  /\ \/ /\ owner[fd[r]] = Nobody
        /\ owner' = [owner EXCEPT ![fd[r]] = r]
        /\ pc' = [pc EXCEPT ![r] = "probed"]
        /\ UNCHANGED fd
     \/ /\ owner[fd[r]] # Nobody
        /\ fd' = [fd EXCEPT ![r] = NoFile]
        /\ pc' = [pc EXCEPT ![r] = "idle"]
        /\ UNCHANGED owner
  /\ UNCHANGED <<file, text, seen>>

\* read_text() opens the path again: it may name another file by now, or none.
RepairRead(r) ==
  /\ pc[r] = "probed"
  /\ \/ /\ file # NoFile
        /\ seen' = [seen EXCEPT ![r] = text[file]]
        /\ pc' = [pc EXCEPT ![r] = "read"]
     \/ /\ file = NoFile
        /\ pc' = [pc EXCEPT ![r] = "closing"]
        /\ UNCHANGED seen
  /\ UNCHANGED <<file, text, owner, fd>>

\* int() and kill(pid, 0).  No PID, or one that names no process, is stale; the PID
\* of an ended process may since name another one, which keeps the file.
RepairJudge(r) ==
  /\ pc[r] = "read"
  /\ \/ /\ seen[r] \in {Empty, Gone}
        /\ pc' = [pc EXCEPT ![r] = "stale"]
     \/ /\ seen[r] # Empty
        /\ pc' = [pc EXCEPT ![r] = "closing"]
  /\ UNCHANGED <<file, text, owner, fd, seen>>

\* OPERATIONS_LOCK_PATH.unlink(), which removes whatever the path names now.
RepairUnlink(r) ==
  /\ pc[r] = "stale"
  /\ file' = NoFile
  /\ pc' = [pc EXCEPT ![r] = "closing"]
  /\ UNCHANGED <<text, owner, fd, seen>>

RepairClose(r) ==
  /\ pc[r] = "closing"
  /\ owner' = [i \in Inodes |-> IF owner[i] = r THEN Nobody ELSE owner[i]]
  /\ fd' = [fd EXCEPT ![r] = NoFile]
  /\ pc' = [pc EXCEPT ![r] = "idle"]
  /\ UNCHANGED <<file, text, seen>>

-----------------------------------------------------------------------------
\* A process ends, normally or killed at any point (serve kills a command that
\* overruns).  The kernel closes its descriptors and drops its flocks, and every copy
\* of its PID names no process from now on.
ProcessEnds(a) ==
  /\ pc[a] # "idle"
  /\ pc' = [pc EXCEPT ![a] = "idle"]
  /\ fd' = [fd EXCEPT ![a] = NoFile]
  /\ owner' = [i \in Inodes |-> IF owner[i] = a THEN Nobody ELSE owner[i]]
  /\ text' = [i \in Inodes |-> IF text[i] = a THEN Gone ELSE text[i]]
  /\ seen' = [r \in Repairers |-> IF seen[r] = a THEN Gone ELSE seen[r]]
  /\ UNCHANGED file

Command(p) ==
  \/ OpenLock(p) \/ TryFlock(p) \/ Truncate(p) \/ WritePid(p) \/ Release(p)
  \/ Bypass(p) \/ EndBypass(p)

Repair(r) ==
  \/ RepairOpen(r) \/ RepairProbe(r) \/ RepairRead(r) \/ RepairJudge(r)
  \/ RepairUnlink(r) \/ RepairClose(r)

Next ==
  \/ \E p \in Procs : Command(p)
  \/ \E r \in Repairers : Repair(r)
  \/ \E a \in Actors : ProcessEnds(a)

Spec == Init /\ [][Next]_vars

-----------------------------------------------------------------------------
\* Types, and that a descriptor is open exactly where the code has one open: a
\* refused, released or bypassing command has closed its own.
TypeOK ==
  /\ file \in Inodes \union {NoFile}
  /\ text \in [Inodes -> Texts]
  /\ owner \in [Inodes -> Actors \union {Nobody}]
  /\ fd \in [Actors -> Inodes \union {NoFile}]
  /\ pc \in [Actors -> Opened \union {"idle", "refused", "released", "forced"}]
  /\ seen \in [Repairers -> Texts]
  /\ \A a \in Actors : fd[a] # NoFile <=> pc[a] \in Opened

\* Two commands are never inside the lock at once, --force aside (memory.py:270).
MutualExclusion ==
  \A p, q \in Procs : pc[p] \in Holding /\ pc[q] \in Holding => p = q

\* A command has a file open that the path no longer names.
Split == \E p \in Procs : fd[p] # NoFile /\ fd[p] # file

\* The flock of an inode is held exactly by the process that took it through the
\* descriptor it still has open: none survives a release, a refusal or a death.
FlockAccounted ==
  \A i \in Inodes, a \in Actors :
    owner[i] = a <=> fd[a] = i /\ pc[a] \in Holding \union Probing

\* While a command works under the lock, the file it locked carries its PID: no
\* refused contender and no repair pass overwrites it (memory.py:310, "so a future
\* repair pass can detect a stale lock").
HolderPidIntact ==
  \A p \in Procs : pc[p] = "critical" => text[fd[p]] = p

\* Repair never unlinks a lock file whose flock a command holds (memory.py:353, "a
\* holder that acquired the lock but hasn't written its PID yet would otherwise look
\* stale (empty file) and get deleted under it").
RepairSparesHolder ==
  [][file # NoFile /\ file' = NoFile => owner[file] \notin Procs]_vars

-----------------------------------------------------------------------------
\* The abstract lock is held by the commands between LOCK_EX and LOCK_UN.
Holders == {p \in Procs : pc[p] \in Holding}

Lock == INSTANCE Mutex WITH Clients <- Procs, holders <- Holders, split <- Split

\* The flock discipline implements the mutex that the commands rely on: no command
\* enters beside another unless the lock is split, and a split heals with one holder.
ImplementsMutex == Lock!Spec
=============================================================================
