---------------------------- MODULE Calibration -----------------------------
(***************************************************************************)
(* What aisctl remembers of an engine: the install record (install_state   *)
(* .py) and the rings of measured footprints (calibration.py), written by  *)
(* the commands of commands.py 368-440, 456-577 and 600-712.  Neither file *)
(* is locked: the operations lock is released before the record is written *)
(* and `start` takes none.  Each process of Clis is one run of aisctl, and *)
(* may die at any step.                                                    *)
(*                                                                         *)
(* A sample is filed under the digest of the record, while the process it  *)
(* measures runs what launchd was last given, and the preset is edited     *)
(* meanwhile: the properties say when the three agree.                     *)
(***************************************************************************)
EXTENDS Footprints

CONSTANTS
  Clis,        \* runs of aisctl
  Revs,        \* revisions (digests) of the engine's preset
  Base,        \* the engine's base manifest
  Nothing,     \* no record, nothing installed; what a damaged record is read as
  Absent, Blank, Torn,
  Nobody,      \* nobody holds the operations lock
  RingSize,    \* RING_SIZE
  Footprint,   \* what a process of each manifest may weigh
  Siblings,    \* what the other processes may weigh that the engine's pattern matches
  Noise,       \* what an unload may seem to free
  Hosts, Here, \* the hosts that share the state tree, and the one that measures
  OldRings,    \* the rings there may be to begin with
  Declared     \* memory figures of presets that are asked about

Manifests == Revs \union {Base}

ASSUME ManifestsDistinct == Base \notin Revs /\ Nothing \notin Manifests
ASSUME NobodyIsNoCli == Nobody \notin Clis
ASSUME HereIsHost == Here \in Hosts
ASSUME RingSizePositive == RingSize \in Nat \ {0}
ASSUME WeightsAreNat ==
  /\ Footprint \in [Manifests -> SUBSET Nat]
  /\ Siblings \subseteq Nat /\ Noise \subseteq Nat

\* `sure` is history: nothing interfered with the command that took the sample.
Samples ==
  [mb : Nat \ {0}, source : {"health", "unload"}, host : Hosts, sure : BOOLEAN]

Rings == [Revs -> Seq(Samples)]

\* Every ring is in its size, and every sample that is sure to be of a process of a
\* revision is one.
Good(all) ==
  \A r \in Revs :
    /\ Len(all[r]) <= RingSize
    /\ \A i \in 1..Len(all[r]) :
         LET s == all[r][i]
         IN s.source = "health" /\ s.host = Here /\ s.sure => s.mb \in Footprint[r]

ASSUME DamageDistinct ==
  /\ {Absent, Blank, Torn} \intersect (Manifests \union Rings) = {}
  /\ Absent # Blank /\ Absent # Torn /\ Blank # Torn
ASSUME OldRingsAreGood == \A all \in OldRings : all \in Rings /\ Good(all)
ASSUME DeclaredAreFigures == Declared \subseteq Figures

VARIABLES
  file,     \* the preset file as it is now
  job,      \* the manifest launchd was last given
  lock,     \* who holds the operations lock
  rec, recTmp, recFd,     \* installs/<engine>.json
  ring, ringTmp, ringFd,  \* calibration/<engine>.json
  pc, kind, \* each run: where it is, and its command
  man,      \* the manifest it has loaded, or digested
  key,      \* the revision the record named
  mb,       \* what it measured
  rings,    \* the rings it has read and added to
  sure,     \* history: no other install, no edit and no sibling came in between
  alone,    \* history: no other run stored a sample meanwhile
  faithful  \* history: the record was written by an install nobody disturbed

recVars  == <<rec, recTmp, recFd>>
ringVars == <<ring, ringTmp, ringFd>>
runVars  == <<kind, man, key, mb, rings>>
vars == <<file, job, lock, recVars, ringVars, pc, runVars, sure, alone, faithful>>

Record == INSTANCE StateFile WITH
  Writers <- Clis, pub <- rec, tmp <- recTmp, fd <- recFd
Ring == INSTANCE StateFile WITH
  Writers <- Clis, pub <- ring, tmp <- ringTmp, fd <- ringFd

\* `aisctl install` with a preset, without, without and with --force; `reinstall`;
\* `start` and `enable --start`; `unload`.
Kinds == {"install", "plain", "forced", "reinstall", "start", "unload"}
Installs == {"install", "plain", "forced", "reinstall"}

NoRings == [r \in Revs |-> << >>]

Init ==
  /\ file \in Revs
  /\ job \in Manifests \union {Nothing}
  /\ lock = Nobody
  /\ rec = IF job = Nothing THEN Absent ELSE job
  /\ recTmp = Absent /\ recFd = [c \in Clis |-> "none"]
  /\ ring \in OldRings \union {Absent} /\ ringTmp = Absent
  /\ ringFd = [c \in Clis |-> "none"]
  /\ pc = [c \in Clis |-> "idle"]
  /\ kind = [c \in Clis |-> "none"]
  /\ man = [c \in Clis |-> Nothing]
  /\ key = [c \in Clis |-> Nothing]
  /\ mb = [c \in Clis |-> 0]
  /\ rings = [c \in Clis |-> NoRings]
  /\ sure = [c \in Clis |-> TRUE]
  /\ alone = [c \in Clis |-> TRUE]
  /\ faithful = TRUE

-----------------------------------------------------------------------------
(* Reading the files.                                                      *)

\* read_install: an absent or damaged record is none.
ReadRecord == IF rec \in Manifests THEN rec ELSE Nothing

\* _read_rings: an absent or damaged file is no rings.
ReadRings == IF ring \in Rings THEN ring ELSE NoRings

\* The last n elements of a sequence.
Last(s, n) == IF Len(s) <= n THEN s ELSE SubSeq(s, Len(s) - n + 1, Len(s))

\* Mutant: the samples of the other revisions are taken for stale and dropped.
AddAlone(all, r, s) == [NoRings EXCEPT ![r] = Last(Append(all[r], s), RingSize)]

\* record_sample: setdefault, append, del ring[:-RING_SIZE].
Add(all, r, s) == [all EXCEPT ![r] = Last(Append(@, s), RingSize)]

-----------------------------------------------------------------------------
(* The commands.                                                           *)

Goto(c, to) == pc' = [pc EXCEPT ![c] = to]

\* The process is gone, and with it what it had in memory.
Exit(c) ==
  /\ Goto(c, "done")
  /\ kind' = [kind EXCEPT ![c] = "none"]
  /\ man' = [man EXCEPT ![c] = Nothing]
  /\ key' = [key EXCEPT ![c] = Nothing]
  /\ mb' = [mb EXCEPT ![c] = 0]
  /\ rings' = [rings EXCEPT ![c] = NoRings]
  /\ sure' = [sure EXCEPT ![c] = TRUE]
  /\ alone' = [alone EXCEPT ![c] = TRUE]

Running(c) == pc[c] \notin {"idle", "done"}

\* An install has given launchd a job and not yet recorded it.
Recording(c) ==
  kind[c] \in Installs /\ pc[c] \in {"health", "digest", "open", "write", "replace"}

\* An install has read the preset file and not yet digested it.
Loaded(c) ==
  kind[c] \in Installs /\ man[c] \in Revs /\ pc[c] \in {"lock", "deploy", "health", "digest"}

Storing(c) == pc[c] \in {"open_ring", "write_ring", "replace_ring"}

\* Mutant: the guard of a plain install is gone.
NeverRefused(k) == FALSE

\* A plain install over a recorded preset is refused; without a record there is nothing
\* to replay.
Refused(k) ==
  \/ k = "plain" /\ ReadRecord \in Revs
  \/ k = "reinstall" /\ ReadRecord = Nothing

\* The preset, the one that was recorded, or the base manifest.
Requested(k) ==
  CASE k = "install" -> file
    [] k = "reinstall" -> IF ReadRecord \in Revs THEN file ELSE Base
    [] k \in {"plain", "forced"} -> Base
    [] OTHER -> Nothing

\* The record is read, the guard passed and the manifest loaded; --force and `start` do
\* without the lock.
Begin(c, k) ==
  /\ pc[c] = "idle" /\ ~Refused(k)
  /\ kind' = [kind EXCEPT ![c] = k]
  /\ man' = [man EXCEPT ![c] = Requested(k)]
  /\ Goto(c, CASE k = "start" -> "health" [] k = "forced" -> "deploy" [] OTHER -> "lock")
  /\ sure' = [sure EXCEPT ![c] = ~\E d \in Clis : Recording(d)]
  /\ UNCHANGED <<file, job, lock, recVars, ringVars, key, mb, rings, alone, faithful>>

AcquireLock(c) ==
  /\ pc[c] = "lock" /\ lock = Nobody
  /\ lock' = c
  /\ Goto(c, IF kind[c] = "unload" THEN "unload" ELSE "deploy")
  /\ UNCHANGED <<file, job, recVars, ringVars, runVars, sure, alone, faithful>>

\* Mutant: the lock is kept until the process ends.
KeepLock(c) == UNCHANGED lock

\* The `with OperationsLock()` block ends.
Unlock(c) == lock' = IF lock = c THEN Nobody ELSE lock

\* install-daemon: from here on the record is of another job.
Deploy(c) ==
  /\ pc[c] = "deploy"
  /\ job' = man[c]
  /\ Goto(c, "health")
  /\ sure' = [d \in Clis |->
                sure[d] /\ IF d = c THEN ~\E e \in Clis : Recording(e) ELSE ~Running(d)]
  /\ faithful' = FALSE
  /\ UNCHANGED <<file, lock, recVars, ringVars, runVars, alone>>

\* wait_for_health, inside the lock for an install and without it for a start.
BecomeHealthy(c) ==
  /\ pc[c] = "health" /\ job # Nothing
  /\ Unlock(c)
  /\ Goto(c, IF kind[c] = "start" THEN "sample" ELSE "digest")
  /\ UNCHANGED <<file, job, recVars, ringVars, runVars, sure, alone, faithful>>

\* Mutant: the file of the base manifest is looked up, whatever was installed.
DigestOfBase(c) ==
  /\ pc[c] = "digest"
  /\ man' = [man EXCEPT ![c] = Base]
  /\ Goto(c, "open")
  /\ UNCHANGED <<file, job, lock, recVars, ringVars, kind, key, mb, rings, sure, alone,
                 faithful>>

\* manifest_digest of the file as it is after the install.
Digest(c) ==
  /\ pc[c] = "digest"
  /\ man' = [man EXCEPT ![c] = IF @ \in Revs THEN file ELSE @]
  /\ Goto(c, "open")
  /\ UNCHANGED <<file, job, lock, recVars, ringVars, kind, key, mb, rings, sure, alone,
                 faithful>>

OpenRecord(c) ==
  /\ pc[c] = "open"
  /\ Record!Open(c)
  /\ Goto(c, "write")
  /\ UNCHANGED <<file, job, lock, ringVars, runVars, sure, alone, faithful>>

WriteRecord(c) ==
  /\ pc[c] = "write"
  /\ Record!Write(c, man[c])
  /\ Goto(c, "replace")
  /\ UNCHANGED <<file, job, lock, ringVars, runVars, sure, alone, faithful>>

\* The install has no more to record than what it deployed, if nothing came in between.
ReplaceRecord(c) ==
  /\ pc[c] = "replace"
  /\ Record!Replace(c)
  /\ Goto(c, "sample")
  /\ faithful' = sure[c]
  /\ UNCHANGED <<file, job, lock, ringVars, runVars, sure, alone>>

-----------------------------------------------------------------------------
(* The calibration hooks.                                                  *)

\* cmd_unload: the difference of two snapshots of the host's memory.
Unload(c) ==
  /\ pc[c] = "unload" /\ job # Nothing
  /\ \E n \in Noise : mb' = [mb EXCEPT ![c] = n]
  /\ Unlock(c)
  /\ Goto(c, "sample")
  /\ UNCHANGED <<file, job, recVars, ringVars, kind, man, key, rings, sure, alone, faithful>>

\* Mutant: the sample is filed under the preset file as it is now.
ReadKeyOfFile(c) ==
  /\ pc[c] = "sample"
  /\ ReadRecord \in Revs
  /\ key' = [key EXCEPT ![c] = file]
  /\ Goto(c, IF kind[c] = "unload" THEN "collect" ELSE "measure")
  /\ UNCHANGED <<file, job, lock, recVars, ringVars, kind, man, mb, rings, sure, alone,
                 faithful>>

\* read_install: only the installs of a preset are calibrated.
ReadKey(c) ==
  /\ pc[c] = "sample"
  /\ ReadRecord \in Revs
  /\ key' = [key EXCEPT ![c] = ReadRecord]
  /\ Goto(c, IF kind[c] = "unload" THEN "collect" ELSE "measure")
  /\ UNCHANGED <<file, job, lock, recVars, ringVars, kind, man, mb, rings, sure, alone,
                 faithful>>

\* engine_rss_mb: the process launchd runs now, and every sibling that names no other port.
Measure(c) ==
  /\ pc[c] = "measure"
  /\ \E n \in Footprint[job], m \in Siblings :
       /\ mb' = [mb EXCEPT ![c] = n + m]
       /\ sure' = [sure EXCEPT ![c] = @ /\ m = 0]
  /\ Goto(c, "collect")
  /\ UNCHANGED <<file, job, lock, recVars, ringVars, kind, man, key, rings, alone, faithful>>

SampleOf(c) ==
  [mb |-> mb[c], source |-> IF kind[c] = "unload" THEN "unload" ELSE "health",
   host |-> Here, sure |-> sure[c] /\ faithful]

\* record_sample: what is not positive is discarded, the rings are read and added to.
Collect(c) ==
  /\ pc[c] = "collect" /\ mb[c] > 0
  /\ rings' = [rings EXCEPT ![c] = Add(ReadRings, key[c], SampleOf(c))]
  /\ Goto(c, "open_ring")
  /\ alone' = [d \in Clis |->
                 IF d = c THEN ~\E e \in Clis : Storing(e) ELSE alone[d] /\ ~Storing(d)]
  /\ UNCHANGED <<file, job, lock, recVars, ringVars, kind, man, key, mb, sure, faithful>>

OpenRings(c) ==
  /\ pc[c] = "open_ring"
  /\ Ring!Open(c)
  /\ Goto(c, "write_ring")
  /\ UNCHANGED <<file, job, lock, recVars, runVars, sure, alone, faithful>>

WriteRings(c) ==
  /\ pc[c] = "write_ring"
  /\ Ring!Write(c, rings[c])
  /\ Goto(c, "replace_ring")
  /\ UNCHANGED <<file, job, lock, recVars, runVars, sure, alone, faithful>>

ReplaceRings(c) ==
  /\ pc[c] = "replace_ring"
  /\ Ring!Replace(c)
  /\ Exit(c)
  /\ UNCHANGED <<file, job, lock, recVars, faithful>>

-----------------------------------------------------------------------------
\* The run ends before its last step: the lock is taken, the engine not up, the record
\* not one of a preset, the measure void, another writer has renamed its file; or it dies.
End(c) ==
  /\ Running(c)
  /\ Unlock(c)
  /\ Exit(c)
  /\ Record!Close(c) /\ Ring!Close(c)
  /\ UNCHANGED <<file, job, faithful>>

\* Somebody edits the preset file, or reverts it.
Edit ==
  /\ \E r \in Revs \ {file} : file' = r
  /\ sure' = [c \in Clis |-> sure[c] /\ ~Loaded(c)]
  /\ UNCHANGED <<job, lock, recVars, ringVars, pc, runVars, alone, faithful>>

Run(c) ==
  \/ \E k \in Kinds : Begin(c, k)
  \/ AcquireLock(c) \/ Deploy(c) \/ BecomeHealthy(c)
  \/ Digest(c) \/ OpenRecord(c) \/ WriteRecord(c) \/ ReplaceRecord(c)
  \/ Unload(c) \/ ReadKey(c) \/ Measure(c)
  \/ Collect(c) \/ OpenRings(c) \/ WriteRings(c) \/ ReplaceRings(c)
  \/ End(c)

Next == Edit \/ \E c \in Clis : Run(c)

Spec == Init /\ [][Next]_vars

-----------------------------------------------------------------------------
Phases ==
  {"idle", "lock", "deploy", "health", "digest", "open", "write", "replace", "unload",
   "sample", "measure", "collect", "open_ring", "write_ring", "replace_ring", "done"}

RunsOK ==
  /\ pc \in [Clis -> Phases]
  /\ kind \in [Clis -> Kinds \union {"none"}]
  /\ man \in [Clis -> Manifests \union {Nothing}]
  /\ key \in [Clis -> Revs \union {Nothing}]
  /\ mb \in [Clis -> Nat]
  /\ rings \in [Clis -> Rings]
  /\ sure \in [Clis -> BOOLEAN] /\ alone \in [Clis -> BOOLEAN]

FilesOK ==
  /\ rec \in Manifests \union {Absent, Blank, Torn}
  /\ recTmp \in Manifests \union {Absent, Blank, Torn}
  /\ ring \in Rings \union {Absent, Blank, Torn}
  /\ ringTmp \in Rings \union {Absent, Blank, Torn}
  /\ Record!FdOK /\ Ring!FdOK

\* Types; only the commands between their lock and the end of it hold the lock.
TypeOK ==
  /\ RunsOK /\ FilesOK
  /\ file \in Revs /\ job \in Manifests \union {Nothing}
  /\ lock \in Clis \union {Nobody} /\ faithful \in BOOLEAN
  /\ \A c \in Clis : lock = c => pc[c] \in {"deploy", "health", "unload"}

\* The record is of the job, unless the last install died before its record, or something
\* came in between (commands.py:476-491: the lock is released first).
RecordFollowsJob == faithful => ReadRecord = job

\* A plain install never turns a preset's job into the base manifest's behind the
\* operator's back (commands.py:463-474).
PlainNeverDegrades ==
  \A c \in Clis :
    kind[c] = "plain" /\ pc[c] = "deploy" /\ sure[c] /\ faithful => job \notin Revs

\* A ring keeps RING_SIZE samples at most, and a health sample filed under a revision
\* measured a process of that revision, whatever the preset file says meanwhile
\* (calibration.py:15-18, 148-149).
SampleTrue == Good(ReadRings)

\* One sample came at the end of one ring and the oldest went if it was full.
Appended(old, new) ==
  \E r \in Revs :
    LET n == new[r]
        all == Append(old[r], n[Len(n)])
    IN /\ n # << >> /\ new = [old EXCEPT ![r] = n]
       /\ n = SubSeq(all, Len(all) - Len(n) + 1, Len(all))
       /\ n = all \/ Len(n) = RingSize

\* No sample is lost, whoever dies where, unless two runs stored at the same time; those
\* of other revisions are ignored, never deleted (calibration.py:17-18, 98-103).
SamplesKept ==
  [][ReadRings' # ReadRings /\ (\A c \in Clis : Storing(c) => alone[c])
       => Appended(ReadRings, ReadRings')]_vars

\* The median the plan rests on has half of the weight on either side at most
\* (calibration.py:158-178).
MedianRight ==
  \A r \in Revs :
    LET s == Fresh(ReadRings[r], Here)
    IN s # << >> => IsMedian(WeightedMedian(s), s)

\* What the process will weigh by the figures, exactly: in tenths of a byte.  The runtime
\* takes the last context flag.
Expected(f) ==
  (IF f.weights # None THEN Megabyte * f.weights
   ELSE 10 * (f.model + IF f.mmproj = None THEN 0 ELSE f.mmproj))
  + 10 * (f.kvPerToken * (IF f.flags # << >> THEN f.flags[Len(f.flags)] ELSE f.ctx))
  + Megabyte * OverheadComponent(f).mb

\* An estimate is in order, rests on this host's samples of this revision or on figures
\* of a configuration that starts, contains the cost it stands for, to a tenth of a MB
\* where it is computed, and is all zero if anything is missing or infinite.  There is
\* none only if the context flag is beyond every float (plan.py:36-39, 224, 274-352).
EstimateHonest ==
  \A r \in Revs :
    LET fresh == Fresh(ReadRings[r], Here)
        measured == MeasuredFootprint(ReadRings[r], Here)
    IN \A f \in Declared :
         LET e == Estimate(f, measured)
         IN /\ e.high <= 10 * Huge
            /\ e.confidence = "unknown" => e.low = 0 /\ e.high = 0
            /\ e.confidence = "measured"
                 => \E i \in 1..Len(fresh) :
                      e.low <= fresh[i].mb /\ fresh[i].mb + Peak(f) <= e.high
            /\ e.confidence \in {"declared", "computed"}
                 => /\ fresh = << >> /\ Starts(f)
                    /\ Megabyte * e.low <= Expected(f) + Megabyte
                    /\ Expected(f) + Megabyte * Peak(f) <= Megabyte * e.high + Megabyte
            /\ e.confidence = "raised"
                 => fresh = << >> /\ f.kvPerToken # None /\ f.flags[Len(f.flags)] > Huge
=============================================================================
