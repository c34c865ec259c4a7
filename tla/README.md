# A verification of asiai-inference-server

TLA+ models of the parts of asiai-inference-server that keep state or run side by
side, TLC configurations that check them on small instances, and proofs that TLAPS
checks. Line numbers are those of the commit under `src/`.

`aisctl` manages local inference engines on macOS. Its commands run as the user and
change the system only through `sudo`: a root helper (`asiai-priv`) writes the
LaunchDaemon plists, a pf anchor restricts each engine's port, a sudoers fragment
grants the helper. Nothing here is a transaction. The code relies on one advisory
lock, on the order of its steps, and on undoing or repeating them. That is what the
models are about.

## The system

| part | state it keeps | operations | what makes it hard | what makes it correct |
|---|---|---|---|---|
| operations lock and repair (`memory.py`) | a lock file, its flock, the PID in it | acquire, release, `--force`, repair | an flock belongs to an inode and repair unlinks a path; processes die anywhere | one holder; no flock outlives its command; repair spares a held file |
| privileged helper (`asiai_priv.py`) | plists in `/Library/LaunchDaemons`, a temporary file | install, uninstall, start, stop, enable, disable, reserved services | no lock of its own; write, rename, bootstrap and rollback are separate steps; removals and rollbacks ignore a failed bootout, and their unlink may fail | one writer per label; a failed install leaves nothing its rollback could remove; reserved labels are left alone |
| lifecycle and CLI (`lifecycle.py`, `commands.py`, `install_service.py`) | the install record | install, reinstall, uninstall, start, restart, stop, disable, enable, services | sequences of helper calls, some unchecked, some unlocked; kills leave orphaned helpers; reboots | what runs is what is installed; disabled stays down; the lock comes back |
| app bundle (`bundle.py`, `bundle register`) | SMAppService registrations | register, unregister | a label can have two loaders, and approval comes when the user gives it | one loader per label |
| firewall (`firewall.py`) | anchor files, two lines of `pf.conf`, the kernel's rules | install, remove | each write is a `sudo` that may fail; old hosts are half wired | the files agree, and the kernel agrees with the files |
| serve (`serve.py`) | permits, subprocesses, a cache, the loopback token | command, state query | threads; subprocesses that hang; a cache filled outside its lock | no permit leaks; bursts are bounded; answers come, and are recent |
| bootstrap (`bootstrap.py`, `sudoers.py`) | helper, sidecar, sudoers fragment, baseline | install, `--install-sudoers`, rollback | a crash between any two steps, and a re-run after it | the baseline is never poisoned, nobody is locked out, rollback restores |
| probes (`lifecycle.py` 485-927) | none | wait for health, probe the state | readings of HTTP, pgrep, lsof and launchctl, one after the other, of a host that changes; two manifests may share a port or a binary | an engine is neither trusted nor blamed for its neighbour, nor demoted while it serves; a wait ends |
| record and calibration (`install_state.py`, `calibration.py`) | a record and rings of samples per engine | record an install, sample after a start or an unload | two files no lock covers, one temporary name for every writer; the preset is edited meanwhile | the record is of the job, a sample of the revision it is filed under; no sample is lost |
| plan (`plan.py`) | none | estimate a preset's memory | flags given twice, missing files, overflow | the estimate contains what it stands for, or says "unknown" |
| launcher, upgrade, fleet, drivers, manifests, plist renderer, plugin, parser, printing | none or files read once | one call each | little | - |

How they interact: a command reads the install record, takes the operations lock and
calls the helper several times, then the firewall, then writes the record; `serve`
runs commands as subprocesses under a deadline and kills those that overrun, while
the helper they started goes on; helper calls of different commands share the plists
and launchd's table of jobs; `bundle register` changes the same labels past the
helper; `start` and the installs wait for health with the probes and then take a sample,
filed under what the install record says, which the plan reads; a reboot ends everything and loads what the files, overrides and
registrations say; bootstrap puts the helper and its grant in place for all of it.

## The modules

| module | models | stands on |
|---|---|---|
| `Mutex` | the abstract lock: what `with OperationsLock()` promises | - |
| `OperationsLock` | the flock that implements it, and `repair` | refines `Mutex` |
| `Launchd` | plists, loaded jobs, overrides, registrations, boot (external) | - |
| `PrivHelper` | the helper's handlers, step by step | `Launchd` |
| `EngineSlot` | the abstract slot of an engine: what the commands promise of its plist and job | - |
| `EngineOps` | the commands, the record, kills, orphans, the bundle, reboots | `PrivHelper`, a lock as in `Mutex`; refines `EngineSlot` |
| `Firewall` | anchors, `pf.conf`, reloads, boot | - |
| `Serve` | permits, subprocesses, the cache | - |
| `Health` | `wait_for_health` and `probe_state` on a host that changes | - |
| `StateFile` | a JSON file written beside its name and renamed over it | - |
| `Footprints` | the weighted median and the estimator: functions | - |
| `Calibration` | install record, rings, the commands that write them | two of `StateFile`, `Footprints` |
| `Bootstrap` | helper, sidecar, fragment, baseline, rollback | - |
| `OperationsLock_proofs`, `EngineOps_proofs`, `Firewall_proofs`, `Serve_proofs`, `Bootstrap_proofs`, `Health_proofs`, `Footprints_proofs`, `Calibration_proofs` | theorems | their modules |
| `MCOperationsLock`, `MCEngineOps`, `MCCalibration` | sets, data and symmetry for TLC | their modules |

### OperationsLock

`acquire` is `OpenLock`, `TryFlock`, `Truncate`, `WritePid` (295-312): a contender may
run between any two of these system calls. `file` is the inode the path names, `fd`
the inode each process has open, `owner` the process with the flock of an inode,
`text` the PID in it. Keeping inodes apart from the path is the point: after an unlink
two inodes can both be "the lock file" to somebody. `repair` is six actions (352-384);
its `read_text` and its `unlink` go through the path. `ProcessEnds` is a normal end
or a kill: descriptors close, flocks drop, and every copy of the PID becomes `Gone`,
the PID of nobody.

`Mutex` has a second variable, `split`: somebody removed the file under a command that
has it open. Only then may a client acquire beside another one, and the split heals with
one holder left. `OperationsLock` implements it with any number of repair passes; without
one the lock never splits, and `Mutex` is a plain mutex.

### PrivHelper and Launchd

`call[c]` is the helper process of caller `c`: its action, label, content, and the
step it is at. The steps are those between which another call or a crash can fall:
validation, temporary file, rename, bootstrap, and bootout and unlink (a removal, or
the rollback of an install). The argument validators decide only whether a call is
refused, so `Refuse` can follow any entry; it also stands for the one launchctl command of
a handler failing. Every bootout is run with `check=False` (`asiai_priv.py` 1008, 1018,
1061, 1083), so the handler unlinks the plist whether the job went or not
(`BootoutFails`), and the unlink may raise (917-929, `UnlinkFails`). A call ends as "ok";
"refused", when it touched no plist and no job; "error", for an install that was rolled
back or a launchctl error; or "left", when a plist could not be removed.

`Launchd` says what the code assumes of macOS: bootstrap fails on a loaded or disabled
label, a loaded job runs, overrides survive a boot, a label with a plist and an approved
registration has two loaders. The default KeepAlive (139) restarts a process that crashed
and not one that exits cleanly, and either can follow a SIGTERM: so launchd may start a
loaded job again whenever it has no process, unless the label is disabled (`Respawn`), and
need not. `stuck` is history: the labels whose job outlived a bootout.

### EngineOps

A command is a row of `Script`: its helper calls in order, each with `check=True`
(`Must`) or `check=False` (`Try`), and the preconditions (`Preflight`). Phases in `pc`
are the lock, the script and the record; after the last of them, or when a call raises,
the process is gone (`End`). A command that raises leaves its `with` block. The record is
read before the lock and written after it, as in `cmd_install`. `start` and the two
service commands take no lock, nor does `--force`.
`CommandDies` is the kill of `serve`, an interrupt, or a crash: the flock goes and the helper
call goes on (`OrphanReturns`). The firewall step of install and uninstall is a
failure that may follow the helper call (`CallRaises`). Two history variables serve the
properties: `standby` says which engines were disabled and not started since, and
`bypassed` the labels some call ran on without the lock since the last boot.

`EngineSlot` is what all of this promises of one engine: a plist, a job made from it, and
one client at a time between the two. An install publishes its plist and commits it as
the job, or turns into a removal; a removal takes the job down and then erases the
plist. Either half of a removal may fail: a job that stayed, which nobody looks at
(`StayUp`), is a stray until a later removal or a boot; a plist that stayed (`GiveUp`) is
the job again after the next boot. A boot, whatever it interrupted, makes the plist the job. `EngineOps`
implements it (`ImplementsSlot`): `Paper`, `Job`, `Up` and `Forbidden` are `plist`, `loaded`,
`running` and `disabled` of the engines, `Installing` the callers whose helper is between
its rename and its bootstrap or rollback, `Removing` those between bootout and unlink,
`Stray` the `stuck` labels. A job loaded from the bundle is no job of the slot, and the
bundle's labels are `Shared`: a boot may leave them to it. A label the lock was bypassed on
is a slot that is lost, of which nothing is promised until the next boot: launchd then
makes the job of the plist that is there, no call is left, and the promises hold again. The
fixed asiai services are no slots, since install-service takes no lock.

### Firewall

`conf` is the two sets of engines that have a declaration and a load line in
`pf.conf`, `file` the anchor files, `kernel` what pf enforces. A host may start with
declarations only, as hosts did before the load directive. Every step may be the last
(`Interrupt`); `Reload` succeeds only when every loaded file exists. `interrupted`
remembers that some operation was cut short. pf is taken to be on: the best-effort
`pfctl -e` at the end of an install (343) is left out.

### Serve

A command thread is idle, acquiring, spawning, waiting or releasing; `child` says
whether its subprocess runs, apart from whether the thread waits for it. A query
thread looks at the cache and, if that is stale, collects and stores in two steps, so
that queries overlap. The clock stops at `MaxTime`.

### Bootstrap

The three operations of `cmd_bootstrap` as one sequence of phases. `staged` is the
content under the staged name; publishing is the `mv`. Outside actions: the dotted
baseline files are deleted, or the backup changes. A re-run may install another
release of the helper.

### Health

The host has the manifest's own process (`own`: loading, serving, a zombie that answers
`/health` and computes nothing, or hung), a process of another manifest on its port
(`other`), one of its binary on another port or on none it tells (`sibling`), and one
that only mentions the port in its arguments (`bystander`). They come and go at any time
(`Host`). A call of the client is a sequence of readings, each an action: the HTTP probe
(`ProbeHealth`), `process_alive` (`AskAlive`), pgrep on the port (`AskPort`), lsof
(`AskListener`), a generation (`ProbeGeneration`), launchd (`AskPaper`, `DrillDown`), and
the backoff of a wait. What pgrep found is kept (`suspects`) and may have exited when lsof
looks. A pgrep that fails reads like one that matched nothing (706-707); that it has
not failed so far is a fact of its own (`"pgrep"`), on which the properties depend where
the code does.

The timeout of `urlopen` bounds one socket operation, not the request (636, 670): a
response that comes in pieces gets it again for each (`ReadMore`). `Reads` is how many
operations of a request may block. It is finite because `http.client` limits the lines and
headers it accepts and the code reads 65536 bytes at most. What is no HTTP at all, or a body
cut short, is an `HTTPException`, which neither probe catches: it leaves `wait_for_health`
(`BadAnswer`, the answer "raised"). `now` is the time since a waiting call began, `left` what
the present operation or pause may still take, `reads` and `budget` the operations the
request has left and the timeout of each.

`since` collects the facts about the host that held from the call's start on, so that a
property can speak of a standby whose neighbour stayed, or of an engine that served all
along. Approximations: pgrep, lsof and launchctl take no time, although they are steps of
their own; `_listening_pids` sees the port or does not for the whole behaviour; there is
one client, as clients share nothing but the host.

### StateFile, Calibration and Footprints

`record_install` and `_write_rings` write `<engine>.json.tmp` and rename it. `StateFile`
is that protocol with the open, the write and the rename apart, and with what POSIX makes
of two writers: they share one inode, and one whose file the other has renamed goes on
in the published file. A file is `Blank` between open and write, `Torn` when two writes
overlapped; both are read as no file, as the code does. One `write(2)` writes a file.

`Calibration` is the part of each command that touches these files: read the record,
pass the guard, load the manifest, lock, deploy, wait for health, unlock, digest the
preset file *as it is now*, record, read the record, measure, read the rings, add, write.
A process may end at any step. `Edit` changes the preset file between any two. `Measure`
adds up every process the engine's pattern matches and no other port excludes
(`calibration.py` 221-250): the one launchd runs and what `Siblings` says of the others.
History variables say when nothing interfered: `sure[c]` that no other install, no edit and
no sibling came between a run's steps, `alone[c]` that nobody else stored a sample
meanwhile, `faithful` that the record is of an install that was undisturbed. The properties
are conditional on them, since the code has no lock over these steps; that an overlapping
install or an edit in mid-install mis-keys a sample is the accepted residue
(`commands.py` 476-491). Deleting a preset and retargeting the symlink of a model are not
modelled.

`Footprints` is arithmetic on integers: files and caches in bytes, footprints in tenths of a
MB, to which the code rounds (153, 184, 226), bounds in hundredths of that before they are
rounded again. Where Python rounds a tie to even, the model rounds up; the properties allow
a tenth. A float above `Huge` is the infinity that `_overflow_fallback` looks for. The
context flag is an integer of any size: multiplied with a float, one beyond every float
raises `OverflowError` (224), and there is no estimate (`KvRaises`, `Raised`). The
references the functions are checked against are in the same module (`IsMedian`, `Starts`)
and in `Calibration` (`Expected`): written from what the runtime does, not from the
estimator.
(`Expected`): written from what the runtime does, not from the estimator.

## What is checked

Runs that pass. Each checks the type invariant of its module, except `firewall`, whose
types the proofs alone establish, and `services`, which shares its own with `engine`.
All properties have a mutant: a plausible bug in the code (a dropped guard, a missing
release, a swapped or forgotten step), written beside the definition it changes, that
makes TLC report that property.

| run | instance | shows |
|---|---|---|
| `lock` | 2 commands, 1 repair pass, 4 inodes | `FlockAccounted`, `HolderPidIntact`, `RepairSparesHolder`; the flock discipline refines `Mutex` (`ImplementsMutex`) |
| `engine` | 2 callers, 1 engine, 2 contents, four engine commands, bootouts and unlinks that fail, kills, respawns, reboots | `OneWriter`, `JobMatchesPlist`, `InstallAllOrNothing`, `StandbyHolds`; the commands refine `EngineSlot` (`ImplementsSlot`) |
| `services` | 1 caller (and its orphans), an engine in the bundle, a reserved service, five commands, `--force` | `ReservedUntouched`, `LockReleased` |
| `firewall` | 2 engines, 2 rule sets | `InstalledIsWired`, `RemovedLeavesNoTrace`, `UninterruptedIsEnforced` |
| `serve` | 3 commands, 2 permits, 2 queries, clock to 5 | `PermitsAccounted`, `AnswersRecent`, `CommandsAnswered` |
| `bootstrap` | 2 releases | `BaselineKept`, `RollbackPossible`, `NeverLockedOut`, `RollbackRestores`, `GrantHasHelper`, `InstalledIsSigned` |
| `health` | timeout 2, HTTP operation 1, generation operation 1 to 2, two operations a request, backoff 1 to 2 | `StandbyNotBlamed`, `ServingKept`, `ZombieTold`, `WaitBounded`, `CallsReturn` |
| `calibration` | 2 runs of aisctl, 2 revisions and the base, siblings, rings of 3, 13 sets of figures | `RecordFollowsJob`, `PlainNeverDegrades`, `SampleTrue`, `SamplesKept`, `MedianRight`, `EstimateHonest` |

Runs that find a disagreement between the code and what it says of itself, each with a
single property. `service_rerun` uses the `SteadySpec` of `EngineOps`, without kills and
reboots: the disagreement needs neither.

| run | the code says | what happens |
|---|---|---|
| `lock_repair_exclusion` | the flock serializes destructive operations (`memory.py:270`) | repair unlinks the file between another command's open and its flock; the next command creates a new file and both are in |
| `service_rerun` | an install over a loaded plist is a normal reinstall (`asiai_priv.py:947-948`) | install-service bootstraps a loaded label, fails, and its rollback removes the service |
| `health_foreign` | a start must not be declared healthy on the strength of a foreign process's 2xx (`lifecycle.py:560-564`) | the holder of the port is asked for only when no process of ours is alive: while ours loads its model and listens on nothing, a neighbour's 2xx makes the start healthy |
| `firewall_reload` | install_anchor never reports success while nothing was loaded (`firewall.py:329-330`) | after a reload that failed, the retry finds the files up to date and returns |

Further disagreements need no search:

- `wait_for_health` says that it never overshoots its deadline (`lifecycle.py:550-551`) and
  that a hung generation cannot (571-572). It does, by a request that began just before the
  deadline, whose timeout starts anew with every read, and by the floor of the generation
  probe. `WaitBounded` is the bound that holds.
- `probe_health` calls itself non-throwing (632); an `HTTPException` gets past its `except`.
- The estimator says of overflows that they are silent (`plan.py:357-361`). A context flag
  beyond every float raises at 224; `EstimateHonest` says when.
- A sample is said to be scoped to the one process (`calibration.py:21-22`); 230 adds up
  every process the pattern matches that names no other port.
- The helper refuses to install over a job from outside `/Library/LaunchDaemons`
  (`asiai_priv.py:939`), but `lifecycle.install` first stops what is there, with a removal
  that does not look where the job came from.

### Bounds

- Two holders need two commands, and a split a repair pass. Four inodes are one for each
  descriptor of three actors and one for the path: a fifth would always be free. A
  larger instance (3 commands, 1 repair pass, 5 inodes; 422013 states) passes as well.
- Two callers: every property of `EngineOps` is about one label and at most two calls
  on it. A caller whose command died keeps its orphaned call and takes the next
  command only when that returned, so two callers cover a command beside an orphan
  but not two commands beside one. The constraint `OneBesideOrphans` says so of `engine`:
  where an orphan has run on the label, states with two live commands are not followed
  further. Two contents tell apart what was installed from what is being installed, and
  the base from a preset.
- `engine` leaves out commands whose calls it has: `enable` makes the first call of
  `start`, `restart` and `enable --start` make the calls of `start` under the lock,
  `stop` makes the second call of `disable`, and `reinstall`, which `services` runs, is an
  uninstall and an install in one script. The theorems cover all of them. No bundle
  manages the engine of the run; what the bundle adds to a slot is left to the theorem, and
  to `services` for the properties checked there.
- A second label appears only in `services`, where the question is what engine commands
  do to a reserved label.
- Two engines are needed for what a missing file of one does to the other, and two rule
  sets for a content that changes.
- `MaxTime = 5` is more than `TTL + MaxCollect = 4`, so that an entry can be collected,
  stored, expire and be collected again. No bound other than this one is in a guard.
- The times of `health` make every case happen: a request that ends after the deadline, by
  its first operation and by its second, a pause that doubles and is capped or cut by the
  deadline, a generation whose budget is the floor, what is left of the wait, or the cap.
  Two operations to a request are one that gets the timeout anew.
- Two runs of aisctl are an install beside another command, and two writers of one file.
  Two revisions tell a sample's key from its process. A ring of three is full after
  one sample. `OldRings` starts with a ring with room and a full one, shared with another
  host. `Declared` varies one field of a typical preset at a time.

### Fairness

`FairSpec` of `EngineOps`: weak fairness of each command's own steps. A command is one
sequential process, and the helper calls it waits for run to their end. Weak fairness
of the disjunction does not say that a call succeeds. Used by `LockReleased` only.

`Serve`: weak fairness of a command thread's own steps, the deadline of
`subprocess.run` among them, since that is a timer of the thread itself. Nothing is
assumed of the subprocess: it may hang. Used by `CommandsAnswered`.

`Health`: weak fairness of the client's own steps, its timeouts among them: `urlopen` and
`sleep` have one, and pgrep, lsof and launchctl return. Nothing is assumed of the host:
no process need ever answer, exit or come up. Used by `CallsReturn`.

## What is proved

`OperationsLock_proofs`, for any sets of commands, repair passes and inodes, from the
constants' assumptions (commands and repair passes are disjoint, the markers are no
members):

- `TypeCorrect`, `FlockAccountedCorrect`, `HolderPidCorrect`: `TypeOK` is inductive,
  since it ties open descriptors to phases; `FlockAccounted` is inductive given
  `TypeOK`; `HolderPidIntact` given both, because only the owner of an inode's flock
  writes the file and a new file takes a free inode.
- `ExclusionUnlessSplitCorrect`: two commands are in the lock only while one of them has
  a file open that the path no longer names. It follows from `FlockAccounted`.
- `Exclusion`, when there is no repair pass. `MutualExclusion` is not inductive: two
  holders of two different inodes satisfy every step. The strengthening is `~Split`:
  every open descriptor is of the file the path names. It is inductive exactly
  because nothing but repair unlinks.
- `RepairSpares`, when there is at most one repair pass. The strengthening is
  `ProbedFileNamed`: from its open to its unlink the path keeps naming the file the
  pass opened, whose flock it has by then. With two passes it is false: one unlinks under
  the other.
- `Implementation`, for any number of repair passes: the initial states and every step
  map to `Mutex`, with `Holders` the commands between `LOCK_EX` and `LOCK_UN` and `Split`
  as the abstract `split`.

`EngineOps_proofs`, for any sets of callers, labels and contents, from the markers being
no members: the invariants of the `engine` run and its `ImplementsSlot`, and
`ReservedUntouched` of the `services` run when the bundle manages no reserved label. The
inductive invariant `IInv` has five parts:

- `TypeOK`, which also says that an idle caller has no command and that only a command in
  its script has the lock;
- `CallerInv`: a running helper call belongs to the live command of its caller, or is
  the orphan of a killed one and its label is bypassed; a command past the lock that
  neither forced its way nor needs none holds it. `OneWriter` follows, as every
  call that writes an engine's plist has the same holder;
- `CallInv`: a call past its entry that changes a plist or takes a job down is an
  install or a removal `_refuse_reserved` accepted. `ReservedUntouched` follows;
- `SlotInv`: on a label nothing bypassed since the last boot, plist and job match except
  while the writer's call is between the two, and a removal at its unlink has taken the job
  down, unless a failed bootout left the job (`stuck`).
  It is inductive only with `OneWriter`: a second writer could undo either;
- `AskedInv`: on such a label the temporary file, then the plist, then the job of an
  install are what its own command asked for, although every writer uses the same
  temporary name: whoever else writes the label would hold the lock as well.
  `InstallAllOrNothing` follows from the last two: a rolled-back install leaves no plist
  and no job, save the job of a bootout or the plist of an unlink that failed.
`SlotImplementation` is the refinement. `Same` says what an `EngineSlot` sees of a label
is unchanged. A helper step leaves every other label `Same` (`HelperElsewhere`) and is,
on its own, one action of the slot or a stutter (`HelperOnSlot`); `SlotWriter` says that
the writer is alone between plist and job, which is where `OneWriter` is needed once
more. A step outside the helper at most loses one slot (`OutsideRefines`), a reboot is
`Boot` (`RebootRefines`), given that only labels of the bundle have registrations
(`BundleInv`). `SlotsKept` is then proved of `EngineSlot` alone and inherited. The run
covers one engine no bundle manages, the theorem all of them.

`LockIsMutex` closes the gap between the two halves: the commands use the lock as `Mutex`
has it, which is what the flock of `OperationsLock` implements. `ServiceSpared` bounds
`service_rerun`: when the bundle manages no reserved label, a loaded service goes down
only with its removal, a reboot, or an install of its own that is rolled back.

The last part adds `StandbyHolds`, from the same assumptions and on top of `IInv`. Its
inductive invariant `StandbyInv` has two ideas. `Quiet`: once a disable that found its
label free has begun, and until a command begins that may start the label, no call that
loads a job, starts it or clears its override is under way on that label, not even
an orphan's; so nothing the disable has done is undone. `ProgressOK`: past its first call
the override is set, past its second the process has ended, unless the SIGTERM was
refused. The order matters: with the override set first, KeepAlive has no gap in which to
respawn the process that the SIGTERM ends. The history variable's third value,
`unstopped`, is needed for the reboot: what was not stopped is disabled all the same, so it
is down after the next boot and stays down (`StandbySurvivesBoot`).

`Bootstrap_proofs`, for any set of releases, from the fragments being distinct: the six
properties of the `bootstrap` run. The inductive invariant `IInv` has four parts:
types; `OpInv`, which phases belong to which operation; `BaselineInv`, that what is
staged between check and record is the original fragment, what is staged for
publication is the model or a validated backup, and a live model has a baseline;
`HelperInv`, that past the helper's step of an install the helper is the new release
and past the sign step the sidecar its hash, and that a rollback reaches the
helper's removal only with the original fragment live.

`Firewall_proofs`, for any sets of engines and rules, from `NoRules` being no rules: the
four invariants of the `firewall` run. `InstalledIsWired` and `RemovedLeavesNoTrace`
follow from `FilesInv`, what the operation has done to the files of its own engine,
which says nothing of earlier operations and so survives their interruptions.
`UninterruptedIsEnforced` needs `KernelInv`: an operation disturbs its own engine
only, and a removal that finds no line to scrub, which ends without a reload, had no
rules in the kernel. `EnforcedUnlessInterrupted` bounds the disagreement of
`firewall_reload`: it takes an interruption.

`Serve_proofs`, for any finite pool of threads, any number of permits and any cache
lifetime of at least one tick: the four invariants of the `serve` run. `PostInv` counts
the permits that are out and ties each subprocess to a thread that waits; `GetInv`
bounds how far apart the times of collection, store and answer lie. That there are never
more subprocesses than permits (`BurstBounded`) is a corollary of `PermitsAccounted`.

`Health_proofs`, for any timeouts with positive delays, a generation floor below its
cap and at least one operation to a request: the five invariants of the `health` run.
`FactsTrue` says that what `since` collects is true now, so that each step's reading is known
while a fact lasts. Each property is then an invariant over program counters: a standby's
call reaches neither `gen` nor an answer that trusts or blames; a call on an engine that
serves never leaves the path of trust. `StandbyNotBlamed` holds while pgrep works;
`ServingKept` and `ZombieTold` survive a pgrep that fails, unless lsof is blind and a
bystander names the port.
`WaitBounded` needs the clock at each phase: a health probe begins before the deadline and
each of its operations takes `ProbeTimeout` at most; the generation after it gets, for each of
its own, the larger of what is then left and the floor, up to the cap. `Overrun` is the worst
of the two: a probe that began at the last moment, or a generation that began early.

`Calibration_proofs`, for any sets of runs, revisions and hosts, any footprints and ring
size, from the markers being distinct and the rings there to begin with being good.
Types are inductive with `Staged`: which phases belong to which commands, and that only
a writer has a descriptor open. `Undisturbed` is the heart: a `sure` install from its
deployment on is the only one recording, its manifest is the job, what it has put in the
temporary file is what it will publish; and while the record is faithful nobody records.
`RecordFollowsJob` and `PlainNeverDegrades` follow; `KeyIsJob` (an undisturbed run that
has read its key has read the job) and `RingsAreGood` (every ring in a file or in memory
is good) give `SampleTrue`; `AloneStores` (a lone writer's rings are the published ones
with its sample added) gives `SamplesKept`. `MedianRight` and `EstimateHonest` need of the
state only that a ring holds samples; the rest is `Footprints_proofs`.

`Footprints_proofs`, for samples of any number and figures of any size, from `Huge` being
a number, `Megabyte` a positive one, and `None` and `Missing` none. Induction over the samples is
out of the provers' reach as the library states it, with an operator for a parameter; here
it is stated for sets (`UpTo`), and recursion for functions (`Recursion`), from
the least element of a set of numbers, which is all the median takes.
`WeightedMedianIsMedian` goes in four steps. The samples can be sorted (`OrderExists`, by
insertion), so the `CHOOSE` of `Sorted` has a value. The accumulated weight is the
weight of the places up to there (`IsWeight`). The first place with half of the weight
behind it is therefore a median of the sorted samples (`HalfwayIsMedian`). And sorting,
which only moves places, keeps the weight below, at and above a figure (`MedianMoved`).
`DecomposedOf` and `MeasuredOf` do the estimate: component by component, each bound is the
band of its part, the sums contain the sum of what the runtime will use, and one unknown
or an overflow makes everything zero. Rounding is dealt with once: it keeps the order
(`RoundedKeepsOrder`) and moves a figure by half a unit at most (`RoundedNear`); an estimate
rounds two figures, so its bounds contain the exact cost to a tenth of a MB (`NearCovers`).

## What is only model-checked

Liveness (`LockReleased`, `CommandsAnswered`, `CallsReturn`), which the proof system does
not treat; and the four disagreements that runs find. Every other property of a run has
a theorem.

## What is not modelled

- The helper's validators, audit log, log leaves, purge and wired-limit actions: they
  refuse, or touch nothing else here.
- `pkill` of stragglers in `stop_existing`: processes launchd does not know.
- The launcher, upgrade, fleet push, drivers, manifests, the reference plist renderer,
  the plugin, the parser, printing: no shared state. `PROJECT.json` lists each with its
  reason.
- The loopback token of `serve`. It is written before the bind and removed at the end:
  with two servers on one port the second overwrites and then removes the token of the
  first. What the code says of it holds for one server, where it is two assignments.
- Two bootstraps at once, and `pf.conf` edited by somebody else.
- Authentication and argument checks of `serve`: they refuse before any state changes.

## The plan

1. Done: the lock, the helper and the commands, firewall, serve and bootstrap; the probes,
   the install record, calibration and the plan; all with their proofs, and the engine
   slot that the commands implement.
2. `Bootstrap` with two operators: which of its properties survive the race for the
   baseline, and the dedicated user and log directory.
3. The helper's `pkill` and the two-label case of `EngineOps` with shared process names.
4. `upgrade --restart`, which gives the lock back and takes it again.

An abstract specification worth stating next: a bounded server that `Serve` implements.
