----------------------------- MODULE EngineOps -----------------------------
(***************************************************************************)
(* The lifecycle commands of aisctl (ais_cli/commands.py, install_service  *)
(* .py) on top of lifecycle.py: each command reads the install record,     *)
(* takes the operations lock, runs a fixed sequence of helper calls and    *)
(* writes the record.  Here the lock is what Mutex specifies; OperationsLock*)
(* shows that the flock implements it while no repair pass runs.           *)
(*                                                                         *)
(* Commands of different callers interleave with each other, with the      *)
(* steps of the helper, with the bundle's registration and with reboots.   *)
(***************************************************************************)
EXTENDS PrivHelper, Naturals, Sequences

CONSTANTS
  Kinds,     \* the commands that are issued
  Forces,    \* the values of --force they are issued with
  Managed,   \* labels of the daemons embedded in the app bundle
  Base,      \* the config of an install without a preset
  NoRecord,  \* no install was recorded
  NoCommand, \* the caller runs no command
  Nobody     \* nobody holds the operations lock

ASSUME BaseIsConfig == Base \in Configs
ASSUME ManagedAreLabels == Managed \subseteq Labels
ASSUME NobodyIsNoCaller == Nobody \notin Callers
ASSUME NoRecordIsNoConfig == NoRecord \notin Configs

VARIABLES
  record,       \* ~/.local/state/asiai-inference-server/installs/<engine>.json
  lock,         \* the caller that holds operations.lock
  pc, cmd, pos, \* each caller: its phase, its command, its place in the script
  registering,  \* labels `bundle register` has checked and not yet registered
  standby,      \* history: labels a `disable` has put in cold standby
  bypassed      \* history: labels a call ran on without the lock (--force, orphans)
                \* since the last boot

commandVars == <<record, lock, pc, cmd, pos, standby, bypassed>>
vars == <<helperVars, registering, commandVars>>

-----------------------------------------------------------------------------
(* The commands as sequences of calls.                                     *)

\* privhelper.run with check=True and check=False.
Must(act) == [act |-> act, check |-> TRUE]
Try(act)  == [act |-> act, check |-> FALSE]

\* Preconditions tested in the CLI process: key file, binary, sudo ticket.
Preflight == [act |-> "preflight", check |-> TRUE]

UninstallSteps == <<Preflight, Must("uninstall-daemon")>>

\* lifecycle.install: the checks, stop_existing, the helper's install.
InstallSteps == <<Preflight, Try("uninstall-daemon"), Must("install-daemon")>>

StartSteps == <<Must("enable-daemon"), Must("start-daemon")>>

\* Mutant: the SIGTERM comes first.
DisableStepsSwapped == <<Try("stop-daemon"), Must("disable-daemon")>>

DisableSteps == <<Must("disable-daemon"), Try("stop-daemon")>>

Script ==
  [ install             |-> InstallSteps,
    reinstall           |-> UninstallSteps \o InstallSteps,
    uninstall           |-> UninstallSteps,
    start               |-> StartSteps,
    restart             |-> StartSteps,
    stop                |-> <<Try("stop-daemon")>>,
    disable             |-> DisableSteps,
    enable              |-> <<Must("enable-daemon")>>,
    enable_start        |-> StartSteps,
    install_service     |-> <<Must("install-reserved-service")>>,
    uninstall_service   |-> <<Must("uninstall-reserved-service")>> ]

ASSUME KindsAreCommands == Kinds \subseteq DOMAIN Script /\ Forces \subseteq BOOLEAN

Services  == {"install_service", "uninstall_service"}

\* Mutant: `uninstall` takes no lock either.
UnlockedUninstall == {"start", "uninstall"} \union Services

\* cmd_start, install-service and uninstall-service take no lock.
Unlocked  == {"start"} \union Services

Recording == {"install", "reinstall"}

\* What a command may start a process with.
Starters == DOMAIN Script \ {"stop", "disable", "uninstall", "uninstall_service"}

Commands == [kind : DOMAIN Script, label : Labels, cfg : Configs, force : BOOLEAN]
ASSUME NoCommandIsNoCommand == NoCommand \notin Commands

Phases == {"idle", "lock", "run", "record"}

TypeOK ==
  /\ HelperTypeOK
  /\ record \in [Labels -> Configs \union {NoRecord}]
  /\ lock \in Callers \union {Nobody}
  /\ pc \in [Callers -> Phases]
  /\ cmd \in [Callers -> Commands \union {NoCommand}]
  /\ pos \in [Callers -> 1..6]
  /\ registering \subseteq Managed
  /\ standby \in [Labels -> {"no", "pending", "unstopped", "yes"}]
  /\ bypassed \subseteq Labels
  /\ \A c \in Callers : pc[c] = "idle" <=> cmd[c] = NoCommand
  /\ \A c \in Callers : pc[c] = "idle" => pos[c] = 1
  /\ lock # Nobody => pc[lock] = "run"

Init ==
  /\ HelperInit
  /\ record = [l \in Labels |-> NoRecord]
  /\ lock = Nobody
  /\ pc = [c \in Callers |-> "idle"]
  /\ cmd = [c \in Callers |-> NoCommand]
  /\ pos = [c \in Callers |-> 1]
  /\ registering = {}
  /\ standby = [l \in Labels |-> "no"]
  /\ bypassed = {}

\* The callers with a command, or with a call a dead command left behind.
Busy(l) ==
  {c \in Callers : \/ cmd[c] # NoCommand /\ cmd[c].label = l
                   \/ call[c] # NoCall /\ call[c].label = l}

Current(c) == Script[cmd[c].kind][pos[c]]
ScriptEnded(c) == pos[c] > Len(Script[cmd[c].kind])

\* The `with OperationsLock()` block ends.
Unlock(c) == lock' = IF lock = c THEN Nobody ELSE lock

-----------------------------------------------------------------------------
(* One command.                                                            *)

\* What a command is to install: a preset or the base manifest, or what was recorded.
Request(kind, l) ==
  CASE kind = "reinstall" -> {record[l]} \ {NoRecord}
    [] kind \in {"install", "install_service"} -> Configs
    [] OTHER -> {Base}

\* The guard of a plain install over a recorded preset.
GuardRefuses(kind, l, cfg, force) ==
  kind = "install" /\ cfg = Base /\ record[l] \notin {NoRecord, Base} /\ ~force

\* The command ends, with whichever exit code.
End(c) ==
  /\ pc' = [pc EXCEPT ![c] = "idle"]
  /\ cmd' = [cmd EXCEPT ![c] = NoCommand]
  /\ pos' = [pos EXCEPT ![c] = 1]

\* A command reads the record before it takes the lock.  One that the guard refuses
\* changes nothing and does not appear.
Begin(c, kind, l, cfg, force) ==
  /\ pc[c] = "idle" /\ call[c] = NoCall
  /\ kind \in Services => l \in Reserved
  /\ cfg \in Request(kind, l)
  /\ ~GuardRefuses(kind, l, cfg, force)
  /\ force => kind \notin Unlocked
  /\ cmd' = [cmd EXCEPT ![c] = [kind |-> kind, label |-> l, cfg |-> cfg, force |-> force]]
  /\ pc' = [pc EXCEPT ![c] = IF force \/ kind \in Unlocked THEN "run" ELSE "lock"]
  /\ standby' = CASE kind \in Starters -> [standby EXCEPT ![l] = "no"]
                  [] kind = "disable" /\ Busy(l) = {} -> [standby EXCEPT ![l] = "pending"]
                  [] OTHER -> standby
  /\ bypassed' = IF force THEN bypassed \union {l} ELSE bypassed
  /\ UNCHANGED <<helperVars, record, lock, pos, registering>>

AcquireLock(c) ==
  /\ pc[c] = "lock" /\ lock = Nobody
  /\ lock' = c
  /\ pc' = [pc EXCEPT ![c] = "run"]
  /\ UNCHANGED <<helperVars, record, cmd, pos, registering, standby, bypassed>>

LockHeld(c) ==
  /\ pc[c] = "lock" /\ lock # Nobody
  /\ End(c)
  /\ UNCHANGED <<helperVars, record, lock, registering, standby, bypassed>>

AtScript(c) == pc[c] = "run" /\ call[c] = NoCall /\ ~ScriptEnded(c)

PassPreflight(c) ==
  /\ AtScript(c) /\ Current(c) = Preflight
  /\ pos' = [pos EXCEPT ![c] = @ + 1]
  /\ UNCHANGED <<helperVars, record, lock, pc, cmd, registering, standby, bypassed>>

FailPreflight(c) ==
  /\ AtScript(c) /\ Current(c) = Preflight
  /\ End(c)
  /\ Unlock(c)
  /\ UNCHANGED <<helperVars, record, registering, standby, bypassed>>

CallHelper(c) ==
  /\ AtScript(c) /\ Current(c) # Preflight
  /\ Invoke(c, Current(c).act, cmd[c].label, cmd[c].cfg)
  /\ UNCHANGED <<launchdVars, temp, registering, commandVars>>

EndCall(c) == call' = [call EXCEPT ![c] = NoCall]

\* check=False swallows a failure, also the one of a SIGTERM that was not sent.
CallReturns(c) ==
  /\ pc[c] = "run" /\ Returned(c)
  /\ call[c].step = "ok" \/ ~Current(c).check
  /\ pos' = [pos EXCEPT ![c] = @ + 1]
  /\ EndCall(c)
  /\ standby' = IF /\ cmd[c].kind = "disable" /\ standby[cmd[c].label] = "pending"
                   /\ call[c].act = "stop-daemon" /\ call[c].step = "refused"
                THEN [standby EXCEPT ![cmd[c].label] = "unstopped"] ELSE standby
  /\ UNCHANGED <<launchdVars, temp, record, lock, pc, cmd, registering, bypassed>>

\* Mutant: the lock is not released when a call raises.
CallRaisesKeepingLock(c) ==
  /\ pc[c] = "run" /\ Returned(c)
  /\ call[c].step # "ok" /\ Current(c).check
  /\ End(c)
  /\ EndCall(c)
  /\ UNCHANGED <<launchdVars, temp, record, lock, registering, standby, bypassed>>

\* PrivHelperError; or the call succeeds and the pf anchor that lifecycle.install
\* and lifecycle.uninstall handle next cannot be written or removed.
CallRaises(c) ==
  /\ pc[c] = "run" /\ Returned(c) /\ Current(c).check
  /\ call[c].step = "ok" => call[c].act \in {"install-daemon", "uninstall-daemon"}
  /\ End(c)
  /\ Unlock(c)
  /\ EndCall(c)
  /\ UNCHANGED <<launchdVars, temp, record, registering, standby, bypassed>>

EndScript(c) ==
  /\ pc[c] = "run" /\ call[c] = NoCall /\ ScriptEnded(c)
  /\ IF cmd[c].kind \in Recording
     THEN pc' = [pc EXCEPT ![c] = "record"] /\ UNCHANGED <<cmd, pos>>
     ELSE End(c)
  /\ Unlock(c)
  /\ standby' = IF cmd[c].kind = "disable" /\ standby[cmd[c].label] = "pending"
                THEN [standby EXCEPT ![cmd[c].label] = "yes"] ELSE standby
  /\ UNCHANGED <<helperVars, record, registering, bypassed>>

\* The record is written after the lock is released.
RecordInstall(c) ==
  /\ pc[c] = "record"
  /\ record' = [record EXCEPT ![cmd[c].label] = cmd[c].cfg]
  /\ End(c)
  /\ UNCHANGED <<helperVars, lock, registering, standby, bypassed>>

\* The process is killed.  Its flock goes with it; a helper call it waits for goes on.
CommandDies(c) ==
  /\ pc[c] # "idle"
  /\ End(c)
  /\ Unlock(c)
  /\ bypassed' = IF InFlight(c) THEN bypassed \union {cmd[c].label} ELSE bypassed
  /\ IF Returned(c) THEN EndCall(c) ELSE UNCHANGED call
  /\ UNCHANGED <<launchdVars, temp, record, registering, standby>>

OrphanReturns(c) ==
  /\ pc[c] = "idle" /\ Returned(c)
  /\ EndCall(c)
  /\ UNCHANGED <<launchdVars, temp, registering, commandVars>>

CallProceeds(c) == HelperStep(c) /\ UNCHANGED <<registering, commandVars>>

-----------------------------------------------------------------------------
(* `aisctl bundle register` and what macOS does with the registration.     *)

\* _register_blockers: no plist on disk, no job from outside a bundle.
RegisterCheck(l) ==
  /\ plist[l] = NoPlist /\ loaded[l] \in {NotLoaded, FromBundle}
  /\ registering' = registering \union {l}
  /\ UNCHANGED <<helperVars, commandVars>>

\* The <App>Register helper: SMAppService waits for the user's approval.
Register(l) ==
  /\ l \in registering
  /\ registering' = registering \ {l}
  /\ bundle' = [bundle EXCEPT ![l] = IF @ = "none" THEN "pending" ELSE @]
  /\ UNCHANGED <<plist, loaded, running, disabled, stuck, temp, call, commandVars>>

Approve(l) ==
  /\ bundle[l] = "pending"
  /\ bundle' = [bundle EXCEPT ![l] = "active"]
  /\ IF loaded[l] = NotLoaded /\ ~disabled[l]
     THEN Load(l, FromBundle)
     ELSE UNCHANGED <<loaded, running, stuck>>
  /\ UNCHANGED <<plist, disabled, temp, call, registering, commandVars>>

Unregister(l) ==
  /\ bundle[l] # "none"
  /\ bundle' = [bundle EXCEPT ![l] = "none"]
  /\ IF loaded[l] = FromBundle
     THEN Unload(l)
     ELSE UNCHANGED <<loaded, running, stuck>>
  /\ UNCHANGED <<plist, disabled, temp, call, registering, commandVars>>

\* launchd restarts a process that ended, whichever command runs meanwhile.
KeepAlive ==
  \E l \in Labels : Respawn(l) /\ UNCHANGED <<temp, call, registering, commandVars>>

\* Every process ends; files, overrides and registrations survive.
Reboot ==
  /\ Boot
  /\ call' = [c \in Callers |-> NoCall]
  /\ pc' = [c \in Callers |-> "idle"]
  /\ cmd' = [c \in Callers |-> NoCommand]
  /\ pos' = [c \in Callers |-> 1]
  /\ lock' = Nobody
  /\ registering' = {}
  /\ standby' = [l \in Labels |-> IF standby[l] \in {"unstopped", "yes"} THEN "yes" ELSE "no"]
  /\ bypassed' = {}
  /\ UNCHANGED <<temp, record>>

-----------------------------------------------------------------------------
CommandStep(c) ==
  \/ AcquireLock(c)
  \/ LockHeld(c)
  \/ PassPreflight(c)
  \/ FailPreflight(c)
  \/ CallHelper(c)
  \/ CallReturns(c)
  \/ CallRaises(c)
  \/ EndScript(c)
  \/ RecordInstall(c)
  \/ OrphanReturns(c)
  \/ CallProceeds(c)

Operator ==
  \E c \in Callers, kind \in Kinds, l \in Labels, cfg \in Configs, force \in Forces :
    Begin(c, kind, l, cfg, force)

BundleStep ==
  \E l \in Managed : RegisterCheck(l) \/ Register(l) \/ Approve(l) \/ Unregister(l)

\* What happens while no process is killed and the machine stays up.
SteadyNext ==
  \/ Operator
  \/ \E c \in Callers : CommandStep(c)
  \/ BundleStep
  \/ KeepAlive

Next ==
  \/ SteadyNext
  \/ \E c \in Callers : CommandDies(c)
  \/ Reboot

SteadySpec == Init /\ [][SteadyNext]_vars
Spec == Init /\ [][Next]_vars
FairSpec == Spec /\ \A c \in Callers : WF_vars(CommandStep(c))

-----------------------------------------------------------------------------
(* Properties.                                                             *)

Engines == Labels \ Reserved

\* The calls that change the plist of a label.
Writers(l) ==
  {c \in Callers : InFlight(c) /\ call[c].label = l /\ call[c].act \in Installs \union Uninstalls}

\* Outside an install or a removal, the job launchd runs for an engine is the one its
\* plist on disk describes, so what runs now is what runs after the next boot, whatever
\* reboots, failures and kills came before.  The helper ignores a bootout that fails
\* (_uninstall_daemon, _install_daemon): the job that stayed is the one exception, until
\* a later bootout takes it down.
JobMatchesPlist ==
  \A l \in Engines \ (bypassed \union stuck) :
    loaded[l] \in Configs /\ Writers(l) = {} => plist[l] = loaded[l]

\* The lock's purpose: two calls never write the plist or the job of one engine at a
\* time, although the helper itself takes no lock.
OneWriter == \A l \in Engines \ bypassed : Cardinality(Writers(l)) <= 1

\* An install-daemon that succeeds has put the plist its own command asked for on disk
\* and into launchd, although the temporary file has one name for every writer.  One that
\* the helper gave up on after it wrote the plist is rolled back "so nothing loads on
\* reboot" (_install_daemon): no plist, and no job but one that no bootout took down.
\* Only an unlink that fails too leaves a plist: the one asked for.
InstallAllOrNothing ==
  \A c \in Callers :
    LET l == call[c].label
        down == loaded[l] \notin Configs \/ l \in stuck
    IN  Returned(c) /\ call[c].act = "install-daemon" /\ l \notin bypassed =>
          /\ call[c].step = "ok" => plist[l] = call[c].cfg /\ loaded[l] = call[c].cfg
          /\ call[c].step = "error" => plist[l] = NoPlist /\ down
          /\ call[c].step = "left" => plist[l] = call[c].cfg /\ down

\* A disabled engine that no later command started stays down, now and after a reboot
\* (lifecycle.disable, "durable cold standby"): the override is there before the SIGTERM,
\* so KeepAlive has no gap to respawn in.  `aisctl start` takes no lock: a disable that
\* overlaps a start makes no such promise.
StandbyHolds == \A l \in Labels : standby[l] = "yes" => ~running[l]

Disturbs(l) ==
  \/ plist'[l] # plist[l]
  \/ disabled'[l] /\ ~disabled[l]
  \/ running[l] /\ ~running'[l]

\* The engines as slots: a label the lock was bypassed on is a lost slot until the next
\* boot, and a job from the bundle is no job of the slot's.
Kept(l) == l \in Engines \ bypassed
JobOf(l) == IF Kept(l) /\ loaded[l] \in Configs THEN loaded[l] ELSE NoPlist
At(l, steps) == {c \in Callers : call[c].step \in steps /\ call[c].label = l /\ Kept(l)}

Paper      == [l \in Engines |-> IF Kept(l) THEN plist[l] ELSE NoPlist]
Job        == [l \in Engines |-> JobOf(l)]
Up         == {l \in Engines : JobOf(l) # NoPlist /\ running[l]}
Forbidden  == {l \in Engines : Kept(l) /\ disabled[l]}
Installing == [l \in Engines |-> At(l, {"load", "rollback"})]
Removing   == [l \in Engines |-> At(l, {"unlink"})]
Stray      == {l \in Engines : Kept(l) /\ l \in stuck}

Slot == INSTANCE EngineSlot WITH
  Slots <- Engines, Shared <- Managed, Contents <- Configs, Nothing <- NoPlist,
  Clients <- Callers, paper <- Paper, job <- Job, up <- Up, forbidden <- Forbidden,
  installing <- Installing, removing <- Removing, stray <- Stray,
  lost <- Engines \cap bypassed

\* Between its plist and its job an engine has one writer, which ends an install as the
\* job its plist describes or takes both away, job first, through failures, kills and
\* reboots; only a bootout or an unlink that itself fails leaves one of the two.
ImplementsSlot == Slot!Spec

\* I9: no engine command takes the fixed asiai services down or rewrites them; only
\* the reserved actions and a reboot do.
ReservedUntouched ==
  [][\A l \in Reserved :
       Disturbs(l) =>
         \/ \E c \in Callers : InFlight(c) /\ call[c].label = l /\ call[c].act \in ReservedActs
         \/ Reboot]_vars

\* A command that got the operations lock gives it back, whichever call fails.
LockReleased == \A c \in Callers : lock = c ~> lock # c

\* To _refuse_foreign_loaded an install over the helper's own loaded plist is a "normal
\* reinstall": only a removal or a reboot takes a loaded service down.
InstallSparesService ==
  [][\A l \in Reserved :
       loaded[l] # NotLoaded /\ loaded'[l] = NotLoaded =>
         \/ \E c \in Callers :
              InFlight(c) /\ call[c].label = l /\ call[c].act = "uninstall-reserved-service"
         \/ Reboot]_vars
=============================================================================
