------------------------------ MODULE Launchd -------------------------------
(***************************************************************************)
(* The launchd system domain as src/ uses it: the plists on disk in        *)
(* /Library/LaunchDaemons, the jobs that are loaded, the disabled          *)
(* overrides, and the daemons an SMAppService app bundle has registered.   *)
(* All of it is external to the repository.                                *)
(***************************************************************************)
EXTENDS FiniteSets

CONSTANTS
  Labels,      \* com.asiai.* job labels
  Configs,     \* what a generated plist says: the argv of a preset, a port
  NoPlist,     \* there is no plist for the label
  NotLoaded,   \* no job is loaded under the label
  FromBundle   \* the job was loaded from the app bundle

ASSUME NoPlistIsNoConfig == NoPlist \notin Configs
ASSUME SourcesDistinct ==
  NotLoaded \notin Configs /\ FromBundle \notin Configs /\ NotLoaded # FromBundle

VARIABLES
  plist,     \* the plist of each label
  loaded,    \* the plist content each job was loaded with, or its other source
  running,   \* whether the job has a process
  disabled,  \* the persistent disabled override
  bundle,    \* the SMAppService registration of each label
  stuck      \* history: the jobs made from a plist that a failed bootout left loaded

launchdVars == <<plist, loaded, running, disabled, bundle, stuck>>

\* A registration waits for its approval in System Settings before it is active.
Registrations == {"none", "pending", "active"}

LaunchdTypeOK ==
  /\ plist \in [Labels -> Configs \union {NoPlist}]
  /\ loaded \in [Labels -> Configs \union {NotLoaded, FromBundle}]
  /\ running \in [Labels -> BOOLEAN]
  /\ disabled \in [Labels -> BOOLEAN]
  /\ bundle \in [Labels -> Registrations]
  /\ stuck \subseteq {l \in Labels : loaded[l] \in Configs}
  /\ \A l \in Labels : running[l] => loaded[l] # NotLoaded

LaunchdInit ==
  /\ plist = [l \in Labels |-> NoPlist]
  /\ loaded = [l \in Labels |-> NotLoaded]
  /\ running = [l \in Labels |-> FALSE]
  /\ disabled = [l \in Labels |-> FALSE]
  /\ bundle = [l \in Labels |-> "none"]
  /\ stuck = {}

\* `launchctl bootstrap` fails on a label that is loaded already or disabled.
CanBootstrap(l) == plist[l] # NoPlist /\ loaded[l] = NotLoaded /\ ~disabled[l]

\* RunAtLoad: a loaded job runs.
Load(l, source) ==
  /\ loaded' = [loaded EXCEPT ![l] = source]
  /\ running' = [running EXCEPT ![l] = TRUE]
  /\ UNCHANGED stuck

Unload(l) ==
  /\ loaded' = [loaded EXCEPT ![l] = NotLoaded]
  /\ running' = [running EXCEPT ![l] = FALSE]
  /\ stuck' = stuck \ {l}

\* `launchctl bootout` fails: the job stays.
StayLoaded(l) ==
  /\ loaded[l] # NotLoaded
  /\ stuck' = IF loaded[l] \in Configs THEN stuck \union {l} ELSE stuck
  /\ UNCHANGED <<loaded, running>>

\* KeepAlive: a loaded job whose process did not end with exit code 0 gets a new one,
\* unless the label is disabled, as lifecycle.disable relies on.
Respawn(l) ==
  /\ loaded[l] # NotLoaded /\ ~running[l] /\ ~disabled[l]
  /\ running' = [running EXCEPT ![l] = TRUE]
  /\ UNCHANGED <<plist, loaded, disabled, bundle, stuck>>

\* What the boot may load under a label.  With a plist and an active registration
\* the label has two loaders, and either may win.
BootSources(l) ==
  LET fromPlist  == IF plist[l] # NoPlist THEN {plist[l]} ELSE {}
      fromBundle == IF bundle[l] = "active" THEN {FromBundle} ELSE {}
  IN  IF disabled[l] \/ fromPlist \union fromBundle = {}
      THEN {NotLoaded}
      ELSE fromPlist \union fromBundle

Boot ==
  /\ loaded' \in [Labels -> Configs \union {NotLoaded, FromBundle}]
  /\ \A l \in Labels : loaded'[l] \in BootSources(l)
  /\ running' = [l \in Labels |-> loaded'[l] # NotLoaded]
  /\ stuck' = {}
  /\ UNCHANGED <<plist, disabled, bundle>>
=============================================================================
