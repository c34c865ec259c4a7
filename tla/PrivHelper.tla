---------------------------- MODULE PrivHelper -----------------------------
(***************************************************************************)
(* data/helpers/asiai_priv.py: the root helper that `sudo asiai-priv       *)
(* <action>` runs.  It is the only writer of /Library/LaunchDaemons and    *)
(* takes no lock of its own: each caller has at most one call in flight,   *)
(* and the steps of different calls interleave.                            *)
(*                                                                         *)
(* The validators (label, binary, user, environment, port) decide only     *)
(* whether an install is refused; the argv they build is a member of       *)
(* Configs.                                                                *)
(***************************************************************************)
EXTENDS Launchd

CONSTANTS
  Callers,   \* processes that run the helper
  Reserved   \* labels of the fixed asiai services

ASSUME ReservedAreLabels == Reserved \subseteq Labels

VARIABLES
  temp,   \* <label>.plist.new, the temporary file of an atomic write
  call    \* the helper call of each caller

helperVars == <<launchdVars, temp, call>>

Installs   == {"install-daemon", "install-reserved-service"}
Uninstalls == {"uninstall-daemon", "uninstall-reserved-service"}
ReservedActs == {"install-reserved-service", "uninstall-reserved-service"}
Acts == Installs \union Uninstalls
          \union {"start-daemon", "stop-daemon", "enable-daemon", "disable-daemon"}

\* Where a call is: its validation, the two halves of the plist write, the
\* bootstrap, the two halves of a removal.  Then its exit code.
Steps == {"entry", "write", "rename", "load", "rollback", "unlink"}
\* "refused": no plist and no job was touched; "left": a plist could not be removed.
Exits == {"ok", "refused", "error", "left"}

NoCall == [step |-> "none"]
Calls == {NoCall} \union
         [act : Acts, label : Labels, cfg : Configs, step : Steps \union Exits]

HelperTypeOK ==
  /\ LaunchdTypeOK
  /\ temp \in [Labels -> Configs \union {NoPlist}]
  /\ call \in [Callers -> Calls]

HelperInit ==
  /\ LaunchdInit
  /\ temp = [l \in Labels |-> NoPlist]
  /\ call = [c \in Callers |-> NoCall]

InFlight(c) == call[c].step \in Steps
Returned(c) == call[c].step \in Exits

Invoke(c, act, l, cfg) ==
  call' = [call EXCEPT ![c] = [act |-> act, label |-> l, cfg |-> cfg, step |-> "entry"]]

Goto(c, step) == call' = [call EXCEPT ![c].step = step]

\* Mutant: the stop and disable handlers lose their _refuse_reserved.
AcceptsWithoutStopGuard(act, l) ==
  \/ act \in ReservedActs /\ l \in Reserved
  \/ act \in {"install-daemon", "uninstall-daemon"} /\ l \notin Reserved
  \/ act \in {"start-daemon", "stop-daemon", "enable-daemon", "disable-daemon"}

\* _refuse_reserved: only the enum-driven actions install or remove a reserved
\* label, and it can be neither stopped nor disabled.
Accepts(act, l) ==
  \/ act \in ReservedActs /\ l \in Reserved
  \/ act \in Acts \ ReservedActs /\ l \notin Reserved
  \/ act \in {"start-daemon", "enable-daemon"}

-----------------------------------------------------------------------------
(* install-daemon and install-reserved-service.                            *)

\* Nothing was touched: sudo gives no root, an argument is invalid, _refuse_reserved,
\* _refuse_foreign_loaded, or the one launchctl command of the handler fails.
Refuse(c) ==
  /\ call[c].step = "entry"
  /\ Goto(c, "refused")
  /\ UNCHANGED <<launchdVars, temp>>

\* The job that is loaded, if any, comes from the helper's own plist.
CheckInstall(c) ==
  LET l == call[c].label
  IN  /\ call[c].step = "entry" /\ call[c].act \in Installs
      /\ Accepts(call[c].act, l)
      /\ loaded[l] # FromBundle
      /\ Goto(c, "write")
      /\ UNCHANGED <<launchdVars, temp>>

\* _write_plist_atomic clears a stale temporary file and writes a fresh one.
WriteTemp(c) ==
  /\ call[c].step = "write"
  /\ temp' = [temp EXCEPT ![call[c].label] = call[c].cfg]
  /\ Goto(c, "rename")
  /\ UNCHANGED launchdVars

\* The name is shared: what is renamed is whatever it names by now.
RenameTemp(c) ==
  LET l == call[c].label
  IN  /\ call[c].step = "rename" /\ temp[l] # NoPlist
      /\ plist' = [plist EXCEPT ![l] = temp[l]]
      /\ temp' = [temp EXCEPT ![l] = NoPlist]
      /\ Goto(c, "load")
      /\ UNCHANGED <<loaded, running, disabled, bundle, stuck>>

\* The write failed, or another call took the temporary file away.  No rollback:
\* _write_plist_atomic runs before the try.
WriteFails(c) ==
  /\ call[c].step \in {"write", "rename"}
  /\ temp' = [temp EXCEPT ![call[c].label] = NoPlist]
  /\ Goto(c, "refused")
  /\ UNCHANGED launchdVars

\* _precreate_log_leaves, then `launchctl bootstrap` of the file on disk.
LoadJob(c) ==
  LET l == call[c].label
  IN  /\ call[c].step = "load" /\ CanBootstrap(l)
      /\ Load(l, plist[l])
      /\ Goto(c, "ok")
      /\ UNCHANGED <<plist, disabled, bundle, temp>>

\* Mutant: the rollback is the unlink alone.
LoadFailsUnlinking(c) ==
  /\ call[c].step = "load"
  /\ Goto(c, "unlink")
  /\ UNCHANGED <<launchdVars, temp>>

\* Mutant: a bootstrap that fails is not rolled back.
LoadFailsUndone(c) ==
  /\ call[c].step = "load"
  /\ Goto(c, "error")
  /\ UNCHANGED <<launchdVars, temp>>

\* A log leaf is refused, or the bootstrap fails; what fails loads nothing.
LoadFails(c) ==
  /\ call[c].step = "load"
  /\ Goto(c, "rollback")
  /\ UNCHANGED <<launchdVars, temp>>

-----------------------------------------------------------------------------
(* bootout and unlink: a removal, and the rollback of an install.          *)

AtBootout(c) ==
  \/ call[c].step = "rollback"
  \/ /\ call[c].step = "entry" /\ call[c].act \in Uninstalls
     /\ Accepts(call[c].act, call[c].label)

Bootout(c) ==
  /\ AtBootout(c)
  /\ Unload(call[c].label)
  /\ Goto(c, "unlink")
  /\ UNCHANGED <<plist, disabled, bundle, temp>>

\* check=False: the handler goes on to the unlink and does not see that the job is there.
BootoutFails(c) ==
  /\ AtBootout(c)
  /\ StayLoaded(call[c].label)
  /\ Goto(c, "unlink")
  /\ UNCHANGED <<plist, disabled, bundle, temp>>

UnlinkPlist(c) ==
  LET l == call[c].label
  IN  /\ call[c].step = "unlink"
      /\ plist' = [plist EXCEPT ![l] = NoPlist]
      /\ Goto(c, IF call[c].act \in Uninstalls THEN "ok" ELSE "error")
      /\ UNCHANGED <<loaded, running, disabled, bundle, stuck, temp>>

\* _unlink_plist raises: the directory is suspect or the unlink fails.
UnlinkFails(c) ==
  /\ call[c].step = "unlink"
  /\ Goto(c, "left")
  /\ UNCHANGED <<launchdVars, temp>>

-----------------------------------------------------------------------------
(* The one-step handlers.                                                  *)

\* kickstart -k: the job gets a fresh process; it must be loaded.
StartDaemon(c) ==
  LET l == call[c].label
  IN  /\ call[c].step = "entry" /\ call[c].act = "start-daemon"
      /\ running' = [running EXCEPT ![l] = loaded[l] # NotLoaded]
      /\ Goto(c, IF loaded[l] # NotLoaded THEN "ok" ELSE "error")
      /\ UNCHANGED <<plist, loaded, disabled, bundle, stuck, temp>>

\* kill SIGTERM: the job stays loaded; an error when it had no process.  Whether it stays
\* down is KeepAlive's (Respawn).
StopDaemon(c) ==
  LET l == call[c].label
  IN  /\ call[c].step = "entry" /\ call[c].act = "stop-daemon"
      /\ Accepts(call[c].act, l)
      /\ running' = [running EXCEPT ![l] = FALSE]
      /\ Goto(c, IF running[l] THEN "ok" ELSE "error")
      /\ UNCHANGED <<plist, loaded, disabled, bundle, stuck, temp>>

SetOverride(c, act, value) ==
  LET l == call[c].label
  IN  /\ call[c].step = "entry" /\ call[c].act = act
      /\ Accepts(act, l)
      /\ disabled' = [disabled EXCEPT ![l] = value]
      /\ Goto(c, "ok")
      /\ UNCHANGED <<plist, loaded, running, bundle, stuck, temp>>

EnableDaemon(c)  == SetOverride(c, "enable-daemon", FALSE)
DisableDaemon(c) == SetOverride(c, "disable-daemon", TRUE)

HelperStep(c) ==
  \/ Refuse(c)
  \/ CheckInstall(c)
  \/ WriteTemp(c)
  \/ RenameTemp(c)
  \/ WriteFails(c)
  \/ LoadJob(c)
  \/ LoadFails(c)
  \/ Bootout(c)
  \/ BootoutFails(c)
  \/ UnlinkPlist(c)
  \/ UnlinkFails(c)
  \/ StartDaemon(c)
  \/ StopDaemon(c)
  \/ EnableDaemon(c)
  \/ DisableDaemon(c)
=============================================================================
