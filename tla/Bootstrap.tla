----------------------------- MODULE Bootstrap ------------------------------
(***************************************************************************)
(* `aisctl bootstrap` (ais_core/bootstrap.py, ais_core/sudoers.py): it puts *)
(* the root helper and its SHA-256 sidecar in place, records the sudoers   *)
(* fragment it found, and replaces it with the one that grants the helper; *)
(* --rollback goes the way back.  Every file is published by one atomic mv *)
(* of a staged name that sudo ignores, every step is a separate `sudo`     *)
(* that may fail, and the process may die between any two of them.         *)
(*                                                                         *)
(* An operator at a terminal runs it, one bootstrap at a time.             *)
(***************************************************************************)
CONSTANTS
  Versions,  \* releases of the helper
  Prior,     \* a fragment from before the helper
  Model,     \* the fragment that grants the helper alone
  Garbled,   \* a fragment visudo rejects
  None       \* no such file

ASSUME FragmentsDistinct ==
  /\ Prior \notin {Model, Garbled, None}
  /\ Model \notin {Garbled, None}
  /\ Garbled # None
ASSUME NoneIsNoVersion == None \notin Versions

VARIABLES
  helper, sidecar,    \* the release of the installed helper, and the one its hash is of
  fragment,           \* /etc/sudoers.d/asiai-inference
  saved, wasAbsent,   \* the baseline: the backup, or the absent marker
  staged,             \* the content under the staged name in use
  op, pc,             \* the operation under way and its next step
  original,           \* history: the fragment before the first bootstrap
  lost,               \* history: the recorded baseline was deleted by hand
  granular            \* history: `--install-sudoers` was used

baseline == <<saved, wasAbsent>>
history  == <<original, lost, granular>>
vars == <<helper, sidecar, fragment, baseline, staged, op, pc, history>>

Fragments == {Prior, Model, None}
NoOp == [act |-> "none"]
Ops == {NoOp} \union [act : {"install", "install_sudoers", "rollback"}, version : Versions]
Phases == {"idle", "helper", "sign", "baseline", "record", "stage", "publish", "check",
           "restore", "validate", "remove", "unsign", "done", "failed"}

Recorded == saved # None \/ wasAbsent

TypeOK ==
  /\ helper \in Versions \union {None} /\ sidecar \in Versions \union {None}
  /\ fragment \in Fragments \union {Garbled}
  /\ saved \in Fragments \union {Garbled} /\ wasAbsent \in BOOLEAN
  /\ staged \in Fragments \union {Garbled}
  /\ op \in Ops /\ pc \in Phases
  /\ original \in {Prior, None} /\ lost \in BOOLEAN /\ granular \in BOOLEAN
  /\ pc = "idle" <=> op = NoOp
  /\ pc = "record" => ~Recorded

Init ==
  /\ helper = None /\ sidecar = None
  /\ fragment \in {Prior, None}
  /\ saved = None /\ wasAbsent = FALSE
  /\ staged = None
  /\ op = NoOp /\ pc = "idle"
  /\ original = fragment /\ lost = FALSE /\ granular = FALSE

-----------------------------------------------------------------------------
\* The dispatch of cmd_bootstrap.  A refusal of the terminal or chain checks that come
\* first changes nothing and does not appear.
Begin(act, version) ==
  /\ pc = "idle"
  /\ op' = [act |-> act, version |-> version]
  /\ pc' = CASE act = "install"         -> "helper"
             [] act = "install_sudoers" -> "baseline"
             [] act = "rollback"        -> "restore"
  /\ granular' = (granular \/ act = "install_sudoers")
  /\ UNCHANGED <<helper, sidecar, fragment, baseline, staged, original, lost>>

\* Mutant: a copy that fails is ignored.
InstallHelperBestEffort ==
  /\ pc = "helper"
  /\ helper' \in {helper, op.version}
  /\ pc' = "sign"
  /\ UNCHANGED <<sidecar, fragment, baseline, staged, op, history>>

\* install_helper
InstallHelper ==
  /\ pc = "helper"
  /\ helper' = op.version
  /\ pc' = "sign"
  /\ UNCHANGED <<sidecar, fragment, baseline, staged, op, history>>

\* Mutant: a sidecar that exists is kept.
SignOnce ==
  /\ pc = "sign"
  /\ sidecar' = IF sidecar = None THEN helper ELSE sidecar
  /\ pc' = "baseline"
  /\ UNCHANGED <<helper, fragment, baseline, staged, op, history>>

\* write_helper_signature hashes what is installed.
Sign ==
  /\ pc = "sign"
  /\ sidecar' = helper
  /\ pc' = "baseline"
  /\ UNCHANGED <<helper, fragment, baseline, staged, op, history>>

\* Mutant: the live fragment is recorded whatever it is.
CheckBaselineUnguarded ==
  /\ pc = "baseline"
  /\ IF Recorded
     THEN pc' = "stage" /\ UNCHANGED staged
     ELSE pc' = "record" /\ staged' = fragment
  /\ UNCHANGED <<helper, sidecar, fragment, baseline, op, history>>

\* Mutant: every run captures the fragment it finds, not only the first.
CheckBaselineEveryRun ==
  /\ pc = "baseline"
  /\ \/ /\ fragment # Model
        /\ staged' = fragment
        /\ pc' = "record"
     \/ /\ fragment = Model
        /\ pc' = IF Recorded THEN "stage" ELSE "failed"
        /\ UNCHANGED staged
  /\ UNCHANGED <<helper, sidecar, fragment, baseline, op, history>>

\* backup_existing_sudoers: only the first capture counts, and the helper's own
\* fragment is never taken for a baseline.
CheckBaseline ==
  /\ pc = "baseline"
  /\ \/ /\ Recorded
        /\ pc' = "stage"
        /\ UNCHANGED staged
     \/ /\ ~Recorded /\ fragment # Model
        /\ staged' = fragment
        /\ pc' = "record"
     \/ /\ ~Recorded /\ fragment = Model
        /\ pc' = "failed"
        /\ UNCHANGED staged
  /\ UNCHANGED <<helper, sidecar, fragment, baseline, op, history>>

\* Mutant: a host without a fragment gets no marker.
RecordBackupOnly ==
  /\ pc = "record"
  /\ saved' = staged
  /\ pc' = "stage"
  /\ UNCHANGED <<helper, sidecar, fragment, wasAbsent, staged, op, history>>

\* The mv onto the backup's or the marker's name.
RecordBaseline ==
  /\ pc = "record"
  /\ IF staged # None
     THEN saved' = staged /\ UNCHANGED wasAbsent
     ELSE wasAbsent' = TRUE /\ UNCHANGED saved
  /\ pc' = "stage"
  /\ UNCHANGED <<helper, sidecar, fragment, staged, op, history>>

\* install_sudoers up to the mv.
StageModel ==
  /\ pc = "stage"
  /\ staged' = Model
  /\ pc' = "publish"
  /\ UNCHANGED <<helper, sidecar, fragment, baseline, op, history>>

Publish ==
  /\ pc = "publish"
  /\ fragment' = staged
  /\ pc' = "check"
  /\ UNCHANGED <<helper, sidecar, baseline, staged, op, history>>

\* visudo -c over the whole tree.
CheckTree ==
  /\ pc = "check"
  /\ pc' = IF op.act = "rollback" THEN "remove" ELSE "done"
  /\ UNCHANGED <<helper, sidecar, fragment, baseline, staged, op, history>>

-----------------------------------------------------------------------------
\* Mutant: the backup is published without visudo -cf.
StageBackupUnchecked ==
  /\ pc = "restore" /\ saved # None
  /\ staged' = saved
  /\ pc' = "publish"
  /\ UNCHANGED <<helper, sidecar, fragment, baseline, op, history>>

\* restore_sudoers: the backup is staged.
StageBackup ==
  /\ pc = "restore" /\ saved # None
  /\ staged' = saved
  /\ pc' = "validate"
  /\ UNCHANGED <<helper, sidecar, fragment, baseline, op, history>>

\* A backup that visudo -cf rejects is not published.
ValidateBackup ==
  /\ pc = "validate"
  /\ pc' = IF staged = Garbled THEN "failed" ELSE "publish"
  /\ UNCHANGED <<helper, sidecar, fragment, baseline, staged, op, history>>

\* Mutant: with a marker the helper goes and the fragment stays.
RestoreAbsentKeepingFragment ==
  /\ pc = "restore" /\ saved = None /\ wasAbsent
  /\ pc' = "remove"
  /\ UNCHANGED <<helper, sidecar, fragment, baseline, staged, op, history>>

RestoreAbsent ==
  /\ pc = "restore" /\ saved = None /\ wasAbsent
  /\ fragment' = None
  /\ pc' = "check"
  /\ UNCHANGED <<helper, sidecar, baseline, staged, op, history>>

RefuseRollback ==
  /\ pc = "restore" /\ ~Recorded
  /\ pc' = "failed"
  /\ UNCHANGED <<helper, sidecar, fragment, baseline, staged, op, history>>

\* remove_helper: one rm of the helper and of its sidecar.
RemoveHelper ==
  /\ pc = "remove"
  /\ helper' = None
  /\ pc' = "unsign"
  /\ UNCHANGED <<sidecar, fragment, baseline, staged, op, history>>

RemoveSidecar ==
  /\ pc = "unsign"
  /\ sidecar' = None
  /\ pc' = "done"
  /\ UNCHANGED <<helper, fragment, baseline, staged, op, history>>

-----------------------------------------------------------------------------
\* A sudo fails (BootstrapError, SudoersError), or the process dies.
Interrupt ==
  /\ pc \notin {"idle", "done", "failed"}
  /\ pc' = "failed"
  /\ UNCHANGED <<helper, sidecar, fragment, baseline, staged, op, history>>

Return ==
  /\ pc \in {"done", "failed"}
  /\ pc' = "idle"
  /\ op' = NoOp
  /\ staged' = None
  /\ UNCHANGED <<helper, sidecar, fragment, baseline, history>>

\* What the code allows for from outside: the dotted files are deleted, or the
\* backup is no longer what was saved.
LoseBaseline ==
  /\ pc = "idle" /\ Recorded
  /\ saved' = None /\ wasAbsent' = FALSE
  /\ lost' = TRUE
  /\ UNCHANGED <<helper, sidecar, fragment, staged, op, pc, original, granular>>

GarbleBackup ==
  /\ pc = "idle" /\ saved # None
  /\ saved' = Garbled
  /\ UNCHANGED <<helper, sidecar, fragment, wasAbsent, staged, op, pc, history>>

Next ==
  \/ \E version \in Versions, act \in {"install", "install_sudoers", "rollback"} :
       Begin(act, version)
  \/ InstallHelper
  \/ Sign
  \/ CheckBaseline
  \/ RecordBaseline
  \/ StageModel
  \/ Publish
  \/ CheckTree
  \/ StageBackup
  \/ ValidateBackup
  \/ RestoreAbsent
  \/ RefuseRollback
  \/ RemoveHelper
  \/ RemoveSidecar
  \/ Interrupt
  \/ Return
  \/ LoseBaseline
  \/ GarbleBackup

Spec == Init /\ [][Next]_vars

-----------------------------------------------------------------------------
(* Properties.                                                             *)

\* The baseline is what was there before the first bootstrap, however many installs,
\* crashes and rollbacks follow: a helper-only fragment frozen as "pre-bootstrap" would
\* "silently break FR8" (backup_existing_sudoers).
BaselineKept ==
  /\ saved \in {None, Garbled, original}
  /\ wasAbsent => original = None

\* FR8: while the helper's fragment is live there is a baseline to roll back to, unless
\* somebody deleted it.
RollbackPossible == fragment = Model /\ ~lost => Recorded

\* Anti-lockout: a fragment that visudo rejects is never live, whatever became of the
\* backup ("a malformed restore can never lock %admin out of password sudo").
NeverLockedOut == fragment # Garbled

\* A rollback that ends leaves what was there before the first bootstrap.
RollbackRestores ==
  pc = "done" /\ op.act = "rollback"
    => fragment = original /\ helper = None /\ sidecar = None

\* sudo never grants a helper that is not there: the fragment comes after the helper and
\* goes before it, and no crash turns that around.  `--install-sudoers` installs the
\* fragment alone.
GrantHasHelper == fragment = Model /\ ~granular => helper # None

\* An install that ends has recorded the hash of the helper that runs, also when an
\* earlier upgrade died between the two.
InstalledIsSigned ==
  pc = "done" /\ op.act = "install" => helper = op.version /\ sidecar = helper
=============================================================================
