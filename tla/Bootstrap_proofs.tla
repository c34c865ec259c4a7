-------------------------- MODULE Bootstrap_proofs --------------------------
(***************************************************************************)
(* Every invariant of Bootstrap holds for any set of releases.             *)
(*                                                                         *)
(* IInv says what each program point knows: which operation is under way,  *)
(* that the fragment is the original one or the helper's, that the staged  *)
(* file is what the next mv may publish, that from "stage" on there is a   *)
(* baseline, and how far the helper and its sidecar have come.             *)
(***************************************************************************)
EXTENDS Bootstrap, TLAPS

Installing == {"install", "install_sudoers"}

\* Which operation is at which point.
OpInv ==
  /\ pc # "idle" => op.act \in Installing \union {"rollback"} /\ op.version \in Versions
  /\ pc \in {"helper", "sign"} => op.act = "install"
  /\ pc \in {"baseline", "record", "stage"} => op.act \in Installing
  /\ pc \in {"restore", "validate", "remove", "unsign"} => op.act = "rollback"
  /\ pc # "idle" /\ op.act = "install_sudoers" => granular

\* The baseline and the fragment are the original, or what cannot be mistaken for it.
BaselineInv ==
  /\ BaselineKept
  /\ fragment \in {original, Model}
  /\ RollbackPossible
  /\ pc = "record" => staged = original
  /\ pc = "stage" => Recorded
  /\ pc = "publish" /\ op.act \in Installing => staged = Model /\ Recorded
  /\ pc = "publish" /\ op.act = "rollback" => staged = original
  /\ pc = "validate" => staged \in {Garbled, original}

\* How far the helper is.
HelperInv ==
  /\ GrantHasHelper
  /\ pc \in {"sign", "baseline", "record", "stage", "publish", "check", "done"}
       /\ op.act = "install" => helper = op.version
  /\ pc \in {"baseline", "record", "stage", "publish", "check", "done"}
       /\ op.act = "install" => sidecar = helper
  /\ pc \in {"check", "remove", "unsign", "done"}
       /\ op.act = "rollback" => fragment = original
  /\ pc = "unsign" => helper = None
  /\ pc = "done" /\ op.act = "rollback" => helper = None /\ sidecar = None

IInv == TypeOK /\ OpInv /\ BaselineInv /\ HelperInv

LEMMA InitInv == Init => IInv
  BY FragmentsDistinct
  DEF Init, IInv, TypeOK, OpInv, BaselineInv, HelperInv, BaselineKept, RollbackPossible,
      GrantHasHelper, Recorded, Fragments, Ops, NoOp, Phases, Installing

\* The steps of an install.
LEMMA InstallStep ==
  ASSUME IInv,
         \/ InstallHelper \/ Sign \/ CheckBaseline \/ RecordBaseline
         \/ StageModel \/ Publish \/ CheckTree
  PROVE  IInv'
<1> USE FragmentsDistinct, NoneIsNoVersion
    DEF IInv, baseline, history
<1>1. ASSUME InstallHelper PROVE IInv'
  <2>1. TypeOK' /\ OpInv'
    BY <1>1 DEF InstallHelper, TypeOK, OpInv, Ops, NoOp, Phases, Installing
  <2>2. BaselineInv' /\ HelperInv'
    BY <1>1 DEF InstallHelper, TypeOK, OpInv, BaselineInv, HelperInv, BaselineKept,
                RollbackPossible, GrantHasHelper, Recorded, Installing
  <2> QED BY <2>1, <2>2
<1>2. ASSUME Sign PROVE IInv'
  <2>1. TypeOK' /\ OpInv'
    BY <1>2 DEF Sign, TypeOK, OpInv, Ops, NoOp, Phases, Installing
  <2>2. BaselineInv' /\ HelperInv'
    BY <1>2 DEF Sign, TypeOK, OpInv, BaselineInv, HelperInv, BaselineKept,
                RollbackPossible, GrantHasHelper, Recorded, Installing
  <2> QED BY <2>1, <2>2
<1>3. ASSUME CheckBaseline PROVE IInv'
  <2>1. TypeOK' /\ OpInv'
    BY <1>3 DEF CheckBaseline, TypeOK, OpInv, Ops, NoOp, Phases, Installing, Fragments,
                Recorded
  <2>2. BaselineInv' /\ HelperInv'
    BY <1>3 DEF CheckBaseline, TypeOK, OpInv, BaselineInv, HelperInv, BaselineKept,
                RollbackPossible, GrantHasHelper, Recorded, Installing
  <2> QED BY <2>1, <2>2
<1>4. ASSUME RecordBaseline PROVE IInv'
  <2>1. TypeOK' /\ OpInv'
    BY <1>4 DEF RecordBaseline, TypeOK, OpInv, Ops, NoOp, Phases, Installing
  <2>2. BaselineInv' /\ HelperInv'
    BY <1>4 DEF RecordBaseline, TypeOK, OpInv, BaselineInv, HelperInv, BaselineKept,
                RollbackPossible, GrantHasHelper, Recorded, Installing
  <2> QED BY <2>1, <2>2
<1>5. ASSUME StageModel PROVE IInv'
  <2>1. TypeOK' /\ OpInv'
    BY <1>5 DEF StageModel, TypeOK, OpInv, Ops, NoOp, Phases, Installing, Fragments
  <2>2. BaselineInv' /\ HelperInv'
    BY <1>5 DEF StageModel, TypeOK, OpInv, BaselineInv, HelperInv, BaselineKept,
                RollbackPossible, GrantHasHelper, Recorded, Installing
  <2> QED BY <2>1, <2>2
<1>6. ASSUME Publish PROVE IInv'
  <2>1. TypeOK' /\ OpInv'
    BY <1>6 DEF Publish, TypeOK, OpInv, Ops, NoOp, Phases, Installing
  <2>2. BaselineInv' /\ HelperInv'
    BY <1>6 DEF Publish, TypeOK, OpInv, BaselineInv, HelperInv, BaselineKept,
                RollbackPossible, GrantHasHelper, Recorded, Installing
  <2> QED BY <2>1, <2>2
<1>7. ASSUME CheckTree PROVE IInv'
  <2>1. TypeOK' /\ OpInv'
    BY <1>7 DEF CheckTree, TypeOK, OpInv, Ops, NoOp, Phases, Installing
  <2>2. BaselineInv' /\ HelperInv'
    BY <1>7 DEF CheckTree, TypeOK, OpInv, BaselineInv, HelperInv, BaselineKept,
                RollbackPossible, GrantHasHelper, Recorded, Installing
  <2> QED BY <2>1, <2>2
<1> QED BY <1>1, <1>2, <1>3, <1>4, <1>5, <1>6, <1>7

\* The steps of a rollback.
LEMMA RollbackStep ==
  ASSUME IInv,
         \/ StageBackup \/ ValidateBackup \/ RestoreAbsent \/ RefuseRollback
         \/ RemoveHelper \/ RemoveSidecar
  PROVE  IInv'
<1> USE FragmentsDistinct, NoneIsNoVersion
    DEF IInv, baseline, history
<1>1. ASSUME StageBackup PROVE IInv'
  BY <1>1 DEF StageBackup, TypeOK, OpInv, Ops, NoOp, Phases, Installing, BaselineInv,
              HelperInv, BaselineKept, RollbackPossible, GrantHasHelper, Recorded
<1>2. ASSUME ValidateBackup PROVE IInv'
  BY <1>2 DEF ValidateBackup, TypeOK, OpInv, Ops, NoOp, Phases, Installing, BaselineInv,
              HelperInv, BaselineKept, RollbackPossible, GrantHasHelper, Recorded
<1>3. ASSUME RestoreAbsent PROVE IInv'
  BY <1>3 DEF RestoreAbsent, TypeOK, OpInv, Ops, NoOp, Phases, Installing, BaselineInv,
              HelperInv, BaselineKept, RollbackPossible, GrantHasHelper, Recorded, Fragments
<1>4. ASSUME RefuseRollback PROVE IInv'
  BY <1>4 DEF RefuseRollback, TypeOK, OpInv, Ops, NoOp, Phases, Installing, BaselineInv,
              HelperInv, BaselineKept, RollbackPossible, GrantHasHelper, Recorded
<1>5. ASSUME RemoveHelper PROVE IInv'
  BY <1>5 DEF RemoveHelper, TypeOK, OpInv, Ops, NoOp, Phases, Installing, BaselineInv,
              HelperInv, BaselineKept, RollbackPossible, GrantHasHelper, Recorded
<1>6. ASSUME RemoveSidecar PROVE IInv'
  BY <1>6 DEF RemoveSidecar, TypeOK, OpInv, Ops, NoOp, Phases, Installing, BaselineInv,
              HelperInv, BaselineKept, RollbackPossible, GrantHasHelper, Recorded
<1> QED BY <1>1, <1>2, <1>3, <1>4, <1>5, <1>6

\* The beginning and the end of an operation, and what happens from outside.
LEMMA OtherStep ==
  ASSUME IInv,
         \/ \E version \in Versions, act \in {"install", "install_sudoers", "rollback"} :
              Begin(act, version)
         \/ Interrupt \/ Return \/ LoseBaseline \/ GarbleBackup
  PROVE  IInv'
<1> USE FragmentsDistinct, NoneIsNoVersion
    DEF IInv, baseline, history
<1>1. ASSUME NEW version \in Versions,
             NEW act \in {"install", "install_sudoers", "rollback"},
             Begin(act, version)
      PROVE  IInv'
  <2>1. op' = [act |-> act, version |-> version] /\ op'.act = act /\ op'.version = version
    BY <1>1 DEF Begin
  <2>2. pc' \in {"helper", "baseline", "restore"}
        /\ (pc' = "helper" => act = "install")
        /\ (pc' = "baseline" => act = "install_sudoers")
        /\ (pc' = "restore" => act = "rollback")
    BY <1>1 DEF Begin
  <2>3. TypeOK' /\ OpInv'
    <3>1. op' # NoOp
      BY <2>1 DEF NoOp
    <3>2. TypeOK'
      BY <1>1, <2>1, <2>2, <3>1 DEF Begin, TypeOK, OpInv, Ops, Phases
    <3>3. OpInv'
      BY <1>1, <2>1, <2>2, <3>1 DEF Begin, TypeOK, OpInv, Installing
    <3> QED BY <3>2, <3>3
  <2>4. BaselineInv' /\ HelperInv'
    BY <1>1, <2>1, <2>2 DEF Begin, TypeOK, OpInv, BaselineInv, HelperInv, BaselineKept,
                            RollbackPossible, GrantHasHelper, Recorded, Installing
  <2> QED BY <2>3, <2>4
<1>2. ASSUME Interrupt PROVE IInv'
  BY <1>2 DEF Interrupt, TypeOK, OpInv, Ops, NoOp, Phases, Installing, BaselineInv,
              HelperInv, BaselineKept, RollbackPossible, GrantHasHelper, Recorded
<1>3. ASSUME Return PROVE IInv'
  BY <1>3 DEF Return, TypeOK, OpInv, Ops, NoOp, Phases, Installing, BaselineInv,
              HelperInv, BaselineKept, RollbackPossible, GrantHasHelper, Recorded, Fragments
<1>4. ASSUME LoseBaseline PROVE IInv'
  <2>1. TypeOK' /\ OpInv'
    BY <1>4 DEF LoseBaseline, TypeOK, OpInv, Ops, NoOp, Phases, Installing, Fragments
  <2>2. BaselineInv' /\ HelperInv'
    BY <1>4 DEF LoseBaseline, BaselineInv, HelperInv, BaselineKept, RollbackPossible,
                GrantHasHelper
  <2> QED BY <2>1, <2>2
<1>5. ASSUME GarbleBackup PROVE IInv'
  BY <1>5 DEF GarbleBackup, TypeOK, OpInv, Ops, NoOp, Phases, Installing, BaselineInv,
              HelperInv, BaselineKept, RollbackPossible, GrantHasHelper, Recorded
<1> QED BY <1>1, <1>2, <1>3, <1>4, <1>5

LEMMA NextInv == IInv /\ [Next]_vars => IInv'
<1> SUFFICES ASSUME IInv, [Next]_vars PROVE IInv'
  OBVIOUS
<1>1. CASE Next
  BY <1>1, InstallStep, RollbackStep, OtherStep DEF Next
<1>2. CASE UNCHANGED vars
  BY <1>2 DEF vars, baseline, history, IInv, TypeOK, OpInv, BaselineInv, HelperInv,
              BaselineKept, RollbackPossible, GrantHasHelper, Recorded
<1> QED BY <1>1, <1>2

LEMMA Invariance == Spec => []IInv
  BY InitInv, NextInv, PTL DEF Spec

-----------------------------------------------------------------------------
\* Every variable keeps its type.
THEOREM TypeCorrect == Spec => []TypeOK
<1>1. IInv => TypeOK
  BY DEF IInv
<1> QED BY <1>1, Invariance, PTL

\* The recorded baseline is never anything but what was there before the first bootstrap
\* (backup_existing_sudoers records once, and never the helper's own fragment).
THEOREM BaselineNeverPoisoned == Spec => []BaselineKept
<1>1. IInv => BaselineKept
  BY DEF IInv, BaselineInv
<1> QED BY <1>1, Invariance, PTL

\* The helper's fragment is never live without a recorded baseline (the backup comes
\* before the install in _bootstrap_full and _bootstrap_sudoers_only).
THEOREM RollbackAlwaysPossible == Spec => []RollbackPossible
<1>1. IInv => RollbackPossible
  BY DEF IInv, BaselineInv
<1> QED BY <1>1, Invariance, PTL

\* restore_sudoers never publishes a fragment that visudo rejects.
THEOREM AntiLockout == Spec => []NeverLockedOut
<1>1. IInv => NeverLockedOut
  BY FragmentsDistinct DEF IInv, TypeOK, BaselineInv, NeverLockedOut
<1> QED BY <1>1, Invariance, PTL

\* _bootstrap_rollback ends with what was there before the first bootstrap.
THEOREM RollbackCorrect == Spec => []RollbackRestores
<1>1. IInv => RollbackRestores
  BY DEF IInv, HelperInv, RollbackRestores
<1> QED BY <1>1, Invariance, PTL

\* Helper before fragment, fragment before helper on the way back: no crash leaves a
\* grant of a missing helper.
THEOREM GrantCorrect == Spec => []GrantHasHelper
<1>1. IInv => GrantHasHelper
  BY DEF IInv, HelperInv
<1> QED BY <1>1, Invariance, PTL

\* An install that ends leaves a sidecar that verify_helper accepts.
THEOREM SignatureCorrect == Spec => []InstalledIsSigned
<1>1. IInv => InstalledIsSigned
  BY DEF IInv, HelperInv, InstalledIsSigned
<1> QED BY <1>1, Invariance, PTL
=============================================================================
