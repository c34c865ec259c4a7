-------------------------- MODULE EngineOps_proofs --------------------------
(***************************************************************************)
(* What EngineOps guarantees for any sets of callers, labels and contents. *)
(* The inductive invariant IInv is TypeOK with four facts the types do not *)
(* say: CallerInv (a running call belongs to the live command of its       *)
(* caller, or is the orphan of a killed one on a bypassed label, and a     *)
(* command past the lock on a label holds it), CallInv (a plist-changing   *)
(* call past its entry is accepted by _refuse_reserved), SlotInv (on a     *)
(* label every call is serialized on, plist and job match except while     *)
(* its one writer is between the two, and but for a job that a failed      *)
(* bootout left) and AskedInv (what an install has written is what its     *)
(* command asked for).  On top of it stand the refinement of EngineSlot    *)
(* and, with StandbyInv, the cold standby.                                 *)
(***************************************************************************)
EXTENDS EngineOps, SequenceTheorems, FiniteSetTheorems, TLAPS

Writes == Installs \union Uninstalls

-----------------------------------------------------------------------------
(* The scripts.                                                            *)

CallRecs == {Preflight} \union [act : Acts, check : BOOLEAN]

\* The scripts are sequences of calls, of at most five calls.
LEMMA Scripts ==
  /\ \A k \in DOMAIN Script : Script[k] \in Seq(CallRecs)
  /\ \A k \in DOMAIN Script : Len(Script[k]) \in 1..5
<1>1. UninstallSteps \in Seq(CallRecs) /\ Len(UninstallSteps) = 2
  BY DEF UninstallSteps, CallRecs, Must, Acts, Uninstalls
<1>2. InstallSteps \in Seq(CallRecs) /\ Len(InstallSteps) = 3
  BY DEF InstallSteps, CallRecs, Must, Try, Acts, Installs, Uninstalls
<1>3. /\ UninstallSteps \o InstallSteps \in Seq(CallRecs)
      /\ Len(UninstallSteps \o InstallSteps) = 5
  <2>1. /\ UninstallSteps \o InstallSteps \in Seq(CallRecs)
        /\ Len(UninstallSteps \o InstallSteps) = Len(UninstallSteps) + Len(InstallSteps)
    BY <1>1, <1>2, ConcatProperties, Zenon
  <2> QED BY <1>1, <1>2, <2>1
<1>4. /\ StartSteps \in Seq(CallRecs) /\ Len(StartSteps) = 2
      /\ DisableSteps \in Seq(CallRecs) /\ Len(DisableSteps) = 2
  BY DEF StartSteps, DisableSteps, CallRecs, Must, Try, Acts
<1>5. /\ Script["stop"] \in Seq(CallRecs) /\ Len(Script["stop"]) = 1
      /\ Script["enable"] \in Seq(CallRecs) /\ Len(Script["enable"]) = 1
  BY DEF Script, CallRecs, Must, Try, Acts
<1>6. /\ Script["install_service"] \in Seq(CallRecs) /\ Len(Script["install_service"]) = 1
      /\ Script["uninstall_service"] \in Seq(CallRecs)
      /\ Len(Script["uninstall_service"]) = 1
  BY DEF Script, CallRecs, Must, Acts, Installs, Uninstalls
<1>7. /\ Script["install"] = InstallSteps /\ Script["uninstall"] = UninstallSteps
      /\ Script["reinstall"] = UninstallSteps \o InstallSteps
      /\ Script["start"] = StartSteps /\ Script["restart"] = StartSteps
      /\ Script["enable_start"] = StartSteps /\ Script["disable"] = DisableSteps
  BY DEF Script
<1>8. DOMAIN Script =
        {"install", "reinstall", "uninstall", "start", "restart", "stop", "disable",
         "enable", "enable_start", "install_service", "uninstall_service"}
  BY DEF Script
<1>9. ASSUME NEW k \in DOMAIN Script
      PROVE  /\ Script[k] \in Seq(CallRecs)
             /\ Len(Script[k]) = 1 \/ Len(Script[k]) = 2 \/ Len(Script[k]) = 3
                  \/ Len(Script[k]) = 5
  BY <1>1, <1>2, <1>3, <1>4, <1>5, <1>6, <1>7, <1>8, Zenon
<1> QED BY <1>9

\* `start` writes no plist.
LEMMA StartWritesNothing ==
  \A i \in 1..Len(Script["start"]) : Script["start"][i].act \notin Writes
  BY DEF Script, StartSteps, Must, Writes, Installs, Uninstalls

-----------------------------------------------------------------------------
(* Types.                                                                  *)

\* A call that a caller has, and what a step of its helper leaves of it.
LEMMA CallFields ==
  ASSUME HelperTypeOK, NEW c \in Callers, call[c].step # "none"
  PROVE  /\ call[c].act \in Acts /\ call[c].label \in Labels /\ call[c].cfg \in Configs
         /\ call[c].step \in Steps \union Exits
         /\ call[c] # NoCall
  BY DEF HelperTypeOK, Calls, NoCall

LEMMA GotoFields ==
  ASSUME HelperTypeOK, NEW c \in Callers, NEW s \in Steps \union Exits,
         call[c].step # "none", Goto(c, s)
  PROVE  /\ call' \in [Callers -> Calls]
         /\ call'[c].step = s /\ call'[c].act = call[c].act /\ call'[c].label = call[c].label
         /\ call'[c].cfg = call[c].cfg
         /\ \A d \in Callers \ {c} : call'[d] = call[d]
<1>1. call[c] \in [act : Acts, label : Labels, cfg : Configs, step : Steps \union Exits]
  BY DEF HelperTypeOK, Calls, NoCall
<1>2. call'[c] = [call[c] EXCEPT !.step = s]
  BY DEF Goto, HelperTypeOK
<1>3. call'[c] \in [act : Acts, label : Labels, cfg : Configs, step : Steps \union Exits]
  BY <1>1, <1>2
<1>4. \A d \in Callers \ {c} : call'[d] = call[d]
  BY DEF Goto, HelperTypeOK
<1>5. call' \in [Callers -> Calls]
  BY <1>3, <1>4 DEF Goto, HelperTypeOK, Calls
<1> QED BY <1>1, <1>2, <1>4, <1>5

LEMMA HelperTypes ==
  ASSUME HelperTypeOK, NEW c \in Callers, HelperStep(c)
  PROVE  HelperTypeOK'
<1> USE NoPlistIsNoConfig, SourcesDistinct DEF launchdVars, Steps, Exits
<1>1. LaunchdTypeOK'
  <2> USE DEF HelperTypeOK, LaunchdTypeOK, Load, Unload, StayLoaded
  <2>1. CASE Refuse(c) \/ CheckInstall(c) \/ WriteTemp(c) \/ WriteFails(c) \/ LoadFails(c)
    BY <2>1 DEF Refuse, CheckInstall, WriteTemp, WriteFails, LoadFails
  <2>2. CASE RenameTemp(c)
    BY <2>2, CallFields DEF RenameTemp
  <2>3. CASE LoadJob(c)
    BY <2>3, CallFields DEF LoadJob, CanBootstrap
  <2>4. CASE Bootout(c) \/ BootoutFails(c)
    BY <2>4, CallFields DEF Bootout, BootoutFails, AtBootout
  <2>5. CASE UnlinkPlist(c) \/ UnlinkFails(c)
    BY <2>5, CallFields DEF UnlinkPlist, UnlinkFails
  <2>6. CASE StartDaemon(c)
    <3>1. /\ running' = [running EXCEPT ![call[c].label] = loaded[call[c].label] # NotLoaded]
          /\ UNCHANGED <<plist, loaded, disabled, bundle, stuck>>
      BY <2>6 DEF StartDaemon
    <3> QED BY <3>1
  <2>7. CASE StopDaemon(c)
    <3>1. /\ running' = [running EXCEPT ![call[c].label] = FALSE]
          /\ UNCHANGED <<plist, loaded, disabled, bundle, stuck>>
      BY <2>7 DEF StopDaemon
    <3> QED BY <3>1
  <2>8. ASSUME NEW act, NEW value \in BOOLEAN, SetOverride(c, act, value)
        PROVE  LaunchdTypeOK'
    <3>1. /\ disabled' = [disabled EXCEPT ![call[c].label] = value]
          /\ UNCHANGED <<plist, loaded, running, bundle, stuck>>
      BY <2>8 DEF SetOverride
    <3> QED BY <3>1
  <2>9. CASE EnableDaemon(c) \/ DisableDaemon(c)
    BY <2>8, <2>9 DEF EnableDaemon, DisableDaemon
  <2> QED BY <2>1, <2>2, <2>3, <2>4, <2>5, <2>6, <2>7, <2>9 DEF HelperStep
<1>2. temp' \in [Labels -> Configs \union {NoPlist}]
  BY CallFields DEF HelperTypeOK, HelperStep, Refuse, CheckInstall, WriteTemp, WriteFails,
    RenameTemp, LoadJob, LoadFails, Bootout, BootoutFails, AtBootout, UnlinkPlist,
    UnlinkFails, StartDaemon, StopDaemon, EnableDaemon, DisableDaemon, SetOverride
<1>3. call' \in [Callers -> Calls]
  <2>1. PICK s \in Steps \union Exits : Goto(c, s)
    BY DEF HelperStep, Refuse, CheckInstall, WriteTemp, WriteFails, RenameTemp, LoadJob,
      LoadFails, Bootout, BootoutFails, AtBootout, UnlinkPlist, UnlinkFails, StartDaemon,
      StopDaemon, EnableDaemon, DisableDaemon, SetOverride
  <2>2. call[c].step # "none"
    BY DEF HelperStep, Refuse, CheckInstall, WriteTemp, WriteFails, RenameTemp, LoadJob,
      LoadFails, Bootout, BootoutFails, AtBootout, UnlinkPlist, UnlinkFails, StartDaemon,
      StopDaemon, EnableDaemon, DisableDaemon, SetOverride
  <2> QED BY <2>1, <2>2, GotoFields
<1> QED BY <1>1, <1>2, <1>3 DEF HelperTypeOK

LEMMA CallTypes ==
  ASSUME HelperTypeOK, NEW c \in Callers, UNCHANGED <<launchdVars, temp>>,
         \/ UNCHANGED call
         \/ EndCall(c)
         \/ \E act \in Acts, l \in Labels, cfg \in Configs : Invoke(c, act, l, cfg)
  PROVE  HelperTypeOK'
  BY DEF HelperTypeOK, LaunchdTypeOK, launchdVars, EndCall, Invoke, Calls, NoCall, Steps

-----------------------------------------------------------------------------
(* The callers: a call belongs to the command that made it, until that      *)
(* dies; a command that is under way holds the lock, or takes none.         *)

OwnCall(c) ==
  /\ pc[c] = "run" /\ ~ScriptEnded(c)
  /\ call[c].act = Current(c).act /\ call[c].label = cmd[c].label

Orphan(c) == pc[c] = "idle" /\ call[c].label \in bypassed

CallerOK(c) ==
  /\ call[c].step # "none" => OwnCall(c) \/ Orphan(c)
  /\ pc[c] # "idle" =>
       /\ cmd[c].force => cmd[c].label \in bypassed
       /\ cmd[c].kind \in Services => cmd[c].label \in Reserved
       /\ pc[c] = "run" /\ ~cmd[c].force /\ cmd[c].kind \notin Unlocked => lock = c

CallerInv == \A c \in Callers : CallerOK(c)

\* The command of a caller that is not idle, and its place in the script.
LEMMA CommandFields ==
  ASSUME TypeOK, NEW c \in Callers, pc[c] # "idle"
  PROVE  /\ cmd[c].kind \in DOMAIN Script /\ cmd[c].label \in Labels
         /\ cmd[c].cfg \in Configs /\ cmd[c].force \in BOOLEAN
         /\ cmd[c] # NoCommand
         /\ ~ScriptEnded(c) => pos[c] \in 1..5 /\ pos[c] + 1 \in 1..6
<1>1. cmd[c] \in Commands
  BY DEF TypeOK
<1>2. cmd[c].kind \in DOMAIN Script /\ cmd[c].label \in Labels
         /\ cmd[c].cfg \in Configs /\ cmd[c].force \in BOOLEAN
  BY <1>1 DEF Commands
<1>3. Len(Script[cmd[c].kind]) \in 1..5
  BY <1>2, Scripts
<1>4. pos[c] \in 1..6
  BY DEF TypeOK
<1>5. ~ScriptEnded(c) => pos[c] \in 1..5 /\ pos[c] + 1 \in 1..6
  <2>1. \A m \in 1..6, n \in 1..5 : ~(m > n) => m \in 1..5 /\ m + 1 \in 1..6
    OBVIOUS
  <2> QED BY <1>3, <1>4, <2>1, Zenon DEF ScriptEnded
<1> QED BY <1>1, <1>2, <1>5, NoCommandIsNoCommand

LEMMA NoCallStep ==
  ASSUME HelperTypeOK, NEW c \in Callers
  PROVE  call[c] = NoCall <=> call[c].step = "none"
  BY DEF HelperTypeOK, Calls, NoCall, Steps, Exits

\* What a command may ask of the helper is one of its actions.
LEMMA CurrentAct ==
  ASSUME TypeOK, NEW c \in Callers, pc[c] # "idle", ~ScriptEnded(c), Current(c) # Preflight
  PROVE  Current(c).act \in Acts
<1>1. cmd[c].kind \in DOMAIN Script /\ pos[c] \in 1..5
  BY CommandFields
<1>2. Script[cmd[c].kind] \in Seq(CallRecs) /\ Len(Script[cmd[c].kind]) \in 1..5
  BY <1>1, Scripts
<1>3. pos[c] \in 1..Len(Script[cmd[c].kind])
  BY <1>1, <1>2 DEF ScriptEnded
<1>4. Current(c) \in CallRecs
  BY <1>2, <1>3, ElementOfSeq, Zenon DEF Current
<1> QED BY <1>4 DEF CallRecs

LEMMA BeginTypes ==
  ASSUME TypeOK, Operator PROVE TypeOK'
<1>1. PICK c \in Callers, kind \in Kinds, l \in Labels, cfg \in Configs, force \in Forces :
        Begin(c, kind, l, cfg, force)
  BY DEF Operator
<1>2. [kind |-> kind, label |-> l, cfg |-> cfg, force |-> force] \in Commands
  BY KindsAreCommands DEF Commands
<1>3. HelperTypeOK'
  BY <1>1, CallTypes DEF TypeOK, Begin, helperVars
<1> HIDE DEF Commands
<1>4. cmd' \in [Callers -> Commands \union {NoCommand}]
  BY <1>1, <1>2 DEF TypeOK, Begin
<1>5. standby' \in [Labels -> {"no", "pending", "unstopped", "yes"}]
  BY <1>1 DEF TypeOK, Begin
<1>6. pc' \in [Callers -> Phases] /\ pc'[c] # "idle" /\ pc' = [pc EXCEPT ![c] = pc'[c]]
  BY <1>1 DEF TypeOK, Begin, Phases
<1>7. cmd'[c] # NoCommand /\ \A d \in Callers \ {c} : cmd'[d] = cmd[d] /\ pc'[d] = pc[d]
  BY <1>1, <1>2, <1>6, NoCommandIsNoCommand DEF TypeOK, Begin
<1>8. record' = record /\ lock' = lock /\ pos' = pos /\ registering' = registering
        /\ bypassed' \subseteq Labels
  BY <1>1 DEF TypeOK, Begin
<1>9. lock # Nobody => pc'[lock] = "run"
  BY <1>1, <1>6, NobodyIsNoCaller DEF TypeOK, Begin
<1> QED BY <1>3, <1>4, <1>5, <1>6, <1>7, <1>8, <1>9 DEF TypeOK

LEMMA CommandTypes ==
  ASSUME TypeOK, CallerInv, NEW c \in Callers, CommandStep(c)
  PROVE  TypeOK'
<1> HIDE DEF Commands
<1>a. pc[c] # "idle" => cmd[c] # NoCommand /\ cmd[c].label \in Labels /\ cmd[c].cfg \in Configs
  BY CommandFields
<1>b. ASSUME pc[c] # "idle", ~ScriptEnded(c) PROVE pos[c] + 1 \in 1..6
  BY <1>b, CommandFields
<1>1. HelperTypeOK'
  <2>1. CASE CallHelper(c)
    <3>1. cmd[c].label \in Labels /\ cmd[c].cfg \in Configs /\ Current(c).act \in Acts
      BY <2>1, CommandFields, CurrentAct DEF CallHelper, AtScript
    <3> QED BY <2>1, <3>1, CallTypes DEF CallHelper, TypeOK
  <2>2. CASE CallReturns(c) \/ CallRaises(c) \/ OrphanReturns(c)
    BY <2>2, CallTypes DEF CallReturns, CallRaises, OrphanReturns, TypeOK
  <2>3. CASE AcquireLock(c) \/ LockHeld(c) \/ PassPreflight(c) \/ FailPreflight(c)
               \/ EndScript(c) \/ RecordInstall(c)
    BY <2>3, CallTypes DEF AcquireLock, LockHeld, PassPreflight, FailPreflight, EndScript,
      RecordInstall,  TypeOK, helperVars
  <2>4. CASE CallProceeds(c)
    BY <2>4, HelperTypes DEF CallProceeds, TypeOK
  <2> QED BY <2>1, <2>2, <2>3, <2>4 DEF CommandStep
<1> USE DEF TypeOK, Phases
<1>2. CASE AcquireLock(c)
  BY <1>1, <1>2 DEF AcquireLock
<1>3. CASE LockHeld(c)
  BY <1>1, <1>3 DEF LockHeld, End
<1>4. CASE PassPreflight(c)
  BY <1>1, <1>4, <1>b DEF PassPreflight, AtScript
<1>5. CASE FailPreflight(c)
  BY <1>1, <1>5 DEF FailPreflight, AtScript, End, Unlock
<1>6. CASE CallHelper(c)
  BY <1>1, <1>6 DEF CallHelper, commandVars
<1>7. CASE CallReturns(c)
  <2>1. ~ScriptEnded(c)
    BY <1>7, CallFields DEF CallReturns, CallerInv, CallerOK, OwnCall, Orphan, Returned,
      Exits
  <2>2. pos' \in [Callers -> 1..6] /\ \A d \in Callers : pc[d] = "idle" => pos'[d] = pos[d]
    BY <1>7, <1>b, <2>1 DEF CallReturns
  <2>3. standby' \in [Labels -> {"no", "pending", "unstopped", "yes"}]
    BY <1>7 DEF CallReturns
  <2> QED BY <1>1, <1>7, <2>2, <2>3 DEF CallReturns
<1>8. CASE CallRaises(c)
  BY <1>1, <1>8 DEF CallRaises, End, Unlock
<1>9. CASE EndScript(c)
  <2>1. standby' \in [Labels -> {"no", "pending", "unstopped", "yes"}]
    BY <1>9 DEF EndScript
  <2>2. CASE cmd[c].kind \in Recording
    BY <1>1, <1>9, <2>1, <2>2 DEF EndScript, Unlock
  <2>3. CASE cmd[c].kind \notin Recording
    BY <1>1, <1>9, <2>1, <2>3 DEF EndScript, End, Unlock
  <2> QED BY <2>2, <2>3
<1>10. CASE RecordInstall(c)
  BY <1>1, <1>10, <1>a DEF RecordInstall, End
<1>11. CASE OrphanReturns(c) \/ CallProceeds(c)
  BY <1>1, <1>11 DEF OrphanReturns, CallProceeds, commandVars
<1> QED BY <1>2, <1>3, <1>4, <1>5, <1>6, <1>7, <1>8, <1>9, <1>10, <1>11 DEF CommandStep

LEMMA OtherTypes ==
  ASSUME TypeOK, BundleStep \/ KeepAlive \/ (\E c \in Callers : CommandDies(c)) \/ Reboot
  PROVE  TypeOK'
<1> HIDE DEF Commands
<1>1. CASE BundleStep
  <2> PICK l \in Managed : RegisterCheck(l) \/ Register(l) \/ Approve(l) \/ Unregister(l)
    BY <1>1 DEF BundleStep
  <2>1. l \in Labels
    BY ManagedAreLabels
  <2> USE DEF TypeOK, HelperTypeOK, LaunchdTypeOK, helperVars, launchdVars, commandVars
  <2>2. CASE RegisterCheck(l)
    BY <2>2 DEF RegisterCheck
  <2>3. CASE Register(l)
    BY <2>1, <2>3 DEF Register, Registrations
  <2>4. CASE Approve(l)
    <3>1. LaunchdTypeOK'
      <4>1. bundle' \in [Labels -> Registrations]
        BY <2>4 DEF Approve, Registrations
      <4>2. CASE loaded[l] = NotLoaded /\ ~disabled[l]
        <5>1. /\ loaded' = [loaded EXCEPT ![l] = FromBundle]
              /\ running' = [running EXCEPT ![l] = TRUE]
              /\ stuck' = stuck /\ plist' = plist /\ disabled' = disabled
          BY <2>4, <4>2 DEF Approve, Load
        <5> QED BY <2>1, <4>1, <4>2, <5>1, SourcesDistinct
      <4>3. CASE ~(loaded[l] = NotLoaded /\ ~disabled[l])
        BY <2>4, <4>1, <4>3 DEF Approve
      <4> QED BY <4>2, <4>3
    <3> HIDE DEF LaunchdTypeOK
    <3> QED BY <2>4, <3>1 DEF Approve
  <2>5. CASE Unregister(l)
    <3>1. LaunchdTypeOK'
      <4>1. bundle' \in [Labels -> Registrations]
        BY <2>5 DEF Unregister, Registrations
      <4>2. CASE loaded[l] = FromBundle
        <5>1. /\ loaded' = [loaded EXCEPT ![l] = NotLoaded]
              /\ running' = [running EXCEPT ![l] = FALSE]
              /\ stuck' = stuck \ {l} /\ plist' = plist /\ disabled' = disabled
          BY <2>5, <4>2 DEF Unregister, Unload
        <5> QED BY <2>1, <4>1, <5>1
      <4>3. CASE loaded[l] # FromBundle
        BY <2>1, <2>5, <4>1, <4>3 DEF Unregister
      <4> QED BY <4>2, <4>3
    <3> HIDE DEF LaunchdTypeOK
    <3> QED BY <2>5, <3>1 DEF Unregister
  <2> QED BY <2>2, <2>3, <2>4, <2>5
<1>2. ASSUME NEW c \in Callers, CommandDies(c) PROVE TypeOK'
  <2>1. cmd[c].label \in Labels
    BY <1>2, CommandFields DEF CommandDies
  <2>2. HelperTypeOK'
    BY <1>2, CallTypes DEF CommandDies, TypeOK
  <2>3. bypassed' \subseteq Labels
    BY <1>2, <2>1 DEF CommandDies, TypeOK
  <2> QED BY <1>2, <2>2, <2>3 DEF CommandDies, End, Unlock, TypeOK, Phases
<1>3. CASE Reboot
  <2>1. LaunchdTypeOK'
    BY <1>3 DEF Reboot, Boot, TypeOK, HelperTypeOK, LaunchdTypeOK
  <2>2. HelperTypeOK'
    BY <1>3, <2>1 DEF Reboot, TypeOK, HelperTypeOK, Calls
  <2>3. standby' \in [Labels -> {"no", "pending", "unstopped", "yes"}]
    BY <1>3 DEF Reboot, TypeOK
  <2> QED BY <1>3, <2>2, <2>3, NobodyIsNoCaller DEF Reboot, TypeOK, Phases
<1>4. CASE KeepAlive
  BY <1>4 DEF KeepAlive, Respawn, TypeOK, HelperTypeOK, LaunchdTypeOK, commandVars
<1> QED BY <1>1, <1>2, <1>3, <1>4

-----------------------------------------------------------------------------
(* CallerInv is kept.                                                      *)

\* A step that leaves a caller's command and the meaning of its call alone.
LEMMA CallerFrame ==
  ASSUME NEW d \in Callers, CallerOK(d),
         pc'[d] = pc[d], cmd'[d] = cmd[d], pos'[d] = pos[d],
         call'[d].step # "none" =>
           call[d].step # "none" /\ call'[d].act = call[d].act /\ call'[d].label = call[d].label,
         bypassed \subseteq bypassed', lock = d => lock' = d
  PROVE  CallerOK(d)'
  BY DEF CallerOK, OwnCall, Orphan, ScriptEnded, Current

LEMMA BeginCaller ==
  ASSUME TypeOK, CallerInv, Operator PROVE CallerInv'
<1>1. PICK c \in Callers, kind \in Kinds, l \in Labels, cfg \in Configs, force \in Forces :
        Begin(c, kind, l, cfg, force)
  BY DEF Operator
<1>2. bypassed \subseteq bypassed' /\ call' = call /\ lock' = lock /\ pos' = pos
  BY <1>1 DEF Begin, helperVars
<1>3. \A d \in Callers \ {c} : pc'[d] = pc[d] /\ cmd'[d] = cmd[d]
  BY <1>1 DEF TypeOK, Begin
<1>4. \A d \in Callers \ {c} : CallerOK(d)'
  BY <1>2, <1>3, CallerFrame DEF CallerInv
<1>5. CallerOK(c)'
  <2>1. cmd'[c] = [kind |-> kind, label |-> l, cfg |-> cfg, force |-> force]
    BY <1>1 DEF TypeOK, Begin
  <2>2. pc'[c] = IF force \/ kind \in Unlocked THEN "run" ELSE "lock"
    BY <1>1 DEF TypeOK, Begin
  <2>3. (kind \in Services => l \in Reserved) /\ (force => l \in bypassed')
    BY <1>1 DEF Begin
  <2>4. call'[c].step = "none"
    BY <1>1, <1>2 DEF Begin, NoCall
  <2> QED BY <2>1, <2>2, <2>3, <2>4 DEF CallerOK
<1> QED BY <1>4, <1>5 DEF CallerInv

LEMMA CommandCaller ==
  ASSUME TypeOK, CallerInv, NEW c \in Callers, CommandStep(c)
  PROVE  CallerInv'
<1> USE DEF TypeOK, HelperTypeOK
<1>1. bypassed' = bypassed /\ cmd' \in [Callers -> Commands \union {NoCommand}]
  BY CommandTypes DEF CommandStep, AcquireLock, LockHeld, PassPreflight, FailPreflight,
    CallHelper, CallReturns, CallRaises, EndScript, RecordInstall,  OrphanReturns,
    CallProceeds, commandVars
<1>2. ASSUME NEW d \in Callers, d # c
      PROVE  CallerOK(d)'
  <2>1. pc'[d] = pc[d] /\ cmd'[d] = cmd[d] /\ pos'[d] = pos[d]
    BY <1>2 DEF CommandStep, AcquireLock, LockHeld, PassPreflight, FailPreflight,
      CallHelper, CallReturns, CallRaises, EndScript, RecordInstall,  End,
      OrphanReturns, CallProceeds, commandVars
  <2>2. call'[d] = call[d]
    BY <1>2 DEF CommandStep, AcquireLock, LockHeld, PassPreflight, FailPreflight,
      CallHelper, Invoke, CallReturns, CallRaises, EndScript, RecordInstall,  EndCall,
      OrphanReturns, CallProceeds, HelperStep, Refuse, CheckInstall, WriteTemp,
      WriteFails, RenameTemp, LoadJob, LoadFails, Bootout, BootoutFails, AtBootout,
      UnlinkPlist, UnlinkFails, StartDaemon, StopDaemon, EnableDaemon, DisableDaemon,
      SetOverride, Goto, helperVars
  <2>3. lock = d => lock' = d
    BY <1>2, NobodyIsNoCaller DEF CommandStep, AcquireLock, LockHeld, PassPreflight,
      FailPreflight, CallHelper, CallReturns, CallRaises, EndScript, RecordInstall,
      Unlock, OrphanReturns, CallProceeds, commandVars
  <2> QED BY <1>1, <2>1, <2>2, <2>3, CallerFrame DEF CallerInv
<1>3. CallerOK(c)
  BY DEF CallerInv
<1>4. pc[c] \notin {"idle", "run"} => call[c].step = "none"
  BY <1>3 DEF CallerOK, OwnCall, Orphan
<1>5. CallerOK(c)'
  <2>1. CASE AcquireLock(c)
    BY <1>3, <1>4, <2>1 DEF AcquireLock, CallerOK, helperVars
  <2>2. CASE LockHeld(c) \/ RecordInstall(c)
    BY <1>3, <1>4, <2>2 DEF LockHeld, RecordInstall, End, CallerOK, helperVars
  <2>3. CASE EndScript(c) /\ cmd[c].kind \notin Recording
    BY <1>3, <2>3 DEF EndScript, End, NoCall, CallerOK, helperVars
  <2>4. CASE PassPreflight(c)
    BY <1>3, <2>4 DEF PassPreflight, AtScript, NoCall, CallerOK, helperVars
  <2>5. CASE FailPreflight(c)
    BY <1>3, <2>5 DEF FailPreflight, AtScript, End, NoCall, CallerOK, helperVars
  <2>6. CASE EndScript(c) /\ cmd[c].kind \in Recording
    BY <1>3, <2>6 DEF EndScript, NoCall, CallerOK, helperVars
  <2>7. CASE CallHelper(c)
    <3>1. call'[c].act = Current(c).act /\ call'[c].label = cmd[c].label
      BY <2>7 DEF CallHelper, Invoke
    <3>2. pc'[c] = "run" /\ ~ScriptEnded(c) /\ UNCHANGED <<pc, cmd, pos, lock, bypassed>>
      BY <2>7 DEF CallHelper, AtScript, commandVars
    <3> QED BY <1>3, <3>1, <3>2 DEF CallerOK, OwnCall, Current, ScriptEnded
  <2>8. CASE CallReturns(c)
    BY <1>3, <2>8 DEF CallReturns, EndCall, NoCall, CallerOK
  <2>9. CASE CallRaises(c)
    BY <1>3, <2>9 DEF CallRaises, End, EndCall, NoCall, CallerOK
  <2>10. CASE OrphanReturns(c)
    BY <2>10 DEF OrphanReturns, EndCall, NoCall, CallerOK, commandVars
  <2>11. CASE CallProceeds(c)
    <3>1. PICK s \in Steps \union Exits : Goto(c, s) /\ call[c].step # "none"
      BY <2>11 DEF CallProceeds, HelperStep, Refuse, CheckInstall, WriteTemp, WriteFails,
        RenameTemp, LoadJob, LoadFails, Bootout, BootoutFails, AtBootout, UnlinkPlist,
        UnlinkFails, StartDaemon, StopDaemon, EnableDaemon, DisableDaemon, SetOverride,
        Steps, Exits
    <3> QED BY <1>3, <2>11, <3>1, GotoFields, CallerFrame DEF CallProceeds, commandVars
  <2> QED BY <2>1, <2>2, <2>3, <2>4, <2>5, <2>6, <2>7, <2>8, <2>9, <2>10, <2>11
          DEF CommandStep
<1> QED BY <1>2, <1>5 DEF CallerInv

LEMMA OtherCaller ==
  ASSUME TypeOK, CallerInv,
         BundleStep \/ KeepAlive \/ (\E c \in Callers : CommandDies(c)) \/ Reboot
  PROVE  CallerInv'
<1>1. CASE BundleStep \/ KeepAlive
  <2>1. UNCHANGED <<call, commandVars>>
    BY <1>1 DEF BundleStep, RegisterCheck, Register, Approve, Unregister, KeepAlive,
      helperVars
  <2> QED BY <2>1, CallerFrame DEF CallerInv, commandVars
<1>2. ASSUME NEW c \in Callers, CommandDies(c) PROVE CallerInv'
  <2>1. \A d \in Callers \ {c} :
          /\ pc'[d] = pc[d] /\ cmd'[d] = cmd[d] /\ pos'[d] = pos[d] /\ call'[d] = call[d]
          /\ lock = d => lock' = d
    BY <1>2 DEF CommandDies, End, Unlock, EndCall, TypeOK, HelperTypeOK
  <2>2. \A d \in Callers \ {c} : CallerOK(d)'
    BY <1>2, <2>1, CallerFrame DEF CallerInv, CommandDies
  <2>3. CASE InFlight(c)
    <3>1. call[c].label = cmd[c].label /\ call' = call /\ pc'[c] = "idle"
      BY <1>2, <2>3 DEF CommandDies, End, CallerInv, CallerOK, OwnCall, Orphan,
        InFlight, Returned, Steps, Exits, TypeOK
    <3> QED BY <1>2, <2>2, <2>3, <3>1 DEF CommandDies, CallerInv, CallerOK, Orphan
  <2>4. CASE ~InFlight(c)
    <3>1. call'[c].step = "none" /\ pc'[c] = "idle"
      BY <1>2, <2>4 DEF CommandDies, End, EndCall, InFlight, Returned, NoCall,
        TypeOK, HelperTypeOK, Calls
    <3> QED BY <2>2, <3>1 DEF CallerInv, CallerOK
  <2> QED BY <2>3, <2>4
<1>3. CASE Reboot
  BY <1>3 DEF Reboot, NoCall, CallerInv, CallerOK
<1> QED BY <1>1, <1>2, <1>3

-----------------------------------------------------------------------------
(* The calls: past its entry a call that changes the plist or the job of a *)
(* label is an install or a removal that _refuse_reserved let through.     *)

Midway == {"write", "rename", "load", "rollback", "unlink"}

CallInv ==
  \A c \in Callers :
    /\ call[c].step \in Midway =>
         call[c].act \in Writes /\ Accepts(call[c].act, call[c].label)
    /\ call[c].step \in Midway \ {"unlink"} => call[c].act \in Installs
    /\ call[c].step \in {"ok", "error", "left"} /\ call[c].act \in Writes =>
         Accepts(call[c].act, call[c].label)
    /\ call[c].step = "left" => call[c].act \in Writes

LEMMA HelperCall ==
  ASSUME HelperTypeOK, CallInv, NEW c \in Callers, HelperStep(c)
  PROVE  CallInv'
<1> USE GotoFields DEF Steps, Exits
<1>1. \A d \in Callers \ {c} : call'[d] = call[d]
  BY DEF HelperStep, Refuse, CheckInstall, WriteTemp, WriteFails, RenameTemp, LoadJob,
    LoadFails, Bootout, BootoutFails, AtBootout, UnlinkPlist, UnlinkFails, StartDaemon,
    StopDaemon, EnableDaemon, DisableDaemon, SetOverride
<1>2. call'[c].act = call[c].act /\ call'[c].label = call[c].label
  BY DEF HelperStep, Refuse, CheckInstall, WriteTemp, WriteFails, RenameTemp, LoadJob,
    LoadFails, Bootout, BootoutFails, AtBootout, UnlinkPlist, UnlinkFails, StartDaemon,
    StopDaemon, EnableDaemon, DisableDaemon, SetOverride
<1>3. call'[c].step \in Midway =>
        call[c].act \in Writes /\ Accepts(call[c].act, call[c].label)
  <2> SUFFICES ASSUME call'[c].step \in Midway
               PROVE  call[c].act \in Writes /\ Accepts(call[c].act, call[c].label)
    OBVIOUS
  <2>1. \/ CheckInstall(c) \/ WriteTemp(c) \/ RenameTemp(c) \/ LoadFails(c)
        \/ Bootout(c) \/ BootoutFails(c)
    <3>1. ~(StartDaemon(c) \/ StopDaemon(c) \/ EnableDaemon(c) \/ DisableDaemon(c))
      BY DEF Midway, StartDaemon, StopDaemon, EnableDaemon, DisableDaemon, SetOverride
    <3>2. ~(Refuse(c) \/ WriteFails(c) \/ LoadJob(c) \/ UnlinkPlist(c) \/ UnlinkFails(c))
      BY DEF Midway, Refuse, WriteFails, LoadJob, UnlinkPlist, UnlinkFails
    <3> QED BY <3>1, <3>2 DEF HelperStep
  <2> QED BY <2>1 DEF CallInv, Midway, Writes, CheckInstall, WriteTemp, RenameTemp,
          LoadFails, Bootout, BootoutFails, AtBootout
<1>4. call'[c].step \in Midway \ {"unlink"} => call[c].act \in Installs
  <2> SUFFICES ASSUME call'[c].step \in Midway \ {"unlink"} PROVE call[c].act \in Installs
    OBVIOUS
  <2>1. \/ CheckInstall(c) \/ WriteTemp(c) \/ RenameTemp(c) \/ LoadFails(c)
    <3>1. ~(StartDaemon(c) \/ StopDaemon(c) \/ EnableDaemon(c) \/ DisableDaemon(c))
      BY DEF Midway, StartDaemon, StopDaemon, EnableDaemon, DisableDaemon, SetOverride
    <3>2. ~(Refuse(c) \/ WriteFails(c) \/ LoadJob(c) \/ UnlinkPlist(c) \/ UnlinkFails(c))
      BY DEF Midway, Refuse, WriteFails, LoadJob, UnlinkPlist, UnlinkFails
    <3>3. ~Bootout(c)
      BY DEF Midway, Bootout, AtBootout
    <3>4. ~BootoutFails(c)
      BY DEF Midway, BootoutFails, AtBootout
    <3> QED BY <3>1, <3>2, <3>3, <3>4 DEF HelperStep
  <2> QED BY <2>1 DEF CallInv, Midway, CheckInstall, WriteTemp, RenameTemp, LoadFails
<1>5. call'[c].step \in {"ok", "error", "left"} /\ call[c].act \in Writes =>
        Accepts(call[c].act, call[c].label)
  <2> SUFFICES ASSUME call'[c].step \in {"ok", "error", "left"}, call[c].act \in Writes
               PROVE  Accepts(call[c].act, call[c].label)
    OBVIOUS
  <2>1. LoadJob(c) \/ UnlinkPlist(c) \/ UnlinkFails(c)
    <3>1. ~(StartDaemon(c) \/ StopDaemon(c) \/ EnableDaemon(c) \/ DisableDaemon(c))
      BY DEF StartDaemon, StopDaemon, EnableDaemon, DisableDaemon, SetOverride, Writes,
        Installs, Uninstalls
    <3>2. ~(Refuse(c) \/ CheckInstall(c) \/ WriteTemp(c) \/ WriteFails(c))
      BY DEF Refuse, CheckInstall, WriteTemp, WriteFails
    <3>3. ~(RenameTemp(c) \/ LoadFails(c))
      BY DEF RenameTemp, LoadFails
    <3>4. ~Bootout(c)
      BY DEF Bootout, AtBootout
    <3>5. ~BootoutFails(c)
      BY DEF BootoutFails, AtBootout
    <3> QED BY <3>1, <3>2, <3>3, <3>4, <3>5 DEF HelperStep
  <2> QED BY <2>1 DEF CallInv, Midway, LoadJob, UnlinkPlist, UnlinkFails
<1>6. call'[c].step = "left" => call[c].step = "unlink"
  <2> SUFFICES ASSUME call'[c].step = "left" PROVE UnlinkFails(c)
    BY DEF UnlinkFails
  <2>1. ~(StartDaemon(c) \/ StopDaemon(c) \/ EnableDaemon(c) \/ DisableDaemon(c))
    BY DEF StartDaemon, StopDaemon, EnableDaemon, DisableDaemon, SetOverride
  <2>2. ~(Refuse(c) \/ CheckInstall(c) \/ WriteTemp(c) \/ WriteFails(c) \/ RenameTemp(c))
    BY DEF Refuse, CheckInstall, WriteTemp, WriteFails, RenameTemp
  <2>3. ~(LoadJob(c) \/ LoadFails(c) \/ UnlinkPlist(c))
    BY DEF LoadJob, LoadFails, UnlinkPlist
  <2>4. ~Bootout(c)
    BY DEF Bootout, AtBootout
  <2>5. ~BootoutFails(c)
    BY DEF BootoutFails, AtBootout
  <2> QED BY <2>1, <2>2, <2>3, <2>4, <2>5 DEF HelperStep
<1>7. call'[c].step = "left" => call[c].act \in Writes
  BY <1>6 DEF CallInv, Midway
<1> QED BY <1>1, <1>2, <1>3, <1>4, <1>5, <1>7 DEF CallInv, Accepts

\* Outside the helper a call begins at its entry, stays, or is gone.
CallsMayEnd ==
  \A d \in Callers : call'[d] # call[d] => call'[d].step \in {"none", "entry"}

LEMMA CallsOutside ==
  ASSUME TypeOK,
         \/ Operator \/ BundleStep \/ KeepAlive \/ Reboot
         \/ \E c \in Callers :
              \/ CommandDies(c)
              \/ CommandStep(c) /\ ~CallProceeds(c)
  PROVE  CallsMayEnd /\ plist' = plist
         /\ \A d \in Callers : call[d].step \in Midway => call'[d] = call[d] \/ Reboot
<1> USE DEF CallsMayEnd, TypeOK, HelperTypeOK, Midway
<1>1. CASE Operator
  BY <1>1 DEF Operator, Begin, helperVars, launchdVars
<1>2. CASE BundleStep \/ KeepAlive
  BY <1>2 DEF BundleStep, RegisterCheck, Register, Approve, Unregister, KeepAlive, Respawn,
    helperVars, launchdVars
<1>3. CASE Reboot
  BY <1>3 DEF Reboot, Boot, NoCall
<1>4. ASSUME NEW c \in Callers, CommandDies(c)
      PROVE  /\ CallsMayEnd /\ plist' = plist
             /\ \A d \in Callers : call[d].step \in Midway => call'[d] = call[d]
  BY <1>4 DEF CommandDies, EndCall, NoCall, Returned, Exits, launchdVars
<1>5. ASSUME NEW c \in Callers, CommandStep(c), ~CallProceeds(c)
      PROVE  /\ CallsMayEnd /\ plist' = plist
             /\ \A d \in Callers : call[d].step \in Midway => call'[d] = call[d]
  <2>1. CASE CallHelper(c)
    BY <2>1 DEF CallHelper, AtScript, Invoke, NoCall, launchdVars
  <2>2. CASE CallReturns(c) \/ CallRaises(c) \/ OrphanReturns(c)
    BY <2>2 DEF CallReturns, CallRaises, OrphanReturns, EndCall, NoCall, Returned, Exits,
      launchdVars
  <2>3. CASE AcquireLock(c) \/ LockHeld(c) \/ PassPreflight(c) \/ FailPreflight(c)
               \/ EndScript(c) \/ RecordInstall(c)
    BY <2>3 DEF AcquireLock, LockHeld, PassPreflight, FailPreflight, EndScript,
      RecordInstall,  helperVars, launchdVars
  <2> QED BY <1>5, <2>1, <2>2, <2>3 DEF CommandStep
<1> QED BY <1>1, <1>2, <1>3, <1>4, <1>5

LEMMA OutsideCall ==
  ASSUME CallInv, CallsMayEnd PROVE CallInv'
<1> SUFFICES ASSUME NEW d \in Callers
             PROVE  /\ call'[d].step \in Midway =>
                         call'[d].act \in Writes /\ Accepts(call'[d].act, call'[d].label)
                    /\ call'[d].step \in Midway \ {"unlink"} => call'[d].act \in Installs
                    /\ call'[d].step \in {"ok", "error", "left"} /\ call'[d].act \in Writes =>
                         Accepts(call'[d].act, call'[d].label)
                    /\ call'[d].step = "left" => call'[d].act \in Writes
  BY DEF CallInv, Accepts
<1>1. CASE call'[d] = call[d]
  BY <1>1 DEF CallInv
<1>2. CASE call'[d] # call[d]
  BY <1>2 DEF CallsMayEnd, Midway
<1> QED BY <1>1, <1>2

-----------------------------------------------------------------------------
(* One writer.                                                             *)

Writing(c, l) ==
  call[c].step # "none" /\ call[c].label = l /\ call[c].act \in Writes

\* A command that changes the plist of an engine holds the lock.
LEMMA WriterHoldsLock ==
  ASSUME TypeOK, CallerInv, NEW l \in Engines \ bypassed, NEW c \in Callers, Writing(c, l)
  PROVE  lock = c
<1>1. OwnCall(c)
  BY DEF CallerInv, CallerOK, Orphan, Writing
<1>2. cmd[c].kind \in DOMAIN Script /\ cmd[c].force \in BOOLEAN /\ pos[c] \in 1..5
  BY <1>1, CommandFields DEF OwnCall
<1>3. ~cmd[c].force /\ cmd[c].kind \notin Services
  BY <1>1 DEF CallerInv, CallerOK, OwnCall, Writing, Engines
<1>4. cmd[c].kind # "start"
  <2> SUFFICES ASSUME cmd[c].kind = "start" PROVE FALSE
    OBVIOUS
  <2>1. Len(Script["start"]) \in 1..5 /\ ~(pos[c] > Len(Script["start"]))
    BY <1>1, <1>2, Scripts, Zenon DEF OwnCall, ScriptEnded
  <2>2. \A m, n \in 1..5 : ~(m > n) => m \in 1..n
    OBVIOUS
  <2>3. pos[c] \in 1..Len(Script["start"])
    BY <1>2, <2>1, <2>2, Zenon
  <2>4. Script["start"][pos[c]].act \notin Writes
    BY <2>3, StartWritesNothing, Zenon
  <2> QED BY <1>1, <2>4, Zenon DEF OwnCall, Current, Writing
<1> QED BY <1>1, <1>3, <1>4 DEF CallerInv, CallerOK, OwnCall, Unlocked

LEMMA OneWriterHolds == TypeOK /\ CallerInv => OneWriter
<1> SUFFICES ASSUME TypeOK, CallerInv, NEW l \in Engines \ bypassed
             PROVE  Cardinality(Writers(l)) <= 1
  BY DEF OneWriter
<1>1. \A c \in Writers(l) : Writing(c, l)
  BY DEF Writers, Writing, Writes, InFlight, Steps
<1>2. Writers(l) \in SUBSET {lock}
  BY <1>1, WriterHoldsLock DEF Writers
<1>3. IsFiniteSet({lock}) /\ Cardinality({lock}) = 1
  BY FS_Singleton, Zenon
<1>4. Cardinality(Writers(l)) <= Cardinality({lock})
  BY <1>2, <1>3, FS_Subset
<1> QED BY <1>3, <1>4

-----------------------------------------------------------------------------
(* The plist and the job of an engine: they match, but for the part of its  *)
(* writer's call in which the one has changed and the other has not.        *)

Match(l) == loaded[l] \in Configs => plist[l] = loaded[l]

Unmatched == {"load", "rollback", "unlink"}

\* There is no job of a plist, or one that a bootout could not take down.
Down(l) == loaded[l] \notin Configs \/ l \in stuck

SlotOK(l) ==
  /\ \/ Match(l) \/ l \in stuck
     \/ \E c \in Callers : call[c].step \in Unmatched /\ call[c].label = l
  /\ \A c \in Callers : call[c].step = "unlink" /\ call[c].label = l => Down(l)
  /\ \A c \in Callers :
       call[c].step \in {"error", "left"} /\ call[c].act = "install-daemon"
         /\ call[c].label = l => Down(l) /\ (call[c].step = "error" => plist[l] = NoPlist)

SlotInv == \A l \in Engines \ bypassed : SlotOK(l)

\* A step that leaves the plist of a label alone, and its job too or without a config.
LEMMA SlotFrame ==
  ASSUME NEW l, SlotOK(l), plist'[l] = plist[l],
         \/ loaded'[l] = loaded[l] /\ (l \in stuck' <=> l \in stuck)
         \/ loaded'[l] \notin Configs,
         \A d \in Callers : call[d].step \in Unmatched => call'[d] = call[d],
         \A d \in Callers : call'[d] # call[d] => call'[d].step \in {"none", "entry"}
  PROVE  SlotOK(l)'
  BY DEF SlotOK, Down, Match, Unmatched

\* A step of a helper call that is not about the label.
LEMMA OtherLabel ==
  ASSUME HelperTypeOK, NEW c \in Callers, HelperStep(c), NEW l \in Labels,
         SlotOK(l), call[c].label # l
  PROVE  SlotOK(l)'
<1> USE GotoFields DEF Steps, Exits
<1>1. /\ \A d \in Callers \ {c} : call'[d] = call[d]
      /\ call'[c].label = call[c].label
  BY DEF HelperStep, Refuse, CheckInstall, WriteTemp, WriteFails, RenameTemp, LoadJob,
    LoadFails, Bootout, BootoutFails, AtBootout, UnlinkPlist, UnlinkFails, StartDaemon,
    StopDaemon, EnableDaemon, DisableDaemon, SetOverride
<1>2. plist'[l] = plist[l] /\ loaded'[l] = loaded[l] /\ (l \in stuck' <=> l \in stuck)
  BY DEF HelperTypeOK, LaunchdTypeOK, Load, Unload, StayLoaded, launchdVars, HelperStep,
    Refuse, CheckInstall, WriteTemp, WriteFails, RenameTemp, LoadJob, LoadFails, Bootout,
    BootoutFails, AtBootout, UnlinkPlist, UnlinkFails, StartDaemon, StopDaemon,
    EnableDaemon, DisableDaemon, SetOverride
<1> QED BY <1>1, <1>2 DEF SlotOK, Down, Match

\* A step of a call that only starts, stops, enables or disables.
LEMMA NotAWriter ==
  ASSUME HelperTypeOK, CallInv, NEW c \in Callers, HelperStep(c), NEW l \in Labels,
         SlotOK(l), call[c].act \notin Writes
  PROVE  SlotOK(l)'
<1>1. call[c].step \notin Midway
  BY DEF CallInv
<1>2. \/ Refuse(c) \/ StartDaemon(c) \/ StopDaemon(c) \/ EnableDaemon(c) \/ DisableDaemon(c)
  BY <1>1 DEF HelperStep, CheckInstall, WriteTemp, WriteFails, RenameTemp, LoadJob,
    LoadFails, Bootout, BootoutFails, AtBootout, UnlinkPlist, UnlinkFails, Midway, Writes
<1>3. plist' = plist /\ loaded' = loaded /\ stuck' = stuck
  BY <1>2 DEF Refuse, StartDaemon, StopDaemon, EnableDaemon, DisableDaemon, SetOverride,
    launchdVars
<1>4. /\ \A d \in Callers \ {c} : call'[d] = call[d]
      /\ call[c].step = "entry" /\ call'[c].step \in Exits /\ call'[c].act = call[c].act
  BY <1>2, GotoFields DEF Refuse, StartDaemon, StopDaemon, EnableDaemon, DisableDaemon,
    SetOverride, Exits
<1> QED BY <1>3, <1>4 DEF SlotOK, Down, Match, Unmatched, Exits, Writes, Installs

\* A step of the only call that writes the label.
LEMMA OnlyWriter ==
  ASSUME HelperTypeOK, CallInv, NEW c \in Callers, HelperStep(c), NEW l \in Labels,
         SlotOK(l), Writing(c, l), \A d \in Callers \ {c} : ~Writing(d, l)
  PROVE  SlotOK(l)'
<1> USE DEF HelperTypeOK, LaunchdTypeOK
<1>1. \A d \in Callers \ {c} :
        call'[d] = call[d] /\ (call[d].step \in Unmatched => call[d].label # l)
  BY GotoFields DEF HelperStep, Refuse, CheckInstall, WriteTemp, WriteFails, RenameTemp,
    LoadJob, LoadFails, Bootout, BootoutFails, AtBootout, UnlinkPlist, UnlinkFails,
    StartDaemon, StopDaemon, EnableDaemon, DisableDaemon, SetOverride, Steps, Exits,
    CallInv, Writing, Unmatched, Midway
<1>2. \A d \in Callers \ {c} :
        ~(/\ call[d].step \in {"error", "left"} /\ call[d].act = "install-daemon"
          /\ call[d].label = l)
  BY DEF Writing, Writes, Installs
<1>3. call[c].label = l /\ call'[c].label = l /\ call'[c].act = call[c].act
  BY GotoFields DEF HelperStep, Refuse, CheckInstall, WriteTemp, WriteFails, RenameTemp,
    LoadJob, LoadFails, Bootout, BootoutFails, AtBootout, UnlinkPlist, UnlinkFails,
    StartDaemon, StopDaemon, EnableDaemon, DisableDaemon, SetOverride, Steps, Exits,
    Writing
<1>4. call[c].step \notin Unmatched => Match(l) \/ l \in stuck
  BY <1>1 DEF SlotOK
<1> USE DEF Steps, Exits
<1>5. CASE Refuse(c) \/ CheckInstall(c) \/ WriteTemp(c) \/ WriteFails(c)
  <2>1. /\ UNCHANGED <<plist, loaded, stuck>> /\ call[c].step \notin Unmatched
        /\ call'[c].step \notin {"unlink", "error", "left"}
    BY <1>5, GotoFields DEF Refuse, CheckInstall, WriteTemp, WriteFails, Unmatched,
      launchdVars
  <2> QED BY <1>1, <1>2, <1>3, <1>4, <2>1 DEF SlotOK, Down, Match, Unmatched
<1>6. CASE RenameTemp(c) \/ LoadFails(c)
  <2>1. call'[c].step \in {"load", "rollback"} /\ loaded' = loaded
    BY <1>6, GotoFields DEF RenameTemp, LoadFails, launchdVars
  <2> QED BY <1>1, <1>2, <1>3, <2>1 DEF SlotOK, Down, Unmatched
<1>7. CASE LoadJob(c)
  <2>1. call'[c].step = "ok" /\ plist' = plist /\ loaded'[l] = plist[l] /\ stuck' = stuck
    BY <1>3, <1>7, GotoFields DEF LoadJob, Load
  <2> QED BY <1>1, <1>2, <1>3, <2>1 DEF SlotOK, Down, Match, Unmatched
<1>8. CASE Bootout(c) \/ BootoutFails(c)
  <2>1. call'[c].step = "unlink" /\ (loaded'[l] = NotLoaded \/ Down(l)')
    BY <1>3, <1>8, GotoFields DEF Bootout, BootoutFails, AtBootout, Unload, StayLoaded,
      Down
  <2> QED BY <1>1, <1>2, <1>3, <2>1, SourcesDistinct DEF SlotOK, Down, Unmatched
<1>9. CASE UnlinkPlist(c) \/ UnlinkFails(c)
  <2>1. /\ call'[c].step \in {"ok", "error", "left"} /\ loaded' = loaded /\ stuck' = stuck
        /\ call'[c].step = "error" => plist'[l] = NoPlist
        /\ Down(l)
    BY <1>3, <1>9, GotoFields DEF UnlinkPlist, UnlinkFails, launchdVars, SlotOK
  <2> QED BY <1>1, <1>2, <1>3, <2>1 DEF SlotOK, Down, Match, Unmatched
<1>10. ~(StartDaemon(c) \/ StopDaemon(c) \/ EnableDaemon(c) \/ DisableDaemon(c))
  BY DEF StartDaemon, StopDaemon, EnableDaemon, DisableDaemon, SetOverride, Writing,
    Writes, Installs, Uninstalls
<1> QED BY <1>5, <1>6, <1>7, <1>8, <1>9, <1>10 DEF HelperStep

LEMMA HelperSlot ==
  ASSUME TypeOK, CallerInv, CallInv, SlotInv, NEW c \in Callers, CallProceeds(c)
  PROVE  SlotInv'
<1> SUFFICES ASSUME NEW l \in Engines \ bypassed PROVE SlotOK(l)'
  BY DEF SlotInv, CallProceeds, commandVars
<1>1. HelperTypeOK /\ HelperStep(c) /\ SlotOK(l) /\ l \in Labels
  BY DEF TypeOK, CallProceeds, SlotInv, Engines
<1>2. call[c].step # "none"
  BY <1>1 DEF HelperStep, Refuse, CheckInstall, WriteTemp, WriteFails, RenameTemp,
    LoadJob, LoadFails, Bootout, BootoutFails, AtBootout, UnlinkPlist, UnlinkFails,
    StartDaemon, StopDaemon, EnableDaemon, DisableDaemon, SetOverride
<1>3. CASE call[c].label # l
  BY <1>1, <1>3, OtherLabel
<1>4. CASE call[c].act \notin Writes
  BY <1>1, <1>4, NotAWriter
<1>5. CASE Writing(c, l)
  <2>1. \A d \in Callers \ {c} : ~Writing(d, l)
    BY <1>5, WriterHoldsLock
  <2> QED BY <1>1, <1>5, <2>1, OnlyWriter
<1> QED BY <1>2, <1>3, <1>4, <1>5 DEF Writing

\* Outside the helper only a reboot changes a job that was made from a plist, or what a
\* bootout has left of it.
LEMMA OutsideJob ==
  ASSUME TypeOK, NEW l \in Labels,
         \/ Operator \/ BundleStep \/ KeepAlive
         \/ \E c \in Callers :
              \/ CommandDies(c)
              \/ CommandStep(c) /\ ~CallProceeds(c)
  PROVE  /\ loaded'[l] = loaded[l] \/ {loaded[l], loaded'[l]} \cap Configs = {}
         /\ l \in stuck' <=> l \in stuck
<1>1. CASE BundleStep
  <2> PICK m \in Managed : RegisterCheck(m) \/ Register(m) \/ Approve(m) \/ Unregister(m)
    BY <1>1 DEF BundleStep
  <2> QED BY SourcesDistinct DEF RegisterCheck, Register, Approve, Unregister,
          Load, Unload, TypeOK, HelperTypeOK, LaunchdTypeOK, helperVars, launchdVars
<1>2. CASE Operator \/ KeepAlive \/ \E c \in Callers : CommandDies(c)
  BY <1>2 DEF Operator, Begin, KeepAlive, Respawn, CommandDies, helperVars, launchdVars
<1>3. CASE \E c \in Callers : CommandStep(c) /\ ~CallProceeds(c)
  BY <1>3 DEF CommandStep, AcquireLock, LockHeld, PassPreflight, FailPreflight,
    CallHelper, CallReturns, CallRaises, EndScript, RecordInstall,
    OrphanReturns, helperVars, launchdVars
<1> QED BY <1>1, <1>2, <1>3

\* What happens outside the helper.
LEMMA OutsideSlot ==
  ASSUME TypeOK, SlotInv,
         \/ Operator \/ BundleStep \/ KeepAlive \/ Reboot
         \/ \E c \in Callers :
              \/ CommandDies(c)
              \/ CommandStep(c) /\ ~CallProceeds(c)
  PROVE  SlotInv'
<1> SUFFICES ASSUME NEW l \in Engines \ bypassed' PROVE SlotOK(l)'
  BY DEF SlotInv
<1>1. CASE Reboot
  <2>1. \A d \in Callers : call'[d].step = "none"
    BY <1>1 DEF Reboot, NoCall
  <2>2. plist' = plist /\ loaded'[l] \in {plist[l], NotLoaded, FromBundle}
    BY <1>1 DEF Reboot, Boot, BootSources, Engines
  <2> QED BY <2>1, <2>2, SourcesDistinct DEF SlotOK, Match
<1>2. CASE ~Reboot
  <2>1. bypassed \subseteq bypassed'
    BY <1>2 DEF Operator, Begin, BundleStep, RegisterCheck, Register, Approve, Unregister,
      KeepAlive, CommandDies, CommandStep, AcquireLock, LockHeld, PassPreflight,
      FailPreflight, CallHelper, CallReturns, CallRaises, EndScript, RecordInstall,
      OrphanReturns, commandVars
  <2>2. SlotOK(l) /\ l \in Labels
    BY <2>1 DEF SlotInv, Engines
  <2>3. CallsMayEnd /\ plist' = plist
    BY CallsOutside
  <2>4. \A d \in Callers : call[d].step \in Unmatched => call'[d] = call[d]
    BY <1>2, CallsOutside DEF Unmatched, Midway
  <2>5. \/ loaded'[l] = loaded[l] /\ (l \in stuck' <=> l \in stuck)
        \/ loaded'[l] \notin Configs
    BY <1>2, <2>2, OutsideJob
  <2> QED BY <2>2, <2>3, <2>4, <2>5, SlotFrame DEF CallsMayEnd
<1> QED BY <1>1, <1>2

-----------------------------------------------------------------------------
(* From its temporary file on, what an install has written is what its     *)
(* command asked for, until it is unlinked: nobody else writes the label   *)
(* meanwhile.                                                              *)

AsAsked(c, l) ==
  call[c].label = l /\ call[c].act = "install-daemon" =>
    /\ call[c].step = "rename" => temp[l] = call[c].cfg
    /\ call[c].step \in {"load", "rollback", "unlink", "left"} => plist[l] = call[c].cfg
    /\ call[c].step = "ok" => plist[l] = call[c].cfg /\ loaded[l] = call[c].cfg

\* Where something on disk is the call's.
Bound == {"rename", "load", "rollback", "unlink", "left", "ok"}

AskedInv == \A l \in Engines \ bypassed, c \in Callers : AsAsked(c, l)

\* A helper step that does not write the label leaves its files and its job alone.
LEMMA LeavesLabel ==
  ASSUME HelperTypeOK, CallInv, NEW c \in Callers, HelperStep(c), NEW l \in Labels,
         ~Writing(c, l)
  PROVE  temp'[l] = temp[l] /\ plist'[l] = plist[l] /\ loaded'[l] = loaded[l]
<1>1. CASE call[c].label # l
  BY <1>1 DEF HelperTypeOK, LaunchdTypeOK, Load, Unload, StayLoaded, launchdVars,
    HelperStep, Refuse, CheckInstall, WriteTemp, WriteFails, RenameTemp, LoadJob,
    LoadFails, Bootout, BootoutFails, AtBootout, UnlinkPlist, UnlinkFails, StartDaemon,
    StopDaemon, EnableDaemon, DisableDaemon, SetOverride
<1>2. CASE call[c].act \notin Writes
  <2>1. \/ Refuse(c) \/ StartDaemon(c) \/ StopDaemon(c) \/ EnableDaemon(c)
        \/ DisableDaemon(c)
    BY <1>2 DEF CallInv, HelperStep, CheckInstall, WriteTemp, WriteFails, RenameTemp,
      LoadJob, LoadFails, Bootout, BootoutFails, AtBootout, UnlinkPlist, UnlinkFails,
      Midway, Writes
  <2> QED BY <2>1 DEF Refuse, StartDaemon, StopDaemon, EnableDaemon, DisableDaemon,
          SetOverride, launchdVars
<1>3. call[c].step # "none"
  BY DEF HelperStep, Refuse, CheckInstall, WriteTemp, WriteFails, RenameTemp, LoadJob,
    LoadFails, Bootout, BootoutFails, AtBootout, UnlinkPlist, UnlinkFails, StartDaemon,
    StopDaemon, EnableDaemon, DisableDaemon, SetOverride
<1> QED BY <1>1, <1>2, <1>3 DEF Writing

LEMMA HelperAsked ==
  ASSUME TypeOK, CallerInv, CallInv, AskedInv, NEW c \in Callers, CallProceeds(c)
  PROVE  AskedInv'
<1> SUFFICES ASSUME NEW l \in Engines \ bypassed, NEW d \in Callers PROVE AsAsked(d, l)'
  BY DEF AskedInv, CallProceeds, commandVars
<1>1. HelperTypeOK /\ HelperStep(c) /\ AsAsked(d, l) /\ l \in Labels
  BY DEF TypeOK, CallProceeds, AskedInv, Engines
<1> USE DEF HelperTypeOK, LaunchdTypeOK
<1>2. CASE d # c
  <2> SUFFICES ASSUME call'[d].label = l, call'[d].act = "install-daemon",
                      call'[d].step \in Bound
               PROVE  AsAsked(d, l)'
    BY DEF AsAsked, Bound
  <2>1. call'[d] = call[d]
    BY <1>1, <1>2, GotoFields DEF HelperStep, Refuse, CheckInstall, WriteTemp, WriteFails,
      RenameTemp, LoadJob, LoadFails, Bootout, BootoutFails, AtBootout, UnlinkPlist,
      UnlinkFails, StartDaemon, StopDaemon, EnableDaemon, DisableDaemon, SetOverride,
      Steps, Exits
  <2>2. Writing(d, l)
    BY <2>1 DEF Writing, Writes, Installs, Bound
  <2>3. ~Writing(c, l)
    BY <1>2, <2>2, WriterHoldsLock
  <2> QED BY <1>1, <2>1, <2>3, LeavesLabel DEF AsAsked
<1>3. CASE d = c
  <2> SUFFICES ASSUME call'[c].label = l, call'[c].act = "install-daemon",
                      call'[c].step \in Bound
               PROVE  AsAsked(c, l)'
    BY <1>3 DEF AsAsked, Bound
  <2> USE GotoFields DEF Steps, Exits
  <2>1. /\ call[c].label = l /\ call[c].act = "install-daemon"
        /\ call'[c].cfg = call[c].cfg
    BY <1>1 DEF HelperStep, Refuse, CheckInstall, WriteTemp, WriteFails, RenameTemp,
      LoadJob, LoadFails, Bootout, BootoutFails, AtBootout, UnlinkPlist, UnlinkFails,
      StartDaemon, StopDaemon, EnableDaemon, DisableDaemon, SetOverride
  <2>2. \/ WriteTemp(c) \/ RenameTemp(c) \/ LoadJob(c) \/ LoadFails(c)
        \/ Bootout(c) \/ BootoutFails(c) \/ UnlinkFails(c)
    <3>1. ~(StartDaemon(c) \/ StopDaemon(c) \/ EnableDaemon(c) \/ DisableDaemon(c))
      BY <2>1 DEF StartDaemon, StopDaemon, EnableDaemon, DisableDaemon, SetOverride
    <3>2. ~(Refuse(c) \/ CheckInstall(c) \/ WriteFails(c))
      BY <1>1 DEF Refuse, CheckInstall, WriteFails, Bound
    <3>3. ~UnlinkPlist(c)
      BY <1>1, <2>1 DEF UnlinkPlist, Uninstalls, Bound
    <3> QED BY <1>1, <3>1, <3>2, <3>3 DEF HelperStep
  <2>3. CASE WriteTemp(c)
    BY <1>1, <1>3, <2>1, <2>3 DEF WriteTemp, AsAsked
  <2>4. CASE RenameTemp(c)
    BY <1>1, <1>3, <2>1, <2>4 DEF RenameTemp, AsAsked
  <2>5. CASE LoadJob(c)
    BY <1>1, <1>3, <2>1, <2>5 DEF LoadJob, Load, AsAsked
  <2>6. CASE LoadFails(c) \/ Bootout(c) \/ BootoutFails(c) \/ UnlinkFails(c)
    <3>1. /\ plist' = plist
          /\ call[c].step \in {"load", "rollback", "unlink"}
          /\ call'[c].step \in {"rollback", "unlink", "left"}
      BY <1>1, <2>1, <2>6 DEF LoadFails, Bootout, BootoutFails, AtBootout, UnlinkFails,
        Uninstalls, launchdVars
    <3> QED BY <1>1, <1>3, <2>1, <3>1 DEF AsAsked
  <2> QED BY <2>2, <2>3, <2>4, <2>5, <2>6
<1> QED BY <1>2, <1>3

LEMMA OutsideAsked ==
  ASSUME TypeOK, AskedInv,
         \/ Operator \/ BundleStep \/ KeepAlive \/ Reboot
         \/ \E c \in Callers :
              \/ CommandDies(c)
              \/ CommandStep(c) /\ ~CallProceeds(c)
  PROVE  AskedInv'
<1> SUFFICES ASSUME NEW l \in Engines \ bypassed', NEW d \in Callers,
                    call'[d].label = l, call'[d].act = "install-daemon",
                    call'[d].step \in Bound
             PROVE  AsAsked(d, l)'
  BY DEF AskedInv, AsAsked, Bound
<1>1. ~Reboot
  BY DEF Reboot, NoCall, Bound
<1>2. bypassed \subseteq bypassed' /\ temp' = temp
  BY <1>1 DEF Operator, Begin, BundleStep, RegisterCheck, Register, Approve, Unregister,
    KeepAlive, CommandDies, CommandStep, AcquireLock, LockHeld, PassPreflight,
    FailPreflight, CallHelper, CallReturns, CallRaises, EndScript, RecordInstall,
    OrphanReturns, commandVars, helperVars
<1>3. AsAsked(d, l) /\ l \in Labels
  BY <1>2 DEF AskedInv, Engines
<1>4. call'[d] = call[d] /\ plist' = plist
  BY CallsOutside DEF CallsMayEnd, Bound
<1>5. call[d].step = "ok" => loaded[l] \in Configs
  BY <1>3, <1>4, CallFields DEF AsAsked, TypeOK
<1>6. loaded[l] \in Configs => loaded'[l] = loaded[l]
  BY <1>1, <1>3, OutsideJob
<1> QED BY <1>2, <1>3, <1>4, <1>5, <1>6 DEF AsAsked

-----------------------------------------------------------------------------
(* The inductive invariant.                                                *)

IInv == TypeOK /\ CallerInv /\ CallInv /\ SlotInv /\ AskedInv

LEMMA InitInv == Init => IInv
<1> SUFFICES ASSUME Init PROVE IInv
  OBVIOUS
<1>1. TypeOK
  BY NobodyIsNoCaller DEF Init, TypeOK, HelperInit, HelperTypeOK, LaunchdInit,
    LaunchdTypeOK, Registrations, Calls, Phases
<1>2. \A c \in Callers : call[c].step = "none" /\ pc[c] = "idle"
  BY DEF Init, HelperInit, NoCall
<1>3. \A l \in Labels : loaded[l] = NotLoaded
  BY DEF Init, HelperInit, LaunchdInit
<1>4. CallerInv /\ CallInv
  BY <1>2 DEF CallerInv, CallerOK, CallInv, Midway
<1>5. SlotInv /\ AskedInv
  BY <1>2, <1>3, SourcesDistinct DEF SlotInv, SlotOK, Match, Engines, AskedInv, AsAsked
<1> QED BY <1>1, <1>4, <1>5 DEF IInv

LEMMA NextInv == IInv /\ [Next]_vars => IInv'
<1> SUFFICES ASSUME IInv, [Next]_vars PROVE IInv'
  OBVIOUS
<1> USE DEF IInv
<1>1. ASSUME NEW c \in Callers, CallProceeds(c) PROVE IInv'
  <2>1. CommandStep(c)
    BY <1>1 DEF CommandStep
  <2>2. CallInv'
    BY <1>1, HelperCall DEF CallProceeds, TypeOK
  <2> QED BY <1>1, <2>1, <2>2, CommandTypes, CommandCaller, HelperSlot, HelperAsked
<1>2. CASE \/ Operator \/ BundleStep \/ KeepAlive \/ Reboot
           \/ \E c \in Callers :
                \/ CommandDies(c)
                \/ CommandStep(c) /\ ~CallProceeds(c)
  <2>1. TypeOK'
    BY <1>2, BeginTypes, CommandTypes, OtherTypes
  <2>2. CallerInv'
    BY <1>2, BeginCaller, CommandCaller, OtherCaller
  <2>3. CallInv' /\ SlotInv' /\ AskedInv'
    BY <1>2, CallsOutside, OutsideCall, OutsideSlot, OutsideAsked
  <2> QED BY <2>1, <2>2, <2>3
<1>3. CASE UNCHANGED vars
  <2>1. UNCHANGED <<helperVars, launchdVars, commandVars>>
    BY <1>3 DEF vars, helperVars
  <2>2. TypeOK'
    BY <1>3, <2>1 DEF vars, helperVars, launchdVars, commandVars, TypeOK, HelperTypeOK,
      LaunchdTypeOK
  <2>3. CallerInv'
    BY <2>1, CallerFrame DEF CallerInv, commandVars, helperVars
  <2>4. CallInv' /\ SlotInv' /\ AskedInv'
    BY <2>1 DEF CallInv, Accepts, SlotInv, SlotOK, Down, Match, AskedInv, AsAsked,
      helperVars, launchdVars, commandVars
  <2> QED BY <2>2, <2>3, <2>4
<1> QED BY <1>1, <1>2, <1>3 DEF Next, SteadyNext

LEMMA Invariance == Spec => []IInv
  BY InitInv, NextInv, PTL DEF Spec

-----------------------------------------------------------------------------
\* Every variable keeps its type.
THEOREM TypeCorrect == Spec => []TypeOK
<1>1. IInv => TypeOK
  BY DEF IInv
<1> QED BY <1>1, Invariance, PTL

\* The operations lock does what it is for: on an engine that every command locked, two
\* helper calls never write at a time, for any number of callers.
THEOREM OneWriterCorrect == Spec => []OneWriter
<1>1. IInv => OneWriter
  BY OneWriterHolds DEF IInv
<1> QED BY <1>1, Invariance, PTL

\* Outside an install or a removal the job of an engine is the one its plist describes,
\* through failures, kills and reboots; only a bootout that failed leaves another.
THEOREM JobMatchesPlistCorrect == Spec => []JobMatchesPlist
<1>1. IInv => JobMatchesPlist
  <2> SUFFICES ASSUME IInv, NEW l \in Engines \ (bypassed \union stuck),
                      loaded[l] \in Configs, Writers(l) = {}
               PROVE  plist[l] = loaded[l]
    BY DEF JobMatchesPlist
  <2>1. \A c \in Callers : ~(call[c].step \in Unmatched /\ call[c].label = l)
    BY DEF IInv, CallInv, Writers, InFlight, Steps, Writes, Unmatched, Midway
  <2> QED BY <2>1 DEF IInv, SlotInv, SlotOK, Match
<1> QED BY <1>1, Invariance, PTL

\* An install-daemon is all or nothing: what succeeded is on disk and in launchd as it was
\* asked for, and the rollback of what failed leaves no plist and no job, as far as its
\* own unlink and bootout succeed.
THEOREM InstallCorrect == Spec => []InstallAllOrNothing
<1>1. IInv => InstallAllOrNothing
  <2> SUFFICES ASSUME IInv, NEW c \in Callers, NEW l, l = call[c].label,
                      Returned(c), call[c].act = "install-daemon", l \notin bypassed
               PROVE  /\ call[c].step = "ok" => plist[l] = call[c].cfg /\ loaded[l] = call[c].cfg
                      /\ call[c].step = "error" => plist[l] = NoPlist /\ Down(l)
                      /\ call[c].step = "left" => plist[l] = call[c].cfg /\ Down(l)
    BY DEF InstallAllOrNothing, Down
  <2>1. l \in Labels
    BY CallFields DEF IInv, TypeOK, Returned, Exits
  <2>2. call[c].step \in {"ok", "error", "left"} => l \in Engines
    BY <2>1 DEF IInv, CallInv, Writes, Installs, Accepts, ReservedActs, Engines
  <2>3. l \in Engines => SlotOK(l) /\ AsAsked(c, l)
    BY DEF IInv, SlotInv, AskedInv
  <2> QED BY <2>2, <2>3 DEF SlotOK, AsAsked
<1> QED BY <1>1, Invariance, PTL

\* A step of the helper that disturbs a reserved label belongs to a reserved action.
LEMMA HelperDisturbs ==
  ASSUME HelperTypeOK, CallInv, NEW c \in Callers, HelperStep(c), NEW l \in Reserved,
         Disturbs(l)
  PROVE  InFlight(c) /\ call[c].label = l /\ call[c].act \in ReservedActs
<1> USE ReservedAreLabels DEF HelperTypeOK, LaunchdTypeOK, launchdVars
<1>1. \/ RenameTemp(c) \/ Bootout(c) \/ UnlinkPlist(c)
  <2>1. ~(\/ Refuse(c) \/ CheckInstall(c) \/ WriteTemp(c) \/ WriteFails(c) \/ LoadFails(c)
          \/ BootoutFails(c) \/ UnlinkFails(c))
    BY DEF Disturbs, Refuse, CheckInstall, WriteTemp, WriteFails, LoadFails, BootoutFails,
      StayLoaded, UnlinkFails
  <2>2. ~LoadJob(c)
    BY DEF Disturbs, LoadJob, Load
  <2>3. ~StartDaemon(c)
    BY DEF Disturbs, StartDaemon
  <2>4. ~StopDaemon(c)
    BY DEF Disturbs, StopDaemon, Accepts, ReservedActs
  <2>5. ~EnableDaemon(c) /\ ~DisableDaemon(c)
    BY DEF Disturbs, EnableDaemon, DisableDaemon, SetOverride, Accepts, ReservedActs
  <2> QED BY <2>1, <2>2, <2>3, <2>4, <2>5 DEF HelperStep
<1>2. call[c].label = l
  BY <1>1 DEF Disturbs, RenameTemp, Bootout, BootoutFails, AtBootout, UnlinkPlist,
    UnlinkFails, Unload
<1>3. Accepts(call[c].act, call[c].label) /\ call[c].act \in Writes /\ InFlight(c)
  BY <1>1 DEF RenameTemp, Bootout, BootoutFails, AtBootout, UnlinkPlist, UnlinkFails,
    CallInv, Midway, Writes, InFlight, Steps
<1> QED BY <1>2, <1>3 DEF Accepts, Writes, Installs, Uninstalls, ReservedActs

\* I9: no engine command takes a reserved service down or rewrites it, as long as the
\* bundle manages none.
THEOREM ReservedCorrect ==
  ASSUME Managed \intersect Reserved = {} PROVE Spec => ReservedUntouched
<1> DEFINE Body ==
      \A l \in Reserved :
        Disturbs(l) =>
          \/ \E c \in Callers :
               InFlight(c) /\ call[c].label = l /\ call[c].act \in ReservedActs
          \/ Reboot
<1>1. IInv /\ [Next]_vars => [Body]_vars
  <2> SUFFICES ASSUME IInv, Next, NEW l \in Reserved, Disturbs(l)
               PROVE  \/ \E c \in Callers :
                           InFlight(c) /\ call[c].label = l /\ call[c].act \in ReservedActs
                      \/ Reboot
    OBVIOUS
  <2>1. CASE \E c \in Callers : CallProceeds(c)
    BY <2>1, HelperDisturbs DEF CallProceeds, IInv, TypeOK
  <2>2. CASE BundleStep
    <3> PICK m \in Managed : RegisterCheck(m) \/ Register(m) \/ Approve(m) \/ Unregister(m)
      BY <2>2 DEF BundleStep
    <3>1. m # l
      OBVIOUS
    <3> USE ReservedAreLabels DEF Disturbs, IInv, TypeOK, HelperTypeOK, LaunchdTypeOK,
          helperVars, launchdVars
    <3>2. CASE RegisterCheck(m)
      BY <3>2 DEF RegisterCheck
    <3>3. CASE Register(m)
      BY <3>3 DEF Register
    <3>4. CASE Approve(m)
      BY <3>1, <3>4 DEF Approve, Load
    <3>5. CASE Unregister(m)
      BY <3>1, <3>5 DEF Unregister, Unload
    <3> QED BY <3>2, <3>3, <3>4, <3>5
  <2>3. CASE Operator \/ KeepAlive \/ \E c \in Callers : CommandDies(c)
    BY <2>3, ReservedAreLabels DEF Operator, Begin, KeepAlive, Respawn, CommandDies,
      Disturbs, helperVars, launchdVars, IInv, TypeOK, HelperTypeOK, LaunchdTypeOK
  <2>4. CASE \E c \in Callers : CommandStep(c) /\ ~CallProceeds(c)
    BY <2>4 DEF Disturbs, CommandStep, AcquireLock, LockHeld, PassPreflight, FailPreflight,
      CallHelper, CallReturns, CallRaises, EndScript, RecordInstall,  OrphanReturns,
      helperVars, launchdVars
  <2> QED BY <2>1, <2>2, <2>3, <2>4 DEF Next, SteadyNext
<1> QED BY <1>1, Invariance, PTL DEF Spec, ReservedUntouched

\* What the disagreement of service_rerun takes: a loaded service goes down only with its
\* removal, a reboot, or an install of its own that is rolled back.
SparedUnlessRolledBack ==
  [][\A l \in Reserved :
       loaded[l] # NotLoaded /\ loaded'[l] = NotLoaded =>
         \/ \E c \in Callers :
              /\ InFlight(c) /\ call[c].label = l
              /\ \/ call[c].act = "uninstall-reserved-service"
                 \/ call[c].act = "install-reserved-service" /\ call[c].step = "rollback"
         \/ Reboot]_vars

\* The steps of the helper that take a job down.
LEMMA HelperUnloads ==
  ASSUME HelperTypeOK, CallInv, NEW c \in Callers, HelperStep(c), NEW l \in Reserved,
         loaded[l] # NotLoaded, loaded'[l] = NotLoaded
  PROVE  /\ InFlight(c) /\ call[c].label = l
         /\ \/ call[c].act = "uninstall-reserved-service"
            \/ call[c].act = "install-reserved-service" /\ call[c].step = "rollback"
<1> USE ReservedAreLabels DEF HelperTypeOK, LaunchdTypeOK
<1>1. Bootout(c)
  <2>1. ~(\/ Refuse(c) \/ CheckInstall(c) \/ WriteTemp(c) \/ WriteFails(c) \/ LoadFails(c)
          \/ BootoutFails(c) \/ UnlinkFails(c))
    BY DEF Refuse, CheckInstall, WriteTemp, WriteFails, LoadFails, BootoutFails,
      StayLoaded, UnlinkFails, launchdVars
  <2>2. ~(StartDaemon(c) \/ StopDaemon(c) \/ EnableDaemon(c) \/ DisableDaemon(c))
    BY DEF StartDaemon, StopDaemon, EnableDaemon, DisableDaemon, SetOverride
  <2>3. ~(RenameTemp(c) \/ UnlinkPlist(c))
    BY DEF RenameTemp, UnlinkPlist
  <2>4. ~LoadJob(c)
    BY DEF LoadJob, Load, CanBootstrap
  <2> QED BY <2>1, <2>2, <2>3, <2>4 DEF HelperStep
<1>2. call[c].label = l
  BY <1>1 DEF Bootout, Unload
<1>3. CASE call[c].step = "rollback"
  <2>1. call[c].act \in Installs /\ Accepts(call[c].act, l)
    BY <1>2, <1>3 DEF CallInv, Midway
  <2> QED BY <1>2, <1>3, <2>1 DEF Installs, Accepts, ReservedActs, InFlight, Steps
<1>4. CASE call[c].step = "entry"
  <2>1. call[c].act \in Uninstalls /\ Accepts(call[c].act, l)
    BY <1>1, <1>2, <1>4 DEF Bootout, AtBootout
  <2> QED BY <1>2, <1>4, <2>1 DEF Uninstalls, Accepts, ReservedActs, InFlight, Steps
<1> QED BY <1>1, <1>3, <1>4 DEF Bootout, AtBootout

\* service_rerun is the only surprise: no other command, and no command on another label,
\* takes a loaded service down, as long as the bundle manages no reserved label.
THEOREM ServiceSpared ==
  ASSUME Managed \intersect Reserved = {} PROVE Spec => SparedUnlessRolledBack
<1> DEFINE Body ==
      \A l \in Reserved :
        loaded[l] # NotLoaded /\ loaded'[l] = NotLoaded =>
          \/ \E c \in Callers :
               /\ InFlight(c) /\ call[c].label = l
               /\ \/ call[c].act = "uninstall-reserved-service"
                  \/ call[c].act = "install-reserved-service" /\ call[c].step = "rollback"
          \/ Reboot
<1>1. IInv /\ [Next]_vars => [Body]_vars
  <2> SUFFICES ASSUME IInv, Next, ~Reboot, NEW l \in Reserved,
                      loaded[l] # NotLoaded, loaded'[l] = NotLoaded
               PROVE  \E c \in Callers :
                        /\ InFlight(c) /\ call[c].label = l
                        /\ \/ call[c].act = "uninstall-reserved-service"
                           \/ /\ call[c].act = "install-reserved-service"
                              /\ call[c].step = "rollback"
    OBVIOUS
  <2>1. CASE \E c \in Callers : CallProceeds(c)
    BY <2>1, HelperUnloads DEF CallProceeds, IInv, TypeOK
  <2>2. ~BundleStep
    <3> SUFFICES ASSUME NEW m \in Managed,
                        RegisterCheck(m) \/ Register(m) \/ Approve(m) \/ Unregister(m)
                 PROVE  FALSE
      BY DEF BundleStep
    <3> QED BY ReservedAreLabels DEF RegisterCheck, Register, Approve, Unregister, Load,
            Unload, IInv, TypeOK, HelperTypeOK, LaunchdTypeOK, helperVars, launchdVars
  <2>3. ~(Operator \/ KeepAlive \/ \E c \in Callers : CommandDies(c))
    BY DEF Operator, Begin, KeepAlive, Respawn, CommandDies, helperVars, launchdVars
  <2>4. ~(\E c \in Callers : CommandStep(c) /\ ~CallProceeds(c))
    BY DEF CommandStep, AcquireLock, LockHeld, PassPreflight, FailPreflight,
      CallHelper, CallReturns, CallRaises, EndScript, RecordInstall,  OrphanReturns,
      helperVars, launchdVars
  <2> QED BY <2>1, <2>2, <2>3, <2>4 DEF Next, SteadyNext
<1> QED BY <1>1, Invariance, PTL DEF Spec, SparedUnlessRolledBack

-----------------------------------------------------------------------------
(* The lock.  Commands use it as a client of Mutex does, which is what     *)
(* OperationsLock implements.                                              *)

Guard == INSTANCE Mutex WITH
  Clients <- Callers, holders <- {lock} \ {Nobody}, split <- FALSE

\* The commands take and give back the lock as Mutex says, deaths and reboots included:
\* never from one command to the next directly, and never for two.
THEOREM LockIsMutex == Spec => Guard!Spec
<1>1. Init => Guard!Init
  BY DEF Init, Guard!Init
<1>2. IInv /\ [Next]_vars => [Guard!Next]_(<<{lock} \ {Nobody}, FALSE>>)
  <2> SUFFICES ASSUME IInv, [Next]_vars
               PROVE  Guard!Next \/ lock' = lock
    OBVIOUS
  <2>1. lock \in Callers \union {Nobody}
    BY DEF IInv, TypeOK
  <2>2. lock # Nobody /\ lock' = Nobody => Guard!Next
    BY <2>1 DEF Guard!Next, Guard!Release, Guard!AtMostOne
  <2>3. ASSUME NEW c \in Callers, AcquireLock(c) PROVE Guard!Next
    <3>1. {lock} \ {Nobody} = {} /\ ({lock} \ {Nobody})' = {c}
      BY <2>3, NobodyIsNoCaller DEF AcquireLock
    <3> QED BY <3>1 DEF Guard!Next, Guard!Acquire
  <2>4. CASE \E c \in Callers : CommandStep(c) /\ ~AcquireLock(c)
    BY <2>2, <2>4 DEF CommandStep, LockHeld, PassPreflight, FailPreflight, CallHelper,
      CallReturns, CallRaises, EndScript, RecordInstall,  OrphanReturns,
      CallProceeds, Unlock, commandVars
  <2>5. CASE Operator \/ BundleStep \/ KeepAlive
    BY <2>5 DEF Operator, Begin, BundleStep, RegisterCheck, Register, Approve, Unregister,
      KeepAlive, commandVars
  <2>6. CASE Reboot \/ \E c \in Callers : CommandDies(c)
    BY <2>1, <2>2, <2>6 DEF Reboot, CommandDies, Unlock
  <2>7. CASE UNCHANGED vars
    BY <2>7 DEF vars, commandVars
  <2> QED BY <2>3, <2>4, <2>5, <2>6, <2>7 DEF Next, SteadyNext
<1> QED BY <1>1, <1>2, Invariance, PTL DEF Spec, Guard!Spec

-----------------------------------------------------------------------------
(* The slots of EngineSlot.  A step of the commands or the helper is, for  *)
(* one engine, a step of its slot and leaves the other slots alone, or it  *)
(* leaves all of them alone; a reboot is a Boot.                           *)

\* What EngineSlot sees of a label.
Same(l) ==
  /\ Paper'[l] = Paper[l] /\ Job'[l] = Job[l]
  /\ l \in Up' <=> l \in Up
  /\ l \in Forbidden' <=> l \in Forbidden
  /\ l \in Stray' <=> l \in Stray
  /\ Installing'[l] = Installing[l] /\ Removing'[l] = Removing[l]
  /\ l \in bypassed' <=> l \in bypassed

\* What a step leaves alone decides it.
LEMMA Untouched ==
  ASSUME NEW l \in Engines, l \in bypassed' <=> l \in bypassed,
         l \notin bypassed =>
           /\ plist'[l] = plist[l] /\ disabled'[l] = disabled[l]
           /\ l \in stuck' <=> l \in stuck
           /\ \/ loaded'[l] = loaded[l] /\ running'[l] = running[l]
              \/ {loaded[l], loaded'[l]} \cap Configs = {}
           /\ At(l, {"load", "rollback"})' = At(l, {"load", "rollback"})
           /\ At(l, {"unlink"})' = At(l, {"unlink"})
  PROVE  Same(l)
<1>1. CASE l \in bypassed
  <2>1. /\ At(l, {"load", "rollback"}) = {} /\ At(l, {"load", "rollback"})' = {}
        /\ At(l, {"unlink"}) = {} /\ At(l, {"unlink"})' = {}
    BY <1>1 DEF At, Kept
  <2> QED BY <1>1, <2>1 DEF Same, Paper, Job, JobOf, Up, Forbidden, Stray, Installing,
    Removing, Kept
<1>2. CASE l \notin bypassed
  BY <1>2 DEF Same, Paper, Job, JobOf, Up, Forbidden, Stray, Installing, Removing, Kept
<1> QED BY <1>1, <1>2

\* A step that leaves every other slot alone.
LEMMA SlotMoves ==
  ASSUME NEW l \in Engines, \A m \in Engines \ {l} : Same(m)
  PROVE  /\ Paper' = [Paper EXCEPT ![l] = Paper'[l]]
         /\ Job' = [Job EXCEPT ![l] = Job'[l]]
         /\ Installing' = [Installing EXCEPT ![l] = Installing'[l]]
         /\ Removing' = [Removing EXCEPT ![l] = Removing'[l]]
         /\ Paper'[l] = Paper[l] => Paper' = Paper
         /\ Job'[l] = Job[l] => Job' = Job
         /\ Installing'[l] = Installing[l] => Installing' = Installing
         /\ Removing'[l] = Removing[l] => Removing' = Removing
         /\ l \in Up' => Up' = Up \union {l}
         /\ l \notin Up' => Up' = Up \ {l}
         /\ (l \in Up' <=> l \in Up) => Up' = Up
         /\ l \in Forbidden' => Forbidden' = Forbidden \union {l}
         /\ l \notin Forbidden' => Forbidden' = Forbidden \ {l}
         /\ (l \in Forbidden' <=> l \in Forbidden) => Forbidden' = Forbidden
         /\ l \in Stray' => Stray' = Stray \union {l}
         /\ l \notin Stray' => Stray' = Stray \ {l}
         /\ (l \in Stray' <=> l \in Stray) => Stray' = Stray
         /\ l \in bypassed' => Engines \cap bypassed' = (Engines \cap bypassed) \union {l}
         /\ (l \in bypassed' <=> l \in bypassed) => Engines \cap bypassed' = Engines \cap bypassed
<1>1. /\ Paper' = [Paper EXCEPT ![l] = Paper'[l]]
      /\ Paper'[l] = Paper[l] => Paper' = Paper
  BY DEF Same, Paper
<1>2. /\ Job' = [Job EXCEPT ![l] = Job'[l]]
      /\ Job'[l] = Job[l] => Job' = Job
  BY DEF Same, Job
<1>3. /\ Installing' = [Installing EXCEPT ![l] = Installing'[l]]
      /\ Installing'[l] = Installing[l] => Installing' = Installing
  BY DEF Same, Installing
<1>4. /\ Removing' = [Removing EXCEPT ![l] = Removing'[l]]
      /\ Removing'[l] = Removing[l] => Removing' = Removing
  BY DEF Same, Removing
<1>5. /\ l \in Up' => Up' = Up \union {l}
      /\ l \notin Up' => Up' = Up \ {l}
      /\ (l \in Up' <=> l \in Up) => Up' = Up
  BY DEF Same, Up
<1>6. /\ l \in Forbidden' => Forbidden' = Forbidden \union {l}
      /\ l \notin Forbidden' => Forbidden' = Forbidden \ {l}
      /\ (l \in Forbidden' <=> l \in Forbidden) => Forbidden' = Forbidden
  BY DEF Same, Forbidden
<1>7. /\ l \in bypassed' => Engines \cap bypassed' = (Engines \cap bypassed) \union {l}
      /\ (l \in bypassed' <=> l \in bypassed) => Engines \cap bypassed' = Engines \cap bypassed
  BY DEF Same
<1>8. /\ l \in Stray' => Stray' = Stray \union {l}
      /\ l \notin Stray' => Stray' = Stray \ {l}
      /\ (l \in Stray' <=> l \in Stray) => Stray' = Stray
  BY DEF Same, Stray
<1> QED BY <1>1, <1>2, <1>3, <1>4, <1>5, <1>6, <1>7, <1>8

LEMMA NoSlot ==
  ASSUME \A l \in Engines : Same(l)
  PROVE  UNCHANGED Slot!vars
<1>1. Paper' = Paper /\ Job' = Job /\ Installing' = Installing /\ Removing' = Removing
  BY DEF Same, Paper, Job, Installing, Removing
<1>2. Up' = Up /\ Forbidden' = Forbidden /\ Stray' = Stray
  BY DEF Same, Up, Forbidden, Stray
<1>3. (Engines \cap bypassed)' = Engines \cap bypassed
  BY DEF Same, Engines
<1> QED BY <1>1, <1>2, <1>3 DEF Slot!vars

\* A step of a helper call leaves the other labels alone.
LEMMA HelperElsewhere ==
  ASSUME TypeOK, NEW c \in Callers, CallProceeds(c)
  PROVE  /\ \A d \in Callers \ {c} : call'[d] = call[d]
         /\ call[c].step # "none" /\ call'[c].step # "none"
         /\ call'[c].label = call[c].label
         /\ bypassed' = bypassed
         /\ \A l \in Engines : l # call[c].label => Same(l)
<1> USE DEF TypeOK, HelperTypeOK, LaunchdTypeOK
<1>1. HelperTypeOK /\ HelperStep(c) /\ bypassed' = bypassed
  BY DEF CallProceeds, commandVars
<1>2. /\ \A d \in Callers \ {c} : call'[d] = call[d]
      /\ call[c].step # "none" /\ call'[c].step # "none"
      /\ call'[c].label = call[c].label
  <2>1. CASE \/ Refuse(c) \/ CheckInstall(c) \/ WriteTemp(c) \/ WriteFails(c)
             \/ RenameTemp(c) \/ LoadJob(c) \/ LoadFails(c)
    BY <2>1, GotoFields DEF Refuse, CheckInstall, WriteTemp, WriteFails, RenameTemp,
      LoadJob, LoadFails, Steps, Exits
  <2>2. CASE Bootout(c) \/ BootoutFails(c) \/ UnlinkPlist(c) \/ UnlinkFails(c)
    BY <2>2, GotoFields DEF Bootout, BootoutFails, AtBootout, UnlinkPlist, UnlinkFails,
      Steps, Exits
  <2>3. CASE StartDaemon(c) \/ StopDaemon(c) \/ EnableDaemon(c) \/ DisableDaemon(c)
    BY <2>3, GotoFields DEF StartDaemon, StopDaemon, EnableDaemon, DisableDaemon,
      SetOverride, Steps, Exits
  <2> QED BY <1>1, <2>1, <2>2, <2>3 DEF HelperStep
<1>3. ASSUME NEW l \in Engines, l # call[c].label PROVE Same(l)
  <2>1. /\ plist'[l] = plist[l] /\ disabled'[l] = disabled[l]
        /\ loaded'[l] = loaded[l] /\ running'[l] = running[l] /\ (l \in stuck' <=> l \in stuck)
    BY <1>1, <1>3 DEF Load, Unload, StayLoaded, launchdVars, HelperStep, Refuse,
      CheckInstall, WriteTemp, WriteFails, RenameTemp, LoadJob, LoadFails, Bootout,
      BootoutFails, AtBootout, UnlinkPlist, UnlinkFails, StartDaemon, StopDaemon,
      EnableDaemon, DisableDaemon, SetOverride, Engines
  <2>2. /\ At(l, {"load", "rollback"})' = At(l, {"load", "rollback"})
        /\ At(l, {"unlink"})' = At(l, {"unlink"})
    BY <1>1, <1>2, <1>3 DEF At, Kept
  <2> QED BY <1>1, <2>1, <2>2, Untouched
<1> QED BY <1>1, <1>2, <1>3

\* The writer of a slot is the only one between its plist and its job, and stays so.
LEMMA SlotWriter ==
  ASSUME IInv, NEW l \in Engines \ bypassed, NEW c \in Callers, Writing(c, l),
         CallProceeds(c)
  PROVE  /\ Installing[l] = IF call[c].step \in {"load", "rollback"} THEN {c} ELSE {}
         /\ Removing[l] = IF call[c].step = "unlink" THEN {c} ELSE {}
         /\ Installing'[l] = IF call'[c].step \in {"load", "rollback"} THEN {c} ELSE {}
         /\ Removing'[l] = IF call'[c].step = "unlink" THEN {c} ELSE {}
<1>1. \A d \in Callers : Writing(d, l) => d = c
  BY WriterHoldsLock DEF IInv
<1>2. \A d \in Callers : call[d].step \in Unmatched /\ call[d].label = l => d = c
  BY <1>1 DEF IInv, CallInv, Writing, Unmatched, Midway
<1>3. /\ call[c].label = l /\ call'[c].label = l /\ Kept(l) /\ Kept(l)'
      /\ \A d \in Callers \ {c} : call'[d] = call[d]
  BY HelperElsewhere DEF Writing, IInv, Kept
<1>4. Installing[l] = At(l, {"load", "rollback"}) /\ Removing[l] = At(l, {"unlink"})
  BY DEF Installing, Removing
<1>5. Installing'[l] = At(l, {"load", "rollback"})' /\ Removing'[l] = At(l, {"unlink"})'
  BY DEF Installing, Removing
<1> QED BY <1>2, <1>3, <1>4, <1>5 DEF At, Unmatched

\* A helper step on a kept label is a step of its slot, or nothing the slot sees.
LEMMA HelperOnSlot ==
  ASSUME IInv, NEW c \in Callers, CallProceeds(c), NEW l \in Engines \ bypassed,
         call[c].label = l
  PROVE  Same(l) \/ Slot!SlotStep(l)
<1> USE NoPlistIsNoConfig, SourcesDistinct DEF TypeOK, HelperTypeOK, LaunchdTypeOK
<1>1. /\ HelperTypeOK /\ HelperStep(c) /\ l \in Labels /\ CallInv /\ TypeOK
      /\ bypassed' = bypassed /\ Kept(l) /\ Kept(l)' /\ l \in Engines
  BY HelperElsewhere DEF CallProceeds, IInv, Engines, Kept
<1>2. \A m \in Engines \ {l} : Same(m)
  BY HelperElsewhere DEF IInv
<1>3. /\ Paper[l] = plist[l] /\ Paper'[l] = plist'[l]
      /\ Job[l] = IF loaded[l] \in Configs THEN loaded[l] ELSE NoPlist
      /\ Job'[l] = IF loaded'[l] \in Configs THEN loaded'[l] ELSE NoPlist
      /\ l \in Up <=> Job[l] # NoPlist /\ running[l]
      /\ l \in Up' <=> Job'[l] # NoPlist /\ running'[l]
      /\ l \in Forbidden <=> disabled[l]
      /\ l \in Forbidden' <=> disabled'[l]
      /\ l \in Stray <=> l \in stuck
      /\ l \in Stray' <=> l \in stuck'
      /\ l \notin bypassed /\ l \notin bypassed'
  BY <1>1 DEF Paper, Job, JobOf, Up, Forbidden, Stray
<1>4. ASSUME call[c].act \notin Writes PROVE Same(l) \/ Slot!SlotStep(l)
  <2>1. \/ Refuse(c) \/ StartDaemon(c) \/ StopDaemon(c) \/ EnableDaemon(c)
        \/ DisableDaemon(c)
    BY <1>1, <1>4 DEF CallInv, HelperStep, CheckInstall, WriteTemp, WriteFails,
      RenameTemp, LoadJob, LoadFails, Bootout, BootoutFails, AtBootout, UnlinkPlist,
      UnlinkFails, Midway, Writes
  <2>2. call[c].step = "entry" /\ call'[c].step \in Exits
    BY <1>1, <2>1, GotoFields DEF Refuse, StartDaemon, StopDaemon, EnableDaemon,
      DisableDaemon, SetOverride, Exits
  <2>3. /\ At(l, {"load", "rollback"})' = At(l, {"load", "rollback"})
        /\ At(l, {"unlink"})' = At(l, {"unlink"})
    BY <1>1, <2>2, HelperElsewhere DEF At, Exits
  <2>4. Installing'[l] = Installing[l] /\ Removing'[l] = Removing[l]
    BY <2>3 DEF Installing, Removing
  <2>5. CASE Refuse(c)
    BY <1>1, <1>3, <2>4, <2>5 DEF Refuse, launchdVars, Same
  <2>6. CASE StartDaemon(c)
    <3>1. /\ UNCHANGED <<plist, loaded, disabled, stuck>>
          /\ running'[l] = (loaded[l] # NotLoaded)
      BY <1>1, <2>6 DEF StartDaemon
    <3>2. CASE loaded[l] \notin Configs
      BY <1>1, <1>3, <2>4, <3>1, <3>2 DEF Same
    <3>3. CASE loaded[l] \in Configs
      <4>1. /\ Job[l] # NoPlist /\ l \in Up' /\ Job'[l] = Job[l] /\ Paper'[l] = Paper[l]
            /\ (l \in Forbidden' <=> l \in Forbidden) /\ (l \in Stray' <=> l \in Stray)
        BY <1>1, <1>3, <3>1, <3>3
      <4> QED BY <1>1, <1>2, <1>3, <2>4, <4>1, SlotMoves DEF Slot!SlotStep, Slot!Start
    <3> QED BY <3>2, <3>3
  <2>7. CASE StopDaemon(c)
    <3>1. UNCHANGED <<plist, loaded, disabled, stuck>> /\ ~running'[l]
      BY <1>1, <2>7 DEF StopDaemon
    <3>2. /\ l \notin Up' /\ Job'[l] = Job[l] /\ Paper'[l] = Paper[l]
          /\ (l \in Forbidden' <=> l \in Forbidden) /\ (l \in Stray' <=> l \in Stray)
      BY <1>1, <1>3, <3>1
    <3> QED BY <1>1, <1>2, <1>3, <2>4, <3>2, SlotMoves DEF Slot!SlotStep, Slot!Stop
  <2>8. CASE EnableDaemon(c) \/ DisableDaemon(c)
    <3>1. UNCHANGED <<plist, loaded, running, stuck>>
      BY <1>1, <2>8 DEF EnableDaemon, DisableDaemon, SetOverride
    <3>2. /\ Job'[l] = Job[l] /\ Paper'[l] = Paper[l]
          /\ (l \in Up' <=> l \in Up) /\ (l \in Stray' <=> l \in Stray)
      BY <1>1, <1>3, <3>1
    <3> QED BY <1>1, <1>2, <1>3, <2>4, <3>2, SlotMoves DEF Slot!SlotStep, Slot!SetOverride
  <2> QED BY <2>1, <2>5, <2>6, <2>7, <2>8
<1>5. ASSUME Writing(c, l) PROVE Same(l) \/ Slot!SlotStep(l)
  <2>0. ~(StartDaemon(c) \/ StopDaemon(c) \/ EnableDaemon(c) \/ DisableDaemon(c))
    BY <1>5 DEF StartDaemon, StopDaemon, EnableDaemon, DisableDaemon, SetOverride, Writing,
      Writes, Installs, Uninstalls
  <2>1. /\ Installing[l] = IF call[c].step \in {"load", "rollback"} THEN {c} ELSE {}
        /\ Removing[l] = IF call[c].step = "unlink" THEN {c} ELSE {}
        /\ Installing'[l] = IF call'[c].step \in {"load", "rollback"} THEN {c} ELSE {}
        /\ Removing'[l] = IF call'[c].step = "unlink" THEN {c} ELSE {}
    BY <1>5, SlotWriter
  <2>2. CASE Refuse(c) \/ CheckInstall(c) \/ WriteTemp(c) \/ WriteFails(c) \/ LoadFails(c)
    <3>1. /\ UNCHANGED <<plist, loaded, running, disabled, stuck>>
          /\ \/ call[c].step = "load" /\ call'[c].step = "rollback"
             \/ /\ call[c].step \in {"entry", "write", "rename"}
                /\ call'[c].step \in {"refused", "write", "rename"}
      BY <1>1, <2>2, GotoFields DEF Refuse, CheckInstall, WriteTemp, WriteFails, LoadFails,
        launchdVars, Steps, Exits
    <3>2. Installing'[l] = Installing[l] /\ Removing'[l] = Removing[l]
      BY <2>1, <3>1
    <3> QED BY <1>1, <1>3, <3>1, <3>2 DEF Same
  <2>3. CASE RenameTemp(c)
    <3>1. /\ call[c].step = "rename" /\ call'[c].step = "load" /\ plist'[l] = temp[l]
          /\ temp[l] \in Configs
          /\ UNCHANGED <<loaded, running, disabled, stuck>>
      BY <1>1, <2>3, GotoFields DEF RenameTemp, Steps, Exits
    <3>2. /\ Installing[l] = {} /\ Removing[l] = {}
          /\ Installing'[l] = {c} /\ Removing'[l] = {}
      BY <2>1, <3>1
    <3>3. /\ Paper'[l] = temp[l] /\ Job'[l] = Job[l]
          /\ (l \in Up' <=> l \in Up)
          /\ (l \in Forbidden' <=> l \in Forbidden) /\ (l \in Stray' <=> l \in Stray)
      BY <1>3, <3>1
    <3>4. Slot!Publish(l, c, temp[l])
      <4> HIDE DEF TypeOK, HelperTypeOK, LaunchdTypeOK
      <4>1. /\ Paper' = [Paper EXCEPT ![l] = temp[l]]
            /\ Installing' = [Installing EXCEPT ![l] = {c}]
        BY <1>1, <1>2, <3>2, <3>3, SlotMoves
      <4>2. /\ UNCHANGED <<Job, Up, Forbidden, Removing, Stray>>
            /\ UNCHANGED (Engines \cap bypassed)
        BY <1>1, <1>2, <3>2, <3>3, SlotMoves
      <4> QED BY <3>2, <4>1, <4>2 DEF Slot!Publish, Slot!Settled
    <3> QED BY <3>1, <3>4 DEF Slot!SlotStep
  <2>4. CASE LoadJob(c)
    <3>1. /\ call[c].step = "load" /\ call'[c].step = "ok" /\ plist' = plist
          /\ loaded'[l] = plist[l] /\ plist[l] \in Configs /\ loaded[l] = NotLoaded
          /\ running'[l] /\ disabled' = disabled /\ ~disabled[l] /\ stuck' = stuck
      BY <1>1, <2>4, GotoFields DEF LoadJob, Load, CanBootstrap, Steps, Exits
    <3>2. /\ Installing[l] = {c} /\ Removing[l] = {}
          /\ Installing'[l] = {} /\ Removing'[l] = {}
      BY <2>1, <3>1
    <3>3. /\ Paper'[l] = Paper[l] /\ Job[l] = NoPlist /\ Job'[l] = Paper[l] /\ l \in Up'
          /\ l \notin Forbidden /\ l \notin Forbidden' /\ (l \in Stray' <=> l \in Stray)
      BY <1>3, <3>1
    <3>4. Slot!Commit(l, c)
      <4> HIDE DEF TypeOK, HelperTypeOK, LaunchdTypeOK
      <4>1. /\ Job' = [Job EXCEPT ![l] = Paper[l]] /\ Up' = Up \union {l}
            /\ Installing' = [Installing EXCEPT ![l] = {}]
            /\ UNCHANGED <<Paper, Forbidden, Removing, Stray, Engines \cap bypassed>>
        BY <1>1, <1>2, <3>2, <3>3, SlotMoves
      <4> QED BY <3>2, <3>3, <4>1 DEF Slot!Commit
    <3> QED BY <3>4 DEF Slot!SlotStep
  <2>5. CASE Bootout(c)
    <3>1. /\ call[c].step \in {"rollback", "entry"} /\ call'[c].step = "unlink"
          /\ plist' = plist /\ loaded'[l] = NotLoaded /\ ~running'[l] /\ disabled' = disabled
          /\ l \notin stuck'
      BY <1>1, <2>5, GotoFields DEF Bootout, AtBootout, Unload, Steps, Exits
    <3>2. /\ Installing[l] = {} \/ Installing[l] = {c}
          /\ Removing[l] = {}
          /\ Installing'[l] = {} /\ Removing'[l] = {c}
      BY <2>1, <3>1
    <3>3. /\ Paper'[l] = Paper[l] /\ Job'[l] = NoPlist /\ l \notin Up'
          /\ (l \in Forbidden' <=> l \in Forbidden) /\ l \notin Stray'
      BY <1>3, <3>1
    <3>4. Slot!TakeDown(l, c)
      BY <1>1, <1>2, <1>3, <3>2, <3>3, SlotMoves DEF Slot!TakeDown, Slot!Settled
    <3> QED BY <3>4 DEF Slot!SlotStep
  <2>6. CASE UnlinkPlist(c)
    <3>1. /\ call[c].step = "unlink" /\ call'[c].step \in {"ok", "error"}
          /\ plist'[l] = NoPlist
          /\ UNCHANGED <<loaded, running, disabled, stuck>>
      BY <1>1, <2>6, GotoFields DEF UnlinkPlist, Steps, Exits
    <3>2. /\ Installing[l] = {} /\ Removing[l] = {c}
          /\ Installing'[l] = {} /\ Removing'[l] = {}
      BY <2>1, <3>1
    <3>3. /\ Paper'[l] = NoPlist /\ Job'[l] = Job[l]
          /\ (l \in Up' <=> l \in Up)
          /\ (l \in Forbidden' <=> l \in Forbidden) /\ (l \in Stray' <=> l \in Stray)
      BY <1>3, <3>1
    <3>4. /\ Paper' = [Paper EXCEPT ![l] = NoPlist]
          /\ Removing' = [Removing EXCEPT ![l] = {}]
      BY <1>1, <1>2, <3>2, <3>3, SlotMoves
    <3>5. UNCHANGED <<Job, Up, Forbidden, Installing, Stray, Engines \cap bypassed>>
      BY <1>1, <1>2, <3>2, <3>3, SlotMoves
    <3>6. Slot!Erase(l, c)
      BY <3>2, <3>4, <3>5 DEF Slot!Erase
    <3> QED BY <3>6 DEF Slot!SlotStep
  <2>7. CASE BootoutFails(c)
    <3>1. /\ call[c].step \in {"rollback", "entry"} /\ call'[c].step = "unlink"
          /\ UNCHANGED <<plist, loaded, running, disabled>>
      BY <1>1, <2>7, GotoFields DEF BootoutFails, AtBootout, StayLoaded, Steps, Exits
    <3>2. /\ Installing[l] = {} \/ Installing[l] = {c}
          /\ Removing[l] = {}
          /\ Installing'[l] = {} /\ Removing'[l] = {c}
      BY <2>1, <3>1
    <3>3. /\ Paper'[l] = Paper[l] /\ Job'[l] = Job[l] /\ (l \in Up' <=> l \in Up)
          /\ l \in Forbidden' <=> l \in Forbidden
      BY <1>3, <3>1
    <3>4. CASE loaded[l] \in Configs
      <4>1. l \in Stray' /\ Job[l] # NoPlist
        BY <1>1, <1>3, <2>7, <3>4 DEF BootoutFails, StayLoaded
      <4>2. Slot!StayUp(l, c)
        BY <1>1, <1>2, <1>3, <3>2, <3>3, <4>1, SlotMoves DEF Slot!StayUp, Slot!Settled
      <4> QED BY <4>2 DEF Slot!SlotStep
    <3>5. CASE loaded[l] \notin Configs
      <4>1. l \notin Stray' /\ Job'[l] = NoPlist /\ l \notin Up'
        BY <1>1, <1>3, <2>7, <3>1, <3>5 DEF BootoutFails, StayLoaded
      <4>2. Slot!TakeDown(l, c)
        BY <1>1, <1>2, <1>3, <3>2, <3>3, <4>1, SlotMoves DEF Slot!TakeDown, Slot!Settled
      <4> QED BY <4>2 DEF Slot!SlotStep
    <3> QED BY <3>4, <3>5
  <2>8. CASE UnlinkFails(c)
    <3>1. /\ call[c].step = "unlink" /\ call'[c].step = "left"
          /\ UNCHANGED <<plist, loaded, running, disabled, stuck>>
      BY <1>1, <2>8, GotoFields DEF UnlinkFails, launchdVars, Steps, Exits
    <3>2. /\ Installing[l] = {} /\ Removing[l] = {c}
          /\ Installing'[l] = {} /\ Removing'[l] = {}
      BY <2>1, <3>1
    <3>3. /\ Paper'[l] = Paper[l] /\ Job'[l] = Job[l] /\ (l \in Up' <=> l \in Up)
          /\ (l \in Forbidden' <=> l \in Forbidden) /\ (l \in Stray' <=> l \in Stray)
      BY <1>3, <3>1
    <3>4. Slot!GiveUp(l, c)
      <4> HIDE DEF TypeOK, HelperTypeOK, LaunchdTypeOK
      <4>1. /\ Removing' = [Removing EXCEPT ![l] = {}]
            /\ UNCHANGED <<Paper, Job, Up, Forbidden, Installing, Stray,
                            Engines \cap bypassed>>
        BY <1>1, <1>2, <3>2, <3>3, SlotMoves
      <4> QED BY <3>2, <4>1 DEF Slot!GiveUp
    <3> QED BY <3>4 DEF Slot!SlotStep
  <2> QED BY <1>1, <2>0, <2>2, <2>3, <2>4, <2>5, <2>6, <2>7, <2>8 DEF HelperStep
<1> QED BY <1>1, <1>4, <1>5, HelperElsewhere DEF Writing

\* A helper step is a step of a slot, or nothing the slots see.
LEMMA HelperRefines ==
  ASSUME IInv, NEW c \in Callers, CallProceeds(c)
  PROVE  Slot!Next \/ UNCHANGED Slot!vars
<1>1. CASE call[c].label \in Engines \ bypassed
  <2>1. Same(call[c].label) \/ Slot!SlotStep(call[c].label)
    BY <1>1, HelperOnSlot
  <2>2. CASE Same(call[c].label)
    BY <1>1, <2>2, HelperElsewhere, NoSlot DEF IInv
  <2>3. CASE Slot!SlotStep(call[c].label)
    BY <1>1, <2>3 DEF Slot!Next
  <2> QED BY <2>1, <2>2, <2>3
<1>2. CASE call[c].label \notin Engines \ bypassed
  <2>1. \A l \in Engines : Same(l)
    BY <1>2, HelperElsewhere, Untouched DEF IInv
  <2> QED BY <2>1, NoSlot
<1> QED BY <1>1, <1>2

\* A label the lock is bypassed on for the first time.
LEMMA LabelLost ==
  ASSUME NEW l \in Engines \ bypassed, l \in bypassed', \A m \in Engines \ {l} : Same(m)
  PROVE  Slot!Next
<1>1. /\ At(l, {"load", "rollback"})' = {} /\ At(l, {"unlink"})' = {}
      /\ JobOf(l)' = NoPlist
  BY DEF At, JobOf, Kept
<1>2. /\ Paper'[l] = NoPlist /\ Job'[l] = NoPlist /\ l \notin Up' /\ l \notin Forbidden'
      /\ l \notin Stray' /\ Installing'[l] = {} /\ Removing'[l] = {}
  BY <1>1 DEF Paper, Job, Up, Forbidden, Stray, Installing, Removing, Kept
<1>3. Slot!Lose(l)
  BY <1>2, SlotMoves DEF Slot!Lose
<1> QED BY <1>3 DEF Slot!Next, Slot!SlotStep

\* A step outside the helper, other than a reboot, loses a slot at most.
LEMMA OutsideRefines ==
  ASSUME IInv, ~Reboot,
         \/ Operator \/ BundleStep
         \/ \E c \in Callers :
              \/ CommandDies(c)
              \/ CommandStep(c) /\ ~CallProceeds(c)
  PROVE  Slot!Next \/ UNCHANGED Slot!vars
<1>1. /\ plist' = plist /\ disabled' = disabled
      /\ \A l \in Engines : l \in stuck' <=> l \in stuck
      /\ \A l \in Engines :
           \/ loaded'[l] = loaded[l] /\ running'[l] = running[l]
           \/ {loaded[l], loaded'[l]} \cap Configs = {}
  <2>1. CASE BundleStep
    <3> PICK m \in Managed : RegisterCheck(m) \/ Register(m) \/ Approve(m) \/ Unregister(m)
      BY <2>1 DEF BundleStep
    <3> QED BY SourcesDistinct DEF RegisterCheck, Register, Approve, Unregister, Load,
            Unload, IInv, TypeOK, HelperTypeOK, LaunchdTypeOK, helperVars, launchdVars,
            Engines
  <2>2. CASE Operator \/ \E c \in Callers : CommandDies(c)
    BY <2>2 DEF Operator, Begin, CommandDies, helperVars, launchdVars
  <2>3. CASE \E c \in Callers : CommandStep(c) /\ ~CallProceeds(c)
    BY <2>3 DEF CommandStep, AcquireLock, LockHeld, PassPreflight, FailPreflight,
      CallHelper, CallReturns, CallRaises, EndScript, RecordInstall,
      OrphanReturns, helperVars, launchdVars
  <2> QED BY <2>1, <2>2, <2>3
<1>2. bypassed' = bypassed \/ \E l : bypassed' = bypassed \union {l}
  <2>1. ASSUME NEW c \in Callers, NEW kind \in Kinds, NEW l \in Labels,
               NEW cfg \in Configs, NEW force \in Forces, Begin(c, kind, l, cfg, force)
        PROVE  bypassed' = bypassed \/ bypassed' = bypassed \union {l}
    BY <2>1 DEF Begin
  <2>4. CASE BundleStep
    BY <2>4 DEF BundleStep, RegisterCheck, Register, Approve, Unregister, commandVars
  <2>2. ASSUME NEW c \in Callers, CommandDies(c)
        PROVE  bypassed' = bypassed \/ bypassed' = bypassed \union {cmd[c].label}
    BY <2>2 DEF CommandDies
  <2>3. CASE \E c \in Callers : CommandStep(c) /\ ~CallProceeds(c)
    BY <2>3 DEF CommandStep, AcquireLock, LockHeld, PassPreflight, FailPreflight,
      CallHelper, CallReturns, CallRaises, EndScript, RecordInstall,
      OrphanReturns, commandVars
  <2> QED BY <2>1, <2>2, <2>3, <2>4 DEF Operator
<1>3. ASSUME NEW l \in Engines, l \in bypassed' <=> l \in bypassed PROVE Same(l)
  <2>1. \A d \in Callers :
          \/ call'[d] = call[d]
          \/ call[d].step \notin Midway /\ call'[d].step \notin Midway
    BY CallsOutside DEF IInv, CallsMayEnd, Midway
  <2>2. /\ At(l, {"load", "rollback"})' = At(l, {"load", "rollback"})
        /\ At(l, {"unlink"})' = At(l, {"unlink"})
    BY <1>3, <2>1 DEF At, Kept, Midway
  <2> QED BY <1>1, <1>3, <2>2, Untouched
<1>4. CASE \A l \in Engines : l \in bypassed' <=> l \in bypassed
  BY <1>3, <1>4, NoSlot
<1>5. CASE \E l \in Engines : ~(l \in bypassed' <=> l \in bypassed)
  <2> PICK l \in Engines : ~(l \in bypassed' <=> l \in bypassed)
    BY <1>5
  <2>1. bypassed' = bypassed \union {l} /\ l \notin bypassed
    BY <1>2
  <2>2. \A m \in Engines \ {l} : Same(m)
    BY <1>3, <2>1
  <2> QED BY <2>1, <2>2, LabelLost
<1> QED BY <1>4, <1>5

\* launchd restarts the process of a job: the Start of its slot, or nothing it sees.
LEMMA KeepAliveRefines ==
  ASSUME IInv, KeepAlive
  PROVE  Slot!Next \/ UNCHANGED Slot!vars
<1> USE DEF IInv, TypeOK, HelperTypeOK, LaunchdTypeOK
<1>1. PICK l \in Labels : Respawn(l)
  BY DEF KeepAlive
<1>2. UNCHANGED <<plist, loaded, disabled, stuck, call, bypassed>>
  BY <1>1 DEF KeepAlive, Respawn, commandVars
<1>3. ASSUME NEW m \in Engines, m # l \/ l \notin Engines \ bypassed \/ loaded[l] \notin Configs
      PROVE  Same(m)
  <2>1. /\ At(m, {"load", "rollback"})' = At(m, {"load", "rollback"})
        /\ At(m, {"unlink"})' = At(m, {"unlink"})
    BY <1>2 DEF At, Kept
  <2>2. m \notin bypassed => running'[m] = running[m] \/ loaded[m] \notin Configs
    BY <1>1, <1>3 DEF Respawn, Engines
  <2> QED BY <1>2, <2>1, <2>2, Untouched
<1>4. CASE l \in Engines \ bypassed /\ loaded[l] \in Configs
  <2>1. /\ Job[l] # NoPlist /\ Job' = Job /\ Paper' = Paper /\ Forbidden' = Forbidden
        /\ Stray' = Stray /\ Installing' = Installing /\ Removing' = Removing
    BY <1>2, <1>4, NoPlistIsNoConfig DEF Job, JobOf, Paper, Forbidden, Stray, Installing,
      Removing, At, Kept
  <2>2. l \in Up'
    BY <1>1, <1>2, <1>4, NoPlistIsNoConfig DEF Respawn, Up, JobOf, Kept
  <2>3. Up' = Up \union {l}
    BY <1>3, <1>4, <2>2, SlotMoves
  <2> QED BY <1>2, <1>4, <2>1, <2>3 DEF Slot!Next, Slot!SlotStep, Slot!Start
<1>5. CASE ~(l \in Engines \ bypassed /\ loaded[l] \in Configs)
  BY <1>3, <1>5, NoSlot
<1> QED BY <1>4, <1>5

\* Only a label of the bundle has a registration, and so a second loader.
BundleInv == \A l \in Labels : bundle[l] # "none" => l \in Managed

LEMMA BundleInvariance == Spec => []BundleInv
<1>1. Init => BundleInv
  BY DEF Init, HelperInit, LaunchdInit, BundleInv
<1>2. IInv /\ BundleInv /\ [Next]_vars => BundleInv'
  <2> SUFFICES ASSUME IInv, BundleInv, [Next]_vars PROVE BundleInv'
    OBVIOUS
  <2>1. CASE BundleStep
    <3> PICK m \in Managed : RegisterCheck(m) \/ Register(m) \/ Approve(m) \/ Unregister(m)
      BY <2>1 DEF BundleStep
    <3> QED BY DEF RegisterCheck, Register, Approve, Unregister, BundleInv, IInv, TypeOK,
            HelperTypeOK, LaunchdTypeOK, helperVars, launchdVars
  <2>2. CASE \/ Operator \/ KeepAlive \/ Reboot \/ UNCHANGED vars
             \/ \E c \in Callers : CommandDies(c)
    BY <2>2 DEF Operator, Begin, KeepAlive, Respawn, Reboot, Boot, CommandDies, vars,
      helperVars, launchdVars, BundleInv
  <2>3. CASE \E c \in Callers : CommandStep(c) /\ ~CallProceeds(c)
    BY <2>3 DEF CommandStep, AcquireLock, LockHeld, PassPreflight, FailPreflight,
      CallHelper, CallReturns, CallRaises, EndScript, RecordInstall,
      OrphanReturns, helperVars, launchdVars, BundleInv
  <2>4. CASE \E c \in Callers : CallProceeds(c)
    BY <2>4 DEF CallProceeds, HelperStep, Refuse, CheckInstall, WriteTemp, WriteFails,
      RenameTemp, LoadJob, LoadFails, Bootout, BootoutFails, AtBootout, UnlinkPlist,
      UnlinkFails, StartDaemon, StopDaemon, EnableDaemon, DisableDaemon, SetOverride,
      launchdVars, BundleInv
  <2> QED BY <2>1, <2>2, <2>3, <2>4 DEF Next, SteadyNext
<1> QED BY <1>1, <1>2, Invariance, PTL DEF Spec

\* What a reboot does to the slots.
LEMMA RebootRefines ==
  ASSUME IInv, BundleInv, Reboot
  PROVE  Slot!Boot
<1> USE NoPlistIsNoConfig, SourcesDistinct DEF IInv, TypeOK, HelperTypeOK, LaunchdTypeOK
<1>1. /\ plist' = plist /\ disabled' = disabled /\ bypassed' = {} /\ stuck' = {}
      /\ \A l \in Labels : loaded'[l] \in BootSources(l) /\ (running'[l] <=> loaded'[l] # NotLoaded)
      /\ \A c \in Callers : call'[c].step = "none"
  BY DEF Reboot, Boot, NoCall
<1>2. /\ \A l \in Engines : At(l, {"load", "rollback"})' = {} /\ At(l, {"unlink"})' = {}
      /\ \A l \in Engines : Kept(l)'
  BY <1>1 DEF At, Kept, Engines
<1>3. Installing' = [l \in Engines |-> {}] /\ Removing' = [l \in Engines |-> {}]
  BY <1>2 DEF Installing, Removing
<1>4. /\ Paper' = [l \in Engines |-> plist[l]] /\ Forbidden' = {l \in Engines : disabled[l]}
      /\ (Engines \cap bypassed)' = {} /\ Stray' = {}
  BY <1>1, <1>2 DEF Paper, Forbidden, Stray, Engines
<1>5. /\ Paper' \in [Engines -> Configs \union {NoPlist}] /\ Forbidden' \in SUBSET Engines
      /\ \A l \in Engines \ (Engines \cap bypassed) :
           Paper'[l] = Paper[l] /\ (l \in Forbidden' <=> l \in Forbidden)
  BY <1>4 DEF Paper, Forbidden, Kept, Engines
<1>6. ASSUME NEW l \in Engines
      PROVE  /\ Job'[l] \in Slot!BootJobs(l, Paper'[l], l \in Forbidden')
             /\ Job'[l] \in Configs \union {NoPlist}
  <2>1. Job'[l] = (IF loaded'[l] \in Configs THEN loaded'[l] ELSE NoPlist) /\ l \in Labels
    BY <1>2 DEF Job, JobOf, Engines
  <2>2. Paper'[l] = plist[l] /\ (l \in Forbidden' <=> disabled[l])
    BY <1>4
  <2>3. CASE disabled[l]
    BY <1>1, <2>1, <2>2, <2>3 DEF Slot!BootJobs, BootSources
  <2>4. CASE ~disabled[l] /\ plist[l] # NoPlist
    <3>1. loaded'[l] = plist[l] \/ (loaded'[l] = FromBundle /\ l \in Managed)
      BY <1>1, <2>1, <2>4 DEF BootSources, BundleInv
    <3> QED BY <2>1, <2>2, <2>4, <3>1 DEF Slot!BootJobs
  <2>5. CASE ~disabled[l] /\ plist[l] = NoPlist
    <3>1. loaded'[l] \in {NotLoaded, FromBundle}
      BY <1>1, <2>1, <2>5 DEF BootSources
    <3> QED BY <2>1, <2>2, <2>5, <3>1 DEF Slot!BootJobs
  <2> QED BY <2>3, <2>4, <2>5
<1>7. Job' \in [Engines -> Configs \union {NoPlist}]
  BY <1>6 DEF Job
<1>8. Up' = {l \in Engines : Job'[l] # NoPlist}
  <2>1. ASSUME NEW l \in Engines PROVE l \in Up' <=> Job'[l] # NoPlist
    BY <1>1 DEF Up, Job, JobOf, Engines
  <2> QED BY <2>1 DEF Up
<1> QED BY <1>3, <1>4, <1>5, <1>6, <1>7, <1>8 DEF Slot!Boot

\* Commands and helper implement the slots: every step of the one, failures, kills and
\* reboots included, is a step of the other or changes nothing of it.
THEOREM SlotImplementation == Spec => ImplementsSlot
<1>1. Init => Slot!Init
  <2> SUFFICES ASSUME Init PROVE Slot!Init
    OBVIOUS
  <2>1. /\ \A l \in Labels : plist[l] = NoPlist /\ loaded[l] = NotLoaded /\ ~disabled[l]
        /\ bypassed = {} /\ stuck = {} /\ \A c \in Callers : call[c].step = "none"
    BY DEF Init, HelperInit, LaunchdInit, NoCall
  <2>2. \A l \in Engines : /\ At(l, {"load", "rollback"}) = {} /\ At(l, {"unlink"}) = {}
                           /\ JobOf(l) = NoPlist /\ plist[l] = NoPlist /\ ~disabled[l]
    BY <2>1, SourcesDistinct DEF At, JobOf, Engines
  <2> QED BY <2>1, <2>2 DEF Slot!Init, Paper, Job, Up, Forbidden, Stray, Installing,
    Removing
<1>2. IInv /\ BundleInv /\ [Next]_vars => [Slot!Next]_(Slot!vars)
  <2> SUFFICES ASSUME IInv, BundleInv, [Next]_vars PROVE Slot!Next \/ UNCHANGED Slot!vars
    OBVIOUS
  <2>1. CASE Reboot
    BY <2>1, RebootRefines DEF Slot!Next
  <2>2. ASSUME NEW c \in Callers, CallProceeds(c) PROVE Slot!Next \/ UNCHANGED Slot!vars
    BY <2>2, HelperRefines
  <2>3. CASE UNCHANGED vars
    BY <2>3 DEF vars, helperVars, launchdVars, commandVars, Slot!vars, Paper, Job, JobOf,
      Up, Forbidden, Stray, Installing, Removing, At, Kept
  <2>4. CASE ~Reboot /\ (\/ Operator \/ BundleStep
                         \/ \E c \in Callers :
                              \/ CommandDies(c)
                              \/ CommandStep(c) /\ ~CallProceeds(c))
    BY <2>4, OutsideRefines
  <2>5. CASE KeepAlive
    BY <2>5, KeepAliveRefines
  <2> QED BY <2>1, <2>2, <2>3, <2>4, <2>5 DEF Next, SteadyNext
<1> QED BY <1>1, <1>2, Invariance, BundleInvariance, PTL DEF Spec, ImplementsSlot,
  Slot!Spec

\* In a slot with an install under way there is a plist and no removal.
SlotPhases ==
  \A l \in Engines : Installing[l] # {} => Removing[l] = {} /\ Paper[l] # NoPlist

\* The slots keep what EngineSlot promises of them, whoever implements them.
LEMMA SlotsConsistent == Slot!Spec => [](Slot!Consistent /\ SlotPhases)
<1> DEFINE Inv == Slot!Consistent /\ SlotPhases
           Typed == /\ Paper = [l \in Engines |-> Paper[l]] /\ Job = [l \in Engines |-> Job[l]]
                    /\ Installing = [l \in Engines |-> Installing[l]]
                    /\ Removing = [l \in Engines |-> Removing[l]]
<1> USE NoPlistIsNoConfig
<1>1. Slot!Init => Inv
  BY DEF Slot!Init, Slot!Consistent, SlotPhases
<1>2. Inv /\ [Slot!Next]_(Slot!vars) => Inv'
  <2> SUFFICES ASSUME Inv, [Slot!Next]_(Slot!vars) PROVE Inv'
    OBVIOUS
  <2>1. Typed
    BY DEF Paper, Job, Installing, Removing
  <2>2. CASE UNCHANGED Slot!vars
    BY <2>2 DEF Slot!vars, Slot!Consistent, Slot!Settled, SlotPhases
  <2>3. CASE Slot!Boot
    BY <2>3 DEF Slot!Boot, Slot!BootJobs, Slot!Consistent, Slot!Settled, SlotPhases
  <2>4. ASSUME NEW l \in Engines, Slot!SlotStep(l) PROVE Inv'
    <3>1. ASSUME NEW c \in Callers, NEW content \in Configs, Slot!Publish(l, c, content)
          PROVE  Inv'
      BY <2>1, <3>1 DEF Slot!Publish, Slot!Consistent, Slot!Settled, SlotPhases
    <3>2. ASSUME NEW c \in Callers, Slot!Commit(l, c) PROVE Inv'
      BY <2>1, <3>2 DEF Slot!Commit, Slot!Consistent, Slot!Settled, SlotPhases
    <3>3. ASSUME NEW c \in Callers, Slot!TakeDown(l, c) PROVE Inv'
      BY <2>1, <3>3 DEF Slot!TakeDown, Slot!Consistent, Slot!Settled, SlotPhases
    <3>4. ASSUME NEW c \in Callers, Slot!Erase(l, c) PROVE Inv'
      BY <2>1, <3>4 DEF Slot!Erase, Slot!Consistent, Slot!Settled, SlotPhases
    <3>5. ASSUME NEW c \in Callers, Slot!StayUp(l, c) \/ Slot!GiveUp(l, c) PROVE Inv'
      BY <2>1, <3>5 DEF Slot!StayUp, Slot!GiveUp, Slot!Consistent, Slot!Settled, SlotPhases
    <3>6. CASE Slot!Start(l) \/ Slot!Stop(l) \/ Slot!SetOverride(l)
      BY <3>6 DEF Slot!Start, Slot!Stop, Slot!SetOverride, Slot!Consistent, Slot!Settled,
        SlotPhases
    <3>7. CASE Slot!Lose(l)
      BY <2>1, <3>7 DEF Slot!Lose, Slot!Consistent, Slot!Settled, SlotPhases
    <3> QED BY <2>4, <3>1, <3>2, <3>3, <3>4, <3>5, <3>6, <3>7 DEF Slot!SlotStep
  <2> QED BY <2>2, <2>3, <2>4 DEF Slot!Next
<1> QED BY <1>1, <1>2, PTL DEF Slot!Spec

\* What an engine runs between two changes is what its plist says and what it runs after
\* the next boot, a job is gone before its plist unless a bootout failed on it, and only a
\* job has a process: a consequence of the slots alone.
THEOREM SlotsKept == Spec => []Slot!Consistent
BY SlotImplementation, SlotsConsistent, PTL DEF ImplementsSlot

-----------------------------------------------------------------------------
(* The cold standby of lifecycle.disable.  While a label's standby is      *)
(* pending or reached, no command and no call that can start it is under   *)
(* way (Quiet), so what the disable has already done stays done:           *)
(* StandbyInv, on top of IInv.                                             *)

\* The calls that load a job, start it or clear its override.
Raising == Installs \union {"start-daemon", "enable-daemon"}

\* Nothing that could bring the label up is under way.
Quiet(l) ==
  \A c \in Callers :
    /\ pc[c] # "idle" /\ cmd[c].label = l => cmd[c].kind \notin Starters
    /\ call[c].step # "none" /\ call[c].label = l => call[c].act \notin Raising

Disables(c, l) == pc[c] # "idle" /\ cmd[c].label = l /\ cmd[c].kind = "disable"

\* What a disable has reached at its place in the script.
ProgressOK(c, l) ==
  Disables(c, l) =>
    /\ pos[c] > 1 \/ call[c].step = "ok" => disabled[l]
    /\ pos[c] = 2 /\ call[c].step \in {"ok", "error"} => ~running[l]
    /\ pos[c] > 2 /\ standby[l] = "pending" => ~running[l]

StandbyOK(l) ==
  standby[l] # "no" =>
    /\ Quiet(l)
    /\ \A c \in Callers : ProgressOK(c, l)
    /\ standby[l] # "pending" => disabled[l]
    /\ standby[l] = "yes" => ~running[l]

StandbyInv == \A l \in Labels : StandbyOK(l)

-----------------------------------------------------------------------------
(* The scripts.                                                            *)

LEMMA DisableScript ==
  /\ Script["disable"] = DisableSteps /\ Len(DisableSteps) = 2
  /\ DisableSteps[1] = Must("disable-daemon") /\ DisableSteps[2] = Try("stop-daemon")
  BY DEF Script, DisableSteps

\* The commands that start nothing have no call that does.
LEMMA QuietScripts ==
  \A k \in DOMAIN Script \ Starters : \A i \in 1..Len(Script[k]) :
    Script[k][i] # Preflight => Script[k][i].act \notin Raising
<1> USE DEF Must, Try, Raising, Installs
<1>1. \A i \in 1..Len(UninstallSteps) :
        UninstallSteps[i] # Preflight => UninstallSteps[i].act \notin Raising
  BY DEF UninstallSteps
<1>2. \A i \in 1..Len(DisableSteps) : DisableSteps[i].act \notin Raising
  BY DEF DisableSteps
<1>3. /\ \A i \in 1..Len(Script["stop"]) : Script["stop"][i].act \notin Raising
      /\ \A i \in 1..Len(Script["uninstall_service"]) :
           Script["uninstall_service"][i].act \notin Raising
  BY DEF Script
<1>4. Script["uninstall"] = UninstallSteps /\ Script["disable"] = DisableSteps
  BY DEF Script
<1>5. DOMAIN Script \ Starters = {"stop", "disable", "uninstall", "uninstall_service"}
  BY DEF Starters, Script
<1> QED BY <1>1, <1>2, <1>3, <1>4, <1>5, Zenon

LEMMA QuietCurrent ==
  ASSUME TypeOK, NEW c \in Callers, pc[c] # "idle", ~ScriptEnded(c), Current(c) # Preflight,
         cmd[c].kind \notin Starters
  PROVE  Current(c).act \notin Raising
<1>1. cmd[c].kind \in DOMAIN Script /\ pos[c] \in 1..5
  BY CommandFields
<1>2. Len(Script[cmd[c].kind]) \in 1..5
  BY <1>1, Scripts
<1>3. pos[c] \in 1..Len(Script[cmd[c].kind])
  BY <1>1, <1>2 DEF ScriptEnded
<1> QED BY <1>1, <1>3, QuietScripts, Zenon DEF Current

\* Where a disable is while its call is out.
LEMMA DisablePlace ==
  ASSUME TypeOK, CallerInv, NEW c \in Callers, pc[c] # "idle", cmd[c].kind = "disable",
         call[c].step # "none"
  PROVE  /\ pc[c] = "run" /\ call[c].label = cmd[c].label
         /\ \/ pos[c] = 1 /\ call[c].act = "disable-daemon" /\ Current(c).check
            \/ pos[c] = 2 /\ call[c].act = "stop-daemon"
<1>1. OwnCall(c)
  BY DEF CallerInv, CallerOK, Orphan
<1>2. pos[c] \in 1..6 /\ ~(pos[c] > 2)
  BY <1>1, DisableScript DEF OwnCall, ScriptEnded, TypeOK
<1>3. pos[c] = 1 \/ pos[c] = 2
  BY <1>2
<1> QED BY <1>1, <1>3, DisableScript DEF OwnCall, Current, Must, Try

-----------------------------------------------------------------------------
(* The helper.                                                             *)

\* The steps that change a call, without the rest.
LEMMA HelperGoto ==
  ASSUME HelperTypeOK, NEW c \in Callers, HelperStep(c)
  PROVE  /\ call[c].step # "none" /\ call'[c].step # "none"
         /\ call'[c].act = call[c].act /\ call'[c].label = call[c].label
         /\ \A d \in Callers \ {c} : call'[d] = call[d]
<1>1. PICK s \in Steps \union Exits : Goto(c, s) /\ call[c].step # "none"
  BY DEF HelperStep, Refuse, CheckInstall, WriteTemp, WriteFails, RenameTemp, LoadJob,
    LoadFails, Bootout, BootoutFails, AtBootout, UnlinkPlist, UnlinkFails, StartDaemon,
    StopDaemon, EnableDaemon, DisableDaemon, SetOverride, Steps, Exits
<1>2. s # "none"
  BY DEF Steps, Exits
<1> QED BY <1>1, <1>2, GotoFields

\* A call that raises nothing leaves a label down and disabled.
LEMMA HelperCalm ==
  ASSUME HelperTypeOK, CallInv, NEW c \in Callers, HelperStep(c), NEW l \in Labels,
         call[c].label = l => call[c].act \notin Raising
  PROVE  (disabled[l] => disabled'[l]) /\ (running'[l] => running[l])
<1> USE DEF HelperTypeOK, LaunchdTypeOK, launchdVars
<1>1. CASE Refuse(c) \/ CheckInstall(c) \/ WriteTemp(c) \/ WriteFails(c) \/ LoadFails(c)
             \/ RenameTemp(c) \/ BootoutFails(c) \/ UnlinkPlist(c) \/ UnlinkFails(c)
  BY <1>1 DEF Refuse, CheckInstall, WriteTemp, WriteFails, LoadFails, RenameTemp,
    BootoutFails, StayLoaded, UnlinkPlist, UnlinkFails
<1>2. CASE LoadJob(c)
  BY <1>2 DEF LoadJob, Load, CallInv, Midway, Raising
<1>3. CASE Bootout(c)
  BY <1>3 DEF Bootout, Unload
<1>4. CASE StartDaemon(c)
  <2>1. call[c].label # l
    BY <1>4 DEF StartDaemon, Raising
  <2>2. /\ running' = [running EXCEPT ![call[c].label] = loaded[call[c].label] # NotLoaded]
        /\ disabled' = disabled
    BY <1>4 DEF StartDaemon
  <2> QED BY <2>1, <2>2
<1>5. CASE StopDaemon(c)
  BY <1>5 DEF StopDaemon
<1>6. CASE EnableDaemon(c)
  BY <1>6 DEF EnableDaemon, SetOverride, Raising
<1>7. CASE DisableDaemon(c)
  BY <1>7 DEF DisableDaemon, SetOverride
<1> QED BY <1>1, <1>2, <1>3, <1>4, <1>5, <1>6, <1>7 DEF HelperStep

\* What the two calls of a disable have done when they return.
LEMMA DisableCallDone ==
  ASSUME HelperTypeOK, CallInv, NEW c \in Callers, HelperStep(c), NEW l \in Labels,
         call[c].label = l
  PROVE  /\ call[c].act = "disable-daemon" /\ call'[c].step = "ok" => disabled'[l]
         /\ call[c].act = "stop-daemon" /\ call'[c].step \in {"ok", "error"} => ~running'[l]
<1> SUFFICES ASSUME call[c].act \in {"disable-daemon", "stop-daemon"},
                    call'[c].step \in {"ok", "error"}
             PROVE  /\ call[c].act = "disable-daemon" => disabled'[l]
                    /\ call[c].act = "stop-daemon" => ~running'[l]
  OBVIOUS
<1>1. call[c].step \notin Midway
  BY DEF CallInv, Writes, Installs, Uninstalls
<1>2. ~Refuse(c)
  BY GotoFields DEF Refuse, Exits
<1>3. StopDaemon(c) \/ DisableDaemon(c)
  BY <1>1, <1>2 DEF HelperStep, CheckInstall, WriteTemp, WriteFails, RenameTemp, LoadJob,
    LoadFails, Bootout, BootoutFails, AtBootout, UnlinkPlist, UnlinkFails, StartDaemon,
    EnableDaemon, SetOverride, Midway, Installs, Uninstalls
<1> QED BY <1>3 DEF StopDaemon, DisableDaemon, SetOverride, HelperTypeOK, LaunchdTypeOK

LEMMA HelperStandby ==
  ASSUME TypeOK, CallerInv, CallInv, StandbyInv, NEW c \in Callers, CallProceeds(c)
  PROVE  StandbyInv'
<1>1. HelperTypeOK /\ HelperStep(c)
  BY DEF TypeOK, CallProceeds
<1>2. UNCHANGED <<pc, cmd, pos, standby>>
  BY DEF CallProceeds, commandVars
<1> SUFFICES ASSUME NEW l \in Labels, standby[l] # "no" PROVE StandbyOK(l)'
  BY <1>2 DEF StandbyInv, StandbyOK
<1>3. Quiet(l) /\ StandbyOK(l)
  BY DEF StandbyInv, StandbyOK
<1>4. (disabled[l] => disabled'[l]) /\ (running'[l] => running[l])
  <2>1. call[c].label = l => call[c].act \notin Raising
    BY <1>1, <1>3, HelperGoto DEF Quiet
  <2> QED BY <1>1, <2>1, HelperCalm
<1>5. Quiet(l)'
  BY <1>1, <1>2, <1>3, HelperGoto DEF Quiet
<1>6. ASSUME NEW d \in Callers PROVE ProgressOK(d, l)'
  <2>1. CASE d # c
    <3>1. call'[d] = call[d]
      BY <1>1, <2>1, HelperGoto
    <3> QED BY <1>2, <1>3, <1>4, <3>1 DEF StandbyOK, ProgressOK, Disables
  <2>2. CASE d = c
    <3> SUFFICES ASSUME Disables(c, l) PROVE ProgressOK(c, l)'
      BY <1>2, <2>2 DEF ProgressOK, Disables
    <3>1. /\ call[c].label = l
          /\ \/ pos[c] = 1 /\ call[c].act = "disable-daemon"
             \/ pos[c] = 2 /\ call[c].act = "stop-daemon"
      BY <1>1, HelperGoto, DisablePlace DEF Disables
    <3>2. /\ call[c].act = "disable-daemon" /\ call'[c].step = "ok" => disabled'[l]
          /\ call[c].act = "stop-daemon" /\ call'[c].step \in {"ok", "error"} => ~running'[l]
      BY <1>1, <3>1, DisableCallDone
    <3>3. pos[c] > 1 => disabled[l]
      BY <1>3 DEF StandbyOK, ProgressOK
    <3> QED BY <1>2, <1>4, <3>1, <3>2, <3>3 DEF ProgressOK, Disables
  <2> QED BY <2>1, <2>2
<1> QED BY <1>2, <1>3, <1>4, <1>5, <1>6 DEF StandbyOK

-----------------------------------------------------------------------------
(* The commands.                                                           *)

\* A step that leaves a label as it is, or further down, and adds to it neither a
\* command nor a call.
LEMMA StandbyFrame ==
  ASSUME NEW l, StandbyOK(l), standby'[l] = standby[l], pos \in [Callers -> 1..6],
         disabled[l] => disabled'[l],
         disabled[l] /\ running'[l] => running[l],
         \A d \in Callers : pc'[d] # "idle" =>
           pc[d] # "idle" /\ cmd'[d] = cmd[d] /\ pos'[d] = pos[d],
         \A d \in Callers : call'[d] = call[d] \/ call'[d].step = "none"
  PROVE  StandbyOK(l)'
<1> SUFFICES ASSUME standby[l] # "no" PROVE StandbyOK(l)'
  BY DEF StandbyOK
<1>1. Quiet(l) /\ \A d \in Callers : ProgressOK(d, l)
  BY DEF StandbyOK
<1>2. Quiet(l)'
  BY <1>1 DEF Quiet
<1>3. ASSUME NEW d \in Callers PROVE ProgressOK(d, l)'
  BY <1>1 DEF ProgressOK, Disables
<1> QED BY <1>2, <1>3 DEF StandbyOK

LEMMA BeginStandby ==
  ASSUME TypeOK, StandbyInv, Operator
  PROVE  StandbyInv'
<1>1. PICK c \in Callers, kind \in Kinds, l \in Labels, cfg \in Configs, force \in Forces :
        Begin(c, kind, l, cfg, force)
  BY DEF Operator
<1>2. UNCHANGED <<running, disabled, call, pos>> /\ call[c].step = "none" /\ pos[c] = 1
  BY <1>1 DEF Begin, helperVars, launchdVars, NoCall, TypeOK
<1>3. /\ cmd'[c].kind = kind /\ cmd'[c].label = l /\ pc[c] = "idle"
      /\ \A d \in Callers \ {c} : cmd'[d] = cmd[d] /\ pc'[d] = pc[d]
  BY <1>1 DEF Begin, TypeOK
<1> SUFFICES ASSUME NEW m \in Labels, standby'[m] # "no" PROVE StandbyOK(m)'
  BY DEF StandbyInv, StandbyOK
<1>4. CASE standby'[m] = standby[m] /\ (m = l => kind \notin Starters)
  <2>1. StandbyOK(m) /\ Quiet(m)
    BY <1>4 DEF StandbyInv, StandbyOK
  <2>2. Quiet(m)'
    BY <1>2, <1>3, <1>4, <2>1 DEF Quiet
  <2>3. ASSUME NEW d \in Callers PROVE ProgressOK(d, m)'
    <3>1. CASE d = c
      BY <1>2, <3>1 DEF ProgressOK
    <3>2. CASE d # c
      BY <1>2, <1>3, <1>4, <2>1, <3>2 DEF StandbyOK, ProgressOK, Disables
    <3> QED BY <3>1, <3>2
  <2> QED BY <1>2, <1>4, <2>1, <2>2, <2>3 DEF StandbyOK
<1>5. CASE kind = "disable" /\ Busy(l) = {} /\ m = l /\ standby'[m] = "pending"
  <2>1. \A d \in Callers \ {c} :
          /\ ~(pc'[d] # "idle" /\ cmd'[d].label = l)
          /\ ~(call'[d].step # "none" /\ call'[d].label = l)
    <3>1. \A d \in Callers : pc[d] # "idle" => cmd[d] # NoCommand
      BY DEF TypeOK
    <3>2. \A d \in Callers : call[d].step # "none" => call[d] # NoCall
      BY DEF NoCall
    <3> QED BY <1>2, <1>3, <1>5, <3>1, <3>2 DEF Busy
  <2>2. Quiet(l)'
    BY <1>2, <1>3, <1>5, <2>1 DEF Quiet, Starters
  <2>3. ASSUME NEW d \in Callers PROVE ProgressOK(d, l)'
    BY <1>2, <2>1 DEF ProgressOK, Disables
  <2> QED BY <1>5, <2>2, <2>3 DEF StandbyOK
<1>6. \/ standby'[m] = standby[m] /\ (m = l => kind \notin Starters)
      \/ kind = "disable" /\ Busy(l) = {} /\ m = l /\ standby'[m] = "pending"
  BY <1>1 DEF Begin, TypeOK, Starters
<1> QED BY <1>4, <1>5, <1>6

\* The steps that end no call of a disable and no disable.
LEMMA PlainStandby ==
  ASSUME TypeOK, CallerInv, StandbyInv, NEW c \in Callers,
         \/ AcquireLock(c) \/ LockHeld(c) \/ FailPreflight(c) \/ CallRaises(c)
         \/ RecordInstall(c) \/ OrphanReturns(c) \/ CommandDies(c)
  PROVE  StandbyInv'
<1> SUFFICES ASSUME NEW l \in Labels PROVE StandbyOK(l)'
  BY DEF StandbyInv
<1>1. UNCHANGED <<standby, disabled, running>>
  BY DEF AcquireLock, LockHeld, FailPreflight, CallRaises, RecordInstall,
    OrphanReturns, CommandDies, helperVars, launchdVars, commandVars
<1>2. \A d \in Callers : pc'[d] # "idle" =>
        pc[d] # "idle" /\ cmd'[d] = cmd[d] /\ pos'[d] = pos[d]
  BY DEF AcquireLock, LockHeld, FailPreflight, CallRaises, RecordInstall,
    End, OrphanReturns, CommandDies, commandVars, TypeOK, AtScript
<1>3. \A d \in Callers : call'[d] = call[d] \/ call'[d].step = "none"
  BY DEF AcquireLock, LockHeld, FailPreflight, CallRaises, RecordInstall,
    OrphanReturns, CommandDies, EndCall, NoCall, helperVars, TypeOK, HelperTypeOK
<1> QED BY <1>1, <1>2, <1>3, StandbyFrame DEF StandbyInv, TypeOK

\* A disable has no preflight.
LEMMA PreflightStandby ==
  ASSUME TypeOK, StandbyInv, NEW c \in Callers, PassPreflight(c)
  PROVE  StandbyInv'
<1> SUFFICES ASSUME NEW l \in Labels, standby[l] # "no" PROVE StandbyOK(l)'
  BY DEF StandbyInv, StandbyOK, PassPreflight
<1>1. /\ UNCHANGED <<standby, disabled, running, pc, cmd, call>>
      /\ \A d \in Callers \ {c} : pos'[d] = pos[d]
  BY DEF PassPreflight, helperVars, launchdVars, TypeOK
<1>2. cmd[c].kind # "disable"
  <2> SUFFICES ASSUME cmd[c].kind = "disable" PROVE FALSE
    OBVIOUS
  <2>1. pos[c] = 1 \/ pos[c] = 2
    BY DisableScript DEF PassPreflight, AtScript, ScriptEnded, TypeOK
  <2> QED BY <2>1, DisableScript DEF PassPreflight, Current, Must, Try, Preflight
<1>3. StandbyOK(l) /\ Quiet(l)
  BY DEF StandbyInv, StandbyOK
<1>4. Quiet(l)'
  BY <1>1, <1>3 DEF Quiet
<1>5. ASSUME NEW d \in Callers PROVE ProgressOK(d, l)'
  BY <1>1, <1>2, <1>3 DEF StandbyOK, ProgressOK, Disables
<1> QED BY <1>1, <1>3, <1>4, <1>5 DEF StandbyOK

LEMMA CallHelperStandby ==
  ASSUME TypeOK, StandbyInv, NEW c \in Callers, CallHelper(c)
  PROVE  StandbyInv'
<1> SUFFICES ASSUME NEW l \in Labels, standby[l] # "no" PROVE StandbyOK(l)'
  BY DEF StandbyInv, StandbyOK, CallHelper, commandVars
<1>1. UNCHANGED <<standby, disabled, running, pc, cmd, pos>>
  BY DEF CallHelper, launchdVars, commandVars
<1>2. /\ call'[c].act = Current(c).act /\ call'[c].label = cmd[c].label
      /\ call'[c].step = "entry"
      /\ \A d \in Callers \ {c} : call'[d] = call[d]
  BY DEF CallHelper, Invoke, TypeOK, HelperTypeOK
<1>3. StandbyOK(l) /\ Quiet(l)
  BY DEF StandbyInv, StandbyOK
<1>4. Quiet(l)'
  <2>1. cmd[c].label = l => Current(c).act \notin Raising
    <3> SUFFICES ASSUME cmd[c].label = l PROVE Current(c).act \notin Raising
      OBVIOUS
    <3>1. pc[c] # "idle" /\ ~ScriptEnded(c) /\ Current(c) # Preflight
      BY DEF CallHelper, AtScript
    <3>2. cmd[c].kind \notin Starters
      BY <1>3, <3>1 DEF Quiet
    <3> QED BY <3>1, <3>2, QuietCurrent
  <2> QED BY <1>1, <1>2, <1>3, <2>1 DEF Quiet
<1>5. ASSUME NEW d \in Callers PROVE ProgressOK(d, l)'
  BY <1>1, <1>2, <1>3 DEF StandbyOK, ProgressOK, Disables
<1> QED BY <1>1, <1>3, <1>4, <1>5 DEF StandbyOK

\* A call of a disable returns: the override is set, or the process has ended, or the
\* SIGTERM was not sent and the standby is "unstopped".
LEMMA ReturnStandby ==
  ASSUME TypeOK, CallerInv, CallInv, StandbyInv, NEW c \in Callers, CallReturns(c)
  PROVE  StandbyInv'
<1>1. /\ UNCHANGED <<disabled, running, pc, cmd>>
      /\ pos'[c] = pos[c] + 1 /\ \A d \in Callers \ {c} : pos'[d] = pos[d]
      /\ call'[c].step = "none" /\ \A d \in Callers \ {c} : call'[d] = call[d]
  BY DEF CallReturns, EndCall, NoCall, launchdVars, TypeOK, HelperTypeOK
<1>2. /\ pc[c] = "run" /\ call[c].step \in Exits
      /\ call[c].step = "ok" \/ ~Current(c).check
  BY DEF CallReturns, Returned
<1>3. /\ standby' = IF /\ cmd[c].kind = "disable" /\ standby[cmd[c].label] = "pending"
                       /\ call[c].act = "stop-daemon" /\ call[c].step = "refused"
                    THEN [standby EXCEPT ![cmd[c].label] = "unstopped"] ELSE standby
      /\ standby \in [Labels -> {"no", "pending", "unstopped", "yes"}]
  BY DEF CallReturns, TypeOK
<1>4. CASE cmd[c].kind = "disable"
  <2> DEFINE m == cmd[c].label
  <2>1. m \in Labels
    BY <1>2, CommandFields
  <2>2. \/ pos[c] = 1 /\ call[c].act = "disable-daemon" /\ Current(c).check
        \/ pos[c] = 2 /\ call[c].act = "stop-daemon"
    BY <1>2, <1>4, DisablePlace DEF Exits
  <2>3. standby[m] # "no" => disabled[m]
    <3> SUFFICES ASSUME standby[m] # "no" PROVE disabled[m]
      OBVIOUS
    <3>1. ProgressOK(c, m) /\ Disables(c, m)
      BY <1>2, <1>4, <2>1 DEF StandbyInv, StandbyOK, Disables
    <3> QED BY <1>2, <2>2, <3>1 DEF ProgressOK
  <2>4. standby[m] # "no" /\ pos[c] = 2 => ~running[m] \/ standby'[m] # "pending"
    <3> SUFFICES ASSUME standby[m] # "no", pos[c] = 2, standby'[m] = "pending"
                 PROVE  ~running[m]
      OBVIOUS
    <3>1. ProgressOK(c, m) /\ Disables(c, m)
      BY <1>2, <1>4, <2>1 DEF StandbyInv, StandbyOK, Disables
    <3>2. call[c].step # "refused"
      <4> SUFFICES ASSUME call[c].step = "refused" PROVE FALSE
        OBVIOUS
      <4>1. standby' = [standby EXCEPT ![m] = "unstopped"] \/ standby[m] # "pending"
        BY <1>3, <1>4, <2>2
      <4> QED BY <1>3, <2>1, <4>1
    <3>3. call[c].step # "left"
      BY <2>2 DEF CallInv, Writes, Installs, Uninstalls
    <3> QED BY <1>2, <2>2, <3>1, <3>2, <3>3 DEF ProgressOK, Exits
  <2>5. ASSUME NEW l \in Labels, standby[l] # "no" PROVE StandbyOK(l)'
    <3>1. StandbyOK(l) /\ Quiet(l)
      BY <2>5 DEF StandbyInv, StandbyOK
    <3>2. Quiet(l)'
      BY <1>1, <3>1 DEF Quiet
    <3>3. standby'[l] = standby[l] \/ (l = m /\ standby'[l] = "unstopped")
      BY <1>3, <2>1
    <3>4. ASSUME NEW d \in Callers PROVE ProgressOK(d, l)'
      <4>1. CASE d # c
        BY <1>1, <2>5, <3>1, <3>3, <4>1 DEF StandbyOK, ProgressOK, Disables
      <4>2. CASE d = c
        BY <1>1, <2>2, <2>3, <2>4, <2>5, <4>2 DEF ProgressOK, Disables
      <4> QED BY <4>1, <4>2
    <3> QED BY <1>1, <2>3, <2>5, <3>1, <3>2, <3>3, <3>4 DEF StandbyOK
  <2>6. \A l \in Labels : standby'[l] # "no" => standby[l] # "no"
    BY <1>3, <2>1
  <2> QED BY <2>5, <2>6 DEF StandbyInv, StandbyOK
<1>5. CASE cmd[c].kind # "disable"
  <2> SUFFICES ASSUME NEW l \in Labels, standby[l] # "no" PROVE StandbyOK(l)'
    BY <1>3, <1>5 DEF StandbyInv, StandbyOK
  <2>1. StandbyOK(l) /\ Quiet(l) /\ standby' = standby
    BY <1>3, <1>5 DEF StandbyInv, StandbyOK
  <2>2. Quiet(l)'
    BY <1>1, <2>1 DEF Quiet
  <2>3. ASSUME NEW d \in Callers PROVE ProgressOK(d, l)'
    BY <1>1, <1>5, <2>1 DEF StandbyOK, ProgressOK, Disables
  <2> QED BY <1>1, <2>1, <2>2, <2>3 DEF StandbyOK
<1> QED BY <1>4, <1>5

\* A disable that ran its script with no SIGTERM refused has reached its standby.
LEMMA EndStandby ==
  ASSUME TypeOK, StandbyInv, NEW c \in Callers, EndScript(c)
  PROVE  StandbyInv'
<1>1. /\ UNCHANGED <<disabled, running, call>> /\ pc[c] = "run"
      /\ \A d \in Callers : pc'[d] # "idle" =>
           pc[d] # "idle" /\ cmd'[d] = cmd[d] /\ pos'[d] = pos[d]
  BY DEF EndScript, End, helperVars, launchdVars, TypeOK
<1>2. /\ standby' = IF cmd[c].kind = "disable" /\ standby[cmd[c].label] = "pending"
                    THEN [standby EXCEPT ![cmd[c].label] = "yes"] ELSE standby
      /\ standby \in [Labels -> {"no", "pending", "unstopped", "yes"}]
  BY DEF EndScript, TypeOK
<1>3. cmd[c].label \in Labels
  BY <1>1, CommandFields
<1> SUFFICES ASSUME NEW l \in Labels, standby[l] # "no" PROVE StandbyOK(l)'
  BY <1>2, <1>3 DEF StandbyInv, StandbyOK
<1>4. StandbyOK(l) /\ Quiet(l)
  BY DEF StandbyInv, StandbyOK
<1>5. \/ standby'[l] = standby[l]
      \/ standby[l] = "pending" /\ standby'[l] = "yes" /\ disabled[l] /\ ~running[l]
  <2> SUFFICES ASSUME cmd[c].kind = "disable", standby[l] = "pending", l = cmd[c].label
               PROVE  disabled[l] /\ ~running[l]
    BY <1>2, <1>3
  <2>1. pos[c] > 2 /\ pos[c] \in 1..6
    BY DisableScript DEF EndScript, ScriptEnded, TypeOK
  <2> QED BY <1>1, <1>4, <2>1 DEF StandbyOK, ProgressOK, Disables
<1>6. Quiet(l)'
  BY <1>1, <1>4 DEF Quiet
<1>7. ASSUME NEW d \in Callers PROVE ProgressOK(d, l)'
  BY <1>1, <1>4, <1>5 DEF StandbyOK, ProgressOK, Disables
<1> QED BY <1>1, <1>4, <1>5, <1>6, <1>7 DEF StandbyOK

\* launchd loads no disabled daemon of the bundle, and restarts no disabled job.
LEMMA BundleStandby ==
  ASSUME TypeOK, StandbyInv, BundleStep
  PROVE  StandbyInv'
<1> PICK m \in Managed : RegisterCheck(m) \/ Register(m) \/ Approve(m) \/ Unregister(m)
  BY DEF BundleStep
<1> SUFFICES ASSUME NEW l \in Labels PROVE StandbyOK(l)'
  BY DEF StandbyInv
<1>1. UNCHANGED <<disabled, pc, cmd, pos, call, standby>>
  BY DEF RegisterCheck, Register, Approve, Unregister, helperVars, launchdVars, commandVars
<1>2. disabled[l] /\ running'[l] => running[l]
  BY DEF RegisterCheck, Register, Approve, Unregister, Load, Unload, helperVars,
    launchdVars, TypeOK, HelperTypeOK, LaunchdTypeOK
<1> QED BY <1>1, <1>2, StandbyFrame DEF StandbyInv, TypeOK

LEMMA KeepAliveStandby ==
  ASSUME TypeOK, StandbyInv, KeepAlive
  PROVE  StandbyInv'
<1> SUFFICES ASSUME NEW l \in Labels PROVE StandbyOK(l)'
  BY DEF StandbyInv
<1>1. UNCHANGED <<disabled, pc, cmd, pos, call, standby>>
  BY DEF KeepAlive, Respawn, commandVars
<1>2. disabled[l] /\ running'[l] => running[l]
  BY DEF KeepAlive, Respawn, TypeOK, HelperTypeOK, LaunchdTypeOK
<1> QED BY <1>1, <1>2, StandbyFrame DEF StandbyInv, TypeOK

\* A reboot ends every disable; what is disabled does not come up.
LEMMA RebootStandby ==
  ASSUME TypeOK, StandbyInv, Reboot
  PROVE  StandbyInv'
<1> SUFFICES ASSUME NEW l \in Labels, standby'[l] # "no" PROVE StandbyOK(l)'
  BY DEF StandbyInv, StandbyOK
<1>1. \A d \in Callers : pc'[d] = "idle" /\ call'[d].step = "none"
  BY DEF Reboot, NoCall
<1>2. standby'[l] = "yes" /\ standby[l] \in {"unstopped", "yes"}
  BY DEF Reboot
<1>3. disabled'[l] /\ disabled[l]
  BY <1>2 DEF Reboot, Boot, StandbyInv, StandbyOK
<1>4. ~running'[l]
  BY <1>3 DEF Reboot, Boot, BootSources
<1> QED BY <1>1, <1>3, <1>4 DEF StandbyOK, Quiet, ProgressOK, Disables

LEMMA NextStandby == IInv /\ StandbyInv /\ [Next]_vars => StandbyInv'
<1> SUFFICES ASSUME IInv, StandbyInv, [Next]_vars PROVE StandbyInv'
  OBVIOUS
<1> USE DEF IInv
<1>1. ASSUME NEW c \in Callers, CommandStep(c) PROVE StandbyInv'
  <2>1. CASE \/ AcquireLock(c) \/ LockHeld(c) \/ FailPreflight(c) \/ CallRaises(c)
             \/ RecordInstall(c) \/ OrphanReturns(c)
    BY <2>1, PlainStandby
  <2>2. CASE PassPreflight(c) \/ CallHelper(c)
    BY <2>2, PreflightStandby, CallHelperStandby
  <2>3. CASE CallReturns(c) \/ EndScript(c)
    BY <2>3, ReturnStandby, EndStandby
  <2>4. CASE CallProceeds(c)
    BY <2>4, HelperStandby
  <2> QED BY <1>1, <2>1, <2>2, <2>3, <2>4 DEF CommandStep
<1>2. ASSUME NEW c \in Callers, CommandDies(c) PROVE StandbyInv'
  BY <1>2, PlainStandby
<1>3. CASE Operator \/ BundleStep \/ KeepAlive \/ Reboot
  BY <1>3, BeginStandby, BundleStandby, KeepAliveStandby, RebootStandby
<1>4. CASE UNCHANGED vars
  <2>1. UNCHANGED <<disabled, running, pc, cmd, pos, call, standby>>
    BY <1>4 DEF vars, helperVars, launchdVars, commandVars
  <2> QED BY <2>1, StandbyFrame DEF StandbyInv, TypeOK
<1> QED BY <1>1, <1>2, <1>3, <1>4 DEF Next, SteadyNext

-----------------------------------------------------------------------------
\* A disabled engine that no later command started stays down, now and after every
\* reboot, for any number of callers, labels and bundle registrations.
THEOREM StandbyCorrect == Spec => []StandbyHolds
<1>1. Init => StandbyInv
  BY DEF Init, StandbyInv, StandbyOK
<1>2. StandbyInv => StandbyHolds
  BY DEF StandbyInv, StandbyOK, StandbyHolds
<1> QED BY <1>1, <1>2, NextStandby, Invariance, PTL DEF Spec

\* What a disable has promised holds at the next boot, also of an engine whose SIGTERM was
\* refused and that ran on until then.
DownAfterBoot ==
  [][Reboot => \A l \in Labels : standby[l] \in {"unstopped", "yes"} =>
                 disabled'[l] /\ ~running'[l] /\ standby'[l] = "yes"]_vars

\* The result of stop-daemon that lifecycle.disable ignores costs one boot at most.
THEOREM StandbySurvivesBoot == Spec => DownAfterBoot
<1>1. Init => StandbyInv
  BY DEF Init, StandbyInv, StandbyOK
<1>2. StandbyInv /\ Reboot =>
        \A l \in Labels : standby[l] \in {"unstopped", "yes"} =>
          disabled'[l] /\ ~running'[l] /\ standby'[l] = "yes"
  BY DEF StandbyInv, StandbyOK, Reboot, Boot, BootSources
<1> QED BY <1>1, <1>2, NextStandby, Invariance, PTL DEF Spec, DownAfterBoot
=============================================================================
