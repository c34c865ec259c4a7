-------------------------- MODULE Firewall_proofs --------------------------
(***************************************************************************)
(* The invariants of Firewall hold for any set of engines and of rules.    *)
(*                                                                         *)
(* IInv says what each program point knows.  FilesInv: what the operation  *)
(* has done so far to the files of its own engine.  KernelInv: while no    *)
(* operation was cut short, an operation disturbs its own engine only, so  *)
(* the reload that ends it succeeds.                                       *)
(***************************************************************************)
EXTENDS Firewall, TLAPS

Written == {"read", "rewrite", "reload", "done"}

FilesInv ==
  /\ pc # "idle" => op.act \in {"install", "remove"}
  /\ pc \in Written /\ op.act = "install" => file[op.engine] = op.rules
  /\ pc \in Written /\ op.act = "remove" => file[op.engine] = NoRules
  /\ pc = "rewrite" /\ op.act = "install" =>
       /\ text.declares = conf.declares \union {op.engine}
       /\ text.loads = conf.loads \union {op.engine}
  /\ pc = "rewrite" /\ op.act = "remove" =>
       /\ text.declares = conf.declares \ {op.engine}
       /\ text.loads = conf.loads \ {op.engine}
  /\ pc \in {"reload", "done"} /\ op.act = "install" =>
       op.engine \in conf.declares /\ op.engine \in conf.loads
  /\ pc \in {"reload", "done"} /\ op.act = "remove" =>
       op.engine \notin conf.declares \union conf.loads

Enforced(e) == kernel[e] = IF Wired(e) THEN file[e] ELSE NoRules

KernelInv ==
  ~interrupted =>
    /\ pc # "failed"
    /\ pc \in {"idle", "anchor", "done"} =>
         (\A e \in conf.loads : file[e] # NoRules) /\ (\A e \in Engines : Enforced(e))
    /\ pc \in {"read", "rewrite", "reload"} =>
         /\ \A e \in conf.loads : e # op.engine => file[e] # NoRules
         /\ \A e \in Engines : e # op.engine => Enforced(e)
    /\ pc = "read" /\ ~Wired(op.engine) => kernel[op.engine] = NoRules

IInv == TypeOK /\ FilesInv /\ KernelInv

\* The engine and the rules of the operation under way.
LEMMA OpFields ==
  ASSUME TypeOK, FilesInv, pc # "idle"
  PROVE  /\ op.engine \in Engines
         /\ op.act = "install" => op.rules \in Rules
         /\ op.act = "install" \/ op.act = "remove"
  BY DEF TypeOK, FilesInv, Ops, NoOp

LEMMA InitInv == Init => IInv
<1> SUFFICES ASSUME Init PROVE IInv
  OBVIOUS
<1>1. conf.loads = {} /\ conf \in Confs
  BY DEF Init, Confs
<1>2. TypeOK
  BY <1>1 DEF Init, TypeOK, Confs, Ops, Phases
<1>3. FilesInv
  BY DEF Init, FilesInv, Written
<1>4. KernelInv
  BY <1>1 DEF Init, KernelInv, Enforced, Wired
<1> QED BY <1>2, <1>3, <1>4 DEF IInv

\* Begin, the write of the anchor file, and the two ways to read pf.conf.
LEMMA FirstSteps ==
  ASSUME IInv,
         \/ \E e \in Engines, rules \in Rules : BeginInstall(e, rules)
         \/ \E e \in Engines : BeginRemove(e)
         \/ WriteAnchor \/ ReadToAdd \/ ReadToScrub
  PROVE  IInv'
<1> USE NoRulesIsNoContent DEF IInv, Written, Wired
<1>1. CASE \E e \in Engines, rules \in Rules : BeginInstall(e, rules)
  <2> PICK e \in Engines, rules \in Rules : BeginInstall(e, rules)
    BY <1>1
  <2>1. TypeOK'
    BY DEF BeginInstall, TypeOK, Ops, Phases
  <2>2. FilesInv'
    BY DEF BeginInstall, FilesInv, AnchorUpToDate, TypeOK
  <2>3. KernelInv'
    BY DEF BeginInstall, KernelInv, Enforced
  <2> QED BY <2>1, <2>2, <2>3
<1>2. CASE \E e \in Engines : BeginRemove(e)
  <2> PICK e \in Engines : BeginRemove(e)
    BY <1>2
  <2>1. TypeOK'
    BY DEF BeginRemove, TypeOK, Ops, Phases
  <2>2. FilesInv'
    BY DEF BeginRemove, FilesInv, AnchorPresent, TypeOK
  <2>3. KernelInv'
    BY DEF BeginRemove, KernelInv, Enforced
  <2> QED BY <2>1, <2>2, <2>3
<1>3. CASE WriteAnchor
  <2>1. TypeOK'
    BY <1>3, OpFields DEF WriteAnchor, TypeOK, Phases
  <2>2. FilesInv'
    BY <1>3, OpFields DEF WriteAnchor, TypeOK, FilesInv
  <2>3. KernelInv'
    BY <1>3, OpFields DEF WriteAnchor, TypeOK, KernelInv, Enforced, Confs
  <2> QED BY <2>1, <2>2, <2>3
<1>4. CASE ReadToAdd
  <2>1. TypeOK'
    BY <1>4, OpFields DEF ReadToAdd, TypeOK, Phases, Confs
  <2>2. FilesInv'
    BY <1>4, OpFields DEF ReadToAdd, TypeOK, FilesInv, Confs
  <2>3. KernelInv'
    BY <1>4 DEF ReadToAdd, KernelInv, Enforced
  <2> QED BY <2>1, <2>2, <2>3
<1>5. CASE ReadToScrub
  <2>1. TypeOK'
    BY <1>5, OpFields DEF ReadToScrub, TypeOK, Phases, Confs
  <2>2. FilesInv'
    BY <1>5, OpFields DEF ReadToScrub, TypeOK, FilesInv, Confs
  <2>3. KernelInv'
    BY <1>5, OpFields DEF ReadToScrub, TypeOK, KernelInv, Enforced
  <2> QED BY <2>1, <2>2, <2>3
<1> QED BY <1>1, <1>2, <1>3, <1>4, <1>5

\* The rewrite and the reload, and the ends of an operation.
LEMMA LastSteps ==
  ASSUME IInv, RewriteConf \/ Reload \/ Interrupt \/ Return \/ Boot
  PROVE  IInv'
<1> USE NoRulesIsNoContent DEF IInv, Written, Wired
<1>1. CASE RewriteConf
  <2>1. TypeOK'
    BY <1>1 DEF RewriteConf, TypeOK, Phases
  <2>2. FilesInv'
    BY <1>1, OpFields DEF RewriteConf, TypeOK, FilesInv, Confs
  <2>3. KernelInv'
    BY <1>1, OpFields DEF RewriteConf, TypeOK, KernelInv, FilesInv, Enforced, Confs
  <2> QED BY <2>1, <2>2, <2>3
<1>2. CASE Reload
  <2>1. TypeOK'
    BY <1>2 DEF Reload, TypeOK, Phases, Ruleset
  <2>2. FilesInv'
    BY <1>2 DEF Reload, FilesInv
  <2>3. KernelInv'
    BY <1>2 DEF Reload, KernelInv, Enforced, Loadable, Ruleset
  <2> QED BY <2>1, <2>2, <2>3
<1>3. CASE Interrupt
  BY <1>3 DEF Interrupt, TypeOK, Phases, FilesInv, KernelInv
<1>4. CASE Return
  BY <1>4 DEF Return, TypeOK, Phases, Ops, Confs, FilesInv, KernelInv, Enforced
<1>5. CASE Boot
  <2>1. TypeOK'
    BY <1>5 DEF Boot, TypeOK, Phases, Ops, Confs, Ruleset
  <2>2. FilesInv'
    BY <1>5 DEF Boot, FilesInv
  <2>3. KernelInv'
    BY <1>5 DEF Boot, TypeOK, Phases, KernelInv, Enforced, Loadable, Ruleset
  <2> QED BY <2>1, <2>2, <2>3
<1> QED BY <1>1, <1>2, <1>3, <1>4, <1>5

LEMMA NextInv == IInv /\ [Next]_vars => IInv'
<1> SUFFICES ASSUME IInv, [Next]_vars PROVE IInv'
  OBVIOUS
<1>1. CASE Next
  BY <1>1, FirstSteps, LastSteps DEF Next
<1>2. CASE UNCHANGED vars
  BY <1>2 DEF vars, IInv, TypeOK, FilesInv, KernelInv, Enforced, Wired
<1> QED BY <1>1, <1>2

LEMMA Invariance == Spec => []IInv
  BY InitInv, NextInv, PTL DEF Spec

-----------------------------------------------------------------------------
\* Every variable keeps its type.
THEOREM TypeCorrect == Spec => []TypeOK
<1>1. IInv => TypeOK
  BY DEF IInv
<1> QED BY <1>1, Invariance, PTL

\* install_anchor returns with the file and both lines in place, on any host and after
\* any interrupted operation.
THEOREM InstallWires == Spec => []InstalledIsWired
<1>1. IInv => InstalledIsWired
  BY DEF IInv, FilesInv, Written, InstalledIsWired
<1> QED BY <1>1, Invariance, PTL

\* remove_anchor returns with no file and no line, after any interrupted operation.
THEOREM RemovalComplete == Spec => []RemovedLeavesNoTrace
<1>1. IInv => RemovedLeavesNoTrace
  BY DEF IInv, FilesInv, Written, RemovedLeavesNoTrace
<1> QED BY <1>1, Invariance, PTL

\* While no operation was cut short, kernel, anchor files and pf.conf agree between
\* operations, and the next reload or boot succeeds.
THEOREM KernelAgrees == Spec => []UninterruptedIsEnforced
<1>1. IInv => UninterruptedIsEnforced
  BY DEF IInv, TypeOK, KernelInv, Enforced, UninterruptedIsEnforced, Loadable, Ruleset
<1> QED BY <1>1, Invariance, PTL

\* What firewall_reload finds needs an interruption: without one an install_anchor that
\* returns has its rules in the kernel.
THEOREM EnforcedUnlessInterrupted == Spec => [](~interrupted => InstalledIsEnforced)
<1>1. IInv => (~interrupted => InstalledIsEnforced)
  <2> SUFFICES ASSUME IInv, ~interrupted, pc = "done", op.act = "install"
               PROVE  kernel[op.engine] = op.rules
    BY DEF InstalledIsEnforced
  <2>1. file[op.engine] = op.rules /\ Wired(op.engine) /\ op.engine \in Engines
    BY OpFields DEF IInv, FilesInv, Written, Wired
  <2>2. Enforced(op.engine)
    BY <2>1 DEF IInv, KernelInv
  <2> QED BY <2>1, <2>2 DEF Enforced
<1> QED BY <1>1, Invariance, PTL
=============================================================================
