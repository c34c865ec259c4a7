------------------------------ MODULE Firewall ------------------------------
(***************************************************************************)
(* ais_core/firewall.py: the pf anchor of each engine (a file under        *)
(* /etc/pf.anchors), the two lines of /etc/pf.conf that make it effective, *)
(* and the ruleset the kernel enforces.  Every write is a separate `sudo`  *)
(* that may fail, and the process may die between any two of them.         *)
(*                                                                         *)
(* The callers hold the operations lock, so one operation runs at a time.  *)
(***************************************************************************)
CONSTANTS
  Engines,
  Rules,     \* what build_anchor_content renders for a port and its subnets
  NoRules    \* no anchor file; nothing enforced

ASSUME NoRulesIsNoContent == NoRules \notin Rules

VARIABLES
  file,         \* the anchor file of each engine
  conf,         \* the engines whose two lines pf.conf has
  kernel,       \* the rules the kernel enforces for each engine
  op,           \* the operation under way
  pc,           \* its next step
  text,         \* the pf.conf it read and rewrites
  interrupted   \* history: some operation failed or died on its way

vars == <<file, conf, kernel, op, pc, text, interrupted>>

\* pf.conf: `anchor "<name>" all` declares, `load anchor "<name>" from` loads.
Confs == [declares : SUBSET Engines, loads : SUBSET Engines]
NoOp == [act |-> "none"]
Ops == {NoOp} \union [act : {"install"}, engine : Engines, rules : Rules]
              \union [act : {"remove"}, engine : Engines]
Phases == {"idle", "anchor", "read", "rewrite", "reload", "done", "failed"}

TypeOK ==
  /\ file \in [Engines -> Rules \union {NoRules}]
  /\ conf \in Confs
  /\ kernel \in [Engines -> Rules \union {NoRules}]
  /\ op \in Ops
  /\ pc \in Phases
  /\ text \in Confs
  /\ interrupted \in BOOLEAN

\* A host set up before the load directive existed has declarations only.
Init ==
  /\ file = [e \in Engines |-> NoRules]
  /\ conf \in [declares : SUBSET Engines, loads : {{}}]
  /\ kernel = [e \in Engines |-> NoRules]
  /\ op = NoOp
  /\ pc = "idle"
  /\ text = [declares |-> {}, loads |-> {}]
  /\ interrupted = FALSE

-----------------------------------------------------------------------------
\* Mutant: the declaration alone counts as wired.
WiredByDeclaration(e) == e \in conf.declares

Wired(e) == e \in conf.declares /\ e \in conf.loads

AnchorUpToDate(e, rules) == file[e] = rules /\ Wired(e)

\* Mutant: no file, nothing to remove.
AnchorFilePresent(e) == file[e] # NoRules

AnchorPresent(e) == file[e] # NoRules \/ e \in conf.declares \union conf.loads

\* pfctl -f reads every file that is loaded; a missing one fails the whole load.
Loadable == \A e \in conf.loads : file[e] # NoRules
Ruleset == [e \in Engines |-> IF Wired(e) THEN file[e] ELSE NoRules]

-----------------------------------------------------------------------------
\* install_anchor: nothing to do, or the preflight and the validation pass.  A refusal
\* here changes nothing and does not appear.
BeginInstall(e, rules) ==
  /\ pc = "idle"
  /\ op' = [act |-> "install", engine |-> e, rules |-> rules]
  /\ pc' = IF AnchorUpToDate(e, rules) THEN "done" ELSE "anchor"
  /\ UNCHANGED <<file, conf, kernel, text, interrupted>>

\* lifecycle.uninstall calls remove_anchor when a trace is present.
BeginRemove(e) ==
  /\ pc = "idle"
  /\ op' = [act |-> "remove", engine |-> e]
  /\ pc' = IF AnchorPresent(e) THEN "anchor" ELSE "done"
  /\ UNCHANGED <<file, conf, kernel, text, interrupted>>

\* sudo mv of the rendered anchor, or sudo rm.
WriteAnchor ==
  /\ pc = "anchor"
  /\ file' = [file EXCEPT ![op.engine] = IF op.act = "install" THEN op.rules ELSE NoRules]
  /\ pc' = "read"
  /\ UNCHANGED <<conf, kernel, op, text, interrupted>>

\* _ensure_anchor_in_pf_conf adds what is missing.
ReadToAdd ==
  /\ pc = "read" /\ op.act = "install"
  /\ text' = [declares |-> conf.declares \union {op.engine},
              loads    |-> conf.loads \union {op.engine}]
  /\ pc' = IF Wired(op.engine) THEN "reload" ELSE "rewrite"
  /\ UNCHANGED <<file, conf, kernel, op, interrupted>>

\* remove_anchor scrubs either line; when there is none it is done, without a reload.
ReadToScrub ==
  /\ pc = "read" /\ op.act = "remove"
  /\ text' = [declares |-> conf.declares \ {op.engine},
              loads    |-> conf.loads \ {op.engine}]
  /\ pc' = IF op.engine \in conf.declares \union conf.loads THEN "rewrite" ELSE "done"
  /\ UNCHANGED <<file, conf, kernel, op, interrupted>>

\* _atomic_write_pf_conf
RewriteConf ==
  /\ pc = "rewrite"
  /\ conf' = text
  /\ pc' = "reload"
  /\ UNCHANGED <<file, kernel, op, text, interrupted>>

\* Mutant: the file that was written is not loaded.
ReloadForgotten ==
  /\ pc = "reload"
  /\ pc' = "done"
  /\ UNCHANGED <<file, conf, kernel, op, text, interrupted>>

\* _reload_pf
Reload ==
  /\ pc = "reload" /\ Loadable
  /\ kernel' = Ruleset
  /\ pc' = "done"
  /\ UNCHANGED <<file, conf, op, text, interrupted>>

\* A sudo fails (FirewallError, CalledProcessError), or the process dies.
Interrupt ==
  /\ pc \in {"anchor", "read", "rewrite", "reload"}
  /\ pc' = "failed"
  /\ interrupted' = TRUE
  /\ UNCHANGED <<file, conf, kernel, op, text>>

Return ==
  /\ pc \in {"done", "failed"}
  /\ pc' = "idle"
  /\ op' = NoOp
  /\ text' = [declares |-> {}, loads |-> {}]
  /\ UNCHANGED <<file, conf, kernel, interrupted>>

\* At boot macOS loads pf.conf, and has no engine rules when that fails.
Boot ==
  /\ kernel' = IF Loadable THEN Ruleset ELSE [e \in Engines |-> NoRules]
  /\ pc' = "idle"
  /\ op' = NoOp
  /\ text' = [declares |-> {}, loads |-> {}]
  /\ interrupted' = (interrupted \/ pc \in {"anchor", "read", "rewrite", "reload"})
  /\ UNCHANGED <<file, conf>>

Next ==
  \/ \E e \in Engines, rules \in Rules : BeginInstall(e, rules)
  \/ \E e \in Engines : BeginRemove(e)
  \/ WriteAnchor
  \/ ReadToAdd
  \/ ReadToScrub
  \/ RewriteConf
  \/ Reload
  \/ Interrupt
  \/ Return
  \/ Boot

Spec == Init /\ [][Next]_vars

-----------------------------------------------------------------------------
(* Properties.                                                             *)

\* An install_anchor that returns has the anchor file and both pf.conf lines in place,
\* whatever earlier operations left half done (a declaration without its load directive
\* "silently enforces nothing").
InstalledIsWired ==
  pc = "done" /\ op.act = "install" 
    => /\ file[op.engine] = op.rules
       /\ op.engine \in conf.declares /\ op.engine \in conf.loads

\* A remove_anchor that returns has left no file and no line, also after an earlier
\* removal died between the two ("a missing file alone does not mean there is nothing
\* to do", anchor_present).
RemovedLeavesNoTrace ==
  pc = "done" /\ op.act = "remove"
    => file[op.engine] = NoRules /\ op.engine \notin conf.declares \union conf.loads

\* As long as no operation was cut short, the kernel enforces between operations what
\* the files say, and pf.conf can be loaded at the next boot.
UninterruptedIsEnforced ==
  pc = "idle" /\ ~interrupted => Loadable /\ kernel = Ruleset

\* _reload_pf: "a silent failure here means install_anchor reports success while nothing
\* was actually loaded".  An install_anchor that returns has its rules in the kernel.
InstalledIsEnforced ==
  pc = "done" /\ op.act = "install" => kernel[op.engine] = op.rules
=============================================================================
