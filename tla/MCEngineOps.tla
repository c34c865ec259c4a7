---------------------------- MODULE MCEngineOps ----------------------------
(* Small instances of EngineOps.                                             *)
EXTENDS EngineOps, TLC

\* `enable` makes the first call of `start`, `restart` and `enable --start` the calls of
\* `start` under the lock, `stop` the second call of `disable`, and `reinstall` an
\* `uninstall` and an `install` in one script.
EngineKinds == {"install", "uninstall", "start", "disable"}

\* Commands on an engine and on the fixed services side by side.
MixedKinds == {"install", "reinstall", "stop", "install_service", "uninstall_service"}

Symmetry == Permutations(Callers)

\* Bound: where an orphan has run on the engine, one command at a time is followed further.
OneBesideOrphans ==
  bypassed # {} => Cardinality({c \in Callers : pc[c] # "idle"}) <= 1
=============================================================================
