------------------------- MODULE MCOperationsLock ---------------------------
(* Small instances of OperationsLock.                                        *)
EXTENDS OperationsLock, TLC

Symmetry == Permutations(Procs) \union Permutations(Inodes)
=============================================================================
