------------------------------- MODULE Mutex --------------------------------
(***************************************************************************)
(* What OperationsLock promises the commands that use it (memory.py:270,   *)
(* "used to serialize destructive engine operations"): one client at a     *)
(* time, and never a direct handover from one client to another, as long   *)
(* as there is one lock file.  While the lock is split, because somebody   *)
(* removed the file under a client that has it open, a client may acquire  *)
(* beside another one.  A split heals when the last client of a removed    *)
(* file is gone, and then at most one holder is left.                      *)
(***************************************************************************)
CONSTANT Clients

VARIABLES holders, split

Init == holders = {} /\ split = FALSE

AtMostOne(H) == \A c, d \in H : c = d

Acquire(c) ==
  /\ c \notin holders
  /\ holders = {} \/ split
  /\ holders' = holders \union {c}
  /\ UNCHANGED split

\* The client leaves its critical section, on its own or because it died.
Release(c) ==
  /\ c \in holders
  /\ holders' = holders \ {c}
  /\ split' \in BOOLEAN
  /\ split' => split
  /\ split' \/ AtMostOne(holders')

\* The file is removed, or the last client of a removed file that does not hold it goes.
Resplit ==
  /\ split' \in BOOLEAN
  /\ split' \/ AtMostOne(holders)
  /\ UNCHANGED holders

Next == Resplit \/ \E c \in Clients : Acquire(c) \/ Release(c)

Spec == Init /\ [][Next]_<<holders, split>>
=============================================================================
