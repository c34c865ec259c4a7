----------------------------- MODULE EngineSlot -----------------------------
(***************************************************************************)
(* What the lifecycle commands promise of an engine's place in launchd.    *)
(* A slot is a plist on disk, the job made from it, and the override; one  *)
(* client at a time changes plist and job.  An install publishes a plist   *)
(* and commits it as the job, or withdraws it; a removal withdraws what is *)
(* there.  Nobody looks whether a job really went: one that did not is a   *)
(* stray until it is taken down or the machine boots.  A machine that goes *)
(* down in between comes back with the plist as the job.  A slot that is   *)
(* lost, because somebody bypassed the lock on it, is promised nothing     *)
(* until the next boot repairs it.                                         *)
(***************************************************************************)
CONSTANTS
  Slots,
  Shared,    \* slots that something else may fill at boot instead
  Contents,  \* what a plist says
  Nothing,   \* no plist, no job
  Clients

VARIABLES
  paper,      \* the plist of each slot
  job,        \* what the job of each slot was made from
  up,         \* the slots whose job has a process
  forbidden,  \* the slots that may not be loaded
  installing, \* per slot, the clients that have published and not committed
  removing,   \* per slot, the clients that have taken the job down and not the plist
  stray,      \* the slots whose job outlived its taking down
  lost

vars == <<paper, job, up, forbidden, installing, removing, stray, lost>>

Init ==
  /\ paper = [s \in Slots |-> Nothing]
  /\ job = [s \in Slots |-> Nothing]
  /\ up = {}
  /\ forbidden = {}
  /\ installing = [s \in Slots |-> {}]
  /\ removing = [s \in Slots |-> {}]
  /\ stray = {}
  /\ lost = {}

\* Nobody is between the plist and the job of the slot.
Settled(s) == installing[s] = {} /\ removing[s] = {}

Publish(s, c, content) ==
  /\ Settled(s)
  /\ paper' = [paper EXCEPT ![s] = content]
  /\ installing' = [installing EXCEPT ![s] = {c}]
  /\ UNCHANGED <<job, up, forbidden, removing, stray, lost>>

Commit(s, c) ==
  /\ installing[s] = {c} /\ job[s] = Nothing /\ s \notin forbidden
  /\ job' = [job EXCEPT ![s] = paper[s]]
  /\ up' = up \union {s}
  /\ installing' = [installing EXCEPT ![s] = {}]
  /\ UNCHANGED <<paper, forbidden, removing, stray, lost>>

\* A removal, or an install that gives up.
TakeDown(s, c) ==
  /\ Settled(s) \/ installing[s] = {c}
  /\ job' = [job EXCEPT ![s] = Nothing]
  /\ up' = up \ {s}
  /\ installing' = [installing EXCEPT ![s] = {}]
  /\ removing' = [removing EXCEPT ![s] = {c}]
  /\ stray' = stray \ {s}
  /\ UNCHANGED <<paper, forbidden, lost>>

\* The job stays up, and the client goes on as if it had not.
StayUp(s, c) ==
  /\ Settled(s) \/ installing[s] = {c}
  /\ job[s] # Nothing
  /\ stray' = stray \union {s}
  /\ installing' = [installing EXCEPT ![s] = {}]
  /\ removing' = [removing EXCEPT ![s] = {c}]
  /\ UNCHANGED <<paper, job, up, forbidden, lost>>

Erase(s, c) ==
  /\ removing[s] = {c}
  /\ paper' = [paper EXCEPT ![s] = Nothing]
  /\ removing' = [removing EXCEPT ![s] = {}]
  /\ UNCHANGED <<job, up, forbidden, installing, stray, lost>>

\* The plist stays: the next boot makes a job of it again.
GiveUp(s, c) ==
  /\ removing[s] = {c}
  /\ removing' = [removing EXCEPT ![s] = {}]
  /\ UNCHANGED <<paper, job, up, forbidden, installing, stray, lost>>

\* Only a job has a process to start or to stop.
Start(s) ==
  /\ job[s] # Nothing
  /\ up' = up \union {s}
  /\ UNCHANGED <<paper, job, forbidden, installing, removing, stray, lost>>

Stop(s) ==
  /\ up' = up \ {s}
  /\ UNCHANGED <<paper, job, forbidden, installing, removing, stray, lost>>

SetOverride(s) ==
  /\ forbidden' \in {forbidden \union {s}, forbidden \ {s}}
  /\ UNCHANGED <<paper, job, up, installing, removing, stray, lost>>

Lose(s) ==
  /\ paper' = [paper EXCEPT ![s] = Nothing]
  /\ job' = [job EXCEPT ![s] = Nothing]
  /\ up' = up \ {s}
  /\ forbidden' = forbidden \ {s}
  /\ installing' = [installing EXCEPT ![s] = {}]
  /\ removing' = [removing EXCEPT ![s] = {}]
  /\ stray' = stray \ {s}
  /\ lost' = lost \union {s}

\* What a boot makes the job of a slot with a plist.
BootJobs(s, content, isForbidden) ==
  IF isForbidden THEN {Nothing}
  ELSE {content} \union (IF s \in Shared THEN {Nothing} ELSE {})

\* A lost slot comes back with whatever plist and override it has by then.
Boot ==
  /\ paper' \in [Slots -> Contents \union {Nothing}]
  /\ forbidden' \in SUBSET Slots
  /\ \A s \in Slots \ lost : paper'[s] = paper[s] /\ (s \in forbidden' <=> s \in forbidden)
  /\ job' \in [Slots -> Contents \union {Nothing}]
  /\ \A s \in Slots : job'[s] \in BootJobs(s, paper'[s], s \in forbidden')
  /\ up' = {s \in Slots : job'[s] # Nothing}
  /\ installing' = [s \in Slots |-> {}]
  /\ removing' = [s \in Slots |-> {}]
  /\ stray' = {}
  /\ lost' = {}

SlotStep(s) ==
  \/ SetOverride(s)
  \/ Start(s)
  \/ Stop(s)
  \/ Lose(s)
  \/ \E c \in Clients :
       \/ Commit(s, c)
       \/ TakeDown(s, c)
       \/ StayUp(s, c)
       \/ Erase(s, c)
       \/ GiveUp(s, c)
       \/ \E content \in Contents : Publish(s, c, content)

Next == (\E s \in Slots \ lost : SlotStep(s)) \/ Boot

Spec == Init /\ [][Next]_vars

\* Strays aside, what runs in a settled slot is what its plist says and so what runs
\* after the next boot, and a job is gone before its plist; only a job has a process.
Consistent ==
  \A s \in Slots :
    /\ Settled(s) /\ job[s] # Nothing /\ s \notin stray => job[s] = paper[s]
    /\ removing[s] # {} /\ s \notin stray => job[s] = Nothing
    /\ s \in up \union stray => job[s] # Nothing
=============================================================================
