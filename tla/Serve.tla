------------------------------- MODULE Serve -------------------------------
(***************************************************************************)
(* ais_cli/serve.py, one `aisctl serve` process: a thread per request.     *)
(* Commands (POST /internal/v1/command) pass a semaphore and run an aisctl *)
(* subprocess under a deadline; state queries (GET .../engines-state)      *)
(* share a cache that is checked and filled in two critical sections, with *)
(* the collection between them unlocked.                                   *)
(*                                                                         *)
(* Authentication and argument checks refuse a request before any of this. *)
(***************************************************************************)
EXTENDS Naturals, FiniteSets

CONSTANTS
  Posts,           \* threads that handle commands
  Gets,            \* threads that handle state queries
  MaxConcurrent,   \* permits of the semaphore
  TTL,             \* ENGINES_STATE_CACHE_TTL
  MaxCollect,      \* how long collecting every engine's state may take
  MaxTime,         \* bound: the clock stops here
  NoTime           \* the cache is empty; no payload

ASSUME PostsFinite == IsFiniteSet(Posts)
ASSUME MaxConcurrentIsNat == MaxConcurrent \in Nat
ASSUME TimesAreNat == TTL \in Nat \ {0} /\ MaxCollect \in Nat /\ MaxTime \in Nat
ASSUME NoTimeIsNoNat == NoTime \notin Nat

VARIABLES
  permits,   \* the semaphore's counter
  post,      \* where each command is
  child,     \* whether its aisctl subprocess runs
  now,       \* time.monotonic()
  cache,     \* when the cached payload was collected, and when it was stored
  get,       \* where each query is
  began,     \* when its collection began
  reply      \* when the payload it answers with was collected

vars == <<permits, post, child, now, cache, get, began, reply>>

postVars == <<permits, post, child>>
getVars  == <<cache, get, began, reply>>

Times == 0..MaxTime

TypeOK ==
  /\ permits \in 0..MaxConcurrent
  /\ post \in [Posts -> {"idle", "acquiring", "spawning", "waiting", "releasing"}]
  /\ child \in [Posts -> BOOLEAN]
  /\ now \in Times
  /\ cache \in [collected : Times \union {NoTime}, stored : Times]
  /\ get \in [Gets -> {"idle", "collecting", "answered"}]
  /\ began \in [Gets -> Times]
  /\ reply \in [Gets -> Times \union {NoTime}]

Init ==
  /\ permits = MaxConcurrent
  /\ post = [t \in Posts |-> "idle"]
  /\ child = [t \in Posts |-> FALSE]
  /\ now = 0
  /\ cache = [collected |-> NoTime, stored |-> 0]
  /\ get = [t \in Gets |-> "idle"]
  /\ began = [t \in Gets |-> 0]
  /\ reply = [t \in Gets |-> NoTime]

-----------------------------------------------------------------------------
(* do_POST and _execute.                                                   *)

Move(t, to) == post' = [post EXCEPT ![t] = to]

\* A well-formed command reaches the semaphore.
Receive(t) ==
  /\ post[t] = "idle"
  /\ Move(t, "acquiring")
  /\ UNCHANGED <<permits, child, now, getVars>>

Acquire(t) ==
  /\ post[t] = "acquiring" /\ permits > 0
  /\ permits' = permits - 1
  /\ Move(t, "spawning")
  /\ UNCHANGED <<child, now, getVars>>

\* Mutant: the acquire is inside the try, so a 503 releases a permit it never had.
BusyReleasing(t) ==
  /\ post[t] = "acquiring" /\ permits = 0
  /\ permits' = permits + 1
  /\ Move(t, "idle")
  /\ UNCHANGED <<child, now, getVars>>

\* No permit within 50 ms: 503.
Busy(t) ==
  /\ post[t] = "acquiring" /\ permits = 0
  /\ Move(t, "idle")
  /\ UNCHANGED <<permits, child, now, getVars>>

Spawn(t) ==
  /\ post[t] = "spawning"
  /\ child' = [child EXCEPT ![t] = TRUE]
  /\ Move(t, "waiting")
  /\ UNCHANGED <<permits, now, getVars>>

\* Mutant: a missing binary returns past the finally.
SpawnFailsKeepingPermit(t) ==
  /\ post[t] = "spawning"
  /\ Move(t, "idle")
  /\ UNCHANGED <<permits, child, now, getVars>>

\* FileNotFoundError, or any other exception of subprocess.run.
SpawnFails(t) ==
  /\ post[t] = "spawning"
  /\ Move(t, "releasing")
  /\ UNCHANGED <<permits, child, now, getVars>>

ChildExits(t) ==
  /\ post[t] = "waiting" /\ child[t]
  /\ child' = [child EXCEPT ![t] = FALSE]
  /\ Move(t, "releasing")
  /\ UNCHANGED <<permits, now, getVars>>

\* Mutant: the deadline answers 124 and leaves the subprocess running.
DeadlineWithoutKill(t) ==
  /\ post[t] = "waiting" /\ child[t]
  /\ Move(t, "releasing")
  /\ UNCHANGED <<permits, child, now, getVars>>

\* Mutant: subprocess.run without a timeout.
NoDeadline(t) == FALSE /\ UNCHANGED vars

\* TimeoutExpired: subprocess.run has killed the child.
Deadline(t) ==
  /\ post[t] = "waiting" /\ child[t]
  /\ child' = [child EXCEPT ![t] = FALSE]
  /\ Move(t, "releasing")
  /\ UNCHANGED <<permits, now, getVars>>

\* The finally, then the reply.
Release(t) ==
  /\ post[t] = "releasing"
  /\ permits' = permits + 1
  /\ Move(t, "idle")
  /\ UNCHANGED <<child, now, getVars>>

-----------------------------------------------------------------------------
(* _engines_state_cached and _collect_engines_state.                       *)

\* Mutant: an entry is still served when its TTL is over.
FreshForTooLong == cache.collected # NoTime /\ now - cache.stored <= TTL

Fresh == cache.collected # NoTime /\ now - cache.stored < TTL

Answer(t, collected) ==
  /\ reply' = [reply EXCEPT ![t] = collected]
  /\ get' = [get EXCEPT ![t] = "answered"]

AnswerFromCache(t) ==
  /\ get[t] = "idle" /\ Fresh
  /\ Answer(t, cache.collected)
  /\ UNCHANGED <<postVars, now, cache, began>>

StartCollection(t) ==
  /\ get[t] = "idle" /\ ~Fresh
  /\ get' = [get EXCEPT ![t] = "collecting"]
  /\ began' = [began EXCEPT ![t] = now]
  /\ UNCHANGED <<postVars, now, cache, reply>>

\* The payload goes into the cache, stamped with the time of the store, whatever
\* another thread has stored meanwhile.
StoreAndAnswer(t) ==
  /\ get[t] = "collecting"
  /\ cache' = [collected |-> began[t], stored |-> now]
  /\ Answer(t, began[t])
  /\ UNCHANGED <<postVars, now, began>>

\* The collection raises: 500, and nothing is cached.
CollectionFails(t) ==
  /\ get[t] = "collecting"
  /\ get' = [get EXCEPT ![t] = "idle"]
  /\ UNCHANGED <<postVars, now, cache, began, reply>>

EndQuery(t) ==
  /\ get[t] = "answered"
  /\ get' = [get EXCEPT ![t] = "idle"]
  /\ reply' = [reply EXCEPT ![t] = NoTime]
  /\ UNCHANGED <<postVars, now, cache, began>>

\* A collection ends within MaxCollect, and an answer is sent at once.
Tick ==
  /\ now < MaxTime
  /\ \A t \in Gets : /\ get[t] # "answered"
                     /\ get[t] = "collecting" => now - began[t] < MaxCollect
  /\ now' = now + 1
  /\ UNCHANGED <<postVars, getVars>>

-----------------------------------------------------------------------------
\* What the server does by itself once a request has arrived.
PostStep(t) ==
  \/ Acquire(t)
  \/ Busy(t)
  \/ Spawn(t)
  \/ SpawnFails(t)
  \/ Deadline(t)
  \/ Release(t)

GetStep(t) ==
  \/ AnswerFromCache(t)
  \/ StartCollection(t)
  \/ StoreAndAnswer(t)
  \/ CollectionFails(t)
  \/ EndQuery(t)

Next ==
  \/ \E t \in Posts : Receive(t) \/ ChildExits(t) \/ PostStep(t)
  \/ \E t \in Gets : GetStep(t)
  \/ Tick

\* The deadline of subprocess.run passes; the subprocess need not end by itself.
Spec == Init /\ [][Next]_vars /\ \A t \in Posts : WF_vars(PostStep(t))

-----------------------------------------------------------------------------
(* Properties.                                                             *)

\* A permit is out exactly while a command is between its acquire and its finally: no
\* error path leaks one, or the server would answer 503 for ever, and no subprocess
\* outlives its permit ("a burst cannot fork arbitrary numbers of subprocesses").
PermitsAccounted ==
  /\ permits + Cardinality({t \in Posts : post[t] \in {"spawning", "waiting", "releasing"}})
       = MaxConcurrent
  /\ \A t \in Posts : child[t] => post[t] = "waiting"

\* Every command is answered, also when its subprocess hangs.
CommandsAnswered == \A t \in Posts : post[t] # "idle" ~> post[t] = "idle"

\* "answers are cached a few seconds": what a query is told was observed less than one
\* TTL and one collection before.
AnswersRecent ==
  \A t \in Gets : get[t] = "answered" => now - reply[t] < TTL + MaxCollect
=============================================================================
