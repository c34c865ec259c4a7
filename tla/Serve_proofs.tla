---------------------------- MODULE Serve_proofs ----------------------------
(***************************************************************************)
(* The invariants of Serve hold for any finite pool of request threads,    *)
(* any number of permits and any cache lifetime.                           *)
(*                                                                         *)
(* PostInv: a permit is out for each command past its acquire, and only a  *)
(* command that waits has a subprocess.  GetInv: how far the times that a  *)
(* query and the cache carry may lie apart.                                *)
(***************************************************************************)
EXTENDS Serve, FiniteSetTheorems, TLAPS

Held == {t \in Posts : post[t] \in {"spawning", "waiting", "releasing"}}

PostInv ==
  /\ permits \in 0..MaxConcurrent
  /\ post \in [Posts -> {"idle", "acquiring", "spawning", "waiting", "releasing"}]
  /\ child \in [Posts -> BOOLEAN]
  /\ permits + Cardinality(Held) = MaxConcurrent
  /\ \A t \in Posts : child[t] => post[t] = "waiting"

GetInv ==
  /\ now \in Times
  /\ cache \in [collected : Times \union {NoTime}, stored : Times]
  /\ get \in [Gets -> {"idle", "collecting", "answered"}]
  /\ began \in [Gets -> Times]
  /\ reply \in [Gets -> Times \union {NoTime}]
  /\ cache.stored <= now
  /\ cache.collected # NoTime =>
       cache.collected <= cache.stored /\ cache.stored - cache.collected <= MaxCollect
  /\ \A t \in Gets : get[t] = "collecting" => began[t] <= now /\ now - began[t] <= MaxCollect
  /\ \A t \in Gets : get[t] = "answered" =>
       reply[t] # NoTime /\ reply[t] <= now /\ now - reply[t] < TTL + MaxCollect

IInv == PostInv /\ GetInv

LEMMA InitInv == Init => IInv
<1> SUFFICES ASSUME Init PROVE IInv
  OBVIOUS
<1>1. Held = {}
  BY DEF Init, Held
<1>2. Cardinality(Held) = 0
  BY <1>1, FS_EmptySet
<1>3. PostInv
  BY <1>2, MaxConcurrentIsNat DEF Init, PostInv
<1>4. GetInv
  BY TimesAreNat DEF Init, GetInv, Times
<1> QED BY <1>3, <1>4 DEF IInv

LEMMA HeldFinite == IsFiniteSet(Held) /\ Cardinality(Held) \in Nat
  BY PostsFinite, FS_Subset, FS_CardinalityType DEF Held

-----------------------------------------------------------------------------
\* A command step keeps the permits accounted for.
LEMMA PostStepInv ==
  ASSUME PostInv, NEW t \in Posts, Receive(t) \/ ChildExits(t) \/ PostStep(t)
  PROVE  PostInv'
<1> USE HeldFinite, MaxConcurrentIsNat DEF PostInv, Move
<1>1. CASE Acquire(t)
  <2>1. t \notin Held /\ Held' = Held \union {t}
    BY <1>1 DEF Acquire, Held
  <2>2. Cardinality(Held') = Cardinality(Held) + 1
    BY <2>1, FS_AddElement
  <2> QED BY <1>1, <2>2 DEF Acquire
<1>2. CASE Release(t)
  <2>1. t \in Held /\ Held' = Held \ {t}
    BY <1>2 DEF Release, Held
  <2>2. Cardinality(Held') = Cardinality(Held) - 1
    BY <2>1, FS_RemoveElement
  <2>3. Cardinality(Held') \in Nat
    BY <2>1, FS_RemoveElement, FS_CardinalityType
  <2> QED BY <1>2, <2>2, <2>3 DEF Release
<1>3. CASE Receive(t) \/ ChildExits(t) \/ Busy(t) \/ Spawn(t) \/ SpawnFails(t) \/ Deadline(t)
  <2>1. Held' = Held
    BY <1>3 DEF Receive, ChildExits, Busy, Spawn, SpawnFails, Deadline, Held
  <2>2. Cardinality(Held') = Cardinality(Held)
    BY <2>1
  <2> QED
    BY <1>3, <2>2 DEF Receive, ChildExits, Busy, Spawn, SpawnFails, Deadline
<1> QED BY <1>1, <1>2, <1>3 DEF PostStep

\* A query step keeps the ages within their bounds.
LEMMA GetStepInv ==
  ASSUME GetInv, NEW t \in Gets, GetStep(t)
  PROVE  GetInv'
<1> USE TimesAreNat, NoTimeIsNoNat DEF GetInv, Times, postVars
<1>1. CASE AnswerFromCache(t)
  BY <1>1 DEF AnswerFromCache, Answer, Fresh
<1>2. CASE StartCollection(t)
  BY <1>2 DEF StartCollection
<1>3. CASE StoreAndAnswer(t)
  BY <1>3 DEF StoreAndAnswer, Answer
<1>4. CASE CollectionFails(t)
  BY <1>4 DEF CollectionFails
<1>5. CASE EndQuery(t)
  BY <1>5 DEF EndQuery
<1> QED BY <1>1, <1>2, <1>3, <1>4, <1>5 DEF GetStep

LEMMA TickInv == ASSUME GetInv, Tick PROVE GetInv'
  BY TimesAreNat, NoTimeIsNoNat DEF GetInv, Times, Tick, getVars

LEMMA NextInv == IInv /\ [Next]_vars => IInv'
<1> SUFFICES ASSUME IInv, [Next]_vars PROVE IInv'
  OBVIOUS
<1>1. UNCHANGED postVars => PostInv'
  BY DEF IInv, PostInv, Held, postVars
<1>2. UNCHANGED <<now, getVars>> => GetInv'
  BY DEF IInv, GetInv, getVars
<1>3. CASE \E t \in Posts : Receive(t) \/ ChildExits(t) \/ PostStep(t)
  <2>1. PostInv'
    BY <1>3, PostStepInv DEF IInv
  <2>2. UNCHANGED <<now, getVars>>
    BY <1>3 DEF PostStep, Receive, ChildExits, Acquire, Busy, Spawn, SpawnFails, Deadline,
                Release
  <2> QED BY <2>1, <2>2, <1>2 DEF IInv
<1>4. CASE \E t \in Gets : GetStep(t)
  <2>1. GetInv'
    BY <1>4, GetStepInv DEF IInv
  <2>2. UNCHANGED postVars
    BY <1>4 DEF GetStep, AnswerFromCache, StartCollection, StoreAndAnswer, CollectionFails,
                EndQuery
  <2> QED BY <2>1, <2>2, <1>1 DEF IInv
<1>5. CASE Tick
  BY <1>5, <1>1, TickInv DEF IInv, Tick
<1>6. CASE UNCHANGED vars
  BY <1>6, <1>1, <1>2 DEF vars, postVars, getVars, IInv
<1> QED BY <1>3, <1>4, <1>5, <1>6 DEF Next

LEMMA Invariance == Spec => []IInv
  BY InitInv, NextInv, PTL DEF Spec

-----------------------------------------------------------------------------
\* Every variable keeps its type; the semaphore never counts above its permits.
THEOREM TypeCorrect == Spec => []TypeOK
<1>1. IInv => TypeOK
  BY DEF IInv, PostInv, GetInv, TypeOK
<1> QED BY <1>1, Invariance, PTL

\* do_POST loses no permit on any path, and gives none back that it did not take.
THEOREM PermitsCorrect == Spec => []PermitsAccounted
<1>1. IInv => PermitsAccounted
  BY DEF IInv, PostInv, Held, PermitsAccounted
<1> QED BY <1>1, Invariance, PTL

\* There are never more subprocesses than permits (serve.py:32-36).
BurstBounded == Cardinality({t \in Posts : child[t]}) <= MaxConcurrent

\* However many commands arrive, hang or fail, the semaphore bounds the subprocesses.
THEOREM BurstCorrect == Spec => []BurstBounded
<1>1. IInv => BurstBounded
  <2> SUFFICES ASSUME IInv PROVE BurstBounded
    OBVIOUS
  <2>1. {t \in Posts : child[t]} \in SUBSET Held
    BY DEF IInv, PostInv, Held
  <2>2. Cardinality({t \in Posts : child[t]}) <= Cardinality(Held)
    BY <2>1, HeldFinite, FS_Subset
  <2>3. Cardinality({t \in Posts : child[t]}) \in Nat
    BY <2>1, HeldFinite, FS_Subset, FS_CardinalityType
  <2> QED BY <2>2, <2>3, HeldFinite, MaxConcurrentIsNat DEF IInv, PostInv, BurstBounded
<1> QED BY <1>1, Invariance, PTL

\* An answer, cached or not, is younger than one TTL and one collection.
THEOREM AgeBounded == Spec => []AnswersRecent
<1>1. IInv => AnswersRecent
  BY DEF IInv, GetInv, AnswersRecent
<1> QED BY <1>1, Invariance, PTL
=============================================================================
