--------------------------- MODULE Health_proofs ----------------------------
(***************************************************************************)
(* Proofs about Health for every timeout and delay.  The facts a client    *)
(* collects are true of the host as long as it keeps them (FactsTrue);     *)
(* each property then follows from an invariant that says which program    *)
(* counters a call cannot reach while the facts it speaks of hold.         *)
(***************************************************************************)
EXTENDS Health, Integers, TLAPS

LEMMA Times ==
  /\ Timeout \in Nat /\ FirstDelay \in Nat /\ CapDelay \in Nat /\ ProbeTimeout \in Nat
  /\ GenFloor \in Nat /\ GenCap \in Nat /\ DeepTimeout \in Nat
  /\ Reads \in Nat /\ Reads >= 1
  BY TimesAreNat, RequestsEnd

LEMMA OutcomeNames ==
  /\ "none" \in Outcomes /\ "healthy" \in Outcomes /\ "gave up" \in Outcomes
  /\ "RUNNING" \in Outcomes /\ "DEGRADED" \in Outcomes /\ "UNHEALTHY" \in Outcomes
  /\ "NOT_INSTALLED" \in Outcomes /\ "AVAILABLE" \in Outcomes
  /\ "LOADED_NOT_RUNNING" \in Outcomes /\ "DISABLED" \in Outcomes /\ "STOPPED" \in Outcomes
  /\ "raised" \in Outcomes
  BY DEF Outcomes

LEMMA PhaseNames ==
  /\ "idle" \in Phases /\ "health" \in Phases /\ "alive" \in Phases /\ "pgrep" \in Phases
  /\ "lsof" \in Phases /\ "gen" \in Phases /\ "backoff" \in Phases /\ "sleep" \in Phases
  /\ "paper" \in Phases /\ "drill" \in Phases /\ "done" \in Phases
  BY DEF Phases

LEMMA HostTyped == HostOK /\ [Next]_vars => HostOK'
<1> SUFFICES ASSUME HostOK, [Next]_vars PROVE HostOK'
  OBVIOUS
<1> USE DEF HostOK, Owns, Others, Siblings, Bound
<1>1. CASE OwnStep /\ UNCHANGED sighted
  BY <1>1 DEF OwnStep
<1>2. CASE OtherStep /\ UNCHANGED sighted
  BY <1>2 DEF OtherStep
<1>3. CASE BackgroundStep /\ UNCHANGED sighted
  BY <1>3 DEF BackgroundStep
<1>4. CASE UNCHANGED world
  BY <1>4 DEF world
<1>5. CASE Start \/ BadAnswer \/ Client
  BY <1>4, <1>5 DEF request, Start, Client, BadAnswer, ReadMore, ProbeHealth, AskAlive,
     AskPort, AskListener, ProbeGeneration, Backoff, Wake, AskPaper, DrillDown, Return, Tick
<1>6. CASE UNCHANGED vars
  BY <1>6 DEF vars
<1> QED
  BY <1>1, <1>2, <1>3, <1>5, <1>6 DEF Next, Host

\* The steps that end a call, trust the answer or do not, within a call of one kind.
LEMMA FinishTyped ==
  ASSUME ClientOK, pc # "idle", NEW a \in Outcomes, Finish(a),
         UNCHANGED <<op, deep, now>>, since' \subseteq Facts,
         suspects' \subseteq {"named", "bystander", "gone"}
  PROVE  ClientOK'
  BY Times, PhaseNames DEF Finish, NoRequest, ClientOK

LEMMA TrustTyped ==
  ASSUME ClientOK, pc # "idle", Trust, UNCHANGED <<op, deep, now>>, since' \subseteq Facts,
         suspects' \subseteq {"named", "bystander", "gone"}
  PROVE  ClientOK'
<1>1. CASE deep
  <2>1. GenBudget \in Nat
    BY Times DEF GenBudget, Lesser, Greater, ClientOK
  <2> QED
    BY <1>1, <2>1, Times, PhaseNames DEF Trust, Request, ClientOK
<1>2. CASE ~deep
  <2>1. PICK a \in Outcomes : Finish(a)
    BY <1>2, OutcomeNames DEF Trust
  <2> QED
    BY <2>1, FinishTyped
<1> QED
  BY <1>1, <1>2 DEF ClientOK

LEMMA DistrustTyped ==
  ASSUME ClientOK, pc # "idle", Distrust, UNCHANGED <<op, deep, suspects, now, since>>
  PROVE  ClientOK'
  BY Times, PhaseNames DEF Distrust, NoRequest, Waiting, ClientOK

LEMMA ClientTyped == ClientOK /\ [Next]_vars => ClientOK'
<1> SUFFICES ASSUME ClientOK, [Next]_vars PROVE ClientOK'
  OBVIOUS
<1>1. CASE Host
  BY <1>1 DEF Host, request, ClientOK
<1>2. CASE Start
  BY <1>2, Times, PhaseNames DEF Start, Request, NoRequest, ClientOK
<1>3. CASE ProbeHealth
  <2>1. CASE Distrust
    BY <1>3, <2>1, DistrustTyped DEF ProbeHealth
  <2>2. CASE pc' = "alive" /\ NoRequest /\ UNCHANGED <<delay, answer>>
    BY <1>3, <2>2, Times, PhaseNames DEF ProbeHealth, NoRequest, ClientOK
  <2> QED
    BY <1>3, <2>1, <2>2 DEF ProbeHealth
<1>4. CASE AskAlive
  <2>1. CASE Trust
    BY <1>4, <2>1, TrustTyped DEF AskAlive, ClientOK
  <2>2. CASE pc' = "pgrep" /\ UNCHANGED <<request, delay, answer>>
    BY <1>4, <2>2, PhaseNames DEF AskAlive, request, ClientOK
  <2> QED
    BY <1>4, <2>1, <2>2 DEF AskAlive
<1>5. CASE AskPort
  <2>1. suspects' \subseteq {"named", "bystander", "gone"}
    BY <1>5 DEF AskPort, Named
  <2>2. CASE Trust
    BY <1>5, <2>1, <2>2, TrustTyped DEF AskPort, ClientOK
  <2>3. CASE pc' = "lsof" /\ UNCHANGED <<request, delay, answer>>
    BY <1>5, <2>1, <2>3, PhaseNames DEF AskPort, request, ClientOK
  <2> QED
    BY <1>5, <2>2, <2>3 DEF AskPort
<1>6. CASE AskListener
  <2>1. CASE Trust
    BY <1>6, <2>1, TrustTyped DEF AskListener, ClientOK
  <2>2. CASE Distrust
    BY <1>6, <2>2, DistrustTyped DEF AskListener
  <2> QED
    BY <1>6, <2>1, <2>2 DEF AskListener
<1>7. CASE ProbeGeneration
  <2> SUFFICES ASSUME NEW v, Conclude(v) PROVE ClientOK'
    BY <1>7 DEF ProbeGeneration
  <2>1. CASE Distrust
    BY <1>7, <2>1, DistrustTyped DEF ProbeGeneration
  <2>2. ASSUME NEW a \in Outcomes, Finish(a) PROVE ClientOK'
    BY <1>7, <2>2, FinishTyped DEF ProbeGeneration, ClientOK
  <2> QED
    BY <2>1, <2>2, OutcomeNames DEF Conclude
<1>8. CASE Backoff
  <2>1. CASE Finish("gave up")
    BY <1>8, <2>1, FinishTyped, OutcomeNames DEF Backoff, ClientOK
  <2>2. CASE pc' = "sleep" /\ now < Timeout
    BY <1>8, <2>2, Times, PhaseNames DEF Backoff, Finish, Lesser, ClientOK
  <2> QED
    BY <1>8, <2>1, <2>2 DEF Backoff
<1>9. CASE Wake
  <2>1. CASE Finish("gave up")
    BY <1>9, <2>1, FinishTyped, OutcomeNames DEF Wake, ClientOK
  <2>2. CASE pc' = "health" /\ Request(ProbeTimeout) /\ UNCHANGED <<delay, answer>>
    <3>1. UNCHANGED <<op, deep, suspects, now, since>> /\ pc = "sleep"
      BY <1>9 DEF Wake
    <3> QED
      BY <2>2, <3>1, Times, PhaseNames DEF Request, ClientOK
  <2> QED
    BY <1>9, <2>1, <2>2 DEF Wake
<1>10. CASE AskPaper
  <2>1. ASSUME NEW a \in Outcomes, Finish(a) PROVE ClientOK'
    BY <1>10, <2>1, FinishTyped DEF AskPaper, ClientOK
  <2>2. CASE pc' = "drill" /\ UNCHANGED <<request, delay, answer>>
    BY <1>10, <2>2, PhaseNames DEF AskPaper, request, ClientOK
  <2> QED
    BY <1>10, <2>1, <2>2, OutcomeNames DEF AskPaper
<1>11. CASE DrillDown
  <2>1. ASSUME NEW a \in Outcomes, Finish(a) PROVE ClientOK'
    BY <1>11, <2>1, FinishTyped DEF DrillDown, ClientOK
  <2> QED
    BY <1>11, <2>1, OutcomeNames DEF DrillDown
<1>12. CASE Return
  <2>1. /\ pc' = "idle" /\ op' = "none" /\ deep' \in BOOLEAN /\ suspects' = {}
        /\ now' = 0 /\ left' = 0 /\ reads' = 0 /\ budget' = 0 /\ delay' = FirstDelay
        /\ answer' = "none" /\ since' = {}
    BY <1>12 DEF Return, NoRequest
  <2>2. 0 \in 0..Reads /\ ~(0 > 0)
    BY Times
  <2> QED
    BY <2>1, <2>2, Times, PhaseNames, OutcomeNames DEF ClientOK
<1>13. CASE Tick
  BY <1>13 DEF Tick, ClientOK
<1>14. CASE UNCHANGED vars
  BY <1>14 DEF vars, ClientOK
<1>15. CASE BadAnswer
  BY <1>15, FinishTyped, OutcomeNames DEF BadAnswer, ClientOK
<1>16. CASE ReadMore
  BY <1>16, Times DEF ReadMore, ClientOK
<1> QED
  BY <1>1, <1>2, <1>3, <1>4, <1>5, <1>6, <1>7, <1>8, <1>9, <1>10, <1>11, <1>12, <1>13,
     <1>14, <1>15, <1>16 DEF Next, Client

(* The types, one listener on the port, and which phases belong to which call *)
(* (lifecycle.py:537-922).                                                    *)
THEOREM TypeCorrect == Spec => []TypeOK
<1>1. ASSUME Init PROVE TypeOK
  <2>1. HostOK
    BY <1>1 DEF Init, HostOK, Owns, Others, Siblings, Bound
  <2>2. ClientOK
    <3>1. 0 \in 0..Reads /\ ~(0 > 0)
      BY Times
    <3> QED
      BY <1>1, <3>1, Times, OutcomeNames, PhaseNames DEF Init, ClientOK
  <2> QED
    BY <2>1, <2>2 DEF TypeOK
<1>2. TypeOK /\ [Next]_vars => TypeOK'
  BY HostTyped, ClientTyped DEF TypeOK
<1> QED
  BY <1>1, <1>2, PTL DEF Spec

-----------------------------------------------------------------------------
(* What a call has learned.                                                *)

\* The facts kept in since are true of the host, and only a call in progress has any.
FactsTrue ==
  /\ \A f \in since : Holds(f)
  /\ pc = "idle" => since = {}
  /\ pc = "done" <=> answer # "none"

\* A step of the client reads the host and leaves it alone.
LEMMA ClientReads ==
  ASSUME Client \/ BadAnswer
  PROVE  UNCHANGED world /\ since' \subseteq since
BY DEF Client, BadAnswer, ReadMore, ProbeHealth, AskAlive, AskPort, AskListener,
   ProbeGeneration, Backoff, Wake, AskPaper, DrillDown, Return, Tick

\* The steps of a call are those of the client, one at a time.
LEMMA HoldsOfWorld ==
  ASSUME UNCHANGED world, NEW f PROVE Holds(f)' = Holds(f)
BY DEF world, Holds

LEMMA EveryStep ==
  ASSUME [Next]_vars
  PROVE  Host \/ Start \/ Client \/ BadAnswer \/ UNCHANGED vars
BY DEF Next

LEMMA FactsStep == ClientOK /\ FactsTrue /\ [Next]_vars => FactsTrue'
<1> SUFFICES ASSUME ClientOK, FactsTrue, [Next]_vars PROVE FactsTrue'
  OBVIOUS
<1>1. (\A f \in since : Holds(f))'
  <2>1. CASE Host
    BY <2>1 DEF Host
  <2>2. CASE Start
    <3>1. UNCHANGED world /\ \A f \in since' : Holds(f)
      BY <2>2 DEF Start
    <3> QED
      BY <3>1, HoldsOfWorld
  <2>3. CASE Client \/ BadAnswer
    BY <2>3, ClientReads, HoldsOfWorld DEF FactsTrue
  <2>4. CASE UNCHANGED vars
    <3>1. UNCHANGED world /\ UNCHANGED since
      BY <2>4 DEF vars, world
    <3> QED
      BY <3>1, HoldsOfWorld DEF FactsTrue
  <2> QED
    BY <2>1, <2>2, <2>3, <2>4, EveryStep
<1>2. (pc = "idle" => since = {})'
  BY DEF FactsTrue, Next, Host, Start, Client, BadAnswer, ReadMore, ProbeHealth,
     AskAlive, AskPort, AskListener, ProbeGeneration, Backoff, Wake, AskPaper, DrillDown,
     Return, Tick, Trust, Distrust, Finish, Conclude, NoRequest, vars
<1>3. (pc = "done" <=> answer # "none")'
  BY DEF FactsTrue, Next, Host, Start, Client, BadAnswer, ReadMore, ProbeHealth,
     AskAlive, AskPort, AskListener, ProbeGeneration, Backoff, Wake, AskPaper, DrillDown,
     Return, Tick, Trust, Distrust, Finish, Conclude, NoRequest, vars
<1> QED
  BY <1>1, <1>2, <1>3 DEF FactsTrue

LEMMA FactsCorrect == Spec => [](TypeOK /\ FactsTrue)
<1>1. Init => FactsTrue
  BY DEF Init, FactsTrue
<1>2. TypeOK /\ FactsTrue /\ [Next]_vars => FactsTrue'
  BY FactsStep DEF TypeOK
<1> QED
  BY <1>1, <1>2, TypeCorrect, PTL DEF Spec

-----------------------------------------------------------------------------
(* The standby of a shared port.                                           *)

Standby == {"absent", "unmasked", "pinned", "staying", "pgrep"} \subseteq since

Blame == {"healthy", "RUNNING", "DEGRADED", "UNHEALTHY"}

\* Once the port has answered, the neighbour is there; once pgrep has looked, it is found.
StandbyInv ==
  Standby
    => /\ pc # "gen" /\ answer \notin Blame
       /\ pc \in {"alive", "pgrep", "lsof"} => other = "named"
       /\ pc = "lsof" => "named" \in suspects

LEMMA StandbyHost ==
  ASSUME FactsTrue, Standby
  PROVE  own = "none" /\ other \notin {"opaque", "twin"} /\ sibling # "portless"
BY DEF Standby, FactsTrue, Holds

LEMMA StandbyReadings ==
  ASSUME TypeOK, FactsTrue, Standby
  PROVE  /\ ~ProcessAlive
         /\ Answers => other = "named"
         /\ other = "named" => "named" \in Named
         /\ other = "named" /\ "named" \in suspects => Squatter
BY StandbyHost DEF TypeOK, HostOK, Others, ProcessAlive, Answers, Named, Squatter

LEMMA StandbyStep ==
  TypeOK /\ FactsTrue /\ StandbyInv /\ [Next]_vars => StandbyInv'
<1> SUFFICES ASSUME TypeOK, FactsTrue, StandbyInv, [Next]_vars, Standby'
             PROVE  /\ pc' # "gen" /\ answer' \notin Blame
                    /\ pc' \in {"alive", "pgrep", "lsof"} => other' = "named"
                    /\ pc' = "lsof" => "named" \in suspects'
  BY DEF StandbyInv
<1>1. CASE Host
  <2>1. Standby /\ "staying" \in since'
    BY <1>1 DEF Host, Standby
  <2>2. ~Left
    BY <1>1, <2>1 DEF Host
  <2> QED
    BY <1>1, <2>1, <2>2 DEF Host, Left, StandbyInv
<1>2. CASE Start
  BY <1>2 DEF Start, FactsTrue, Blame
<1>3. CASE Client \/ BadAnswer
  <2>1. UNCHANGED <<own, other, sibling, bystander, sighted>> /\ Standby
    BY <1>3, ClientReads DEF world, Standby
  <2>2. ~ProcessAlive
    BY <2>1, StandbyReadings
  <2>3. CASE ProbeHealth
    BY <2>1, <2>3, StandbyReadings DEF ProbeHealth, Distrust, StandbyInv
  <2>4. CASE AskAlive
    BY <2>1, <2>2, <2>4 DEF AskAlive, StandbyInv
  <2>5. CASE AskPort
    <3>1. "named" \in Named
      BY <2>1, <2>5, StandbyReadings DEF AskPort, StandbyInv
    <3>2. suspects' = Named
      BY <2>5 DEF AskPort, Standby
    <3> QED
      BY <2>1, <2>5, <3>1, <3>2 DEF AskPort, StandbyInv
  <2>6. CASE AskListener
    <3>1. Squatter
      BY <2>1, <2>6, StandbyReadings DEF AskListener, StandbyInv
    <3> QED
      BY <2>1, <2>6, <3>1 DEF AskListener, Distrust, StandbyInv
  <2>7. CASE ProbeGeneration
    BY <2>1, <2>7 DEF ProbeGeneration, StandbyInv
  <2>8. CASE DrillDown
    BY <2>1, <2>2, <2>8 DEF DrillDown, Finish, Blame
  <2>9. CASE BadAnswer \/ ReadMore \/ Backoff \/ Wake \/ AskPaper \/ Return \/ Tick
    BY <2>1, <2>9 DEF BadAnswer, ReadMore, Backoff, Wake, AskPaper, Return, Tick,
       Finish, StandbyInv, Blame
  <2> QED
    BY <1>3, <2>3, <2>4, <2>5, <2>6, <2>7, <2>8, <2>9 DEF Client
<1>4. CASE UNCHANGED vars
  BY <1>4 DEF vars, Standby, StandbyInv
<1> QED
  BY <1>1, <1>2, <1>3, <1>4, EveryStep

(* The standby of a shared port is neither blamed nor trusted for its neighbour, *)
(* which is never asked to generate (lifecycle.py:559-563, 720-725, 886-890).    *)
THEOREM StandbyNotBlamedCorrect == Spec => []StandbyNotBlamed
<1>1. Init => StandbyInv
  BY DEF Init, StandbyInv, Standby
<1>2. StandbyInv => StandbyNotBlamed
  BY DEF StandbyInv, Standby, StandbyNotBlamed, Blame
<1> QED
  BY <1>1, <1>2, StandbyStep, FactsCorrect, PTL DEF Spec

-----------------------------------------------------------------------------
(* An engine that serves, and one that lost its backend.                   *)

\* The port of a live process is searched only after a pgrep that failed; a bystander is
\* then all there is to suspect, and it is asked about only where lsof sees who listens.
LooksClear ==
  /\ pc = "pgrep" => "pgrep" \notin since
  /\ pc = "lsof" => sighted

\* A call that asks for no generation never leaves the way that ends in trust.
OwnTrusted ==
  "serving" \in since /\ Evident /\ ~deep /\ (Timeout > 0 \/ op = "probe")
    => /\ pc \in {"health", "alive", "pgrep", "lsof"} \/ answer \in {"healthy", "RUNNING"}
       /\ LooksClear

OpaqueTrusted ==
  "opaque" \in since /\ (sighted \/ "quiet" \in since) /\ ~deep
  /\ (Timeout > 0 \/ op = "probe")
    => /\ pc \in {"health", "alive", "pgrep", "lsof"} \/ answer \in {"healthy", "RUNNING"}
       /\ pc = "lsof" => sighted /\ "named" \notin suspects

LEMMA ServingHost ==
  ASSUME FactsTrue, "serving" \in since PROVE own = "serving"
BY DEF FactsTrue, Holds

LEMMA ZombieHost ==
  ASSUME FactsTrue, "zombie" \in since PROVE own = "zombie"
BY DEF FactsTrue, Holds

LEMMA OpaqueHost ==
  ASSUME FactsTrue
  PROVE  /\ "opaque" \in since => other = "opaque"
         /\ "quiet" \in since => ~bystander
BY DEF FactsTrue, Holds

LEMMA OwnTrustedStep ==
  TypeOK /\ FactsTrue /\ OwnTrusted /\ [Next]_vars => OwnTrusted'
<1> SUFFICES ASSUME TypeOK, FactsTrue, OwnTrusted, [Next]_vars,
                    "serving" \in since', Evident', ~deep', Timeout > 0 \/ op' = "probe"
             PROVE  /\ \/ pc' \in {"health", "alive", "pgrep", "lsof"}
                       \/ answer' \in {"healthy", "RUNNING"}
                    /\ LooksClear'
  BY DEF OwnTrusted
<1>1. CASE Host
  BY <1>1 DEF Host, OwnTrusted, Evident, LooksClear
<1>2. CASE Start
  BY <1>2 DEF Start, LooksClear
<1>3. CASE Client \/ BadAnswer
  <2>1. /\ "serving" \in since /\ UNCHANGED <<op, deep, sighted>> /\ since' \subseteq since
        /\ Evident
    BY <1>3, ClientReads DEF Client, BadAnswer, ReadMore, ProbeHealth, AskAlive, AskPort,
       AskListener, ProbeGeneration, Backoff, Wake, AskPaper, DrillDown, Return, Tick, world,
       Evident
  <2>2. /\ pc \in {"health", "alive", "pgrep", "lsof"} \/ answer \in {"healthy", "RUNNING"}
        /\ LooksClear
    BY <2>1 DEF OwnTrusted
  <2>3. Answers /\ ProcessAlive /\ own = "serving" /\ other = "none"
    BY <2>1, ServingHost DEF Answers, ProcessAlive, TypeOK, HostOK, Bound
  <2>4. answer \in {"healthy", "RUNNING"} => pc = "done"
    BY DEF FactsTrue
  <2>5. CASE BadAnswer \/ ReadMore \/ ProbeHealth
    BY <2>1, <2>2, <2>3, <2>5 DEF BadAnswer, ReadMore, ProbeHealth, Bound, LooksClear
  <2>6. CASE AskAlive
    BY <2>1, <2>3, <2>6 DEF AskAlive, Trust, Finish, LooksClear, Evident
  <2>7. CASE AskPort
    <3>1. "quiet" \in since => Named = {}
      BY <2>3 DEF FactsTrue, Holds, Named
    <3>2. sighted \/ Named = {}
      BY <2>1, <2>2, <2>7, <3>1 DEF AskPort, Evident, LooksClear
    <3> QED
      BY <2>1, <2>7, <3>2 DEF AskPort, Trust, Finish, LooksClear
  <2>8. CASE AskListener
    <3>1. ~Squatter
      BY <2>2, <2>3, <2>8 DEF AskListener, Squatter, Bound, LooksClear
    <3> QED
      BY <2>1, <2>8, <3>1 DEF AskListener, Trust, Finish, LooksClear
  <2>9. CASE ProbeGeneration \/ Backoff \/ Wake \/ AskPaper \/ DrillDown \/ Return \/ Tick
    BY <1>3, <2>1, <2>2, <2>4, <2>9 DEF ProbeGeneration, Backoff, Wake, AskPaper, DrillDown,
       Return, Tick, LooksClear
  <2> QED
    BY <1>3, <2>5, <2>6, <2>7, <2>8, <2>9 DEF Client
<1>4. CASE UNCHANGED vars
  BY <1>4 DEF vars, OwnTrusted, Evident, LooksClear
<1> QED
  BY <1>1, <1>2, <1>3, <1>4, EveryStep

LEMMA OpaqueTrustedStep ==
  TypeOK /\ FactsTrue /\ OpaqueTrusted /\ [Next]_vars => OpaqueTrusted'
<1> SUFFICES ASSUME TypeOK, FactsTrue, OpaqueTrusted, [Next]_vars,
                    "opaque" \in since', sighted' \/ "quiet" \in since', ~deep',
                    Timeout > 0 \/ op' = "probe"
             PROVE  /\ \/ pc' \in {"health", "alive", "pgrep", "lsof"}
                       \/ answer' \in {"healthy", "RUNNING"}
                    /\ pc' = "lsof" => sighted' /\ "named" \notin suspects'
  BY DEF OpaqueTrusted
<1>1. CASE Host
  BY <1>1 DEF Host, OpaqueTrusted
<1>2. CASE Start
  BY <1>2 DEF Start
<1>3. CASE Client \/ BadAnswer
  <2>1. /\ UNCHANGED <<op, deep, sighted>> /\ since' \subseteq since
        /\ "opaque" \in since /\ (sighted \/ "quiet" \in since)
    BY <1>3, ClientReads DEF Client, BadAnswer, ReadMore, ProbeHealth, AskAlive,
       AskPort, AskListener, ProbeGeneration, Backoff, Wake, AskPaper, DrillDown, Return,
       Tick, world
  <2>2. /\ pc \in {"health", "alive", "pgrep", "lsof"} \/ answer \in {"healthy", "RUNNING"}
        /\ pc = "lsof" => sighted /\ "named" \notin suspects
    BY <2>1 DEF OpaqueTrusted
  <2>3. Answers /\ other = "opaque"
    BY <2>1, OpaqueHost DEF Answers
  <2>4. answer \in {"healthy", "RUNNING"} => pc = "done"
    BY DEF FactsTrue
  <2>5. "named" \notin Named /\ (Named # {} => sighted)
    BY <2>1, <2>3, OpaqueHost DEF Named
  <2>6. pc = "lsof" => ~Squatter
    BY <2>2, <2>3 DEF Squatter
  <2>7. CASE BadAnswer \/ ReadMore \/ ProbeHealth \/ AskAlive
    <3>1. ~Bound
      BY <2>3 DEF TypeOK, HostOK
    <3> QED
      BY <2>1, <2>2, <2>3, <2>4, <2>7, <3>1 DEF BadAnswer, ReadMore, Bound, ProbeHealth,
         AskAlive, Trust, Finish
  <2>8. CASE AskPort
    BY <2>1, <2>5, <2>8 DEF AskPort, Trust, Finish
  <2>9. CASE AskListener
    BY <2>1, <2>6, <2>9 DEF AskListener, Trust, Finish
  <2>10. CASE ProbeGeneration \/ Backoff \/ Wake \/ AskPaper \/ DrillDown \/ Return \/ Tick
    BY <2>2, <2>4, <2>10, <2>1, <1>3 DEF ProbeGeneration, Backoff, Wake, AskPaper, DrillDown,
       Return, Tick
  <2> QED
    BY <1>3, <2>7, <2>8, <2>9, <2>10 DEF Client
<1>4. CASE UNCHANGED vars
  BY <1>4 DEF vars, OpaqueTrusted
<1> QED
  BY <1>1, <1>2, <1>3, <1>4, EveryStep

(* An engine that serves, and a server that says nothing of itself, are never   *)
(* demoted for want of proof (lifecycle.py:741-788).                            *)
THEOREM ServingKeptCorrect == Spec => []ServingKept
<1>1. Init => OwnTrusted /\ OpaqueTrusted
  BY DEF Init, OwnTrusted, OpaqueTrusted
<1>2. OwnTrusted /\ OpaqueTrusted => ServingKept
  BY DEF OwnTrusted, OpaqueTrusted, ServingKept
<1> QED
  BY <1>1, <1>2, OwnTrustedStep, OpaqueTrustedStep, FactsCorrect, PTL DEF Spec

Judged == {"none", "gave up", "DEGRADED"}

\* A call that asks for a generation from an engine without a backend reaches the probe.
ZombieInv ==
  deep
    => /\ "zombie" \in since /\ Evident
            => pc \notin {"paper", "drill"} /\ LooksClear /\ answer \in Judged
       /\ "serving" \in since => answer # "DEGRADED"

\* The generation of a zombie ends with its verdict.
LEMMA ZombieProbed ==
  ASSUME TypeOK, own = "zombie", ProbeGeneration, answer \in Judged
  PROVE  pc' \in {"backoff", "done"} /\ answer' \in Judged
<1>1. other = "none" /\ Verdicts = {"ZOMBIE"}
  BY DEF TypeOK, HostOK, Bound, Verdicts
<1>2. Conclude("ZOMBIE")
  BY <1>1 DEF ProbeGeneration
<1>3. CASE Waiting
  BY <1>2, <1>3 DEF Conclude, Distrust
<1>4. CASE ~Waiting
  BY <1>2, <1>4 DEF Conclude, Finish, Judged
<1> QED
  BY <1>3, <1>4

\* The generation of an engine that serves does not end with that of a zombie.
LEMMA ServingProbed ==
  ASSUME TypeOK, own = "serving", ProbeGeneration, answer # "DEGRADED"
  PROVE  answer' # "DEGRADED"
<1>1. Verdicts = {"OK", "UNSUPPORTED", "ERROR"}
  BY DEF TypeOK, HostOK, Bound, Verdicts
<1>2. PICK v \in {"OK", "UNSUPPORTED", "ERROR", "BUSY"} : Conclude(v)
  <2>1. CASE \E v \in Verdicts : Conclude(v)
    BY <1>1, <2>1
  <2>2. CASE Conclude("BUSY")
    BY <2>2
  <2> QED
    BY <2>1, <2>2 DEF ProbeGeneration
<1>3. CASE Waiting
  BY <1>2, <1>3 DEF Conclude, Distrust, Finish
<1>4. CASE ~Waiting
  BY <1>2, <1>4 DEF Conclude, Finish
<1> QED
  BY <1>3, <1>4

LEMMA ZombieStep ==
  TypeOK /\ FactsTrue /\ ZombieInv /\ [Next]_vars => ZombieInv'
<1> SUFFICES ASSUME TypeOK, FactsTrue, ZombieInv, [Next]_vars PROVE ZombieInv'
  OBVIOUS
<1>1. CASE Host
  BY <1>1 DEF Host, ZombieInv, Evident, LooksClear
<1>2. CASE Start
  BY <1>2 DEF Start, FactsTrue, ZombieInv, LooksClear, Judged
<1>3. CASE Return
  BY <1>3 DEF Return, ZombieInv
<1>4. CASE (Client /\ ~Return) \/ BadAnswer
  <2>1. UNCHANGED <<op, deep, sighted>> /\ since' \subseteq since
    BY <1>4, ClientReads DEF Client, BadAnswer, ReadMore, ProbeHealth, AskAlive, AskPort,
       AskListener, ProbeGeneration, Backoff, Wake, AskPaper, DrillDown, Tick, world
  <2>2. ASSUME deep, "zombie" \in since', Evident'
        PROVE  pc' \notin {"paper", "drill"} /\ LooksClear' /\ answer' \in Judged
    <3>1. own = "zombie" /\ other = "none"
      BY <2>1, <2>2, ZombieHost DEF TypeOK, HostOK, Bound
    <3>2. Answers /\ ProcessAlive /\ Bound
      BY <3>1 DEF Answers, ProcessAlive, Bound
    <3>3. /\ pc \notin {"paper", "drill"} /\ LooksClear /\ answer \in Judged
          /\ "zombie" \in since
      BY <2>1, <2>2 DEF ZombieInv, Evident
    <3>4. CASE BadAnswer \/ ReadMore \/ ProbeHealth
      BY <3>1, <3>2, <3>3, <3>4, <2>1 DEF BadAnswer, ReadMore, ProbeHealth, LooksClear
    <3>5. CASE AskAlive
      BY <2>1, <2>2, <3>2, <3>3, <3>5 DEF AskAlive, Trust, LooksClear, Evident
    <3>6. CASE AskPort
      <4>1. "quiet" \in since => Named = {}
        BY <3>1 DEF FactsTrue, Holds, Named
      <4>2. sighted \/ Named = {}
        BY <2>1, <2>2, <3>3, <3>6, <4>1 DEF AskPort, Evident, LooksClear
      <4> QED
        BY <2>1, <2>2, <3>3, <3>6, <4>2 DEF AskPort, Trust, LooksClear
    <3>7. CASE AskListener
      <4>1. ~Squatter
        BY <3>1, <3>2, <3>3, <3>7 DEF AskListener, Squatter, LooksClear
      <4> QED
        BY <2>1, <2>2, <3>3, <3>7, <4>1 DEF AskListener, Trust, LooksClear
    <3>8. CASE ProbeGeneration
      BY <3>1, <3>3, <3>8, ZombieProbed DEF LooksClear
    <3>9. CASE Backoff \/ Wake \/ Tick
      BY <2>1, <3>3, <3>9 DEF Backoff, Wake, Tick, Finish, LooksClear, Judged
    <3> QED
      BY <1>4, <3>3, <3>4, <3>5, <3>6, <3>7, <3>8, <3>9 DEF Client, AskPaper, DrillDown
  <2>3. ASSUME deep, "serving" \in since' PROVE answer' # "DEGRADED"
    <3>1. answer # "DEGRADED" /\ own = "serving"
      BY <2>1, <2>3, ServingHost DEF ZombieInv
    <3>2. CASE ProbeGeneration
      BY <3>1, <3>2, ServingProbed
    <3>3. CASE ~ProbeGeneration
      BY <1>4, <3>1, <3>3 DEF Client, BadAnswer, ReadMore, ProbeHealth, AskAlive, AskPort,
         AskListener, Backoff, Wake, AskPaper, DrillDown, Tick, Trust, Distrust, Finish
    <3> QED
      BY <3>2, <3>3
  <2> QED
    BY <2>1, <2>2, <2>3 DEF ZombieInv
<1>5. CASE UNCHANGED vars
  BY <1>5 DEF vars, ZombieInv, Evident, LooksClear
<1> QED
  BY <1>1, <1>2, <1>3, <1>4, <1>5, EveryStep

(* A generation tells an engine that lost its backend from one that serves      *)
(* (lifecycle.py:549-585, 649-660, 726-735).                                    *)
THEOREM ZombieToldCorrect == Spec => []ZombieTold
<1>1. Init => ZombieInv
  BY DEF Init, ZombieInv
<1>2. TypeOK /\ FactsTrue /\ ZombieInv => ZombieTold
  <2>1. SUFFICES ASSUME FactsTrue, ZombieInv, pc = "done", deep, "zombie" \in since, Evident
                 PROVE  answer \in {"gave up", "DEGRADED"}
    BY DEF ZombieInv, ZombieTold
  <2> QED
    BY <2>1 DEF ZombieInv, FactsTrue, Judged
<1> QED
  BY <1>1, <1>2, ZombieStep, FactsCorrect, PTL DEF Spec

-----------------------------------------------------------------------------
(* The deadline of a wait.                                                 *)

\* n operations of t each.
LEMMA Products ==
  ASSUME NEW n \in Nat, n >= 1, NEW t \in Nat
  PROVE  /\ n * t \in Nat /\ (n - 1) * t \in Nat
         /\ t + (n - 1) * t = n * t
         /\ n >= 2 => t + (n - 1 - 1) * t = (n - 1) * t
  OBVIOUS

LEMMA ProductsGrow ==
  ASSUME NEW n \in Nat, NEW a \in Nat, NEW b \in Nat, a <= b
  PROVE  n * a <= n * b
  OBVIOUS

\* The time until the request under way ends, at most.
Rest == left + (reads - 1) * budget

\* What begins before the deadline ends in bounded time: a health probe within its reads,
\* a generation within Overrun, a pause at the deadline.
ClockInv ==
  /\ pc = "idle" => now = 0
  /\ Waiting
       => /\ pc = "health" => now + Rest <= Timeout + Reads * ProbeTimeout
          /\ pc \in {"alive", "pgrep", "lsof"} => now <= Timeout + Reads * ProbeTimeout
          /\ pc = "gen" => now + Rest <= Timeout + Overrun
          /\ pc = "sleep" => now + left <= Timeout
          /\ pc \in {"backoff", "done"} => now <= Timeout + Overrun

\* Only the steps that look at the clock give up.
GaveUpInv == Waiting /\ answer = "gave up" => now >= Timeout

LEMMA OverrunBounds ==
  /\ Overrun \in Nat
  /\ Reads * ProbeTimeout <= Overrun
  /\ Reads * ProbeTimeout + Reads * GenFloor <= Overrun
  /\ (Reads - 1) * GenCap <= Overrun
<1>1. Reads * (ProbeTimeout + GenFloor) = Reads * ProbeTimeout + Reads * GenFloor
  BY Times
<1>2. Reads * ProbeTimeout \in Nat /\ Reads * GenFloor \in Nat /\ (Reads - 1) * GenCap \in Nat
  BY Times, Products
<1> HIDE DEF Overrun
<1>3. Overrun = Greater(Reads * ProbeTimeout + Reads * GenFloor, (Reads - 1) * GenCap)
  BY <1>1 DEF Overrun
<1> QED
  BY <1>2, <1>3 DEF Greater

\* A request of reads within t each.
LEMMA Requested ==
  ASSUME NEW t \in Nat, Request(t)
  PROVE  Rest' = Reads * t
  BY Times, Products DEF Request, Rest

\* A generation ends Overrun after the deadline at the latest.
LEMMA GenBudgetBounded ==
  ASSUME TypeOK, Waiting, now <= Timeout + Reads * ProbeTimeout
  PROVE  GenBudget \in Nat /\ now + Reads * GenBudget <= Timeout + Overrun
<1>1. now \in Nat
  BY DEF TypeOK, ClientOK
<1>2. CASE now < Timeout
  <2> DEFINE b == Lesser(GenCap, Greater(GenFloor, Timeout - now))
  <2>1. GenBudget = b /\ b \in Nat
    BY <1>1, <1>2, Times DEF GenBudget, Lesser, Greater
  <2>2. Reads * b \in Nat /\ (Reads - 1) * b \in Nat /\ b + (Reads - 1) * b = Reads * b
    BY <2>1, Times, Products
  <2>3. (Reads - 1) * b <= (Reads - 1) * GenCap
    <3>1. b <= GenCap
      BY <1>1, <1>2, Times DEF Lesser, Greater
    <3> QED
      BY <2>1, <3>1, Times, ProductsGrow
  <2>4. CASE b <= Timeout - now
    BY <1>1, <1>2, <2>1, <2>2, <2>3, <2>4, Times, OverrunBounds
  <2>5. CASE b > Timeout - now
    <3>1. b <= GenFloor
      BY <1>1, <1>2, <2>5, Times DEF Lesser, Greater
    <3>2. Reads * b <= Reads * GenFloor
      BY <2>1, <3>1, Times, ProductsGrow
    <3>3. Reads * ProbeTimeout \in Nat /\ Reads * GenFloor \in Nat
      BY Times, Products
    <3> QED
      BY <1>1, <1>2, <2>1, <2>2, <3>2, <3>3, Times, OverrunBounds
  <2> QED
    BY <1>1, <2>1, <2>4, <2>5, Times
<1>3. CASE ~(now < Timeout)
  <2>1. GenBudget \in Nat /\ GenBudget <= GenFloor
    BY <1>1, <1>3, Times DEF GenBudget, Lesser, Greater
  <2>2. Reads * GenBudget <= Reads * GenFloor
    BY <2>1, Times, ProductsGrow
  <2>3. Reads * ProbeTimeout \in Nat /\ Reads * GenFloor \in Nat /\ Reads * GenBudget \in Nat
    BY <2>1, Times, Products
  <2> QED
    BY <1>1, <2>1, <2>2, <2>3, Times, OverrunBounds
<1> QED
  BY <1>2, <1>3

LEMMA ClockTrust ==
  ASSUME TypeOK, ClockInv, pc \in {"alive", "pgrep", "lsof"}, Trust,
         UNCHANGED <<op, now>>
  PROVE  ClockInv'
<1>1. now \in Nat /\ Waiting' = Waiting
  BY DEF TypeOK, ClientOK, Waiting
<1>2. CASE deep
  <2>1. GenBudget \in Nat /\ pc' = "gen" /\ Request(GenBudget)
    <3>1. GenBudget \in Nat
      BY Times DEF GenBudget, Lesser, Greater, TypeOK, ClientOK
    <3> QED
      BY <1>1, <1>2, <3>1 DEF Trust
  <2>2. Rest' = Reads * GenBudget
    BY <2>1, Requested
  <2>3. Waiting => now + Reads * GenBudget <= Timeout + Overrun
    BY GenBudgetBounded DEF ClockInv
  <2> QED
    BY <1>1, <2>1, <2>2, <2>3 DEF ClockInv
<1>3. CASE ~deep
  <2>1. pc' = "done"
    BY <1>3 DEF Trust, Finish
  <2> QED
    BY <1>1, <2>1, Times, Products, OverrunBounds DEF ClockInv
<1> QED
  BY <1>2, <1>3

\* Whatever a wait has done so far, it is not over its bound.
LEMMA ClockNow ==
  ASSUME TypeOK, ClockInv, Waiting
  PROVE  now <= Timeout + Overrun
<1>1. /\ now \in Nat /\ left \in Nat /\ reads \in 0..Reads /\ budget \in Nat
      /\ pc \in {"health", "alive", "pgrep", "lsof", "gen", "backoff", "sleep", "done"}
  BY DEF TypeOK, ClientOK, Waiting, Phases
<1>2. pc \in {"health", "gen"} => reads >= 1
  BY <1>1 DEF TypeOK, ClientOK
<1>3. pc \in {"health", "gen"} => Rest \in Nat
  <2>1. reads >= 1 => (reads - 1) * budget \in Nat
    BY <1>1, Times, Products
  <2> QED
    BY <1>1, <1>2, <2>1 DEF Rest
<1>4. Reads * ProbeTimeout \in Nat
  BY Times, Products
<1> QED
  BY <1>1, <1>3, <1>4, Times, OverrunBounds DEF ClockInv

LEMMA ClockDistrust ==
  ASSUME TypeOK, ClockInv, pc \in {"health", "alive", "pgrep", "lsof", "gen"},
         Distrust, UNCHANGED <<op, now>>
  PROVE  ClockInv'
<1>1. Waiting' = Waiting /\ pc' \in {"backoff", "paper"}
  BY DEF Distrust, Waiting
<1> QED
  BY <1>1, ClockNow DEF ClockInv

LEMMA ClockFinish ==
  ASSUME TypeOK, ClockInv, NEW a, Finish(a), UNCHANGED <<op, now>>
  PROVE  ClockInv'
<1>1. Waiting' = Waiting /\ pc' = "done"
  BY DEF Finish, Waiting
<1> QED
  BY <1>1, ClockNow DEF ClockInv

LEMMA ClockStep ==
  TypeOK /\ ClockInv /\ [Next]_vars => ClockInv'
<1> SUFFICES ASSUME TypeOK, ClockInv, [Next]_vars PROVE ClockInv'
  OBVIOUS
<1>0. now \in Nat /\ left \in Nat /\ reads \in 0..Reads /\ budget \in Nat /\ delay \in Nat
  BY DEF TypeOK, ClientOK
<1>1. CASE Host \/ UNCHANGED vars
  BY <1>1 DEF Host, request, vars, Waiting, Rest, ClockInv
<1>2. CASE Start
  <2>1. now' = 0 /\ pc' \in {"health", "backoff"} /\ (pc' = "health" => Request(ProbeTimeout))
    BY <1>0, <1>2 DEF Start, ClockInv
  <2>2. pc' = "health" => Rest' = Reads * ProbeTimeout
    BY <2>1, Times, Requested
  <2>3. Reads * ProbeTimeout \in Nat
    BY Times, Products
  <2> QED
    BY <2>1, <2>2, <2>3, Times, OverrunBounds DEF ClockInv
<1>3. CASE ProbeHealth
  <2>1. CASE Distrust
    BY <1>3, <2>1, ClockDistrust DEF ProbeHealth
  <2>2. CASE pc' = "alive"
    <3>1. reads >= 1 /\ Rest \in Nat
      <4>1. reads >= 1
        BY <1>0, <1>3 DEF ProbeHealth, TypeOK, ClientOK
      <4>2. (reads - 1) * budget \in Nat
        BY <1>0, <4>1, Times, Products
      <4> QED
        BY <1>0, <4>1, <4>2 DEF Rest
    <3>2. Waiting => now + Rest <= Timeout + Reads * ProbeTimeout
      BY <1>3 DEF ProbeHealth, ClockInv
    <3>3. Reads * ProbeTimeout \in Nat
      BY Times, Products
    <3>4. Waiting' => now' <= Timeout + Reads * ProbeTimeout
      BY <1>0, <1>3, <3>1, <3>2, <3>3, Times DEF ProbeHealth, Waiting
    <3> QED
      BY <2>2, <3>4 DEF ClockInv
  <2> QED
    BY <1>3, <2>1, <2>2 DEF ProbeHealth
<1>4. CASE AskAlive \/ AskPort \/ AskListener
  <2>1. pc \in {"alive", "pgrep", "lsof"} /\ UNCHANGED <<op, now>>
    BY <1>4 DEF AskAlive, AskPort, AskListener
  <2>2. CASE Trust
    BY <2>1, <2>2, ClockTrust
  <2>3. CASE Distrust
    BY <2>1, <2>3, ClockDistrust
  <2>4. CASE pc' \in {"pgrep", "lsof"}
    BY <1>0, <2>1, <2>4 DEF Waiting, ClockInv
  <2> QED
    BY <1>4, <2>2, <2>3, <2>4 DEF AskAlive, AskPort, AskListener
<1>5. CASE ProbeGeneration
  <2> SUFFICES ASSUME NEW v, Conclude(v) PROVE ClockInv'
    BY <1>5 DEF ProbeGeneration
  <2>1. CASE Distrust
    BY <1>5, <2>1, ClockDistrust DEF ProbeGeneration
  <2>2. ASSUME NEW a, Finish(a) PROVE ClockInv'
    BY <1>5, <2>2, ClockFinish DEF ProbeGeneration
  <2> QED
    BY <2>1, <2>2 DEF Conclude
<1>6. CASE Backoff
  <2>1. CASE Finish("gave up")
    BY <1>6, <2>1, ClockFinish DEF Backoff
  <2>2. CASE pc' = "sleep" /\ now < Timeout
    <3>1. left' = Lesser(delay, Timeout - now) /\ UNCHANGED <<op, now>>
      BY <1>6, <2>2 DEF Backoff, Finish
    <3>2. now' + left' <= Timeout
      BY <1>0, <2>2, <3>1, Times DEF Lesser
    <3> QED
      BY <2>2, <3>1, <3>2 DEF Waiting, ClockInv
  <2> QED
    BY <1>6, <2>1, <2>2 DEF Backoff
<1>7. CASE Wake
  <2>1. UNCHANGED <<op, now>> /\ (Waiting => now <= Timeout)
    <3>1. pc = "sleep" /\ left = 0 /\ UNCHANGED <<op, now>>
      BY <1>7 DEF Wake
    <3>2. Waiting => now + left <= Timeout
      BY <3>1 DEF ClockInv
    <3> QED
      BY <1>0, <3>1, <3>2, Times
  <2>2. CASE Finish("gave up")
    BY <1>7, <2>1, <2>2, ClockFinish
  <2>3. CASE pc' = "health" /\ Request(ProbeTimeout)
    <3>1. Rest' = Reads * ProbeTimeout /\ Reads * ProbeTimeout \in Nat
      BY <2>3, Times, Requested, Products
    <3> QED
      BY <1>0, <2>1, <2>3, <3>1, Times DEF Waiting, ClockInv
  <2> QED
    BY <1>7, <2>2, <2>3 DEF Wake
<1>8. CASE AskPaper \/ DrillDown
  <2>1. ~Waiting' /\ pc' \in {"done", "drill"}
    BY <1>8 DEF AskPaper, DrillDown, Finish, TypeOK, ClientOK, Waiting
  <2> QED
    BY <2>1 DEF ClockInv
<1>9. CASE Return
  BY <1>9 DEF Return, Waiting, ClockInv
<1>10. CASE Tick
  <2>1. CASE Waiting
    <3>1. now' + left' = now + left /\ UNCHANGED <<op, pc, reads, budget>> /\ Waiting'
      BY <1>0, <1>10, <2>1 DEF Tick, Waiting
    <3>2. now' + Rest' = now + Rest
      <4>1. (reads - 1) * budget \in Int
        BY <1>0, Times
      <4> HIDE DEF Waiting
      <4> QED
        BY <1>0, <1>10, <2>1, <3>1, <4>1 DEF Rest, Tick
    <3> QED
      BY <1>10, <2>1, <3>1, <3>2 DEF ClockInv, Tick
  <2>2. CASE ~Waiting
    BY <1>10, <2>2 DEF Tick, Waiting, ClockInv
  <2> QED
    BY <2>1, <2>2
<1>11. CASE ReadMore
  <2>1. /\ UNCHANGED <<op, now, pc, budget>> /\ pc \in {"health", "gen"}
        /\ left' = budget /\ reads' = reads - 1 /\ reads >= 2
    BY <1>0, <1>11, Times DEF ReadMore
  <2>2. Rest' = (reads - 1) * budget /\ (reads - 1) * budget \in Nat
    BY <1>0, <2>1, Times, Products DEF Rest
  <2>3. Rest' <= Rest /\ Rest \in Nat
    BY <1>0, <2>2 DEF Rest
  <2>4. Reads * ProbeTimeout \in Nat
    BY Times, Products
  <2> QED
    BY <1>0, <2>1, <2>2, <2>3, <2>4, Times, OverrunBounds DEF Waiting, ClockInv
<1>12. CASE BadAnswer
  BY <1>12, ClockFinish DEF BadAnswer
<1> QED
  BY <1>1, <1>2, <1>3, <1>4, <1>5, <1>6, <1>7, <1>8, <1>9, <1>10, <1>11, <1>12
     DEF Next, Client

LEMMA GaveUpStep ==
  TypeOK /\ FactsTrue /\ GaveUpInv /\ [Next]_vars => GaveUpInv'
<1> SUFFICES ASSUME TypeOK, FactsTrue, GaveUpInv, [Next]_vars, op' = "wait",
                    answer' = "gave up"
             PROVE  now' >= Timeout
  BY DEF GaveUpInv, Waiting
<1>1. CASE UNCHANGED <<op, answer, now>>
  BY <1>1 DEF GaveUpInv, Waiting
<1>2. CASE Backoff \/ Wake
  BY <1>1, <1>2 DEF Backoff, Wake, Finish
<1>3. CASE Tick
  BY <1>3 DEF Tick, FactsTrue
<1>4. CASE ProbeGeneration
  <2>1. PICK v : Conclude(v)
    BY <1>4 DEF ProbeGeneration
  <2> QED
    BY <1>1, <1>4, <2>1 DEF ProbeGeneration, Conclude, Distrust, Finish
<1>5. CASE Host \/ Start \/ Return \/ UNCHANGED vars
  BY <1>1, <1>5 DEF Host, Start, Return, vars, FactsTrue
<1>6. CASE BadAnswer \/ ReadMore \/ ProbeHealth \/ AskAlive \/ AskPort \/ AskListener
  BY <1>1, <1>6 DEF BadAnswer, ReadMore, ProbeHealth, AskAlive, AskPort, AskListener, Trust,
     Distrust, Finish
<1>7. CASE AskPaper \/ DrillDown
  BY <1>1, <1>7 DEF AskPaper, DrillDown, Finish
<1> QED
  BY <1>2, <1>3, <1>4, <1>5, <1>6, <1>7 DEF Next, Client

(* A wait gives up at its deadline and not before, and overruns it at most by   *)
(* what the requests that had begun may still read (lifecycle.py:549-584).      *)
THEOREM WaitBoundedCorrect == Spec => []WaitBounded
<1>1. Init => ClockInv /\ GaveUpInv
  BY DEF Init, Waiting, ClockInv, GaveUpInv
<1>2. TypeOK /\ ClockInv /\ GaveUpInv => WaitBounded
  BY ClockNow DEF WaitBounded, GaveUpInv
<1> QED
  BY <1>1, <1>2, ClockStep, GaveUpStep, FactsCorrect, PTL DEF Spec
=============================================================================
