------------------------------- MODULE Health -------------------------------
(***************************************************************************)
(* ais_core/lifecycle.py: is an engine up?  wait_for_health polls after a  *)
(* start, probe_state answers `aisctl status`.  Both combine readings of   *)
(* the host that are taken one after the other (an HTTP probe, pgrep,      *)
(* pgrep and lsof on the port, a one-token generation), while the          *)
(* processes they are about come and go.                                   *)
(*                                                                         *)
(* Two manifests may share a port, one active and one standby, so that the *)
(* answer on the port may be a neighbour's; two manifests may share a      *)
(* binary, so that a process of the right name may be a neighbour's too.   *)
(* The client below makes one call at a time: two clients share nothing    *)
(* but the host they read.                                                 *)
(*                                                                         *)
(* The timeout of a request bounds each socket operation and not the       *)
(* request: a response that comes in pieces gets it again for every piece. *)
(* Reads is the most pieces the client blocks for; http.client limits them *)
(* by the bytes it accepts.  pgrep and lsof take no time here.  pgrep may  *)
(* fail, which reads like no match (_pgrep_matches).                       *)
(***************************************************************************)
EXTENDS Naturals

CONSTANTS
  Timeout,       \* wait_for_health: how long to wait
  FirstDelay,    \* the first pause between two polls
  CapDelay,      \* the longest one
  Reads,         \* the most socket operations of one request that block
  ProbeTimeout,  \* of each operation of the HTTP probe
  GenFloor,      \* the least and
  GenCap,        \* the most time an operation of a generation gets while waiting
  DeepTimeout    \* of each operation of the generation probe of probe_state

ASSUME TimesAreNat ==
  {Timeout, FirstDelay, CapDelay, ProbeTimeout, GenFloor, GenCap, DeepTimeout} \subseteq Nat
ASSUME DelaysPositive == FirstDelay > 0 /\ CapDelay > 0
ASSUME RequestsEnd == Reads \in Nat \ {0}
ASSUME FloorBelowCap == GenFloor <= GenCap

VARIABLES
  own,        \* the process of this manifest
  other,      \* a process of another manifest that listens on this manifest's port
  sibling,    \* a process with this manifest's binary that is not its own
  bystander,  \* a process whose arguments mention the port it does not listen on
  sighted,    \* lsof sees the listener of the port (it runs under our account)
  pc,         \* where the client is
  op, deep,   \* its call, and whether the call asks for a generation
  suspects,   \* the processes _port_squatter found by their arguments; "gone" if one exited
  now,        \* time since the call began, of a call that has a deadline
  left,       \* the time left to the operation or the pause that blocks
  reads,      \* the operations of the request under way that may still block
  budget,     \* the timeout of each of them
  delay,      \* the next pause
  answer,     \* what the call returned
  since       \* the facts about the host that held ever since the call began

world == <<own, other, sibling, bystander, sighted>>
request == <<left, reads, budget>>
client == <<pc, op, deep, suspects, now, request, delay, answer>>
vars ==
  <<own, other, sibling, bystander, sighted, pc, op, deep, suspects, now, left, reads,
    budget, delay, answer, since>>

\* "loading" listens on nothing yet; the other live ones hold the port.  A "hung"
\* process accepts and gives no HTTP answer, a "zombie" answers /health and computes nothing.
Owns == {"none", "loading", "serving", "zombie", "hung"}

\* "named": --port in its arguments and another binary; "opaque": arguments that say
\* nothing; "twin": the same binary on the same port.
Others == {"none", "named", "opaque", "twin"}

\* The arguments of a sibling carry another --port ("pinned"), or none.  To have no
\* sibling is to have a pinned one: nothing that is read tells the two apart.
Siblings == {"pinned", "portless"}

Phases == {"idle", "health", "alive", "pgrep", "lsof", "gen", "backoff", "sleep", "paper",
           "drill", "done"}

Outcomes == {"none", "healthy", "gave up", "RUNNING", "DEGRADED", "UNHEALTHY",
             "NOT_INSTALLED", "AVAILABLE", "LOADED_NOT_RUNNING", "DISABLED", "STOPPED",
             "raised"}

Waiting == op = "wait"

Holds(f) ==
  CASE f = "absent" -> own = "none"
    [] f = "serving" -> own = "serving"
    [] f = "zombie" -> own = "zombie"
    [] f = "foreign" -> other = "named"
    [] f = "opaque" -> other = "opaque"
    [] f = "unmasked" -> other \notin {"opaque", "twin"}
    [] f = "pinned" -> sibling # "portless"
    [] f = "quiet" -> ~bystander
    [] f \in {"staying", "pgrep"} -> TRUE

\* "staying": the neighbour has not left the port; "pgrep": it has not failed.
Facts == {"absent", "serving", "zombie", "foreign", "opaque", "unmasked", "pinned",
          "quiet", "staying", "pgrep"}

Init ==
  /\ own \in Owns
  /\ other = "none"
  /\ sibling \in Siblings
  /\ bystander \in BOOLEAN
  /\ sighted \in BOOLEAN
  /\ pc = "idle" /\ op = "none" /\ deep = FALSE
  /\ suspects = {}
  /\ now = 0 /\ left = 0 /\ reads = 0 /\ budget = 0 /\ delay = FirstDelay
  /\ answer = "none"
  /\ since = {}

-----------------------------------------------------------------------------
(* The host: launchd, the engine, the neighbours.                          *)

Bound == own \in {"serving", "zombie", "hung"}

\* Processes start, load, bind the port if it is free, break down, recover and exit.
OwnStep ==
  /\ \/ own = "none" /\ own' = "loading"
     \/ own = "loading" /\ other = "none" /\ own' = "serving"
     \/ own = "serving" /\ own' \in {"zombie", "hung"}
     \/ own = "hung" /\ own' = "serving"
     \/ own # "none" /\ own' = "none"
  /\ UNCHANGED <<other, sibling, bystander>>

OtherStep ==
  /\ \/ other = "none" /\ ~Bound /\ other' \in Others \ {"none"}
     \/ other # "none" /\ other' = "none"
  /\ UNCHANGED <<own, sibling, bystander>>

BackgroundStep ==
  /\ \/ sibling' \in Siblings \ {sibling} /\ UNCHANGED bystander
     \/ bystander' = ~bystander /\ UNCHANGED sibling
  /\ UNCHANGED <<own, other>>

\* A neighbour that stops listening is no longer staying.
Left == other # "none" /\ other' # other

Host ==
  /\ OwnStep \/ OtherStep \/ BackgroundStep
  /\ since' = {f \in since : Holds(f)' /\ (f = "staying" => ~Left)}
  /\ suspects' = IF Left /\ "named" \in suspects
                 THEN (suspects \ {"named"}) \union {"gone"}
                 ELSE suspects
  /\ UNCHANGED <<sighted, pc, op, deep, now, request, delay, answer>>

-----------------------------------------------------------------------------
(* What one reading of the host answers.                                   *)

\* probe_health: something on the port answers 2xx.
Answers == own \in {"serving", "zombie"} \/ other # "none"

\* Mutant: a bare match of the binary's name, whatever its --port.
AliveByName == own # "none" \/ other = "twin" \/ sibling \in {"pinned", "portless"}

\* process_alive: a match that carries our port, or one that carries none.
ProcessAlive == own # "none" \/ other = "twin" \/ sibling = "portless"

\* pgrep on the port: matches that are not of our binary.
Named == {k \in {"named", "bystander"} : IF k = "named" THEN other = "named" ELSE bystander}

\* Mutant: the arguments alone are taken for evidence.
SquatterByArguments == suspects # {}

\* _port_squatter: a suspect that lsof confirms, or any one where lsof sees nobody.
Squatter ==
  \/ "named" \in suspects /\ other = "named"
  \/ suspects # {} /\ (~sighted \/ (other = "none" /\ ~Bound))

\* gen_probe: an answer carries the marker of a dead backend, a token, or an error.
Verdicts ==
  CASE own = "serving" -> {"OK", "UNSUPPORTED", "ERROR"}
    [] own = "zombie" -> {"ZOMBIE"}
    [] other # "none" -> {"OK", "ZOMBIE", "UNSUPPORTED", "ERROR"}
    [] OTHER -> {"DOWN"}

-----------------------------------------------------------------------------
(* The client.                                                             *)

Lesser(a, b) == IF a <= b THEN a ELSE b

Greater(a, b) == IF a >= b THEN a ELSE b

\* Mutant: the generation probe gets its full time, whatever is left of the wait.
GenBudgetUnclamped == IF Waiting THEN GenCap ELSE DeepTimeout

\* max(0.5, remaining), at most 10 s, while waiting (lifecycle.py:573-574).
GenBudget ==
  IF Waiting
  THEN Lesser(GenCap, Greater(GenFloor, IF now < Timeout THEN Timeout - now ELSE 0))
  ELSE DeepTimeout

\* urlopen(..., timeout=t): the first of its operations may block for t.
Request(t) == left' = t /\ reads' = Reads /\ budget' = t

NoRequest == left' = 0 /\ reads' = 0 /\ budget' = 0

Finish(a) == pc' = "done" /\ answer' = a /\ NoRequest /\ delay' = FirstDelay

\* Mutant: gen_check is read and forgotten.
TrustUnchecked == Finish(IF Waiting THEN "healthy" ELSE "RUNNING")

\* A 2xx that nothing speaks against: up, or to be certified by a generation.
Trust ==
  IF deep
  THEN /\ pc' = "gen"
       /\ Request(GenBudget)
       /\ UNCHANGED <<answer, delay>>
  ELSE Finish(IF Waiting THEN "healthy" ELSE "RUNNING")

\* Mutant: the first failed poll of a wait is taken for the answer.
DistrustAtOnce ==
  /\ pc' = "paper"
  /\ NoRequest
  /\ UNCHANGED <<delay, answer>>

\* No evidence that the engine is up: poll again later, or ask launchd about it.
Distrust ==
  /\ pc' = IF Waiting THEN "backoff" ELSE "paper"
  /\ NoRequest
  /\ UNCHANGED <<delay, answer>>

Start ==
  /\ pc = "idle"
  /\ op' \in {"wait", "probe"} /\ deep' \in BOOLEAN
  /\ pc' = IF op' = "probe" \/ Timeout > 0 THEN "health" ELSE "backoff"
  /\ IF pc' = "health" THEN Request(ProbeTimeout) ELSE NoRequest
  /\ since' = {f \in Facts : Holds(f)}
  /\ UNCHANGED <<world, suspects, now, delay, answer>>

\* Mutant: a request without a timeout.
NeverTimesOut == FALSE

TimesOut == left = 0

\* The response comes in pieces: the next read blocks for as long again.
ReadMore ==
  /\ pc \in {"health", "gen"} /\ reads > 1
  /\ Bound \/ other # "none"
  /\ reads' = reads - 1
  /\ left' = budget
  /\ UNCHANGED <<world, pc, op, deep, suspects, now, budget, delay, answer, since>>

\* What is no HTTP, or a body that is cut off, is an HTTPException, which probe_health and
\* gen_probe do not catch.
BadAnswer ==
  /\ pc \in {"health", "gen"}
  /\ own = "hung" \/ (pc = "gen" /\ reads < Reads /\ ~Bound)
  /\ Finish("raised")
  /\ UNCHANGED <<world, op, deep, suspects, now, since>>

\* urlopen on the health URL: a 2xx, a refused connection, or a timeout.
ProbeHealth ==
  /\ pc = "health"
  /\ \/ Answers /\ pc' = "alive" /\ NoRequest /\ UNCHANGED <<delay, answer>>
     \/ ~Answers /\ (own = "hung" => TimesOut) /\ Distrust
  /\ UNCHANGED <<world, op, deep, suspects, now, since>>

\* A pgrep that fails reads like one that matches nothing.
AskAlive ==
  /\ pc = "alive"
  /\ \/ ProcessAlive /\ Trust /\ UNCHANGED since
     \/ ~ProcessAlive /\ UNCHANGED since /\ pc' = "pgrep"
        /\ UNCHANGED <<request, delay, answer>>
     \/ since' = since \ {"pgrep"} /\ pc' = "pgrep" /\ UNCHANGED <<request, delay, answer>>
  /\ UNCHANGED <<world, op, deep, suspects, now>>

AskPort ==
  /\ pc = "pgrep"
  /\ \/ suspects' = Named /\ UNCHANGED since
     \/ suspects' = {} /\ since' = since \ {"pgrep"}
  /\ IF suspects' = {} THEN Trust ELSE pc' = "lsof" /\ UNCHANGED <<request, delay, answer>>
  /\ UNCHANGED <<world, op, deep, now>>

AskListener ==
  /\ pc = "lsof"
  /\ IF Squatter THEN Distrust ELSE Trust
  /\ UNCHANGED <<world, op, deep, suspects, now, since>>

\* What a verdict, or a generation that does not end in time, makes of the call.
Conclude(v) ==
  CASE Waiting /\ v = "OK" -> Finish("healthy")
    [] Waiting /\ v # "OK" -> Distrust
    [] ~Waiting -> Finish(IF v = "ZOMBIE" THEN "DEGRADED" ELSE "RUNNING")

ProbeGeneration ==
  /\ pc = "gen"
  /\ \/ own # "hung" /\ \E v \in Verdicts : Conclude(v)
     \/ (own \in {"serving", "hung"} \/ other # "none") /\ TimesOut /\ Conclude("BUSY")
  /\ UNCHANGED <<world, op, deep, suspects, now, since>>

\* End of a round of wait_for_health: out of time, or a pause that ends in time.
Backoff ==
  /\ pc = "backoff"
  /\ \/ now >= Timeout /\ Finish("gave up")
     \/ /\ now < Timeout
        /\ pc' = "sleep"
        /\ left' = Lesser(delay, Timeout - now)
        /\ delay' = Lesser(2 * delay, CapDelay)
        /\ UNCHANGED <<reads, budget, answer>>
  /\ UNCHANGED <<world, op, deep, suspects, now, since>>

Wake ==
  /\ pc = "sleep"
  /\ left = 0
  /\ \/ now < Timeout /\ pc' = "health" /\ Request(ProbeTimeout)
        /\ UNCHANGED <<delay, answer>>
     \/ now >= Timeout /\ Finish("gave up")
  /\ UNCHANGED <<world, op, deep, suspects, now, since>>

\* _provisioned_state.  Whether a plist exists and what launchctl says of it is read
\* once each; the readings only choose between states that all mean "not running".
AskPaper ==
  /\ pc = "paper"
  /\ \/ Finish("NOT_INSTALLED") \/ Finish("AVAILABLE")
     \/ pc' = "drill" /\ UNCHANGED <<request, delay, answer>>
  /\ UNCHANGED <<world, op, deep, suspects, now, since>>

\* A squatter was found only where process_alive had answered no.  A pgrep that fails
\* reads like no process.
DrillDown ==
  /\ pc = "drill"
  /\ \/ suspects = {} /\ ProcessAlive /\ Finish("UNHEALTHY")
     \/ \E s \in {"LOADED_NOT_RUNNING", "DISABLED", "STOPPED"} : Finish(s)
  /\ UNCHANGED <<world, op, deep, suspects, now, since>>

\* The caller takes the answer.
Return ==
  /\ pc = "done"
  /\ pc' = "idle" /\ op' = "none" /\ deep' = FALSE
  /\ suspects' = {}
  /\ now' = 0 /\ NoRequest /\ delay' = FirstDelay
  /\ answer' = "none"
  /\ since' = {}
  /\ UNCHANGED world

\* Time passes while the client waits for an answer or sleeps.
Tick ==
  /\ pc \in {"health", "gen", "sleep"}
  /\ left > 0
  /\ left' = left - 1
  /\ now' = IF Waiting THEN now + 1 ELSE now
  /\ UNCHANGED <<world, pc, op, deep, suspects, reads, budget, delay, answer, since>>

Client ==
  \/ ReadMore \/ ProbeHealth \/ AskAlive \/ AskPort \/ AskListener \/ ProbeGeneration
  \/ Backoff \/ Wake \/ AskPaper \/ DrillDown \/ Return \/ Tick

Next == Host \/ Start \/ BadAnswer \/ Client

\* urlopen, sleep and the subprocesses return; nothing obliges the host to do anything.
Spec == Init /\ [][Next]_vars /\ WF_vars(Client)

-----------------------------------------------------------------------------
HostOK ==
  /\ own \in Owns /\ other \in Others /\ sibling \in Siblings
  /\ bystander \in BOOLEAN /\ sighted \in BOOLEAN
  /\ other # "none" => ~Bound

ClientOK ==
  /\ pc \in Phases /\ op \in {"none", "wait", "probe"} /\ deep \in BOOLEAN
  /\ now \in Nat /\ left \in Nat /\ delay \in Nat
  /\ reads \in 0..Reads /\ budget \in Nat
  /\ suspects \subseteq {"named", "bystander", "gone"}
  /\ answer \in Outcomes
  /\ since \subseteq Facts
  /\ pc = "idle" <=> op = "none"
  /\ pc \in {"backoff", "sleep"} => op = "wait"
  /\ pc \in {"paper", "drill"} => op = "probe"
  /\ reads > 0 <=> pc \in {"health", "gen"}

\* Types; one process listens on the port; only a waiting call sleeps, only a probe asks
\* launchd, and a request is under way only while one is waited for.
TypeOK == HostOK /\ ClientOK

\* The standby of a shared port: its own process is absent all along, whoever listens
\* there is of another binary and stays, no process of its binary hides its port, and
\* pgrep works.  Nothing the client reads makes it blame or trust the standby for its
\* neighbour, nor send the neighbour a generation (lifecycle.py:560-564, 880-888).
StandbyNotBlamed ==
  {"absent", "unmasked", "pinned", "staying", "pgrep"} \subseteq since
    => /\ pc # "gen"
       /\ answer \notin {"healthy", "RUNNING", "DEGRADED", "UNHEALTHY"}

\* No false evidence of a squatter builds up against the own process: it takes a pgrep
\* that fails, a bystander that names the port and an lsof that sees nobody.
Evident == sighted \/ {"quiet", "pgrep"} \cap since # {}

\* The absence of proof never demotes an engine that serves (lifecycle.py:759-763): not
\* the own process, and not a server that says nothing of itself, unless lsof is blind
\* and a bystander names the port.  (A wait of no time polls nothing.)
ServingKept ==
  pc = "done" /\ ~deep /\ (Timeout > 0 \/ op = "probe")
    => /\ "serving" \in since /\ Evident => answer \in {"healthy", "RUNNING"}
       /\ "opaque" \in since /\ (sighted \/ "quiet" \in since)
            => answer \in {"healthy", "RUNNING"}

\* A generation probe tells an engine that lost its backend from one that serves: the
\* first is never called healthy, only the first is called DEGRADED (lifecycle.py:649-660).
ZombieTold ==
  pc = "done" /\ deep
    => /\ "zombie" \in since /\ Evident => answer \in {"gave up", "DEGRADED"}
       /\ "serving" \in since => answer # "DEGRADED"

\* How late a request that began before the deadline may end: a health probe begins at
\* the last moment and a generation still gets its floor, or a generation that began
\* early has what is left, or its cap, for every read.
Overrun == Greater(Reads * (ProbeTimeout + GenFloor), (Reads - 1) * GenCap)

\* wait_for_health gives up at its deadline and not before, and it overruns it by no
\* more than the requests that had begun may take: since each read gets the timeout
\* anew, that is more than the clamp of lifecycle.py:571-572 is said to allow.
WaitBounded ==
  Waiting => /\ now <= Timeout + Overrun
             /\ answer = "gave up" => now >= Timeout

\* Every call returns, whatever hangs on the other side.
CallsReturn == pc # "idle" ~> pc = "idle"

\* A start is never declared healthy on the strength of a foreign process's 2xx, where
\* that process is identified and no other one passes for the engine (lifecycle.py:559-561).
HealthyIsOurs == answer = "healthy" => ~({"foreign", "pinned"} \subseteq since)
=============================================================================
