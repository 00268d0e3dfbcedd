------------------------- MODULE CommsPluginProofs --------------------------
(***************************************************************************)
(* The aify-comms plugin implements PluginLife, for any requests and any   *)
(* number of workers: its loops, reports and timers are stutters of what   *)
(* the registry may believe of it, or steps of that.                       *)
(*                                                                         *)
(* What makes it so is that a start in hand is either the running plugin's *)
(* or in one of the passes a detach still waits for.                       *)
(*                                                                         *)
(* And the registry of those plugins on a host, for any endpoints: however  *)
(* the entry changes, one plugin serves, a key goes to the endpoint it was  *)
(* written for, and what is called fresh was accepted there.                *)
(*                                                                         *)
(* And what goes between a worker's terminal and the service, for any       *)
(* output, screens and agents: the output, what is said of the screen and   *)
(* typed at its dialog, and a start from the console.                       *)
(***************************************************************************)
EXTENDS CommsPlugin, HostRegistry, OutputSender, ScreenObserver, StartFlow, FiniteSetTheorems, TLAPS

Places == {"off", "pause", "setup", "pass", "starting"}

PhaseTypes ==
    /\ up \in {"no", "beating", "yes"}
    /\ phase \in {"running", "quiescing", "held", "detached"}
    /\ detachAt \in {"idle", "waiting"}
    /\ loop \in [Loops -> Places]
    /\ waiting \subseteq Loops
    /\ held \in Nat /\ born \in Nat

\* Before its first beat settled nothing has begun.
NotYet == up # "yes" => phase = "running" /\ held = 0 /\ \A l \in Loops : loop[l] = "off"

\* A claim in hand keeps its loop in its pass.
ClaimIsInItsPass == claim.at # "none" => loop["claim"] = "pass"

\* A detach is under way exactly while the phase is quiescing.
DetachIsQuiescing == phase = "quiescing" <=> detachAt = "waiting"

\* A start in hand is the running plugin's, or a detach waits for it.
StartsAreAwaited ==
    \A l \in Loops : loop[l] = "starting" =>
        \/ phase = "running"
        \/ phase = "quiescing" /\ l \in waiting

LetGoIsEmpty == phase = "detached" => held = 0

IndInv ==
    /\ PhaseTypes /\ NotYet /\ ClaimIsInItsPass
    /\ DetachIsQuiescing /\ StartsAreAwaited /\ LetGoIsEmpty

-----------------------------------------------------------------------------
LEMMA InitHolds == PluginInit => IndInv
BY DEF PluginInit, IndInv, PhaseTypes, NotYet, ClaimIsInItsPass, DetachIsQuiescing,
       StartsAreAwaited, LetGoIsEmpty, Places, Loops, NoClaim

\* Every step of a loop keeps the invariant, and only a start, which comes to a
\* plugin that serves or is leaving, changes what the registry may believe.
LEMMA LoopsKeepIt ==
    ASSUME IndInv, NEW l \in Loops, LoopStep(l)
    PROVE  IndInv' /\ (Promise!StartWorker \/ UNCHANGED <<up, phase, held>>)
<1> USE DEF IndInv, PhaseTypes, NotYet, ClaimIsInItsPass, DetachIsQuiescing, StartsAreAwaited,
            LetGoIsEmpty, Places
<1>1. CASE BeginOrEnd(l)
    BY <1>1 DEF BeginOrEnd, claimVars, Loops
<1>2. CASE SetUp(l)
    <2>1. UNCHANGED <<up, phase, detachAt, held, born, claim>> /\ loop[l] = "setup"
        BY <1>2 DEF SetUp, claimVars
    <2>2. CASE loop' = [loop EXCEPT ![l] = "pass"] /\ UNCHANGED waiting
        BY <2>1, <2>2 DEF Loops
    <2>3. CASE loop' = [loop EXCEPT ![l] = "pause"] /\ waiting' = waiting \ {l}
        BY <2>1, <2>3 DEF Loops
    <2> QED
        BY <1>2, <2>2, <2>3 DEF SetUp, Settled
<1>3. CASE PassEnds(l)
    BY <1>3 DEF PassEnds, Settled, NoClaim, claimVars, Loops
<1>4. CASE AdmitStart(l)
    BY <1>4 DEF AdmitStart, claimVars, Loops
<1>5. CASE WorkerStarts(l)
    <2>1. up = "yes" /\ phase \in {"running", "quiescing"}
        BY <1>5 DEF WorkerStarts
    <2>2. IndInv'
        BY <1>5, <2>1 DEF WorkerStarts, claimVars, Loops
    <2>3. Standing \in {"serving", "leaving"} /\ Standing' = Standing
        BY <1>5, <2>1 DEF WorkerStarts, Standing
    <2> QED
        BY <1>5, <2>2, <2>3 DEF WorkerStarts, Promise!StartWorker
<1> QED
    BY <1>1, <1>2, <1>3, <1>4, <1>5 DEF LoopStep

\* The claim pass is none of the registry's business.
LEMMA ClaimsKeepIt ==
    ASSUME IndInv, ClaimStep \/ \E r \in Requests : HandsOut(r) \/ Cancel(r) \/ RootsChange(r)
    PROVE  IndInv' /\ UNCHANGED <<up, phase, held>>
<1> USE DEF IndInv, PhaseTypes, NotYet, ClaimIsInItsPass, DetachIsQuiescing, StartsAreAwaited,
            LetGoIsEmpty, Places
<1>1. UNCHANGED <<up, phase, detachAt, held, born>>
    BY DEF ClaimStep, ClaimAnswered, Judge, ReportStarting, ReportRunning, HandsOut, Cancel, RootsChange
<1>2. \/ UNCHANGED <<loop, waiting>> /\ (loop["claim"] = "pass" \/ UNCHANGED claim)
      \/ /\ loop["claim"] = "pass" /\ claim'.at = "none"
         /\ loop' = [loop EXCEPT !["claim"] = "pause"] /\ waiting' = waiting \ {"claim"}
    BY DEF ClaimStep, ClaimAnswered, Judge, ReportStarting, ReportRunning, HandsOut, Cancel, RootsChange,
           ClaimEnds, Settled, NoClaim
<1>3. CASE UNCHANGED <<loop, waiting>> /\ (loop["claim"] = "pass" \/ UNCHANGED claim)
    BY <1>1, <1>3
<1>4. CASE /\ loop["claim"] = "pass" /\ claim'.at = "none"
           /\ loop' = [loop EXCEPT !["claim"] = "pause"] /\ waiting' = waiting \ {"claim"}
    BY <1>1, <1>4 DEF Loops
<1> QED
    BY <1>1, <1>2, <1>3, <1>4

\* What is asked of the plugin, its beats and its workers' ends keep the
\* invariant, and are steps or stutters of the promise.
LEMMA PhasesKeepIt ==
    ASSUME IndInv,
           \/ Start \/ Beat \/ BeatSettled \/ WorkerEnds
           \/ Detach \/ Hold \/ LetGo \/ Resume \/ Stop
    PROVE  IndInv' /\ (Promise!LifeNext \/ UNCHANGED <<Standing, held>>)
<1> USE DEF IndInv, PhaseTypes, NotYet, ClaimIsInItsPass, DetachIsQuiescing, StartsAreAwaited,
            LetGoIsEmpty, Places, Standing
<1>1. CASE Start \/ Beat \/ Stop
    BY <1>1 DEF Start, Beat, Stop, claimVars
<1>2. CASE BeatSettled
    <2>1. CASE up = "beating"
        BY <1>2, <2>1 DEF BeatSettled, claimVars, Loops, Promise!LifeNext, Promise!Serve
    <2>2. CASE up # "beating"
        BY <1>2, <2>2 DEF BeatSettled, claimVars
    <2> QED
        BY <2>1, <2>2
<1>3. CASE WorkerEnds
    BY <1>3 DEF WorkerEnds, claimVars, Promise!LifeNext, Promise!EndWorker
<1>4. CASE Detach
    <2>1. phase \in {"running", "held"} /\ up = "yes"
        BY <1>4 DEF Detach
    <2>2. IndInv'
        BY <1>4, <2>1 DEF Detach, claimVars, InPass
    <2> QED
        BY <1>4, <2>1, <2>2 DEF Detach, Promise!LifeNext, Promise!Leave
<1>5. CASE Hold
    <2>1. phase = "quiescing" /\ up = "yes" /\ \A l \in Loops : loop[l] # "starting"
        BY <1>5 DEF Hold
    <2>2. IndInv'
        BY <1>5, <2>1 DEF Hold, claimVars, Loops
    <2> QED
        BY <1>5, <2>1, <2>2 DEF Hold, Promise!LifeNext, Promise!Keep
<1>6. CASE LetGo
    <2>1. phase = "quiescing" /\ up = "yes" /\ \A l \in Loops : loop[l] # "starting"
        BY <1>6 DEF LetGo
    <2>2. IndInv'
        BY <1>6, <2>1 DEF LetGo, claimVars
    <2> QED
        BY <1>6, <2>1, <2>2 DEF LetGo, Promise!LifeNext, Promise!LetGo
<1>7. CASE Resume
    <2>1. up = "yes"
        BY <1>7 DEF Resume
    <2>2. IndInv'
        BY <1>7, <2>1 DEF Resume, claimVars, Loops, Claiming
    <2> QED
        BY <1>7, <2>1, <2>2 DEF Resume, Promise!LifeNext, Promise!Resume
<1> QED
    BY <1>1, <1>2, <1>3, <1>4, <1>5, <1>6, <1>7

-----------------------------------------------------------------------------
LEMMA StepHolds ==
    IndInv /\ [PluginNext]_pluginVars =>
        IndInv' /\ (Promise!LifeNext \/ UNCHANGED <<Standing, held>>)
<1> SUFFICES ASSUME IndInv, [PluginNext]_pluginVars
             PROVE  IndInv' /\ (Promise!LifeNext \/ UNCHANGED <<Standing, held>>)
    OBVIOUS
<1>1. CASE UNCHANGED pluginVars
    BY <1>1 DEF pluginVars, IndInv, PhaseTypes, NotYet, ClaimIsInItsPass, DetachIsQuiescing,
                StartsAreAwaited, LetGoIsEmpty, Standing
<1>2. CASE \E l \in Loops : LoopStep(l)
    <2>1. IndInv' /\ (Promise!StartWorker \/ UNCHANGED <<up, phase, held>>)
        BY <1>2, LoopsKeepIt
    <2> QED
        BY <2>1 DEF Promise!LifeNext, Standing
<1>3. CASE ClaimStep \/ \E r \in Requests : HandsOut(r) \/ Cancel(r) \/ RootsChange(r)
    <2>1. IndInv' /\ UNCHANGED <<up, phase, held>>
        BY <1>3, ClaimsKeepIt
    <2> QED
        BY <2>1 DEF Standing
<1>4. CASE \/ Start \/ Beat \/ BeatSettled \/ WorkerEnds
           \/ Detach \/ Hold \/ LetGo \/ Resume \/ Stop
    BY <1>4, PhasesKeepIt
<1> QED
    BY <1>1, <1>2, <1>3, <1>4 DEF PluginNext

\* The plugin implements the promise the registry relies on (plugin-phase.mjs):
\* it lets go only when it runs no worker, starts none once it was found
\* holding some, and what it let go of it never serves again.
THEOREM PromiseIsKept == PluginSpec => KeepsItsPromise
<1>1. PluginInit => Promise!LifeInit
    BY DEF PluginInit, Promise!LifeInit, Standing
<1>2. PluginInit => IndInv
    BY InitHolds
<1>3. IndInv /\ [PluginNext]_pluginVars => IndInv' /\ [Promise!LifeNext]_(Promise!lifeVars)
    BY StepHolds DEF Promise!lifeVars
<1> QED
    BY <1>1, <1>2, <1>3, PTL DEF PluginSpec, KeepsItsPromise, Promise!LifeSpec

\* What follows for the registry that let a plugin go (service-plugins.mjs): it
\* runs nothing, and never will.
THEOREM GoneForGood == PluginSpec => [](phase = "detached" => held = 0)
<1>1. PluginInit => IndInv
    BY InitHolds
<1>2. IndInv /\ [PluginNext]_pluginVars => IndInv'
    BY StepHolds
<1>3. IndInv => (phase = "detached" => held = 0)
    BY DEF IndInv, LetGoIsEmpty
<1> QED
    BY <1>1, <1>2, <1>3, PTL DEF PluginSpec

-----------------------------------------------------------------------------
(***************************************************************************)
(* Its loops: LoopsFollowThePhase.                                         *)
(***************************************************************************)
\* What a quiesce waits for is every pass there is: none begins behind it.
PassesAreAwaited == phase = "quiescing" => \A l \in Loops : InPass(l) => l \in waiting

\* The first beat is under way until it settles; what detached has halted.
BeatsAndEnds ==
    /\ up = "beating" => beat = "sent"
    /\ phase = "detached" => halted

LoopInv == IndInv /\ LoopsFollowThePhase /\ PassesAreAwaited /\ BeatsAndEnds

LEMMA LoopsBegin == PluginInit => LoopInv
BY InitHolds DEF PluginInit, LoopInv, LoopsFollowThePhase, PassesAreAwaited, BeatsAndEnds

\* A loop that stays in its pass, settles, or begins one where the phase lets
\* it, follows the phase.
LEMMA PassesKeepLoops ==
    ASSUME LoopInv, NEW l \in Loops, LoopStep(l)
    PROVE  LoopInv'
<1> USE DEF LoopInv, IndInv, PhaseTypes
<1>1. IndInv'
    BY LoopsKeepIt
<1>2. UNCHANGED <<up, halted, phase, beat>>
    BY DEF LoopStep, BeginOrEnd, SetUp, PassEnds, AdmitStart, WorkerStarts
<1>3. \E at \in Places :
        /\ loop' = [loop EXCEPT ![l] = at]
        /\ \/ /\ UNCHANGED waiting
              /\ \/ InPass(l) /\ at \in {"pass", "starting"}
                 \/ at = "setup" /\ MayRun(l)
                 \/ at = "off" /\ ~(~halted /\ MayRun(l))
           \/ at = "pause" /\ waiting' = waiting \ {l}
    BY DEF LoopStep, BeginOrEnd, SetUp, PassEnds, AdmitStart, WorkerStarts, Settled, InPass, Places
<1>4. PICK at \in Places :
        /\ loop' = [loop EXCEPT ![l] = at]
        /\ \/ /\ UNCHANGED waiting
              /\ \/ InPass(l) /\ at \in {"pass", "starting"}
                 \/ at = "setup" /\ MayRun(l)
                 \/ at = "off" /\ ~(~halted /\ MayRun(l))
           \/ at = "pause" /\ waiting' = waiting \ {l}
    BY <1>3
<1>5. \A k \in Loops : loop'[k] = IF k = l THEN at ELSE loop[k]
    BY <1>4
<1>6. MayRun(l) => phase \in {"running", "held"}
    BY DEF MayRun, Claims, Controls
<1>7. phase = "running" => MayRun(l)
    BY DEF MayRun, Claims, Controls
<1>8. phase = "held" /\ l = "control" => MayRun(l)
    BY DEF MayRun, Controls, Claiming
<1>9. PassesAreAwaited'
    BY <1>2, <1>4, <1>5, <1>6 DEF PassesAreAwaited, InPass
<1>10. LoopsFollowThePhase'
    <2>1. ASSUME up = "yes", ~halted
          PROVE  /\ phase = "running" => \A k \in Loops : loop'[k] # "off"
                 /\ phase = "held" => loop'["control"] # "off"
        BY <1>4, <1>5, <1>7, <1>8, <2>1 DEF LoopsFollowThePhase, Loops
    <2>2. phase = "detached" => \A k \in Loops : ~(loop'[k] \in {"setup", "pass", "starting"})
        BY <1>4, <1>5, <1>6 DEF LoopsFollowThePhase, InPass
    <2> QED BY <1>2, <2>1, <2>2 DEF LoopsFollowThePhase, InPass
<1> QED BY <1>1, <1>2, <1>9, <1>10 DEF BeatsAndEnds

LEMMA ClaimsKeepLoops ==
    ASSUME LoopInv, ClaimStep \/ \E r \in Requests : HandsOut(r) \/ Cancel(r) \/ RootsChange(r)
    PROVE  LoopInv'
<1>1. IndInv'
    BY ClaimsKeepIt DEF LoopInv
<1>2. UNCHANGED <<up, halted, phase, beat>>
    BY DEF ClaimStep, ClaimAnswered, Judge, ReportStarting, ReportRunning, HandsOut, Cancel, RootsChange
<1>3. \/ UNCHANGED <<loop, waiting>>
      \/ loop' = [loop EXCEPT !["claim"] = "pause"] /\ waiting' = waiting \ {"claim"}
    BY DEF ClaimStep, ClaimAnswered, Judge, ReportStarting, ReportRunning, HandsOut, Cancel, RootsChange, ClaimEnds, Settled
<1>4. CASE UNCHANGED <<loop, waiting>>
    BY <1>1, <1>2, <1>4 DEF LoopInv, LoopsFollowThePhase, PassesAreAwaited, BeatsAndEnds, InPass
<1>5. CASE loop' = [loop EXCEPT !["claim"] = "pause"] /\ waiting' = waiting \ {"claim"}
    <2>1. \A k \in Loops : loop'[k] = IF k = "claim" THEN "pause" ELSE loop[k]
        BY <1>5 DEF LoopInv, IndInv, PhaseTypes
    <2>2. LoopsFollowThePhase'
        BY <1>2, <2>1 DEF LoopInv, LoopsFollowThePhase, InPass, Loops
    <2>3. PassesAreAwaited'
        BY <1>2, <1>5, <2>1 DEF LoopInv, PassesAreAwaited, InPass
    <2> QED BY <1>1, <1>2, <2>2, <2>3 DEF LoopInv, BeatsAndEnds
<1> QED BY <1>3, <1>4, <1>5

LEMMA PhasesKeepLoops ==
    ASSUME LoopInv,
           \/ Start \/ Beat \/ BeatSettled \/ WorkerEnds
           \/ Detach \/ Hold \/ LetGo \/ Resume \/ Stop
    PROVE  LoopInv'
<1>1. IndInv'
    BY PhasesKeepIt DEF LoopInv
<1> USE DEF LoopInv, IndInv, PhaseTypes, LoopsFollowThePhase, PassesAreAwaited, BeatsAndEnds, InPass
<1>2. CASE Start
    BY <1>1, <1>2 DEF Start, NotYet
<1>3. CASE Beat \/ Stop \/ WorkerEnds
    BY <1>1, <1>3 DEF Beat, Stop, WorkerEnds
<1>4. CASE BeatSettled
    BY <1>1, <1>4 DEF BeatSettled, NotYet, Loops
<1>5. CASE Detach
    BY <1>1, <1>5 DEF Detach
<1>6. CASE Hold
    <2>1. /\ phase' = "held" /\ UNCHANGED <<up, halted, beat>>
          /\ loop'["control"] # "off"
        BY <1>6 DEF Hold, Loops
    <2> QED BY <1>1, <2>1
<1>7. CASE LetGo
    <2>1. phase = "quiescing"
        BY <1>7 DEF LetGo, DetachIsQuiescing
    <2>2. phase' = "detached" /\ halted' /\ waiting = {} /\ UNCHANGED <<up, loop>>
        BY <1>7 DEF LetGo
    <2>3. \A l \in Loops : ~InPass(l)
        BY <2>1, <2>2
    <2>4. up' # "beating"
        BY <2>1, <2>2 DEF NotYet
    <2> QED BY <1>1, <2>2, <2>3, <2>4
<1>8. CASE Resume
    <2>1. /\ phase = "held" /\ phase' = "running" /\ UNCHANGED <<up, halted, beat>>
          /\ loop' = [l \in Loops |-> IF l \in Claiming /\ loop[l] = "off" THEN "pause" ELSE loop[l]]
        BY <1>8 DEF Resume
    <2>2. up = "yes" /\ ~halted => \A l \in Loops : loop'[l] # "off"
        BY <2>1 DEF Loops, Claiming
    <2> QED BY <1>1, <2>1, <2>2
<1> QED BY <1>2, <1>3, <1>4, <1>5, <1>6, <1>7, <1>8

\* While the plugin runs every loop of it is alive, held its control loop is,
\* its next beat is timed or under way throughout, and nothing of a detached
\* one is in a pass (index.mjs, pass-loop.mjs, plugin-phase.mjs).
THEOREM LoopsHold == PluginSpec => []LoopsFollowThePhase
<1>1. PluginInit => LoopInv
    BY LoopsBegin
<1>2. LoopInv /\ [PluginNext]_pluginVars => LoopInv'
    <2> SUFFICES ASSUME LoopInv, [PluginNext]_pluginVars PROVE LoopInv'
        OBVIOUS
    <2>1. CASE UNCHANGED pluginVars
        <3>1. IndInv'
            BY <2>1, StepHolds DEF LoopInv
        <3> QED BY <2>1, <3>1 DEF pluginVars, LoopInv, LoopsFollowThePhase, PassesAreAwaited, BeatsAndEnds, InPass
    <2> QED BY <2>1, PassesKeepLoops, ClaimsKeepLoops, PhasesKeepLoops DEF PluginNext
<1>3. LoopInv => LoopsFollowThePhase
    BY DEF LoopInv
<1> QED BY <1>1, <1>2, <1>3, PTL DEF PluginSpec

-----------------------------------------------------------------------------
(***************************************************************************)
(* The host's registry: RegistryIsSafe.                                    *)
(***************************************************************************)
RegistryTypeOK ==
  /\ entry \in [readable : BOOLEAN, endpoint : Endpoints \cup {NoEndpoint}, advertise : BOOLEAN, starts : BOOLEAN]
  /\ target \in Endpoints \cup {NoEndpoint}
  /\ post \in {Idle} \cup [at : {"sent"}, e : Endpoints]
  /\ age \in [Endpoints -> 0 .. Never]
  /\ answered \in [Endpoints -> {"none", "ok", "refused"}]

\* There is one plugin at most, at its own service's endpoint.
AtMostOne == \A p, q \in plugins : p = q

\* An acceptance that has not aged out is the last thing its endpoint said,
\* whether or not it is the one that is written to now.
AcceptedStands == \A e \in Endpoints : age[e] <= StaleBeats => answered[e] = "ok"

RegistryInv == RegistryTypeOK /\ AtMostOne /\ AcceptedStands

LEMMA RegistryBegins ==
  ASSUME StaleIsPositive, RegistryInit
  PROVE  RegistryInv
<1>1. RegistryTypeOK
  BY DEF StaleIsPositive, RegistryInit, RegistryTypeOK, NoEndpoint, Never
<1>2. AtMostOne
  BY DEF RegistryInit, AtMostOne
<1>3. AcceptedStands
  BY DEF StaleIsPositive, RegistryInit, AcceptedStands, Never
<1> QED BY <1>1, <1>2, <1>3 DEF RegistryInv

LEMMA FollowKeepsOne ==
  ASSUME AtMostOne, BeginFollow
  PROVE  AtMostOne'
  BY DEF AtMostOne, BeginFollow

LEMMA RegistryStep ==
  ASSUME StaleIsPositive, RegistryInv, [RegistryNext]_registryVars
  PROVE  RegistryInv'
<1> USE DEF RegistryInv
<1>1. ASSUME NEW e \in Endpoints \cup {NoEndpoint}, Edit(e) PROVE RegistryInv'
  <2>1. entry' \in [readable : BOOLEAN, endpoint : Endpoints \cup {NoEndpoint}, advertise : BOOLEAN, starts : BOOLEAN]
    BY <1>1 DEF Edit, RegistryTypeOK
  <2>2. UNCHANGED <<plugins, target, post, age, answered>>
    BY <1>1 DEF Edit, advertiseVars
  <2> QED BY <2>1, <2>2 DEF RegistryTypeOK, AtMostOne, AcceptedStands, Never
<1>2. ASSUME NEW p \in plugins, WorkerComes(p) \/ WorkerGoes(p) \/ AskDetach(p) \/ DetachAnswered(p)
      PROVE  RegistryInv'
  <2>1. AtMostOne'
    BY <1>2 DEF AtMostOne, WorkerComes, WorkerGoes, AskDetach, DetachAnswered, Becomes
  <2>2. UNCHANGED <<entry, target, post, age, answered>>
    BY <1>2 DEF WorkerComes, WorkerGoes, AskDetach, DetachAnswered, advertiseVars
  <2> QED BY <2>1, <2>2 DEF RegistryTypeOK, AcceptedStands
<1>3. CASE NothingToDetach \/ Add
  <2>1. AtMostOne'
    BY <1>3 DEF AtMostOne, NothingToDetach, Add, NameIsFree, Plugin
  <2>2. UNCHANGED <<entry, target, post, age, answered>>
    BY <1>3 DEF NothingToDetach, Add, advertiseVars
  <2> QED BY <2>1, <2>2 DEF RegistryTypeOK, AcceptedStands
<1>4. CASE BeatBegins
  <2>1. UNCHANGED <<entry, answered>>
    BY <1>4 DEF BeatBegins
  <2>7. age' = [e \in Endpoints |-> IF age[e] < Never THEN age[e] + 1 ELSE Never]
    BY <1>4 DEF BeatBegins
  <2>8. target' \in Endpoints \cup {NoEndpoint}
    <3>1. entry.endpoint \in Endpoints \cup {NoEndpoint}
      BY DEF RegistryTypeOK
    <3>2. CASE entry.readable
      BY <1>4, <3>1, <3>2 DEF BeatBegins
    <3>3. CASE ~ entry.readable
      BY <1>4, <3>3 DEF BeatBegins
    <3> QED BY <3>2, <3>3
  <2>9. post' \in {Idle} \cup [at : {"sent"}, e : Endpoints]
    <3>1. CASE target' = NoEndpoint
      BY <1>4, <3>1, ZenonT(20) DEF BeatBegins
    <3>2. CASE target' # NoEndpoint
      <4>1. post' = [at |-> "sent", e |-> target']
        BY <1>4, <3>2, ZenonT(20) DEF BeatBegins
      <4> QED BY <2>8, <3>2, <4>1
    <3> QED BY <3>1, <3>2
  <2>2. AtMostOne'
    BY <1>4, FollowKeepsOne DEF BeatBegins, AtMostOne
  <2>3. StaleBeats \in Nat /\ Never = StaleBeats + 1
    BY DEF StaleIsPositive, Never
  <2>4. age' \in [Endpoints -> 0 .. Never]
    <3>1. \A e \in Endpoints : age[e] \in 0 .. Never
      BY DEF RegistryTypeOK
    <3>2. \A e \in Endpoints : (IF age[e] < Never THEN age[e] + 1 ELSE Never) \in 0 .. Never
      BY <2>3, <3>1
    <3> QED BY <2>7, <3>2
  <2>5. AcceptedStands'
    <3>1. \A e \in Endpoints : age[e] \in 0 .. Never
      BY DEF RegistryTypeOK
    <3>2. ASSUME NEW e \in Endpoints, age'[e] <= StaleBeats PROVE age[e] <= StaleBeats
      <4>1. age'[e] = IF age[e] < Never THEN age[e] + 1 ELSE Never
        BY <2>7
      <4> QED BY <2>3, <3>1, <3>2, <4>1
    <3> QED BY <2>1, <3>2 DEF AcceptedStands
  <2>6. RegistryTypeOK'
    BY <2>1, <2>4, <2>8, <2>9 DEF RegistryTypeOK, Never
  <2> QED BY <2>1, <2>2, <2>5, <2>6
<1>5. CASE FollowOnly
  BY <1>5, FollowKeepsOne DEF FollowOnly, advertiseVars, RegistryTypeOK, AcceptedStands, Never
<1>6. ASSUME NEW answer \in {"ok", "refused", "down"}, Answered(answer) PROVE RegistryInv'
  <2>1. post.e \in Endpoints /\ post' = Idle /\ UNCHANGED <<entry, plugins, target>>
    BY <1>6 DEF Answered, RegistryTypeOK
  <2>2. StaleBeats \in Nat /\ Never = StaleBeats + 1
    BY DEF StaleIsPositive, Never
  <2>3. age' \in [Endpoints -> 0 .. Never] /\ answered' \in [Endpoints -> {"none", "ok", "refused"}]
    BY <1>6, <2>1, <2>2 DEF Answered, Accepts, RegistryTypeOK
  <2>4. AcceptedStands'
    BY <1>6, <2>1, <2>2 DEF Answered, Accepts, RegistryTypeOK, AcceptedStands
  <2> QED BY <2>1, <2>3, <2>4 DEF RegistryTypeOK, AtMostOne, Never
<1>7. CASE UNCHANGED registryVars
  BY <1>7 DEF registryVars, RegistryTypeOK, AtMostOne, AcceptedStands, Never
<1> QED BY <1>1, <1>2, <1>3, <1>4, <1>5, <1>6, <1>7 DEF RegistryNext

LEMMA OneAtMostCounts ==
  ASSUME AtMostOne
  PROVE  OnePluginServes
<1>1. CASE plugins = {}
  BY <1>1, FS_EmptySet DEF OnePluginServes
<1>2. CASE plugins # {}
  <2>1. PICK p \in plugins : TRUE
    BY <1>2
  <2>2. plugins = {p}
    BY <2>1 DEF AtMostOne
  <2> QED BY <2>2, FS_Singleton DEF OnePluginServes
<1> QED BY <1>1, <1>2

\* However the registry's entry moves, is unreadable or is undone, and however
\* the advertisement is answered: one plugin serves at most, and what health
\* calls fresh accepted this host and has not refused it since
\* (service-plugins.mjs, plugin-bootstrap.mjs, host-advertiser.mjs).
THEOREM RegistryHolds ==
  ASSUME StaleIsPositive
  PROVE  RegistrySpec => []RegistryIsSafe
<1>1. RegistryInit => RegistryInv
  BY RegistryBegins
<1>2. RegistryInv /\ [RegistryNext]_registryVars => RegistryInv'
  BY RegistryStep
<1>3. RegistryInv => RegistryIsSafe
  BY OneAtMostCounts DEF RegistryInv, RegistryIsSafe, AcceptedStands, FreshWasAccepted, Fresh
<1> QED BY <1>1, <1>2, <1>3, PTL DEF RegistrySpec

-----------------------------------------------------------------------------
(***************************************************************************)
(* The output of a worker on its way to the service: in order, once, the   *)
(* oldest given up first, and the end last.                                *)
(***************************************************************************)

\* Between the process and the service: what is queued is younger than what is
\* in the POST, and that than all the service heard, in the order written.
Ascends(s) == \A i, j \in DOMAIN s : i < j => s[i] < s[j]
Older(S, s) == \A c \in S : \A i \in DOMAIN s : c < s[i]
Heard == ToSet(heard) \ {Marker}

SenderTypes ==
    /\ written \in Nat
    /\ unsent \in Seq(1..written) /\ posted \in Seq(1..written) /\ heard \in Seq(0..written)
    /\ lost \subseteq 1..written /\ discarded \subseteq 1..written
    /\ exit \in {"no", "draining", "marking", "done"} /\ late \in BOOLEAN

StillOrdered ==
    /\ InOrder /\ Ascends(posted) /\ Ascends(unsent)
    /\ Older(Heard, posted) /\ Older(Heard, unsent)
    /\ Older(ToSet(posted), unsent) /\ Older(discarded, unsent)

\* The marker leaves once, and behind everything unless the wait ran out.
EndIsBehind ==
    /\ exit # "done" => Marker \notin ToSet(heard)
    /\ ~late /\ exit \in {"marking", "done"} => unsent = <<>> /\ posted = <<>>
    /\ ~late => EndIsLast

OutputInv == SenderTypes /\ StillOrdered /\ Accounted /\ EndIsBehind

LEMMA NothingQueued ==
    /\ ToSet(<<>>) = {}
    /\ Ascends(<<>>)
    /\ \A S : Older(S, <<>>)
    /\ \A S : <<>> \in Seq(S)
BY DEF ToSet, Ascends, Older

LEMMA ElementsAreTyped ==
    ASSUME NEW S, NEW s \in Seq(S)
    PROVE  ToSet(s) \subseteq S
BY DEF ToSet

LEMMA OneMore ==
    ASSUME NEW n \in Nat, NEW s \in Seq(0..n), NEW x \in Nat
    PROVE  /\ Append(s, x) \in Seq(Nat)
           /\ DOMAIN Append(s, x) = 1..(Len(s) + 1)
           /\ \A i \in DOMAIN s : Append(s, x)[i] = s[i]
           /\ Append(s, x)[Len(s) + 1] = x
           /\ ToSet(Append(s, x)) = ToSet(s) \cup {x}
<1>1. /\ Append(s, x) \in Seq(Nat)
      /\ DOMAIN Append(s, x) = 1..(Len(s) + 1)
      /\ \A i \in DOMAIN s : Append(s, x)[i] = s[i]
      /\ Append(s, x)[Len(s) + 1] = x
    OBVIOUS
<1>2. DOMAIN s = 1..Len(s) /\ Len(s) \in Nat
    OBVIOUS
<1>3. ToSet(Append(s, x)) = ToSet(s) \cup {x}
    BY <1>1, <1>2 DEF ToSet
<1> QED BY <1>1, <1>3

LEMMA Joined ==
    ASSUME NEW n \in Nat, NEW s \in Seq(0..n), NEW t \in Seq(0..n)
    PROVE  /\ s \o t \in Seq(0..n)
           /\ Len(s \o t) = Len(s) + Len(t)
           /\ \A i \in DOMAIN (s \o t) : (s \o t)[i] = IF i <= Len(s) THEN s[i] ELSE t[i - Len(s)]
           /\ ToSet(s \o t) = ToSet(s) \cup ToSet(t)
<1>1. /\ s \o t \in Seq(0..n)
      /\ Len(s \o t) = Len(s) + Len(t)
      /\ \A i \in DOMAIN (s \o t) : (s \o t)[i] = IF i <= Len(s) THEN s[i] ELSE t[i - Len(s)]
    OBVIOUS
<1>2. /\ DOMAIN s = 1..Len(s) /\ DOMAIN t = 1..Len(t) /\ DOMAIN (s \o t) = 1..(Len(s) + Len(t))
      /\ Len(s) \in Nat /\ Len(t) \in Nat
    BY <1>1
<1>3. ToSet(s \o t) \subseteq ToSet(s) \cup ToSet(t)
    BY <1>1, <1>2 DEF ToSet
<1>4. ToSet(s) \subseteq ToSet(s \o t)
    BY <1>1, <1>2 DEF ToSet
<1>5. ASSUME NEW i \in DOMAIN t PROVE t[i] \in ToSet(s \o t)
    <2>1. Len(s) + i \in DOMAIN (s \o t) /\ (s \o t)[Len(s) + i] = t[i]
        BY <1>1, <1>2
    <2> QED BY <2>1 DEF ToSet
<1> QED BY <1>1, <1>3, <1>4, <1>5 DEF ToSet

\* The cap keeps the youngest, and what it drops is older than all it keeps.
LEMMA CapDropsOldest ==
    ASSUME MaxPending \in Nat, NEW n \in Nat, NEW s \in Seq(1..n), Ascends(s)
    PROVE  /\ Capped(s) \in Seq(1..n)
           /\ Ascends(Capped(s))
           /\ ToSet(Capped(s)) \subseteq ToSet(s)
           /\ Older(ToSet(s) \ ToSet(Capped(s)), Capped(s))
<1> DEFINE k == Len(s) - MaxPending
<1>1. CASE Len(s) <= MaxPending
    BY <1>1 DEF Capped, Older, Ascends
<1>2. CASE Len(s) > MaxPending
    <2>1. Capped(s) = SubSeq(s, k + 1, Len(s)) /\ k \in Nat /\ Len(s) \in Nat /\ DOMAIN s = 1..Len(s)
        BY <1>2 DEF Capped
    <2>2. /\ Capped(s) \in Seq(1..n) /\ DOMAIN Capped(s) = 1..MaxPending
          /\ \A i \in 1..MaxPending : Capped(s)[i] = s[k + i]
        <3>1. /\ SubSeq(s, k + 1, Len(s)) \in Seq(1..n)
              /\ Len(SubSeq(s, k + 1, Len(s))) = MaxPending
              /\ \A i \in 1..MaxPending : SubSeq(s, k + 1, Len(s))[i] = s[k + i]
            BY <2>1, <1>2, SMTT(30)
        <3> QED BY <3>1, <2>1
    <2>3. \A i \in 1..MaxPending : k + i \in DOMAIN s
        BY <2>1
    <2>4. Ascends(Capped(s))
        <3>1. SUFFICES ASSUME NEW i \in 1..MaxPending, NEW j \in 1..MaxPending, i < j
                       PROVE  s[k + i] < s[k + j]
            <4> HIDE DEF k
            <4> QED BY <2>2 DEF Ascends
        <3>2. k + i < k + j
            BY <3>1, <2>1
        <3> HIDE DEF k
        <3> QED BY <3>2, <2>3 DEF Ascends
    <2>5. ToSet(Capped(s)) \subseteq ToSet(s)
        <3> HIDE DEF k
        <3> QED BY <2>2, <2>3 DEF ToSet
    <2>6. ASSUME NEW j \in DOMAIN s, s[j] \notin ToSet(Capped(s)) PROVE j <= k
        <3>1. j > k => j - k \in 1..MaxPending /\ k + (j - k) = j
            BY <2>1
        <3>2. j > k => Capped(s)[j - k] = s[j]
            BY <3>1, <2>2
        <3>3. j > k => s[j] \in ToSet(Capped(s))
            <4> HIDE DEF k
            <4> QED BY <3>1, <3>2, <2>2 DEF ToSet
        <3> QED BY <3>3, <2>1, <2>6
    <2>7. Older(ToSet(s) \ ToSet(Capped(s)), Capped(s))
        <3>1. ASSUME NEW c \in ToSet(s) \ ToSet(Capped(s)), NEW i \in 1..MaxPending
              PROVE  c < Capped(s)[i]
            <4>1. PICK j \in DOMAIN s : s[j] = c
                BY <3>1 DEF ToSet
            <4>2. j < k + i
                BY <4>1, <2>1, <2>6
            <4> QED BY <4>1, <4>2, <2>2, <2>3 DEF Ascends
        <3> QED BY <3>1, <2>2 DEF Older
    <2> QED BY <2>2, <2>4, <2>5, <2>7
<1> QED BY <1>1, <1>2

\* The chunk just written is younger than every other.
LEMMA YoungestGoesLast ==
    ASSUME NEW n \in Nat, NEW s \in Seq(1..n), Ascends(s)
    PROVE  /\ Append(s, n + 1) \in Seq(1..(n + 1))
           /\ Ascends(Append(s, n + 1))
           /\ ToSet(Append(s, n + 1)) = ToSet(s) \cup {n + 1}
           /\ \A S \in SUBSET (0..n) : Older(S, s) => Older(S, Append(s, n + 1))
<1>1. s \in Seq(0..n) /\ DOMAIN s = 1..Len(s) /\ Len(s) \in Nat
    BY SMT
<1>2. /\ DOMAIN Append(s, n + 1) = 1..(Len(s) + 1)
      /\ \A i \in DOMAIN s : Append(s, n + 1)[i] = s[i]
      /\ Append(s, n + 1)[Len(s) + 1] = n + 1
      /\ ToSet(Append(s, n + 1)) = ToSet(s) \cup {n + 1}
    BY <1>1, OneMore
<1>3. Append(s, n + 1) \in Seq(1..(n + 1))
    OBVIOUS
<1>4. \A i \in DOMAIN s : s[i] \in 1..n
    OBVIOUS
<1>5. Ascends(Append(s, n + 1))
    BY <1>1, <1>2, <1>4 DEF Ascends
<1>6. \A S \in SUBSET (0..n) : Older(S, s) => Older(S, Append(s, n + 1))
    BY <1>1, <1>2 DEF Older
<1> QED BY <1>2, <1>3, <1>5, <1>6

\* What the service gets next is younger than all it has.
LEMMA HeardInOrder ==
    ASSUME SenderTypes, StillOrdered
    PROVE  \A i, j \in DOMAIN (heard \o posted) :
              i < j /\ (heard \o posted)[i] # Marker /\ (heard \o posted)[j] # Marker
                  => (heard \o posted)[i] < (heard \o posted)[j]
<1> DEFINE all == heard \o posted
<1>1. /\ heard \in Seq(0..written) /\ posted \in Seq(0..written) /\ written \in Nat
      /\ DOMAIN heard = 1..Len(heard) /\ DOMAIN posted = 1..Len(posted)
      /\ Len(heard) \in Nat /\ Len(posted) \in Nat
    BY DEF SenderTypes
<1>2. /\ DOMAIN all = 1..(Len(heard) + Len(posted))
      /\ \A i \in DOMAIN all : all[i] = IF i <= Len(heard) THEN heard[i] ELSE posted[i - Len(heard)]
    BY <1>1, Joined
<1>3. SUFFICES ASSUME NEW i \in DOMAIN all, NEW j \in DOMAIN all, i < j, all[i] # Marker, all[j] # Marker
               PROVE  all[i] < all[j]
    OBVIOUS
<1> HIDE DEF all
<1>4. CASE j <= Len(heard)
    BY <1>1, <1>2, <1>3, <1>4 DEF StillOrdered, InOrder
<1>5. CASE i > Len(heard)
    <2>1. i - Len(heard) \in DOMAIN posted /\ j - Len(heard) \in DOMAIN posted
          /\ i - Len(heard) < j - Len(heard)
        BY <1>1, <1>2, <1>3, <1>5
    <2> QED BY <2>1, <1>2, <1>5, <1>3, <1>1 DEF StillOrdered, Ascends
<1>6. CASE i <= Len(heard) /\ j > Len(heard)
    <2>1. i \in DOMAIN heard /\ heard[i] \in Heard /\ j - Len(heard) \in DOMAIN posted
        BY <1>1, <1>2, <1>3, <1>6 DEF Heard, ToSet
    <2> QED BY <2>1, <1>2, <1>6 DEF StillOrdered, Older
<1> QED BY <1>1, <1>2, <1>4, <1>5, <1>6

LEMMA SendOrArmPasses ==
    ASSUME NEW queue, SendOrArm(queue)
    PROVE  (posted' = <<>> /\ unsent' = queue) \/ (posted' = queue /\ unsent' = <<>>)
BY DEF SendOrArm, DrainNow

-----------------------------------------------------------------------------
\* What passes from the queue to a POST with none in flight keeps its place.
LEMMA PassingKeepsIt ==
    ASSUME OutputInv, posted = <<>>, posted' = unsent, unsent' = <<>>,
           UNCHANGED <<written, exit, late, heard, lost, discarded>>,
           exit \in {"no", "draining"} \/ unsent # <<>>
    PROVE  OutputInv'
<1> USE NothingQueued DEF OutputInv
<1>1. SenderTypes'
    BY DEF SenderTypes
<1>2. StillOrdered'
    BY DEF StillOrdered, InOrder, Heard, Ascends, Older
<1>3. Accounted'
    BY DEF Accounted
<1>4. EndIsBehind'
    BY DEF EndIsBehind, EndIsLast
<1> QED BY <1>1, <1>2, <1>3, <1>4

LEMMA SendKeepsIt ==
    ASSUME MaxPending \in Nat, OutputInv, Send
    PROVE  OutputInv'
<1> DEFINE n == written
           chunk == n + 1
           queue == Append(unsent, chunk)
<1>1. /\ exit = "no" /\ exit' = "no" /\ late' = late /\ heard' = heard /\ lost' = lost
      /\ written' = n + 1 /\ n \in Nat
    BY DEF Send, OutputInv, SenderTypes
<1>2. SenderTypes /\ StillOrdered /\ Accounted /\ EndIsBehind
    BY DEF OutputInv
<1>3. /\ unsent \in Seq(1..n) /\ posted \in Seq(1..n) /\ heard \in Seq(0..n)
      /\ lost \subseteq 1..n /\ discarded \subseteq 1..n
    BY <1>2 DEF SenderTypes
<1>4. /\ queue \in Seq(1..(n + 1)) /\ Ascends(queue) /\ ToSet(queue) = ToSet(unsent) \cup {n + 1}
      /\ \A S \in SUBSET (0..n) : Older(S, unsent) => Older(S, queue)
    BY <1>1, <1>2, <1>3, YoungestGoesLast DEF StillOrdered
<1>5. /\ Heard \in SUBSET (0..n) /\ ToSet(posted) \in SUBSET (0..n) /\ ToSet(unsent) \in SUBSET (0..n)
      /\ discarded \in SUBSET (0..n)
    <2>1. ToSet(heard) \subseteq 0..n
        BY <1>3, ElementsAreTyped
    <2>2. ToSet(posted) \subseteq 1..n /\ ToSet(unsent) \subseteq 1..n
        BY <1>3, ElementsAreTyped
    <2>3. 1..n \subseteq 0..n
        BY <1>1
    <2> QED BY <2>1, <2>2, <2>3, <1>3 DEF Heard
<1>6. Older(Heard, queue) /\ Older(ToSet(posted), queue) /\ Older(discarded, queue)
    BY <1>2, <1>4, <1>5 DEF StillOrdered
<1>7. 1..(n + 1) = (1..n) \cup {n + 1}
    BY <1>1
<1>8. Seq(1..n) \subseteq Seq(1..(n + 1)) /\ Seq(0..n) \subseteq Seq(0..(n + 1))
    BY <1>1
<1>9. InOrder' /\ (Heard)' = Heard
    BY <1>1, <1>2 DEF StillOrdered, InOrder, Heard
<1>10. EndIsBehind'
    <2>1. exit' = "no" /\ Marker \notin ToSet(heard)
        BY <1>1, <1>2 DEF EndIsBehind
    <2> QED BY <2>1, <1>1 DEF EndIsBehind, EndIsLast, ToSet
<1>11. CASE posted' = unsent /\ unsent' = <<chunk>> /\ posted = <<>> /\ discarded' = discarded
    <2>1. <<chunk>> \in Seq(1..(n + 1)) /\ ToSet(<<chunk>>) = {n + 1} /\ DOMAIN <<chunk>> = {1} /\ <<chunk>>[1] = n + 1
        BY <1>1 DEF ToSet
    <2>2. SenderTypes'
        BY <1>1, <1>2, <1>3, <1>7, <1>8, <1>11, <2>1 DEF SenderTypes
    <2>3. \A S \in SUBSET (0..n) : Older(S, <<chunk>>)
        BY <1>1, <2>1 DEF Older
    <2>4. StillOrdered'
        <3>1. Ascends(<<chunk>>)
            BY <2>1 DEF Ascends
        <3>2. /\ Older((Heard)', posted') /\ Older((Heard)', unsent')
              /\ Older(ToSet(posted'), unsent') /\ Older(discarded', unsent')
            BY <1>2, <1>5, <1>9, <1>11, <2>3 DEF StillOrdered
        <3> QED BY <1>2, <1>9, <1>11, <3>1, <3>2 DEF StillOrdered
    <2>5. Accounted'
        BY <1>1, <1>2, <1>7, <1>11, <2>1, NothingQueued DEF Accounted
    <2> QED BY <2>2, <2>4, <2>5, <1>10 DEF OutputInv
<1>12. CASE /\ posted # <<>> /\ posted' = posted /\ unsent' = Capped(queue)
            /\ discarded' = discarded \cup (ToSet(queue) \ ToSet(Capped(queue)))
    <2>1. /\ Capped(queue) \in Seq(1..(n + 1)) /\ Ascends(Capped(queue))
          /\ ToSet(Capped(queue)) \subseteq ToSet(queue)
          /\ Older(ToSet(queue) \ ToSet(Capped(queue)), Capped(queue))
        <3> HIDE DEF queue
        <3>1. n + 1 \in Nat
            BY <1>1
        <3> QED BY <3>1, <1>4, CapDropsOldest
    <2>2. SenderTypes'
        <3> HIDE DEF queue
        <3>1. ToSet(queue) \subseteq 1..(n + 1)
            BY <1>4, ElementsAreTyped
        <3>2. discarded' \subseteq 1..(n + 1)
            BY <1>3, <1>7, <1>12, <3>1
        <3>3. posted' \in Seq(1..(n + 1)) /\ unsent' \in Seq(1..(n + 1))
            BY <1>3, <1>8, <1>12, <2>1
        <3> QED BY <1>1, <1>2, <1>3, <1>7, <1>8, <3>2, <3>3 DEF SenderTypes
    <2>3. \A S : Older(S, queue) => Older(S, Capped(queue))
        BY <2>1 DEF Older, ToSet
    <2>4. StillOrdered'
        <3>1. /\ Older((Heard)', posted') /\ Older((Heard)', unsent')
              /\ Older(ToSet(posted'), unsent') /\ Older(discarded', unsent')
            <4>1. Older(Heard, Capped(queue)) /\ Older(ToSet(posted), Capped(queue)) /\ Older(discarded, Capped(queue))
                BY <1>6, <2>3
            <4>2. Older(discarded', Capped(queue))
                BY <4>1, <2>1, <1>12 DEF Older
            <4> QED BY <4>1, <4>2, <1>2, <1>9, <1>12 DEF StillOrdered
        <3> QED BY <1>2, <1>9, <1>12, <2>1, <3>1 DEF StillOrdered
    <2>5. Accounted'
        BY <1>1, <1>2, <1>4, <1>7, <1>12, <2>1 DEF Accounted
    <2> QED BY <2>2, <2>4, <2>5, <1>10 DEF OutputInv
<1>13. CASE posted = <<>> /\ discarded' = discarded /\ SendOrArm(queue)
    <2>1. (posted' = <<>> /\ unsent' = queue) \/ (posted' = queue /\ unsent' = <<>>)
        BY <1>13, SendOrArmPasses
    <2>2. SenderTypes'
        <3> HIDE DEF queue
        <3>1. posted' \in Seq(1..(n + 1)) /\ unsent' \in Seq(1..(n + 1))
            BY <2>1, <1>4, NothingQueued
        <3> QED BY <1>1, <1>2, <1>3, <1>7, <1>8, <1>13, <3>1 DEF SenderTypes
    <2>3. StillOrdered'
        <3>1. Ascends(posted') /\ Ascends(unsent')
            BY <2>1, <1>4, NothingQueued
        <3>2. /\ Older(Heard, posted') /\ Older(Heard, unsent')
              /\ Older(ToSet(posted'), unsent') /\ Older(discarded, unsent')
            BY <2>1, <1>6, NothingQueued DEF Older
        <3> QED BY <1>9, <1>13, <3>1, <3>2 DEF StillOrdered
    <2>4. Accounted'
        BY <1>1, <1>2, <1>4, <1>7, <1>13, <2>1, NothingQueued DEF Accounted
    <2> QED BY <2>2, <2>3, <2>4, <1>10 DEF OutputInv
<1>14. QED
    <2>1. \/ posted = <<>> /\ posted' = unsent /\ unsent' = <<chunk>> /\ discarded' = discarded
          \/ /\ posted # <<>> /\ posted' = posted /\ unsent' = Capped(queue)
             /\ discarded' = discarded \cup (ToSet(queue) \ ToSet(Capped(queue)))
          \/ posted = <<>> /\ discarded' = discarded /\ SendOrArm(queue)
        BY DEF Send
    <2> QED BY <2>1, <1>11, <1>12, <1>13

LEMMA LandsKeepsIt ==
    ASSUME OutputInv, Lands
    PROVE  OutputInv'
<1>1. SenderTypes /\ StillOrdered /\ Accounted /\ EndIsBehind
    BY DEF OutputInv
<1>2. /\ posted # <<>> /\ written' = written /\ exit' = exit /\ late' = late /\ discarded' = discarded
      /\ heard' \in {heard, heard \o posted}
      /\ lost' \in {lost, lost \cup ToSet(posted)}
      /\ heard' = heard \o posted \/ lost' = lost \cup ToSet(posted)
    BY DEF Lands
<1>3. (posted' = <<>> /\ unsent' = unsent) \/ (posted' = unsent /\ unsent' = <<>>)
    BY SendOrArmPasses DEF Lands
<1>4. /\ written \in Nat /\ posted \in Seq(0..written) /\ heard \in Seq(0..written)
    BY <1>1 DEF SenderTypes
<1>5. /\ heard \o posted \in Seq(0..written) /\ ToSet(heard \o posted) = ToSet(heard) \cup ToSet(posted)
    BY <1>4, Joined
<1>6. ToSet(posted) \subseteq 1..written
    BY <1>1 DEF SenderTypes, ToSet
<1>7. Marker \notin ToSet(posted)
    BY <1>4, <1>6 DEF Marker
<1>8. SenderTypes'
    BY <1>1, <1>2, <1>3, <1>5, <1>6, NothingQueued DEF SenderTypes
<1>9. InOrder'
    <2>1. CASE heard' = heard
        BY <2>1, <1>1 DEF StillOrdered, InOrder
    <2>2. CASE heard' = heard \o posted
        BY <2>2, <1>1, HeardInOrder DEF InOrder
    <2> QED BY <1>2, <2>1, <2>2
<1>10. StillOrdered'
    <2>1. (Heard)' \subseteq Heard \cup ToSet(posted)
        BY <1>2, <1>5 DEF Heard
    <2>2. Older((Heard)', unsent)
        BY <2>1, <1>1 DEF StillOrdered, Older
    <2>3. Ascends(posted') /\ Ascends(unsent') /\ Older((Heard)', posted') /\ Older((Heard)', unsent')
          /\ Older(ToSet(posted'), unsent') /\ Older(discarded', unsent')
        BY <1>1, <1>2, <1>3, <2>2, NothingQueued DEF StillOrdered, Older
    <2> QED BY <1>9, <2>3 DEF StillOrdered
<1>11. Accounted'
    <2>1. (ToSet(heard') \ {Marker}) \cup lost' = (ToSet(heard) \ {Marker}) \cup lost \cup ToSet(posted)
        BY <1>2, <1>5, <1>6, <1>7, <1>1 DEF SenderTypes
    <2>2. ToSet(posted') \cup ToSet(unsent') = ToSet(unsent)
        BY <1>3, NothingQueued
    <2> QED BY <1>1, <1>2, <2>1, <2>2 DEF Accounted
<1>12. EndIsBehind'
    <2>1. exit # "done" => Marker \notin ToSet(heard')
        BY <1>1, <1>2, <1>5, <1>7 DEF EndIsBehind
    <2>2. ~late => exit \in {"no", "draining"}
        BY <1>1, <1>2 DEF EndIsBehind, SenderTypes
    <2>3. ~late' => EndIsLast'
        BY <1>2, <2>1, <2>2 DEF EndIsLast, ToSet
    <2> QED BY <1>2, <2>1, <2>2, <2>3 DEF EndIsBehind
<1> QED BY <1>8, <1>10, <1>11, <1>12 DEF OutputInv

LEMMA MarkerLandsKeepsIt ==
    ASSUME OutputInv, MarkerLands
    PROVE  OutputInv'
<1>1. SenderTypes /\ StillOrdered /\ Accounted /\ EndIsBehind
    BY DEF OutputInv
<1>2. /\ exit = "marking" /\ exit' = "done" /\ heard' \in {heard, Append(heard, Marker)}
      /\ UNCHANGED <<written, unsent, posted, late, lost, discarded>>
    BY DEF MarkerLands, streamVars
<1>3. written \in Nat /\ heard \in Seq(0..written) /\ Len(heard) \in Nat /\ DOMAIN heard = 1..Len(heard)
    BY <1>1 DEF SenderTypes
<1>4. /\ DOMAIN Append(heard, Marker) = 1..(Len(heard) + 1)
      /\ Len(Append(heard, Marker)) = Len(heard) + 1
      /\ \A i \in DOMAIN heard : Append(heard, Marker)[i] = heard[i]
      /\ Append(heard, Marker)[Len(heard) + 1] = Marker
      /\ ToSet(Append(heard, Marker)) = ToSet(heard) \cup {Marker}
      /\ Append(heard, Marker) \in Seq(0..written)
    BY <1>3, OneMore DEF Marker
<1>5. Marker \notin ToSet(heard)
    BY <1>1, <1>2 DEF EndIsBehind
<1>6. (Heard)' = Heard
    BY <1>2, <1>4 DEF Heard
<1>7. SenderTypes'
    BY <1>1, <1>2, <1>4 DEF SenderTypes
<1>8. InOrder'
    <2>1. CASE heard' = heard
        BY <2>1, <1>1 DEF StillOrdered, InOrder
    <2>2. CASE heard' = Append(heard, Marker)
        <3>1. ASSUME NEW i \in DOMAIN heard', heard'[i] # Marker
              PROVE  i \in DOMAIN heard /\ heard'[i] = heard[i]
            BY <2>2, <3>1, <1>3, <1>4
        <3> QED BY <3>1, <1>1 DEF StillOrdered, InOrder
    <2> QED BY <1>2, <2>1, <2>2
<1>9. StillOrdered'
    BY <1>1, <1>2, <1>6, <1>8 DEF StillOrdered
<1>10. Accounted'
    BY <1>1, <1>2, <1>4 DEF Accounted
<1>11. EndIsBehind'
    BY <1>1, <1>2, <1>3, <1>4, <1>5 DEF EndIsBehind, EndIsLast, ToSet
<1> QED BY <1>7, <1>9, <1>10, <1>11 DEF OutputInv

\* The steps that move no chunk.
LEMMA OthersKeepIt ==
    ASSUME OutputInv,
           \/ WindowCloses \/ ProcessExits \/ Drained \/ DrainTimesOut \/ UNCHANGED outputVars
           \/ TimerFires /\ UNCHANGED <<unsent, posted>>
    PROVE  OutputInv'
<1>1. UNCHANGED <<written, unsent, posted, heard, lost, discarded>>
    BY DEF WindowCloses, ProcessExits, Drained, DrainTimesOut, TimerFires, outputVars, streamVars
<1>2. \/ UNCHANGED <<exit, late>>
      \/ exit = "no" /\ exit' = "draining" /\ UNCHANGED late
      \/ exit = "draining" /\ exit' = "marking" /\ unsent = <<>> /\ posted = <<>> /\ UNCHANGED late
      \/ exit = "draining" /\ exit' = "marking" /\ late'
    BY DEF WindowCloses, ProcessExits, Drained, DrainTimesOut, TimerFires, outputVars, streamVars
<1>3. SenderTypes /\ StillOrdered /\ Accounted /\ EndIsBehind
    BY DEF OutputInv
<1>4. SenderTypes'
    BY <1>1, <1>2, <1>3 DEF SenderTypes
<1>5. StillOrdered' /\ Accounted'
    BY <1>1, <1>3 DEF StillOrdered, InOrder, Heard, Accounted
<1>6. EndIsLast' <=> (~late' => \A i \in DOMAIN heard : heard[i] = Marker => i = Len(heard) /\ unsent = <<>> /\ posted = <<>>)
    BY <1>1 DEF EndIsLast
<1>7. EndIsBehind'
    BY <1>1, <1>2, <1>3, <1>6 DEF EndIsBehind, EndIsLast, ToSet
<1> QED BY <1>4, <1>5, <1>7 DEF OutputInv

\* The service gets a terminal's output in the order it was written and no chunk
\* twice, none goes missing without a word, and the end comes last, whatever the
\* size of a POST and of the cap (output-sender.mjs, terminal-controls.mjs).
THEOREM OutputHolds ==
    ASSUME MaxPending \in Nat
    PROVE  OutputSpec => []OutputIsOrdered
<1>1. OutputInit => OutputInv
    <2> SUFFICES ASSUME OutputInit PROVE OutputInv
        OBVIOUS
    <2> USE NothingQueued DEF OutputInit
    <2>1. 1..0 = {}
        OBVIOUS
    <2>2. SenderTypes
        BY DEF SenderTypes
    <2>3. StillOrdered
        BY DEF StillOrdered, InOrder, Heard
    <2>4. Accounted
        BY <2>1 DEF Accounted
    <2>5. EndIsBehind
        BY DEF EndIsBehind, EndIsLast
    <2> QED BY <2>2, <2>3, <2>4, <2>5 DEF OutputInv
<1>2. OutputInv /\ [OutputNext]_outputVars => OutputInv'
    <2> SUFFICES ASSUME OutputInv, [OutputNext]_outputVars PROVE OutputInv'
        OBVIOUS
    <2>1. CASE TimerFires
        <3>1. CASE posted = <<>> /\ unsent # <<>>
            BY <2>1, <3>1, PassingKeepsIt DEF TimerFires, DrainNow
        <3> QED BY <2>1, <3>1, OthersKeepIt DEF TimerFires
    <2>2. CASE DrainForExit
        BY <2>2, PassingKeepsIt DEF DrainForExit, DrainNow
    <2> QED BY <2>1, <2>2, SendKeepsIt, LandsKeepsIt, MarkerLandsKeepsIt, OthersKeepIt DEF OutputNext
<1>3. OutputInv => OutputIsOrdered
    BY DEF OutputInv, StillOrdered, EndIsBehind, EndIsLast, OutputIsOrdered, OldestIsDropped, Older
<1> QED BY <1>1, <1>2, <1>3, PTL DEF OutputSpec

-----------------------------------------------------------------------------
(***************************************************************************)
(* The trust dialog and what is said of the screen: one answer, and an idle*)
(* that a reading confirmed.                                               *)
(***************************************************************************)

\* What the dialog has been given and what it shows: DOWN is typed at it once,
\* ENTER once, and ENTER only when the cursor was read on "Yes".
NotAnswered ==
    /\ taken = {} /\ strokes = <<>> /\ face # "yes" /\ seen # "yes"
    /\ seen = "no" => face = "no"
    /\ face = "no" => faces > 0

OnNo ==
    /\ taken = {"down"} /\ faces > 0 /\ face = "no" /\ seen # "yes"
    /\ strokes \in {<<>>, <<"down">>}

OnYes == taken = {"down"} /\ faces > 0 /\ face = "yes" /\ strokes = <<>>

Confirmed ==
    /\ taken = {"down", "enter"} /\ faces > 0
    /\ \/ face = "yes" /\ strokes \in {<<>>, <<"enter">>}
       \/ face \notin Dialog /\ strokes = <<>>

AnswersInOrder == ~refused /\ (NotAnswered \/ OnNo \/ OnYes \/ Confirmed)

\* A hold is of a screen that read as idle and that nothing marked.
HoldIsOfAnIdle ==
    confirmed >= 1 =>
        before # NoState /\ Detected(before).state \in {"idle", "shell"} /\ ~Detected(before).visible

ObserverInv ==
    /\ face \in Faces /\ seen \in Faces /\ faces \in Nat /\ confirmed \in Nat
    /\ AnswersInOrder /\ HoldIsOfAnIdle

LEMMA OneKey ==
    \A k : /\ <<k>> # <<>> /\ Head(<<k>>) = k /\ Tail(<<k>>) = <<>>
           /\ Append(<<>>, k) = <<k>>
OBVIOUS

LEMMA StatesHaveNames == \A f \in Faces : f # NoState
BY DEF Faces, NoState

LEMMA DrawsKeepsIt ==
    ASSUME ObserverInv, NEW f \in Faces, Draws(f)
    PROVE  ObserverInv'
<1>1. AnswersInOrder'
    BY DEF ObserverInv, Draws, AnswersInOrder, NotAnswered, OnNo, OnYes, Confirmed, Dialog, answerVars
<1>2. HoldIsOfAnIdle'
    BY DEF ObserverInv, Draws, HoldIsOfAnIdle
<1> QED BY <1>1, <1>2 DEF ObserverInv, Draws

LEMMA TakesKeyKeepsIt ==
    ASSUME ObserverInv, TakesKey
    PROVE  ObserverInv'
<1>1. UNCHANGED <<faces, seen, confirmed, before, taken>>
    BY DEF TakesKey
<1>2. \/ OnNo /\ strokes = <<"down">> /\ face' = "yes" /\ strokes' = <<>> /\ ~refused'
      \/ Confirmed /\ face = "yes" /\ strokes = <<"enter">> /\ face' = "work" /\ strokes' = <<>> /\ ~refused'
    <2>1. strokes # <<>>
        BY DEF TakesKey
    <2>2. \/ OnNo /\ strokes = <<"down">> /\ face = "no"
          \/ Confirmed /\ strokes = <<"enter">> /\ face = "yes"
        BY <2>1 DEF ObserverInv, AnswersInOrder, NotAnswered, OnNo, OnYes, Confirmed
    <2> QED BY <2>2, OneKey DEF TakesKey
<1>3. AnswersInOrder'
    BY <1>1, <1>2 DEF AnswersInOrder, OnNo, OnYes, Confirmed, Dialog
<1>4. HoldIsOfAnIdle'
    BY <1>1 DEF ObserverInv, HoldIsOfAnIdle
<1> QED BY <1>1, <1>2, <1>3, <1>4 DEF ObserverInv, Faces

LEMMA LookKeepsIt ==
    ASSUME ObserverInv, Look
    PROVE  ObserverInv'
<1>1. AnswersInOrder'
    BY DEF ObserverInv, Look, AnswersInOrder, NotAnswered, OnNo, OnYes, Confirmed, Dialog, answerVars
<1>2. HoldIsOfAnIdle'
    BY DEF ObserverInv, Look, HoldIsOfAnIdle
<1> QED BY <1>1, <1>2 DEF ObserverInv, Look

\* Each step is taken at the screen it is for: DOWN while the cursor is on
\* "No, exit", ENTER once it is on "Yes", where only ENTER moves it.
LEMMA SettleKeepsIt ==
    ASSUME ObserverInv, Settle
    PROVE  ObserverInv'
<1>1. /\ seen' \in {seen, face} /\ Answer(seen') /\ before' = (IF Settles(seen') THEN seen' ELSE before)
      /\ UNCHANGED <<face, faces>>
    BY DEF Settle
<1>2. seen' \in Faces
    BY <1>1 DEF ObserverInv
<1>3. AnswersInOrder'
    <2>1. UNCHANGED refused
        BY <1>1 DEF Answer
    <2>2. \/ UNCHANGED <<taken, strokes>>
          \/ /\ seen' \in Dialog /\ Step(seen') \notin taken /\ taken' = taken \cup {Step(seen')}
             /\ strokes' \in {strokes, Append(strokes, Step(seen'))}
        BY <1>1 DEF Answer
    <2>3. CASE NotAnswered
        <3>1. seen' # "yes" /\ (seen' = "no" => face = "no")
            BY <1>1, <2>3 DEF NotAnswered
        <3>2. CASE UNCHANGED <<taken, strokes>>
            BY <1>1, <2>1, <2>3, <3>1, <3>2 DEF ObserverInv, AnswersInOrder, NotAnswered
        <3>3. CASE /\ seen' \in Dialog /\ taken' = taken \cup {Step(seen')}
                   /\ strokes' \in {strokes, Append(strokes, Step(seen'))}
            <4>1. seen' = "no" /\ Step(seen') = "down" /\ face = "no"
                BY <3>1, <3>3 DEF Dialog, Step
            <4>2. taken' = {"down"} /\ strokes' \in {<<>>, <<"down">>}
                BY <4>1, <2>3, <3>3, OneKey DEF NotAnswered
            <4> QED BY <1>1, <2>1, <2>3, <4>1, <4>2 DEF ObserverInv, AnswersInOrder, NotAnswered, OnNo
        <3> QED BY <2>2, <3>2, <3>3
    <2>4. CASE OnNo
        <3>1. seen' # "yes"
            BY <1>1, <2>4 DEF OnNo
        <3>2. UNCHANGED <<taken, strokes>>
            BY <2>2, <2>4, <3>1 DEF OnNo, Dialog, Step
        <3> QED BY <1>1, <2>1, <2>4, <3>1, <3>2 DEF ObserverInv, AnswersInOrder, OnNo
    <2>5. CASE OnYes
        <3>1. CASE UNCHANGED <<taken, strokes>>
            BY <1>1, <2>1, <2>5, <3>1 DEF ObserverInv, AnswersInOrder, OnYes
        <3>2. CASE /\ seen' \in Dialog /\ Step(seen') \notin taken /\ taken' = taken \cup {Step(seen')}
                   /\ strokes' \in {strokes, Append(strokes, Step(seen'))}
            <4>1. Step(seen') = "enter"
                BY <2>5, <3>2 DEF OnYes, Dialog, Step
            <4>2. taken' = {"down", "enter"} /\ strokes' \in {<<>>, <<"enter">>}
                BY <4>1, <2>5, <3>2, OneKey DEF OnYes
            <4> QED BY <1>1, <2>1, <2>5, <4>2 DEF ObserverInv, AnswersInOrder, OnYes, Confirmed
        <3> QED BY <2>2, <3>1, <3>2
    <2>6. CASE Confirmed
        <3>1. UNCHANGED <<taken, strokes>>
            BY <2>2, <2>6 DEF Confirmed, Dialog, Step
        <3> QED BY <1>1, <2>1, <2>6, <3>1 DEF ObserverInv, AnswersInOrder, Confirmed
    <2> QED BY <2>3, <2>4, <2>5, <2>6 DEF ObserverInv, AnswersInOrder
<1>4. HoldIsOfAnIdle' /\ confirmed' \in Nat
    <2>1. CASE ~Settles(seen') /\ UNCHANGED confirmed
        BY <1>1, <2>1 DEF ObserverInv, HoldIsOfAnIdle
    <2>2. CASE Settles(seen') /\ PlainIdle(seen') /\ confirmed' = confirmed + 1
        BY <1>1, <1>2, <2>2, StatesHaveNames DEF ObserverInv, HoldIsOfAnIdle, PlainIdle
    <2>3. CASE confirmed' = 0
        BY <2>3 DEF HoldIsOfAnIdle
    <2> QED BY <2>1, <2>2, <2>3 DEF Settle
<1> QED BY <1>1, <1>2, <1>3, <1>4 DEF ObserverInv

LEMMA ObserverOthersKeepIt ==
    ASSUME ObserverInv,
           \/ Unread \/ Reports \/ FrameLeaves \/ FrameLands \/ FrameIsLost \/ Dispose
           \/ UNCHANGED screenObserverVars
    PROVE  ObserverInv'
<1>1. /\ UNCHANGED <<face, faces, seen, taken, strokes, refused>>
      /\ UNCHANGED <<confirmed, before>> \/ confirmed' = 0
    BY DEF Unread, Reports, FrameLeaves, FrameLands, FrameIsLost, Dispose, screenObserverVars, lookVars, answerVars
<1> QED BY <1>1 DEF ObserverInv, AnswersInOrder, NotAnswered, OnNo, OnYes, Confirmed, HoldIsOfAnIdle

\* A working agent is not called idle on one unmarked screen, and no answer to
\* the folder-trust dialog makes the agent leave, however reads, keys and
\* refused writes interleave (screen-observer.mjs, screen-answers.mjs).
THEOREM ObserverHolds == ObserverSpec => ObserverIsCareful
<1>1. ObserverInit => ObserverInv
    BY DEF ObserverInit, ObserverInv, AnswersInOrder, NotAnswered, HoldIsOfAnIdle, Faces
<1>2. ObserverInv /\ [ObserverNext]_screenObserverVars => ObserverInv'
    BY DrawsKeepsIt, TakesKeyKeepsIt, LookKeepsIt, SettleKeepsIt, ObserverOthersKeepIt DEF ObserverNext
<1>3. ObserverInv /\ ObserverInv' /\ [ObserverNext]_screenObserverVars
        => [IdleIsConfirmed /\ AnswersNeverRefuse]_screenObserverVars
    <2> SUFFICES ASSUME ObserverInv, ObserverInv', [ObserverNext]_screenObserverVars
                 PROVE  IdleIsConfirmed /\ AnswersNeverRefuse
        OBVIOUS
    <2>1. AnswersNeverRefuse
        BY DEF ObserverInv, AnswersInOrder, AnswersNeverRefuse
    <2>2. CASE Settle
        <3>1. SUFFICES ASSUME observed = "working", observed' \in {"idle", "shell"}, ~Detected(seen').visible
                       PROVE  confirmed >= 1
            BY <2>1 DEF ObserverInv, HoldIsOfAnIdle, IdleIsConfirmed
        <3>2. observed' = Detected(seen').state /\ (PlainIdle(seen') => confirmed >= 1)
            BY <2>2, <3>1 DEF Settle
        <3> QED BY <3>1, <3>2 DEF PlainIdle
    <2>3. CASE UNCHANGED observed \/ observed' = NoState
        BY <2>1, <2>3 DEF IdleIsConfirmed, NoState
    <2>4. Settle \/ UNCHANGED observed \/ observed' = NoState
        BY DEF ObserverNext, Draws, TakesKey, Look, Unread, Reports, FrameLeaves, FrameLands, FrameIsLost,
               Dispose, screenObserverVars
    <2> QED BY <2>1, <2>2, <2>3, <2>4
<1> QED BY <1>1, <1>2, <1>3, PTL DEF ObserverSpec, ObserverIsCareful

-----------------------------------------------------------------------------
(***************************************************************************)
(* A start from the console: of the opening that shows it, and from what   *)
(* was read after it was asked for.                                        *)
(***************************************************************************)

Entries == [status : Statuses, holder : Holders]
Fetches == [opening : Nat, stage : {"roster", "store", "answered"}, entries : [Startables -> Entries],
            rows : SUBSET Startables]

FlowTypes ==
  /\ roster \in [Startables -> Entries] /\ store \in [Startables -> Kept]
  /\ list \in [open : BOOLEAN, opening : Nat, asked : BOOLEAN, rows : SUBSET Startables]
  /\ fetches \subseteq Fetches
  /\ starting \in [Startables -> [stage : {"none", "roster", "store", "post"}, entry : Entries]]

\* An answer on its way is of an opening there was; one of the current opening
\* carries what was allowed since that opening, read or still to be read.
FetchesAreOfTheirOpening ==
  \A f \in fetches :
    /\ f.opening <= list.opening
    /\ f.stage # "answered" => f.rows = {}
    /\ f.opening = list.opening =>
         /\ f.stage = "store" => \A a \in Startables : RosterAllows(f.entries[a]) => a \in sinceOpen.roster
         /\ f.stage = "answered" => f.rows \subseteq sinceOpen.roster \cap sinceOpen.store

RowsAreAnswered ==
  /\ list.asked => list.rows \subseteq sinceOpen.roster \cap sinceOpen.store
  /\ ~ list.asked => list.rows = {}

\* What a start read of the roster it read after it was asked for.
StartsReadAfterAsking ==
  \A a \in Startables :
    /\ starting[a].stage = "store" /\ RosterAllows(starting[a].entry) => a \in sinceAsked.roster
    /\ starting[a].stage = "post" => a \in sinceAsked.roster \cap sinceAsked.store

FlowInv ==
  /\ FlowTypes /\ FetchesAreOfTheirOpening /\ RowsAreAnswered /\ StartsReadAfterAsking
  /\ RunningIsRunning

\* What was remembered stays so while nothing is opened, asked for or taken.
LEMMA NothingIsForgotten ==
  ASSUME Remembering
  PROVE  /\ sinceOpen.roster \subseteq sinceOpen'.roster /\ sinceOpen.store \subseteq sinceOpen'.store
         /\ sinceAsked.roster \subseteq sinceAsked'.roster /\ sinceAsked.store \subseteq sinceAsked'.store
         /\ sinceTaken \subseteq sinceTaken' /\ workers' \subseteq sinceTaken'
         /\ \A a \in Startables : /\ RosterAllows(roster'[a]) => a \in sinceOpen'.roster \cap sinceAsked'.roster
                                  /\ store'[a] = "managed" => a \in sinceOpen'.store \cap sinceAsked'.store
<1>1. Remembers(FALSE, {}, {})
  BY DEF Remembering
<1>2. \A S : S \ {} = S
  OBVIOUS
<1>3. /\ sinceOpen'.roster = sinceOpen.roster \cup {a \in Startables : RosterAllows(roster'[a])}
      /\ sinceOpen'.store = sinceOpen.store \cup {a \in Startables : store'[a] = "managed"}
      /\ sinceAsked'.roster = sinceAsked.roster \cup {a \in Startables : RosterAllows(roster'[a])}
      /\ sinceAsked'.store = sinceAsked.store \cup {a \in Startables : store'[a] = "managed"}
      /\ sinceTaken' = sinceTaken \cup workers'
  BY <1>1, <1>2 DEF Remembers
<1> QED BY <1>3

LEMMA AStartIsTyped == NoStart \in [stage : {"none", "roster", "store", "post"}, entry : Entries]
BY DEF NoStart, Entries, Statuses, Holders

LEMMA FlowBegins == FlowInit => FlowInv
BY DEF FlowInit, FlowInv, FlowTypes, FetchesAreOfTheirOpening, RowsAreAnswered, StartsReadAfterAsking, RunningIsRunning,
       Entries, Fetches, Statuses, Holders, Kept, NotOpen, NoStart

\* The host's side, where neither the list nor a start is touched.
LEMMA MovesKeepIt ==
  ASSUME FlowInv, Moves \/ \E a \in Startables : StartedComes(a)
  PROVE  FlowInv'
<1>1. Remembering /\ UNCHANGED <<list, fetches, starting, said>>
  BY DEF Moves, StartedComes
<1>2. roster' \in [Startables -> Entries] /\ store' \in [Startables -> Kept]
  <2>1. CASE Moves
    <3>1. PICK a \in Startables :
             \/ \E s \in Statuses, h \in Holders : roster' = [roster EXCEPT ![a] = [status |-> s, holder |-> h]] /\ store' = store
             \/ \E k \in Kept : store' = [store EXCEPT ![a] = k] /\ roster' = roster
             \/ UNCHANGED <<roster, store>>
      BY <2>1 DEF Moves
    <3>2. \A s \in Statuses, h \in Holders : [status |-> s, holder |-> h] \in Entries
      BY DEF Entries
    <3>3. roster \in [Startables -> Entries] /\ store \in [Startables -> Kept]
      BY DEF FlowInv, FlowTypes
    <3> QED BY <3>1, <3>2, <3>3
  <2>2. ASSUME NEW a \in Startables, StartedComes(a) PROVE roster' \in [Startables -> Entries] /\ store' \in [Startables -> Kept]
    BY <2>2 DEF StartedComes, FlowInv, FlowTypes, Entries, Statuses
  <2> QED BY <2>1, <2>2
<1>3. FlowTypes'
  BY <1>1, <1>2 DEF FlowInv, FlowTypes
<1>4. FetchesAreOfTheirOpening' /\ RowsAreAnswered' /\ StartsReadAfterAsking' /\ RunningIsRunning'
  BY <1>1, NothingIsForgotten
     DEF FlowInv, FetchesAreOfTheirOpening, RowsAreAnswered, StartsReadAfterAsking, RunningIsRunning
<1> QED BY <1>3, <1>4 DEF FlowInv

LEMMA OpensKeepsIt ==
  ASSUME FlowInv, OpensList
  PROVE  FlowInv'
<1>1. /\ Remembers(TRUE, {}, {}) /\ UNCHANGED <<roster, store, starting, said>>
      /\ list' = [open |-> TRUE, opening |-> list.opening + 1, asked |-> FALSE, rows |-> {}]
      /\ fetches' = fetches \cup {[opening |-> list.opening + 1, stage |-> "roster", entries |-> roster, rows |-> {}]}
  BY DEF OpensList, Opened
<1>2. /\ sinceAsked.roster \subseteq sinceAsked'.roster /\ sinceAsked.store \subseteq sinceAsked'.store
      /\ sinceTaken \subseteq sinceTaken'
  BY <1>1 DEF Remembers
<1>3. FlowTypes'
  BY <1>1 DEF FlowInv, FlowTypes, Fetches
<1>4. FetchesAreOfTheirOpening'
  BY <1>1 DEF FlowInv, FlowTypes, Fetches, FetchesAreOfTheirOpening
<1>5. RowsAreAnswered' /\ StartsReadAfterAsking' /\ RunningIsRunning'
  BY <1>1, <1>2 DEF FlowInv, RowsAreAnswered, StartsReadAfterAsking, RunningIsRunning
<1> QED BY <1>3, <1>4, <1>5 DEF FlowInv

LEMMA ClosesKeepsIt ==
  ASSUME FlowInv, ClosesList
  PROVE  FlowInv'
<1>1. Remembering /\ UNCHANGED <<roster, store, fetches, starting, said>> /\ list' = [list EXCEPT !.open = FALSE]
  BY DEF ClosesList
<1>2. FlowTypes' /\ list'.opening = list.opening /\ list'.asked = list.asked /\ list'.rows = list.rows
  BY <1>1 DEF FlowInv, FlowTypes
<1>3. FetchesAreOfTheirOpening' /\ RowsAreAnswered' /\ StartsReadAfterAsking' /\ RunningIsRunning'
  BY <1>1, <1>2, NothingIsForgotten
     DEF FlowInv, FetchesAreOfTheirOpening, RowsAreAnswered, StartsReadAfterAsking, RunningIsRunning
<1> QED BY <1>2, <1>3 DEF FlowInv

\* One read of the list, whose rows come from nothing older than its opening.
LEMMA ListReadsKeepIt ==
  ASSUME FlowInv, ListReadsRoster \/ ListReadsStore
  PROVE  FlowInv'
<1>1. Remembering /\ UNCHANGED <<roster, store, list, starting, said>>
  BY DEF ListReadsRoster, ListReadsStore
<1>2. PICK f \in fetches :
        \E g \in {[f EXCEPT !.stage = "store", !.entries = roster], [f EXCEPT !.stage = "answered"],
                  [f EXCEPT !.stage = "answered", !.rows = Offered(f.entries, store)]} :
          /\ fetches' = (fetches \ {f}) \cup {g}
          /\ \/ f.stage = "roster" /\ g = [f EXCEPT !.stage = "store", !.entries = roster]
             \/ f.stage = "roster" /\ g = [f EXCEPT !.stage = "answered"]
             \/ f.stage = "store" /\ g = [f EXCEPT !.stage = "answered", !.rows = Offered(f.entries, store)]
  BY DEF ListReadsRoster, ListReadsStore
<1>20. PICK g \in {[f EXCEPT !.stage = "store", !.entries = roster], [f EXCEPT !.stage = "answered"],
                  [f EXCEPT !.stage = "answered", !.rows = Offered(f.entries, store)]} :
          /\ fetches' = (fetches \ {f}) \cup {g}
          /\ \/ f.stage = "roster" /\ g = [f EXCEPT !.stage = "store", !.entries = roster]
             \/ f.stage = "roster" /\ g = [f EXCEPT !.stage = "answered"]
             \/ f.stage = "store" /\ g = [f EXCEPT !.stage = "answered", !.rows = Offered(f.entries, store)]
  BY <1>2
<1>3. f \in Fetches /\ g \in Fetches /\ g.opening = f.opening
  <2>1. f \in Fetches /\ roster \in [Startables -> Entries]
    BY DEF FlowInv, FlowTypes
  <2>2. Offered(f.entries, store) \in SUBSET Startables
    BY DEF Offered
  <2> QED BY <1>20, <2>1, <2>2 DEF Fetches
<1>4. FlowTypes'
  BY <1>1, <1>20, <1>3 DEF FlowInv, FlowTypes
<1>5. /\ f.opening <= list.opening
      /\ f.stage # "answered" => f.rows = {}
      /\ f.opening = list.opening /\ f.stage = "store" =>
            \A a \in Startables : RosterAllows(f.entries[a]) => a \in sinceOpen.roster
  BY DEF FlowInv, FetchesAreOfTheirOpening
<1>6. /\ sinceOpen.roster \subseteq sinceOpen'.roster /\ sinceOpen.store \subseteq sinceOpen'.store
      /\ \A a \in Startables : /\ RosterAllows(roster[a]) => a \in sinceOpen'.roster
                               /\ store[a] = "managed" => a \in sinceOpen'.store
  BY <1>1, NothingIsForgotten
<1>7. /\ g.stage # "answered" => g.rows = {}
      /\ g.opening = list.opening =>
           /\ g.stage = "store" => \A a \in Startables : RosterAllows(g.entries[a]) => a \in sinceOpen'.roster
           /\ g.stage = "answered" => g.rows \subseteq sinceOpen'.roster \cap sinceOpen'.store
  <2>1. CASE f.stage = "roster" /\ g = [f EXCEPT !.stage = "store", !.entries = roster]
    BY <2>1, <1>3, <1>5, <1>6 DEF Fetches
  <2>2. CASE f.stage = "roster" /\ g = [f EXCEPT !.stage = "answered"]
    BY <2>2, <1>3, <1>5 DEF Fetches
  <2>3. CASE f.stage = "store" /\ g = [f EXCEPT !.stage = "answered", !.rows = Offered(f.entries, store)]
    <3>1. g.stage = "answered" /\ g.rows = Offered(f.entries, store)
      BY <2>3, <1>3 DEF Fetches
    <3>2. f.opening = list.opening => Offered(f.entries, store) \subseteq sinceOpen'.roster \cap sinceOpen'.store
      BY <2>3, <1>5, <1>6 DEF Offered, Startable
    <3> QED BY <3>1, <3>2, <1>3
  <2> QED BY <1>20, <2>1, <2>2, <2>3
<1>8. FetchesAreOfTheirOpening'
  <2>1. ASSUME NEW h \in fetches
        PROVE  /\ h.opening <= list.opening
               /\ h.stage # "answered" => h.rows = {}
               /\ h.opening = list.opening =>
                    /\ h.stage = "store" => \A a \in Startables : RosterAllows(h.entries[a]) => a \in sinceOpen'.roster
                    /\ h.stage = "answered" => h.rows \subseteq sinceOpen'.roster \cap sinceOpen'.store
    BY <1>6 DEF FlowInv, FetchesAreOfTheirOpening
  <2> QED BY <1>1, <1>20, <1>3, <1>5, <1>7, <2>1 DEF FetchesAreOfTheirOpening
<1>9. RowsAreAnswered' /\ StartsReadAfterAsking' /\ RunningIsRunning'
  BY <1>1, NothingIsForgotten DEF FlowInv, RowsAreAnswered, StartsReadAfterAsking, RunningIsRunning
<1> QED BY <1>4, <1>8, <1>9 DEF FlowInv

LEMMA ListLandsKeepsIt ==
  ASSUME FlowInv, ListLands
  PROVE  FlowInv'
<1>1. Remembering /\ UNCHANGED <<roster, store, starting, said>>
  BY DEF ListLands
<1>2. PICK f \in fetches :
        /\ f.stage = "answered" /\ fetches' = fetches \ {f}
        /\ list' = IF IsCurrent(f.opening) THEN [list EXCEPT !.asked = TRUE, !.rows = f.rows] ELSE list
  BY DEF ListLands
<1>3. FlowTypes' /\ list'.opening = list.opening
  BY <1>1, <1>2 DEF FlowInv, FlowTypes, Fetches
<1>4. RowsAreAnswered'
  <2>1. CASE list' = list
    BY <2>1, <1>1, NothingIsForgotten DEF FlowInv, RowsAreAnswered
  <2>2. CASE list' # list
    <3>1. f.opening = list.opening /\ list'.asked /\ list'.rows = f.rows
      BY <1>2, <2>2 DEF IsCurrent, FlowInv, FlowTypes
    <3>2. f.rows \subseteq sinceOpen.roster \cap sinceOpen.store
      BY <1>2, <3>1 DEF FlowInv, FetchesAreOfTheirOpening
    <3> QED BY <1>1, <3>1, <3>2, NothingIsForgotten DEF RowsAreAnswered
  <2> QED BY <2>1, <2>2
<1>5. FetchesAreOfTheirOpening' /\ StartsReadAfterAsking' /\ RunningIsRunning'
  BY <1>1, <1>2, <1>3, NothingIsForgotten
     DEF FlowInv, FetchesAreOfTheirOpening, StartsReadAfterAsking, RunningIsRunning
<1> QED BY <1>3, <1>4, <1>5 DEF FlowInv

LEMMA ChoosesKeepsIt ==
  ASSUME FlowInv, Chooses
  PROVE  FlowInv'
<1>1. PICK a \in list.rows :
        /\ starting' = [starting EXCEPT ![a].stage = "roster"]
        /\ UNCHANGED <<roster, store, fetches, said>> /\ Remembers(FALSE, {a}, {})
  BY DEF Chooses
<1>2. list' = [list EXCEPT !.open = FALSE]
  BY DEF Chooses
<1>3. FlowTypes' /\ list'.opening = list.opening /\ list'.asked = list.asked /\ list'.rows = list.rows
  BY <1>1, <1>2 DEF FlowInv, FlowTypes
<1>4. /\ sinceOpen.roster \subseteq sinceOpen'.roster /\ sinceOpen.store \subseteq sinceOpen'.store
      /\ sinceAsked.roster \ {a} \subseteq sinceAsked'.roster /\ sinceAsked.store \ {a} \subseteq sinceAsked'.store
      /\ sinceTaken \subseteq sinceTaken'
  BY <1>1 DEF Remembers
<1>5. FetchesAreOfTheirOpening' /\ RowsAreAnswered' /\ RunningIsRunning'
  BY <1>1, <1>3, <1>4 DEF FlowInv, FetchesAreOfTheirOpening, RowsAreAnswered, RunningIsRunning
<1>6. StartsReadAfterAsking'
  <2>1. \A b \in Startables : IF b = a THEN starting'[b].stage = "roster" ELSE starting'[b] = starting[b]
    BY <1>1 DEF FlowInv, FlowTypes
  <2> QED BY <1>4, <2>1 DEF FlowInv, StartsReadAfterAsking
<1> QED BY <1>3, <1>5, <1>6 DEF FlowInv

\* A start's reads: each is after it was asked for.
LEMMA StartsKeepIt ==
  ASSUME FlowInv, NEW a \in Startables, StartReadsRoster(a) \/ StartJudges(a)
  PROVE  FlowInv'
<1>1. Remembering /\ UNCHANGED <<roster, store, list, fetches>>
  BY DEF StartReadsRoster, StartJudges
<1>2. UNCHANGED said \/ said'.what = "refused"
  BY DEF StartReadsRoster, StartJudges, Refused, Announces
<1>3. \/ starting' = [starting EXCEPT ![a] = [stage |-> "store", entry |-> roster[a]]]
      \/ starting' = [starting EXCEPT ![a] = NoStart]
      \/ /\ starting[a].stage = "store" /\ Startable(starting[a].entry, store[a])
         /\ starting' = [starting EXCEPT ![a].stage = "post"]
  BY DEF StartReadsRoster, StartJudges, Refused, ReadsAgain
<1>4. FlowTypes'
  <2>1. \A e \in Entries : [stage |-> "store", entry |-> e] \in [stage : {"none", "roster", "store", "post"}, entry : Entries]
    OBVIOUS
  <2>2. roster[a] \in Entries /\ starting \in [Startables -> [stage : {"none", "roster", "store", "post"}, entry : Entries]]
    BY DEF FlowInv, FlowTypes
  <2>3. starting' \in [Startables -> [stage : {"none", "roster", "store", "post"}, entry : Entries]]
    BY <1>3, <2>1, <2>2, AStartIsTyped
  <2> QED BY <1>1, <2>3 DEF FlowInv, FlowTypes
<1>5. FetchesAreOfTheirOpening' /\ RowsAreAnswered' /\ RunningIsRunning'
  BY <1>1, <1>2, NothingIsForgotten DEF FlowInv, FetchesAreOfTheirOpening, RowsAreAnswered, RunningIsRunning
<1>6. StartsReadAfterAsking'
  <2>1. \A b \in Startables \ {a} : starting'[b] = starting[b]
    BY <1>3 DEF FlowInv, FlowTypes
  <2>2. /\ starting'[a].stage = "store" /\ RosterAllows(starting'[a].entry) => a \in sinceAsked'.roster
        /\ starting'[a].stage = "post" => a \in sinceAsked'.roster \cap sinceAsked'.store
    <3>1. CASE starting' = [starting EXCEPT ![a] = [stage |-> "store", entry |-> roster[a]]]
      BY <3>1, <1>1, NothingIsForgotten DEF FlowInv, FlowTypes
    <3>2. CASE starting' = [starting EXCEPT ![a] = NoStart]
      BY <3>2 DEF FlowInv, FlowTypes, NoStart
    <3>3. CASE /\ starting[a].stage = "store" /\ Startable(starting[a].entry, store[a])
               /\ starting' = [starting EXCEPT ![a].stage = "post"]
      <4>1. starting'[a].stage = "post"
        BY <3>3 DEF FlowInv, FlowTypes
      <4>2. a \in sinceAsked.roster /\ store[a] = "managed"
        BY <3>3 DEF FlowInv, StartsReadAfterAsking, Startable
      <4> QED BY <4>1, <4>2, <1>1, NothingIsForgotten
    <3> QED BY <1>3, <3>1, <3>2, <3>3
  <2> QED BY <1>1, <2>1, <2>2, NothingIsForgotten DEF FlowInv, StartsReadAfterAsking
<1> QED BY <1>4, <1>5, <1>6 DEF FlowInv

LEMMA PostsKeepIt ==
  ASSUME FlowInv, NEW a \in Startables, StartPosts(a)
  PROVE  FlowInv'
<1>1. /\ UNCHANGED <<store, list, fetches>>
      /\ starting' = [starting EXCEPT ![a] = NoStart]
      /\ said'.what \in {"accepted", "refused"}
      /\ roster' \in {roster, [roster EXCEPT ![a].status = IF @ = "available" THEN "starting" ELSE @]}
      /\ Remembering \/ Remembers(FALSE, {}, {a})
  <2>1. UNCHANGED <<store, list, fetches>> /\ (Remembering \/ Remembers(FALSE, {}, {a}))
    BY DEF StartPosts
  <2>2. starting' = [starting EXCEPT ![a] = NoStart] /\ (Announces("accepted", a) \/ Announces("refused", a))
    BY DEF StartPosts, Refused
  <2>4. said'.what \in {"accepted", "refused"}
    BY <2>2 DEF Announces
  <2>3. roster' \in {roster, [roster EXCEPT ![a].status = IF @ = "available" THEN "starting" ELSE @]}
    BY DEF StartPosts
  <2> QED BY <2>1, <2>2, <2>3, <2>4
<1>2. /\ sinceOpen.roster \subseteq sinceOpen'.roster /\ sinceOpen.store \subseteq sinceOpen'.store
      /\ sinceAsked.roster \subseteq sinceAsked'.roster /\ sinceAsked.store \subseteq sinceAsked'.store
  <2>1. CASE Remembering
    BY <2>1, NothingIsForgotten
  <2>2. CASE Remembers(FALSE, {}, {a})
    BY <2>2 DEF Remembers
  <2> QED BY <1>1, <2>1, <2>2
<1>3. FlowTypes'
  <2>1. roster \in [Startables -> Entries] /\ "starting" \in Statuses
    BY DEF FlowInv, FlowTypes, Statuses
  <2>2. roster' \in [Startables -> Entries]
    BY <1>1, <2>1 DEF Entries
  <2>3. starting' \in [Startables -> [stage : {"none", "roster", "store", "post"}, entry : Entries]]
    BY <1>1, AStartIsTyped DEF FlowInv, FlowTypes
  <2> QED BY <1>1, <2>2, <2>3 DEF FlowInv, FlowTypes
<1>4. FetchesAreOfTheirOpening' /\ RowsAreAnswered' /\ RunningIsRunning'
  BY <1>1, <1>2 DEF FlowInv, FetchesAreOfTheirOpening, RowsAreAnswered, RunningIsRunning
<1>5. StartsReadAfterAsking'
  <2>1. \A b \in Startables : starting'[b] = IF b = a THEN NoStart ELSE starting[b]
    BY <1>1 DEF FlowInv, FlowTypes
  <2> QED BY <1>2, <2>1 DEF FlowInv, StartsReadAfterAsking, NoStart
<1> QED BY <1>3, <1>4, <1>5 DEF FlowInv

LEMMA ArrivalsKeepIt ==
  ASSUME FlowInv, NotesArrivals \/ UNCHANGED flowVars
  PROVE  FlowInv'
<1>1. CASE NotesArrivals
  <2>1. /\ Remembering /\ UNCHANGED <<roster, store, list, fetches, starting, workers>>
        /\ pendingStart \in workers /\ said'.agent = pendingStart
    BY <1>1 DEF NotesArrivals, Arrives, Announces
  <2>2. RunningIsRunning'
    BY <2>1, NothingIsForgotten DEF RunningIsRunning
  <2>3. FlowTypes' /\ FetchesAreOfTheirOpening' /\ RowsAreAnswered' /\ StartsReadAfterAsking'
    BY <2>1, NothingIsForgotten DEF FlowInv, FlowTypes, FetchesAreOfTheirOpening, RowsAreAnswered, StartsReadAfterAsking
  <2> QED BY <2>2, <2>3 DEF FlowInv
<1>2. CASE UNCHANGED flowVars
  BY <1>2 DEF flowVars, FlowInv, FlowTypes, FetchesAreOfTheirOpening, RowsAreAnswered, StartsReadAfterAsking, RunningIsRunning
<1> QED BY <1>1, <1>2

\* However the roster and the store move, answers are late and lists are
\* reopened: the rows drawn are of this opening, a start is asked of the
\* service only for what was read after the operator chose it, and "running" is
\* said of a worker that came after its start was accepted (start-list.mjs,
\* agent-starter.mjs).
THEOREM StartsHold == FlowSpec => []StartsAreHonest
<1>1. FlowInit => FlowInv
  BY FlowBegins
<1>2. FlowInv /\ [FlowNext]_flowVars => FlowInv'
  BY MovesKeepIt, OpensKeepsIt, ClosesKeepsIt, ListReadsKeepIt, ListLandsKeepsIt, ChoosesKeepsIt, StartsKeepIt,
     PostsKeepIt, ArrivalsKeepIt DEF FlowNext
<1>3. FlowInv => StartsAreHonest
  BY DEF FlowInv, RowsAreAnswered, StartsReadAfterAsking, StartsAreHonest, RowsAreOfThisOpening, StartsAreFresh,
         UnansweredOffersNothing
<1> QED BY <1>1, <1>2, <1>3, PTL DEF FlowSpec
=============================================================================
