----------------------------- MODULE CommsPlugin -----------------------------
(***************************************************************************)
(* The aify-comms plugin itself (lib/plugins/aify-comms/index.mjs): its    *)
(* heartbeat, its loops of passes (pass-loop.mjs), the configuration phase *)
(* a registry change moves (plugin-phase.mjs), and the claim pass          *)
(* (claim.mjs), which takes a spawn request from the service and must      *)
(* answer for it.  The service gives a request away before the host has    *)
(* heard of it, and the answer that says so may be lost.                   *)
(*                                                                         *)
(* The loops that run while the plugin claims (claim, definition sync,     *)
(* lifecycle, model reads) have one shape; the lifecycle loop and the      *)
(* control loop start workers.  What a pass does beyond starting workers   *)
(* is in the modules of those parts.                                       *)
(***************************************************************************)
EXTENDS Naturals, FiniteSets

CONSTANTS
    Requests,    \* spawn requests of the service
    MaxStarted   \* bound: workers started in one behaviour

Loops == {"claim", "control", "lifecycle"}
Claiming == {"claim", "lifecycle"}

VARIABLES
    up,        \* start(): "no", "beating" (its first beat is awaited), "yes"
    halted,    \* stop() was called, or the plugin has detached
    phase,     \* PluginPhase
    loop,      \* where each loop is
    beat,      \* the heartbeat: its timer is set, it is sent, or neither
    held,      \* workers of this plugin that run
    born,      \* workers started so far
    waiting,   \* the passes a quiesce in progress still waits for
    detachAt,  \* the await detach() is in
    request,   \* what the service holds of each spawn request
    claim,     \* the claim pass's request and the await it is in
    inside,    \* requests whose workspace the host's roots contain now
    told       \* history: requests this host has sent a report of

pluginVars == <<up, halted, phase, loop, beat, held, born, waiting, detachAt,
                request, claim, inside, told>>

claimVars == <<request, claim, inside, told>>

NoClaim == [at |-> "none"]

\* PluginPhase.claims, controls: which loops may begin a pass.
Claims == phase = "running"
Controls == phase \in {"running", "held"}
MayRun(l) == IF l \in Claiming THEN Claims ELSE Controls

InPass(l) == loop[l] \in {"setup", "pass", "starting"}

PluginInit ==
    /\ up = "no" /\ halted = FALSE /\ phase = "running"
    /\ loop = [l \in Loops |-> "off"]
    /\ beat = "off"
    /\ held = 0 /\ born = 0
    /\ waiting = {} /\ detachAt = "idle"
    /\ request = [r \in Requests |-> "queued"]
    /\ claim = NoClaim
    /\ inside \in SUBSET Requests
    /\ told = {}

(***************************************************************************)
(* Starting, and the heartbeat.                                            *)
(***************************************************************************)
\* start(): the first beat is awaited, and the loops follow it.
Start ==
    /\ up = "no"
    /\ up' = "beating" /\ beat' = "sent"
    /\ UNCHANGED <<halted, phase, loop, held, born, waiting, detachAt, claimVars>>

Beat ==
    /\ beat = "due"
    /\ beat' = "sent"
    /\ UNCHANGED <<up, halted, phase, loop, held, born, waiting, detachAt, claimVars>>

\* The answer, or its failure: the next beat is timed unless the plugin has
\* detached or stopped meanwhile.
BeatSettled ==
    /\ beat = "sent"
    /\ beat' = IF phase = "detached" \/ halted THEN "off" ELSE "due"
    /\ IF up = "beating"
       THEN up' = "yes" /\ loop' = [l \in Loops |-> "pause"]
       ELSE UNCHANGED <<up, loop>>
    /\ UNCHANGED <<halted, phase, held, born, waiting, detachAt, claimVars>>

(***************************************************************************)
(* The loops.                                                              *)
(***************************************************************************)
\* runPasses: after its pause a loop begins a pass or ends.  The end and the
\* flag that lets the loop be started again are one step.
BeginOrEnd(l) ==
    /\ loop[l] = "pause"
    /\ loop' = [loop EXCEPT ![l] = IF ~halted /\ MayRun(l) THEN "setup" ELSE "off"]
    /\ UNCHANGED <<up, halted, phase, beat, held, born, waiting, detachAt, claimVars>>

\* A pass that settles, refused, failed or done, is followed by a pause, and a
\* quiesce that waits for it waits no more.
Settled(l) ==
    /\ loop' = [loop EXCEPT ![l] = "pause"]
    /\ waiting' = waiting \ {l}

\* The setup's awaits are behind it and the phase is read again.
SetUp(l) ==
    /\ loop[l] = "setup"
    /\ \/ /\ MayRun(l) /\ (l = "lifecycle" => ~halted)
          /\ loop' = [loop EXCEPT ![l] = "pass"]
          /\ UNCHANGED waiting
       \/ Settled(l) \* the advertisement or the roots failed, or it is detaching
    /\ UNCHANGED <<up, halted, phase, beat, held, born, detachAt, claimVars>>

\* A pass ends, its long-poll idle or failed, or its work done.  (What the
\* claim pass does with a request: below.)
PassEnds(l) ==
    /\ loop[l] = "pass" /\ (l = "claim" => claim = NoClaim)
    /\ Settled(l)
    /\ UNCHANGED <<up, halted, phase, beat, held, born, detachAt, claimVars>>

\* A start is in hand and the phase refuses none: it will be carried out.
AdmitStart(l) ==
    /\ l \in {"control", "lifecycle"}
    /\ loop[l] = "pass" /\ phase = "running" /\ (l = "lifecycle" => ~halted)
    /\ born < MaxStarted
    /\ loop' = [loop EXCEPT ![l] = "starting"]
    /\ UNCHANGED <<up, halted, phase, beat, held, born, waiting, detachAt, claimVars>>

WorkerStarts(l) ==
    /\ loop[l] = "starting"
    /\ loop' = [loop EXCEPT ![l] = "pass"]
    /\ \/ /\ born < MaxStarted
          /\ held' = held + 1 /\ born' = born + 1
       \/ UNCHANGED <<held, born>> \* refused or failed later on
    /\ UNCHANGED <<up, halted, phase, beat, waiting, detachAt, claimVars>>

WorkerEnds ==
    /\ held > 0
    /\ held' = held - 1
    /\ UNCHANGED <<up, halted, phase, loop, beat, born, waiting, detachAt, claimVars>>

(***************************************************************************)
(* The claim pass (runClaimPass).                                          *)
(***************************************************************************)
\* The service gives a queued request to whoever polls; its answer is on its
\* way.
HandsOut(r) ==
    /\ loop["claim"] = "pass" /\ claim = NoClaim
    /\ request[r] = "queued"
    /\ request' = [request EXCEPT ![r] = "claimed"]
    /\ claim' = [at |-> "answered", r |-> r]
    /\ UNCHANGED <<up, halted, phase, loop, beat, held, born, waiting, detachAt, inside, told>>

\* One report to the service.  It may not land; a cancelled request refuses
\* every report, and an answer may be lost on its way back.
Report(r, to) ==
    /\ told' = told \cup {r}
    /\ \/ request' = [request EXCEPT ![r] = IF @ = "cancelled" THEN @ ELSE to]
       \/ UNCHANGED request

ClaimEnds == claim' = NoClaim /\ Settled("claim")

\* The host hears of it; or the answer is lost or comes after the poll's
\* timeout, and the pass ends knowing of no request.
ClaimAnswered ==
    /\ claim.at = "answered"
    /\ \/ claim' = [claim EXCEPT !.at = "judging"] /\ UNCHANGED <<loop, waiting>>
       \/ ClaimEnds
    /\ UNCHANGED <<up, halted, phase, beat, held, born, detachAt, request, inside, told>>

\* (Mutant: a refused request is dropped without a word.)
JudgeSilently ==
    /\ claim.at = "judging"
    /\ IF claim.r \in inside
       THEN claim' = [claim EXCEPT !.at = "starting"] /\ UNCHANGED <<request, told, loop, waiting>>
       ELSE UNCHANGED <<request, told>> /\ ClaimEnds
    /\ UNCHANGED <<up, halted, phase, beat, held, born, detachAt, inside>>

\* The roots as they stand after the claim's wait.
Judge ==
    /\ claim.at = "judging"
    /\ IF claim.r \in inside
       THEN claim' = [claim EXCEPT !.at = "starting"] /\ UNCHANGED <<request, told, loop, waiting>>
       ELSE Report(claim.r, "failed") /\ ClaimEnds
    /\ UNCHANGED <<up, halted, phase, beat, held, born, detachAt, inside>>

\* A "starting" that was refused or not answered ends the pass.
ReportStarting ==
    /\ claim.at = "starting"
    /\ Report(claim.r, "starting")
    /\ \/ /\ request'[claim.r] = "starting"
          /\ claim' = [claim EXCEPT !.at = "registering"]
          /\ UNCHANGED <<loop, waiting>>
       \/ ClaimEnds
    /\ UNCHANGED <<up, halted, phase, beat, held, born, detachAt, inside>>

ReportRunning ==
    /\ claim.at = "registering"
    /\ Report(claim.r, "running")
    /\ ClaimEnds
    /\ UNCHANGED <<up, halted, phase, beat, held, born, detachAt, inside>>

\* The operator cancels a spawn, or the host's roots change under it.
Cancel(r) ==
    /\ request[r] \in {"queued", "claimed", "starting"}
    /\ request' = [request EXCEPT ![r] = "cancelled"]
    /\ UNCHANGED <<up, halted, phase, loop, beat, held, born, waiting, detachAt, claim, inside, told>>

RootsChange(r) ==
    /\ r \in inside
    /\ inside' = inside \ {r}
    /\ UNCHANGED <<up, halted, phase, loop, beat, held, born, waiting, detachAt, request, claim, told>>

(***************************************************************************)
(* What the registry asks of it, and the host's stop.                      *)
(***************************************************************************)
\* (Mutant: the detach does not wait for the lifecycle pass.)
DetachForgetful ==
    /\ up = "yes" /\ ~halted /\ phase # "detached" /\ detachAt = "idle"
    /\ phase' = "quiescing"
    /\ waiting' = {l \in Loops \ {"lifecycle"} : InPass(l)}
    /\ detachAt' = "waiting"
    /\ UNCHANGED <<up, halted, loop, beat, held, born, claimVars>>

\* detach(): quiesce, and wait for every pass in flight.
Detach ==
    /\ up = "yes" /\ ~halted /\ phase # "detached" /\ detachAt = "idle"
    /\ phase' = "quiescing"
    /\ waiting' = {l \in Loops : InPass(l)}
    /\ detachAt' = "waiting"
    /\ UNCHANGED <<up, halted, loop, beat, held, born, claimVars>>

\* Workers found: the plugin is kept for them and its control loop runs.
Hold ==
    /\ detachAt = "waiting" /\ waiting = {}
    /\ held > 0
    /\ phase' = "held"
    /\ loop' = [loop EXCEPT !["control"] = IF @ = "off" THEN "pause" ELSE @]
    /\ detachAt' = "idle"
    /\ UNCHANGED <<up, halted, beat, held, born, waiting, claimVars>>

\* None found: nothing runs and nothing more is sent.
LetGo ==
    /\ detachAt = "waiting" /\ waiting = {}
    /\ held = 0
    /\ phase' = "detached" /\ halted' = TRUE
    /\ beat' = IF beat = "due" THEN "off" ELSE beat
    /\ detachAt' = "idle"
    /\ UNCHANGED <<up, loop, held, born, waiting, claimVars>>

\* resume(): only a held plugin claims again, with the loops that claim.
Resume ==
    /\ ~halted /\ phase = "held"
    /\ phase' = "running"
    /\ loop' = [l \in Loops |-> IF l \in Claiming /\ loop[l] = "off" THEN "pause" ELSE loop[l]]
    /\ UNCHANGED <<up, halted, beat, held, born, waiting, detachAt, claimVars>>

\* stop(): the host goes away.  It waits for the lifecycle pass and no other
\* (index.mjs:570), and the process ends behind it.
Stop ==
    /\ up = "yes" /\ ~halted
    /\ halted' = TRUE
    /\ beat' = IF beat = "due" THEN "off" ELSE beat
    /\ UNCHANGED <<up, phase, loop, held, born, waiting, detachAt, claimVars>>

LoopStep(l) ==
    \/ BeginOrEnd(l) \/ SetUp(l) \/ PassEnds(l)
    \/ AdmitStart(l) \/ WorkerStarts(l)

ClaimStep == ClaimAnswered \/ Judge \/ ReportStarting \/ ReportRunning

PluginNext ==
    \/ Start \/ Beat \/ BeatSettled
    \/ \E l \in Loops : LoopStep(l)
    \/ \E r \in Requests : HandsOut(r) \/ Cancel(r) \/ RootsChange(r)
    \/ ClaimStep
    \/ WorkerEnds
    \/ Detach \/ Hold \/ LetGo \/ Resume \/ Stop

\* Behind a stop the process may end at any step.
Stopped == halted /\ phase # "detached"
Lives(A) == ~Stopped /\ A

\* Timers fire and requests time out, for as long as the host is not stopped;
\* workers, operators and the service owe nothing.
PluginFairness ==
    /\ WF_pluginVars(Lives(BeatSettled)) /\ WF_pluginVars(Lives(ClaimStep))
    /\ \A l \in Loops :
         /\ WF_pluginVars(Lives(BeginOrEnd(l))) /\ WF_pluginVars(Lives(SetUp(l))) /\ WF_pluginVars(Lives(PassEnds(l)))
         /\ WF_pluginVars(Lives(WorkerStarts(l)))
    /\ WF_pluginVars(Lives(Hold \/ LetGo))

PluginSpec == PluginInit /\ [][PluginNext]_pluginVars /\ PluginFairness

(***************************************************************************)
(* Properties.                                                             *)
(***************************************************************************)
\* What the registry may believe of the plugin, whatever its loops are doing.
Standing ==
    CASE up # "yes" -> "off"
      [] phase = "quiescing" -> "leaving"
      [] phase = "held" -> "held"
      [] phase = "detached" -> "gone"
      [] OTHER -> "serving"

Promise == INSTANCE PluginLife WITH standing <- Standing, workers <- held

\* The plugin with all its loops keeps the promise a registry change relies on
\* (plugin-phase.mjs): it is let go with no worker, no pass in flight can start
\* one behind the detach, and a held plugin starts none.
KeepsItsPromise == Promise!LifeSpec

\* While the plugin runs every loop of it is alive, and while it is held its
\* control loop is, so that its workers can be stopped and typed into
\* (index.mjs:538, and the resume that starts what the hold let end).  The
\* beat that says this host is a claimer is timed or under way throughout, and
\* nothing runs on behind a detach that said it was done.
LoopsFollowThePhase ==
    /\ up = "yes" /\ ~halted =>
        /\ phase = "running" => \A l \in Loops : loop[l] # "off"
        /\ phase = "held" => loop["control"] # "off"
        /\ beat # "off"
    /\ phase = "detached" => \A l \in Loops : ~InPass(l)

\* Every request the host has heard that it claimed it sends some report of,
\* whatever is cancelled, edited or detached in the middle of the pass
\* (claim.mjs:32: a claimed request the service never hears about again is one
\* it hands to nobody else); unless the host is stopped first.
ClaimsAreTold == \A r \in Requests : claim.at = "judging" /\ claim.r = r ~> r \in told \/ Stopped

=============================================================================
