------------------------------ MODULE Shutdown ------------------------------
(***************************************************************************)
(* The end of the environment: lib/shutdown.mjs over the Runner.  A signal *)
(* opens the teardown; the processes of one snapshot are each told to stop; *)
(* the stops race one deadline; the owned record is cleared of what ended;  *)
(* the process exits.  A second signal or a crash may cut in.  The stop of  *)
(* a child still in flight (lib/in-flight-spawns.mjs) belongs here, since   *)
(* only the teardown's view can name one.                                  *)
(***************************************************************************)
EXTENDS Runner

\* The two callers of stop() this module adds: the teardown itself, and the
\* continuation of a pending child's stop once the child is handed off.
Teardown == "teardown"
Continuation == "continuation"

ASSUME CallersAssumption ==
    /\ {Teardown, Continuation} \subseteq Callers
    /\ Teardown \notin Requests /\ Continuation \notin Requests

VARIABLES
    stage,      \* how far the teardown has come
    snapshot,   \* the processes it listed
    owed,       \* pending stops whose handoff has not come
    stuck,      \* outstanding or unverified when the race ended
    ending      \* how this process ended

end == <<stage, snapshot, owed, stuck, ending>>
allVars == <<vars, end>>

ShutdownTypeOK ==
    /\ TypeOK
    /\ stage \in {"up", "before", "entering", "stopping", "retiring", "exited"}
    /\ snapshot \subseteq Starts /\ owed \subseteq Starts /\ stuck \subseteq snapshot
    /\ ending \in {"none", "complete", "stuck", "cut"}

ShutdownInit ==
    /\ Init
    /\ stage = "up" /\ ending = "none"
    /\ snapshot = {} /\ owed = {} /\ stuck = {}

\* The HTTP server accepts work until closeServer.
Accepting == stage \in {"up", "before"}

\* The child whose stop is owed has been handed off: the promise's
\* continuation is due, perhaps after the answer "unknown" was given.
HandoffDue(p) == p \in owed /\ phase[p] = "started"

\* The one thread runs callbacks: not while it enters the stops one by one
\* without an await, not after the exit, and no timer or event before the
\* continuation of a promise that has settled.
Awake == stage \notin {"entering", "exited"} /\ \A p \in Starts : ~HandoffDue(p)

(* The teardown *)

FirstSignal ==
    /\ stage = "up"
    /\ stage' = "before"
    /\ UNCHANGED <<vars, snapshot, owed, stuck, ending>>

\* beforeStop settled, its budget ran out, or a second signal ended the wait.
BeginStops ==
    /\ stage = "before"
    /\ stage' = "entering"
    /\ snapshot' = registry \cup {p \in Starts : inFlight[p] = "pending"}
    /\ UNCHANGED <<vars, owed, stuck, ending>>

\* InFlightSpawns.stop when the snapshot named a pending child, else stop().
EnterStop(p) ==
    /\ stage = "entering"
    /\ p \in snapshot /\ call[Teardown][p] = "idle"
    /\ \/ /\ inFlight[p] = "pending"
          /\ call' = [call EXCEPT ![Teardown][p] = "handoff"]
          /\ owed' = owed \cup {p}
          /\ UNCHANGED <<host, phase, os, events, custody, group, record, requested,
                         attempt, told, struck>>
       \/ /\ inFlight[p] # "pending"
          /\ Stop(Teardown, p)
          /\ UNCHANGED owed
    /\ UNCHANGED <<stage, snapshot, stuck, ending>>

AllEntered ==
    /\ stage = "entering"
    /\ \A p \in snapshot : call[Teardown][p] # "idle"
    /\ stage' = "stopping"
    /\ UNCHANGED <<vars, snapshot, owed, stuck, ending>>

\* The stops that have not ended.
Outstanding == {p \in snapshot : call[Teardown][p] \notin {"stopped", "unknown"}}

\* The stops that are outstanding, or that ended without a confirmation.
\* (Mutant: only those that ended count, as if the deadline had settled the rest.)
Unverified == {p \in snapshot : call[Teardown][p] = "unknown"}

Stuck == {p \in snapshot : call[Teardown][p] # "stopped"}

\* Every stop settled, or the deadline passed.
\* (Mutant: there is no deadline.)
StopsEndWhenSettled ==
    /\ Awake /\ stage = "stopping" /\ Outstanding = {}
    /\ stage' = "retiring"
    /\ stuck' = Stuck
    /\ UNCHANGED <<vars, snapshot, owed, ending>>

StopsEnd ==
    /\ Awake /\ stage = "stopping"
    /\ stage' = "retiring"
    /\ stuck' = Stuck
    /\ UNCHANGED <<vars, snapshot, owed, ending>>

\* Runner.retireEndedRecords: the rows of what is no longer live, in one write.
Ended == recorded \ live

RetireEndedRecords ==
    \/ UNCHANGED record
    \/ /\ recorded' = recorded \ Ended
       /\ disk' = [p \in Starts |->
                     IF p \in Ended /\ disk[p] = "row" THEN "retired" ELSE disk[p]]

\* afterStops settled, its deadline passed, or a signal ended the wait.
Exit ==
    /\ Awake /\ stage = "retiring"
    /\ stage' = "exited"
    /\ IF stuck = {} THEN ending' = "complete" /\ RetireEndedRecords
                     ELSE ending' = "stuck" /\ UNCHANGED record
    /\ UNCHANGED <<host, phase, os, events, custody, group, stopping, told, struck,
                   snapshot, owed, stuck>>

\* The second signal during the stops, or a crash at any moment: nothing is
\* written.
CutShort ==
    /\ stage # "exited"
    /\ stage' = "exited" /\ ending' = "cut"
    /\ UNCHANGED <<vars, snapshot, owed, stuck>>

(* The stop of a child in flight: RunnerStop.#stopOnHandoff *)

AnswerTeardown(p, a) ==
    /\ call' = [call EXCEPT ![Teardown][p] = a]
    /\ UNCHANGED <<host, phase, os, events, custody, group, record, requested, attempt,
                   told, struck, stage, snapshot, stuck, ending>>

\* The late child is stopped all the same.
EnterOwed(p) ==
    /\ stage # "exited" /\ HandoffDue(p)
    /\ Stop(Continuation, p)
    /\ owed' = owed \ {p}
    /\ UNCHANGED <<stage, snapshot, stuck, ending>>

\* The spawn failed: nothing to stop.
OwedFailed(p) ==
    /\ Awake /\ p \in owed /\ phase[p] = "refused"
    /\ owed' = owed \ {p}
    /\ AnswerTeardown(p, IF call[Teardown][p] = "handoff" THEN "stopped"
                         ELSE call[Teardown][p])

OwedAnswered(p) ==
    /\ Awake /\ call[Teardown][p] = "handoff"
    /\ call[Continuation][p] \in {"stopped", "unknown"}
    /\ AnswerTeardown(p, call[Continuation][p])
    /\ UNCHANGED owed

\* The budget ran out.  Without a handoff the child object is killed, which
\* the world may already do of itself, and the handoff stays owed.
OwedTimesOut(p) ==
    /\ Awake /\ call[Teardown][p] = "handoff"
    /\ AnswerTeardown(p, "unknown")
    /\ UNCHANGED owed

-----------------------------------------------------------------------------
TeardownStep ==
    \/ FirstSignal \/ BeginStops \/ AllEntered \/ StopsEnd \/ Exit \/ CutShort
    \/ \E p \in Starts : \/ EnterStop(p) \/ EnterOwed(p) \/ OwedFailed(p)
                         \/ OwedAnswered(p) \/ OwedTimesOut(p)

RunnerStep ==
    /\ \E p \in Starts :
        \/ Accepting /\ Start(p)
        \/ Awake /\ Own(p)
        \/ World(p)
        \/ \E c \in Requests : Accepting /\ Stop(c, p)
    /\ UNCHANGED end

ShutdownNext == TeardownStep \/ RunnerStep

\* The timers of the teardown fire and the loop keeps turning.
ShutdownFairness ==
    /\ WF_allVars(BeginStops) /\ WF_allVars(AllEntered)
    /\ WF_allVars(StopsEnd) /\ WF_allVars(Exit)
    /\ \A p \in Starts : WF_allVars(EnterStop(p)) /\ WF_allVars(EnterOwed(p))

ShutdownSpec == ShutdownInit /\ [][ShutdownNext]_allVars /\ ShutdownFairness

-----------------------------------------------------------------------------
(* Properties *)

\* The snapshot misses no child: whatever runs when the stops begin, admitted
\* or still in flight, is told to stop (docs/IN-FLIGHT-SPAWN-CUSTODY.md).
SnapshotMissesNothing ==
    [][BeginStops => \A p \in Starts : Running(p) => p \in snapshot']_allVars

\* An exit that cleared the record left nothing of its snapshot running: each
\* stop was verified, not merely issued (lib/shutdown.mjs stuck).
CompleteExitLeftNothing ==
    ending = "complete" => \A p \in snapshot : ~Running(p)

\* When the environment leaves of its own accord, no child it listed still runs
\* without having been told to stop: neither one whose stop was answered
\* "unknown" while it was in flight nor one that was handed off afterwards.
ListedChildWasTold ==
    ending \in {"complete", "stuck"} =>
        \A p \in snapshot : Running(p) /\ phase[p] = "started" => p \in requested

\* The two: an exit that cleared the record left nothing, and one that did not
\* had at least told every child it listed.
TeardownIsTrue ==
    ShutdownTypeOK /\ CompleteExitLeftNothing /\ ListedChildWasTold

\* The two records a stop leaves: why the runner let go of a child, and the
\* teardown's list of whom to stop.
StopsAreRecorded == StopIsOnRecord /\ SnapshotMissesNothing

\* A signal ends in an exit whatever the children and the service do.
SignalEndsInExit == stage = "before" ~> stage = "exited"

\* "If aify-env dies, the processes it handles die with it"
\* (bin/aify-env.mjs): a complete teardown leaves no child running.
NothingOutlivesTheEnvironment ==
    ending = "complete" => \A p \in Starts : ~Running(p)
=============================================================================
