------------------------------- MODULE Runner -------------------------------
(***************************************************************************)
(* The environment's custody of the processes it starts: lib/runner.mjs    *)
(* with its private parts (in-flight spawns, the stop witness, the POSIX   *)
(* process group, managed lifetimes, the owned-record rows) and the reaper. *)
(*                                                                         *)
(* Node runs one callback at a time, so an action is one stretch of code   *)
(* between two awaits or two events.  The operating system's processes     *)
(* take steps of their own in between.  An element of Starts names one     *)
(* call of start() and, from the spawn on, the child that call created.    *)
(***************************************************************************)

CONSTANTS
    Starts,         \* calls of start(), each minting at most one child
    Requests,       \* explicit stop requests (a control id each)
    Callers,        \* everyone who may be waiting for a stop's answer
    Hosts           \* kinds of host: "pty", "pipe" (win32), "group" (POSIX)

ASSUME RequestsAssumption == Requests \subseteq Callers
ASSUME HostsAssumption == Hosts \subseteq {"pty", "pipe", "group"}

VARIABLES
    host,           \* the kind of this host; never changes
    phase,          \* how far each start() has come
    \* The operating system.
    root,           \* the child itself
    workers,        \* children with a descendant alive in their group
    strangers,      \* children whose number now names somebody else's group
    \* What Node has told this process.
    exitSeen,       \* 'exit' delivered
    closed,         \* 'close' (or the pty's exit) delivered: finish() ran
    \* Custody.
    inFlight,       \* InFlightSpawns.#entries
    live,           \* Runner.#live
    stops,          \* Runner.#stops
    registry,       \* ProcessRegistry.#entries
    managed,        \* ManagedLifetimes.#children
    group,          \* PosixProcessGroup: none, valid, invalid or gone
    \* The owned record.
    recorded,       \* Runner.#recorded: rows this process still answers for
    disk,           \* this child's row in the owned-process file
    \* Stops.
    requested,      \* RunnerStop.#requested
    attempt,        \* PosixProcessGroup.#attempt and how far it has come
    call,           \* what each caller of stop() is waiting for or was told
    \* What others were told.
    listening,      \* exit listeners not told yet
    reason,         \* the reason the registry's exit history gives
    struck          \* strangers a group signal was sent to

os == <<root, workers, strangers>>
events == <<exitSeen, closed>>
custody == <<inFlight, live, stops, registry, managed>>
record == <<recorded, disk>>
stopping == <<requested, attempt, call>>
told == <<listening, reason>>
vars == <<host, phase, os, events, custody, group, record, stopping, told,
          struck>>

TypeOK ==
    /\ host \in Hosts
    /\ phase \in [Starts -> {"idle", "admitting", "spawning", "started", "refused"}]
    /\ root \in [Starts -> {"none", "running", "zombie", "reaped"}]
    /\ inFlight \in [Starts -> {"none", "pending", "admitted"}]
    /\ group \in [Starts -> {"none", "valid", "invalid", "gone"}]
    /\ disk \in [Starts -> {"none", "row", "retired"}]
    /\ attempt \in [Starts -> {"none", "deferred", "term", "kill"}]
    /\ call \in [Callers -> [Starts ->
            {"idle", "handoff", "attempt", "killing", "stopped", "unknown"}]]
    /\ reason \in [Starts -> {"none", "exited", "stopped", "reaped"}]
    /\ workers \subseteq Starts /\ strangers \subseteq Starts
    /\ exitSeen \subseteq Starts /\ closed \subseteq Starts
    /\ live \subseteq Starts /\ stops \subseteq Starts
    /\ registry \subseteq Starts /\ managed \subseteq Starts
    /\ recorded \subseteq Starts /\ requested \subseteq Starts
    /\ listening \subseteq Starts /\ struck \subseteq Starts

Init ==
    /\ host \in Hosts
    /\ phase = [p \in Starts |-> "idle"]
    /\ root = [p \in Starts |-> "none"]
    /\ inFlight = [p \in Starts |-> "none"]
    /\ group = [p \in Starts |-> "none"]
    /\ disk = [p \in Starts |-> "none"]
    /\ attempt = [p \in Starts |-> "none"]
    /\ call = [c \in Callers |-> [p \in Starts |-> "idle"]]
    /\ reason = [p \in Starts |-> "none"]
    /\ workers = {} /\ strangers = {} /\ exitSeen = {} /\ closed = {}
    /\ live = {} /\ stops = {} /\ registry = {} /\ managed = {}
    /\ recorded = {} /\ requested = {} /\ listening = {} /\ struck = {}

-----------------------------------------------------------------------------
(* Probes. *)

\* process.kill(-pid, 0) finds somebody.  A zombie still holds its group.
GroupPresent(p) ==
    \/ root[p] \in {"running", "zombie"}
    \/ p \in workers \/ p \in strangers

\* The answers process.kill(pid, 0) may give: a throw is "unknown".
Probe(p) ==
    {"unknown", IF root[p] \in {"running", "zombie"} \/ p \in strangers
                THEN "alive" ELSE "dead"}

\* PosixProcessGroup.observe: ESRCH retires the custody for good.
Observed(p) ==
    IF group[p] = "valid" /\ ~GroupPresent(p) THEN "gone" ELSE group[p]

OwnsGroup(p) == p \in stops /\ group[p] # "none"

\* RunnerStop.canRelease
CanRelease(p) == Observed(p) \in {"none", "gone"}

(* Letting go. *)

\* Runner.#retireRecord: only a write that succeeded forgets the row.
RetireRecord(p) ==
    \/ UNCHANGED record
    \/ /\ p \in recorded
       /\ recorded' = recorded \ {p}
       /\ disk' = [disk EXCEPT ![p] = IF @ = "row" THEN "retired" ELSE @]

\* The history says "stopped" whenever somebody had asked for a stop.
\* (Mutant: whoever removes it says why.)
ExitReasonGiven(p, why) == why

ExitReason(p, why) == IF p \in stops /\ p \in requested THEN "stopped" ELSE why

\* Runner.#release: everything held for p, killing nothing.
Release(p, why) ==
    /\ live' = live \ {p}
    /\ stops' = stops \ {p}
    /\ inFlight' = [inFlight EXCEPT ![p] = IF @ = "admitted" THEN "none" ELSE @]
    /\ registry' = registry \ {p}
    /\ reason' = IF p \in registry THEN [reason EXCEPT ![p] = ExitReason(p, why)]
                                   ELSE reason
    /\ RetireRecord(p)

\* ManagedLifetimes.end
EndManaged(p) == managed' = managed \ {p}

TellListeners(p) == listening' = listening \ {p}

(* start() *)

\* The request was accepted: the allowlist passed; the checkpoint load, the
\* start gate and the admission are awaited.  None of them changes state here.
Start(p) ==
    /\ phase[p] = "idle"
    /\ phase' = [phase EXCEPT ![p] = "admitting"]
    /\ UNCHANGED <<host, os, events, custody, group, record, stopping, told, struck>>

\* The gate, the admission or the final guard threw, or the spawner did.
Refuse(p) ==
    /\ phase[p] = "admitting"
    /\ phase' = [phase EXCEPT ![p] = "refused"]
    /\ UNCHANGED <<host, os, events, custody, group, record, stopping, told, struck>>

\* The part of start() after the child is ready: one stretch with no await.
\* The row may fail to be written; the runner keeps it in memory either way.
Admit(p) ==
    /\ phase' = [phase EXCEPT ![p] = "started"]
    /\ group' \in {[group EXCEPT ![p] = g] :
                     g \in IF host = "group" THEN {"valid", "invalid"} ELSE {"none"}}
    /\ registry' = registry \cup {p}
    /\ managed' = managed \cup {p}
    /\ recorded' = recorded \cup {p}
    /\ disk' \in {disk, [disk EXCEPT ![p] = "row"]}
    /\ live' = live \cup {p}
    /\ stops' = stops \cup {p}
    /\ listening' = listening \cup {p}
    /\ inFlight' = [inFlight EXCEPT ![p] = IF @ = "pending" THEN "admitted" ELSE @]
    /\ UNCHANGED <<host, events, stopping, reason, struck>>

\* A terminal: spawned, recorded and wired in one turn.
SpawnTerminal(p) ==
    /\ host = "pty" /\ phase[p] = "admitting"
    /\ root' = [root EXCEPT ![p] = "running"]
    /\ UNCHANGED <<workers, strangers>>
    /\ Admit(p)

\* A piped child: private custody only, until Node says 'spawn' or 'error'.
SpawnPiped(p) ==
    /\ host # "pty" /\ phase[p] = "admitting"
    /\ phase' = [phase EXCEPT ![p] = "spawning"]
    /\ \E forked \in {"running", "none"} : root' = [root EXCEPT ![p] = forked]
    /\ inFlight' = [inFlight EXCEPT ![p] = "pending"]
    /\ UNCHANGED <<host, workers, strangers, events, live, stops, registry, managed,
                   group, record, stopping, told, struck>>

\* 'spawn': the child is admitted and any early event is drained after it.
Handoff(p) ==
    /\ phase[p] = "spawning" /\ root[p] # "none"
    /\ UNCHANGED os
    /\ Admit(p)

\* 'error' (or 'close') before 'spawn': Node gives it only to a child that
\* never ran.
SpawnFails(p) ==
    /\ phase[p] = "spawning" /\ root[p] = "none"
    /\ phase' = [phase EXCEPT ![p] = "refused"]
    /\ inFlight' = [inFlight EXCEPT ![p] = "none"]
    /\ UNCHANGED <<host, os, events, live, stops, registry, managed, group, record,
                   stopping, told, struck>>

(* The child's events *)

ExitEvent(p) ==
    /\ host = "group" /\ root[p] = "reaped" /\ p \notin exitSeen
    /\ exitSeen' = exitSeen \cup {p}
    /\ UNCHANGED <<host, phase, os, closed, custody, group, record, stopping, told, struck>>

\* finish() after an observed death.  A group not proved gone keeps every hold,
\* but the listeners hear of the root's exit now.  The other call of finish(),
\* an 'error' after the spawn, only ends a stop's wait early, and the model
\* lets that wait end at any time.
Close(p) ==
    /\ phase[p] = "started" /\ root[p] = "reaped" /\ p \notin closed
    /\ host = "group" => p \in exitSeen
    /\ closed' = closed \cup {p}
    /\ group' = [group EXCEPT ![p] = IF OwnsGroup(p) THEN Observed(p) ELSE @]
    /\ IF OwnsGroup(p) /\ ~CanRelease(p)
       THEN UNCHANGED <<custody, record, reason>>
       ELSE Release(p, "exited") /\ EndManaged(p)
    /\ TellListeners(p)
    /\ UNCHANGED <<host, phase, os, exitSeen, stopping, struck>>

(* stop() *)

Answer(c, p, a) == call' = [call EXCEPT ![c][p] = a]

\* Dead at the first look: nothing is killed.
StopConfirmed(c, p) ==
    /\ Answer(c, p, "stopped")
    /\ Release(p, "stopped") /\ EndManaged(p)
    /\ UNCHANGED attempt

\* A group has one attempt at a time, which every caller shares.
StopGroup(c, p) ==
    /\ Answer(c, p, "attempt")
    /\ attempt' = [attempt EXCEPT ![p] = IF @ = "none" THEN "deferred" ELSE @]
    /\ UNCHANGED <<custody, record, reason>>

StopRoot(c, p) ==
    \/ p \in closed /\ StopConfirmed(c, p)
    \/ /\ p \notin closed
       /\ \E alive \in Probe(p) :
            \/ alive = "dead" /\ StopConfirmed(c, p)
            \/ /\ alive # "dead"
               /\ Answer(c, p, IF alive = "alive" THEN "killing" ELSE "unknown")
               /\ UNCHANGED <<attempt, custody, record, reason>>

\* stop(), as far as its first await.
Stop(c, p) ==
    /\ phase[p] = "started" /\ call[c][p] = "idle"
    /\ \/ /\ p \notin live /\ ~OwnsGroup(p)
          /\ Answer(c, p, "stopped")
          /\ Release(p, "stopped")
          /\ UNCHANGED <<managed, requested, attempt>>
       \/ /\ p \in live /\ p \notin stops
          /\ Answer(c, p, "unknown")
          /\ UNCHANGED <<custody, record, requested, attempt, reason>>
       \/ /\ p \in stops /\ (p \in live \/ group[p] # "none")
          /\ requested' = requested \cup {p}
          /\ IF group[p] # "none" THEN StopGroup(c, p) ELSE StopRoot(c, p)
    /\ UNCHANGED <<host, phase, os, events, group, listening, struck>>

\* After the kill, the tree kill and the bounded wait: a second look decides.
\* (Mutant: a kill that was issued is a stop.)
StopEndsUnseen(c, p) ==
    /\ call[c][p] = "killing"
    /\ StopConfirmed(c, p)
    /\ UNCHANGED <<host, phase, os, events, group, requested, listening, struck>>

StopEnds(c, p) ==
    /\ call[c][p] = "killing"
    /\ \E alive \in IF p \in closed THEN {"dead"} ELSE Probe(p) :
         IF alive = "dead"
         THEN StopConfirmed(c, p)
         ELSE /\ Answer(c, p, "unknown")
              /\ UNCHANGED <<attempt, custody, record, reason>>
    /\ UNCHANGED <<host, phase, os, events, group, requested, listening, struck>>

(* The group's attempt *)

Settle(p, gone) ==
    /\ attempt' = [attempt EXCEPT ![p] = "none"]
    /\ call' = [c \in Callers |-> [call[c] EXCEPT ![p] =
                  IF @ # "attempt" THEN @ ELSE IF gone THEN "stopped" ELSE "unknown"]]
    /\ IF gone THEN Release(p, "stopped") /\ EndManaged(p)
               ELSE UNCHANGED <<custody, record, reason>>
    /\ UNCHANGED <<host, phase, os, events, requested, listening, struck>>

\* setImmediate ran: every exit callback that was pending has run too.
Deferred(p) == attempt[p] = "deferred" /\ (root[p] = "reaped" => p \in exitSeen)

Signal(p, state) ==
    /\ GroupPresent(p) /\ group[p] = "valid"
    /\ attempt' = [attempt EXCEPT ![p] = state]
    /\ struck' = struck \cup ({p} \cap strangers)
    /\ UNCHANGED <<host, phase, os, events, custody, group, record, requested, call, told>>

\* SIGTERM, only while the leader's exit is unseen (canBegin).
GroupTerm(p) == Deferred(p) /\ p \notin exitSeen /\ Signal(p, "term")

\* SIGKILL, when half the budget has gone and the group is still there.
GroupKill(p) == attempt[p] = "term" /\ Signal(p, "kill")

GroupGone(p) ==
    /\ Deferred(p) \/ attempt[p] \in {"term", "kill"}
    /\ Observed(p) = "gone"
    /\ group' = [group EXCEPT ![p] = "gone"]
    /\ Settle(p, TRUE)

\* Still present at the deadline, no authority to begin, or an error that
\* says nothing (anything but ESRCH).
GroupUnresolved(p) ==
    /\ Deferred(p) \/ attempt[p] \in {"term", "kill"}
    /\ group[p] # "gone"
    /\ UNCHANGED group
    /\ Settle(p, FALSE)

(* The reaper *)

\* Reaper.sweep for one entry.  A dead leader whose group is not proved gone
\* is kept; everything else is released and its listeners told.
Sweep(p) ==
    /\ p \in registry /\ "dead" \in Probe(p)
    /\ OwnsGroup(p) => CanRelease(p)
    /\ group' = [group EXCEPT ![p] = Observed(p)]
    /\ EndManaged(p)
    /\ Release(p, "reaped")
    /\ TellListeners(p)
    /\ UNCHANGED <<host, phase, os, events, stopping, struck>>

(* The operating system *)

Dies(p) ==
    /\ root[p] = "running"
    /\ root' = [root EXCEPT ![p] = "zombie"]
    /\ UNCHANGED <<workers, strangers>>

Reaped(p) ==
    /\ root[p] = "zombie"
    /\ root' = [root EXCEPT ![p] = "reaped"]
    /\ UNCHANGED <<workers, strangers>>

WorkerBegins(p) ==
    /\ host = "group" /\ root[p] = "running" /\ p \notin workers
    /\ workers' = workers \cup {p}
    /\ UNCHANGED <<root, strangers>>

WorkersEnd(p) ==
    /\ p \in workers
    /\ workers' = workers \ {p}
    /\ UNCHANGED <<root, strangers>>

\* The number is handed out again.  Not while an attempt is polling it every
\* 10 ms: that window is the schedule's stated limit.
Reused(p) ==
    /\ host = "group" /\ root[p] = "reaped" /\ p \notin workers \cup strangers
    /\ attempt[p] \notin {"term", "kill"}
    /\ strangers' = strangers \cup {p}
    /\ UNCHANGED <<root, workers>>

StrangerLeaves(p) ==
    /\ p \in strangers
    /\ strangers' = strangers \ {p}
    /\ UNCHANGED <<root, workers>>

World(p) ==
    /\ \/ Dies(p) \/ Reaped(p) \/ WorkerBegins(p) \/ WorkersEnd(p)
       \/ Reused(p) \/ StrangerLeaves(p)
    /\ UNCHANGED <<host, phase, events, custody, group, record, stopping, told, struck>>

-----------------------------------------------------------------------------
Spawn(p) == SpawnTerminal(p) \/ SpawnPiped(p) \/ Handoff(p) \/ SpawnFails(p)

AttemptStep(p) == GroupTerm(p) \/ GroupKill(p) \/ GroupGone(p) \/ GroupUnresolved(p)

\* What this process does for p once it has been asked to start it.
Own(p) ==
    \/ Refuse(p) \/ Spawn(p)
    \/ ExitEvent(p) \/ Close(p) \/ AttemptStep(p) \/ Sweep(p)
    \/ \E c \in Callers : StopEnds(c, p)

Next ==
    \E p \in Starts :
        \/ Start(p) \/ Own(p) \/ World(p)
        \/ \E c \in Requests : Stop(c, p)

\* Events are delivered, timers fire and the sweep's interval comes round.
\* 'close' waits for the pipes, which a worker may hold for ever.
Fairness ==
    \A p \in Starts :
        /\ WF_vars(ExitEvent(p))
        /\ WF_vars(p \notin workers /\ Close(p))
        /\ WF_vars(Sweep(p))
        /\ WF_vars(Handoff(p) \/ SpawnFails(p))
        /\ WF_vars(AttemptStep(p))
        /\ \A c \in Callers : WF_vars(StopEnds(c, p))

Spec == Init /\ [][Next]_vars /\ Fairness

-----------------------------------------------------------------------------
(* Properties *)

\* Something of p this process must answer for is still running: the child,
\* or on a POSIX host a descendant in the child's own group.
Running(p) == root[p] \in {"running", "zombie"} \/ p \in workers

\* Whatever still runs is still held: in flight before it is admitted, and
\* from then on in the live map, the stop witnesses, the registry and the
\* managed lifetimes, with its row not retired from the owned record.  No
\* order of exit, close, stop, failed stop and sweep lets go of it
\* (lib/runner.mjs finish, stop, release; docs/PROCESS-TERMINATION-v1.md).
CustodyKept ==
    \A p \in Starts : Running(p) =>
        \/ inFlight[p] = "pending"
        \/ /\ p \in live \cap stops \cap registry \cap managed \cap recorded
           /\ disk[p] # "retired"

\* A caller told "stopped" was told the truth: the child is dead and its group
\* is empty, and stays so (lib/runner-stop.mjs perform, lib/runner.mjs stop).
StoppedIsGone ==
    \A c \in Callers, p \in Starts : call[c][p] = "stopped" => ~Running(p)

\* No TERM or KILL reaches a group that is not this environment's, though the
\* number may have been handed out again before the attempt begins
\* (lib/posix-process-group.mjs: ESRCH latch, deferral, canBegin).
NoStrangerSignalled == struck = {}

\* The exit listeners hear of an exit only after the child itself has died,
\* on whichever of the two paths (finish, the reaper's release) comes first.
ToldOnlyOfDeaths ==
    \A p \in Starts :
        phase[p] = "started" /\ p \notin listening => root[p] = "reaped"

\* What a caller may rely on of a child and of its stop, whatever the order of
\* exit, close, stop, failed stop and sweep.
CustodyIsTrue ==
    CustodyKept /\ StoppedIsGone /\ NoStrangerSignalled /\ ToldOnlyOfDeaths

\* A removal after a stop was asked for is never recorded as a plain exit or
\* as a corpse the sweep found (lib/runner.mjs RECORDING POLICY).
StopIsOnRecord ==
    [][\A p \in Starts :
          p \in requested /\ p \in registry \ registry' => reason'[p] = "stopped"]_vars

\* A child whose group is empty for good is eventually let go of and its
\* listeners are eventually told, with or without a stop and whichever events
\* were lost to a failed attempt (finish, or the reaper 30 s later).  Custody
\* whose setup failed is exempt: it is kept for ever.
EndIsLearned ==
    \A p \in Starts :
        <>[](/\ phase[p] = "started" /\ root[p] = "reaped"
             /\ p \notin workers \cup strangers /\ group[p] # "invalid")
          => <>[](p \notin live \cup stops \cup registry \cup managed \cup listening)

\* Every stop is answered, whatever the child does.
StopsAreAnswered ==
    \A c \in Requests, p \in Starts :
        call[c][p] \in {"attempt", "killing"} ~> call[c][p] \in {"stopped", "unknown"}
=============================================================================
