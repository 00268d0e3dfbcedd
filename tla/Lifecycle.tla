----------------------------- MODULE Lifecycle -----------------------------
(***************************************************************************)
(* One managed agent's starts and stops: the service's lifecycle requests, *)
(* claimed and claimed again (lib/plugins/aify-comms/lifecycle-sync.mjs),  *)
(* executed by lib/agent-lifecycle.mjs against the durable journal, beside *)
(* the automatic start of lib/daemon-agent-lifecycle.mjs, across a daemon  *)
(* that drains or dies and the successor that boots meanwhile.             *)
(***************************************************************************)
EXTENDS Naturals, Sequences, FiniteSets

CONSTANTS
    Requests,    \* ids of lifecycle requests
    Automatics,  \* ids of automatic starts, one fresh id for each
    Actions,     \* the actions the service may ask for
    LastDaemon,  \* daemons 1 .. LastDaemon follow each other
    MaxEdits,    \* bound on edits of the definition
    MaxFaults,   \* bound on lost calls, refused launches and unanswered probes
    NoOne

Ids == Requests \cup Automatics
Daemons == 1 .. LastDaemon
Actors == Daemons \X {"lifecycle", "automatic"}

StopActions == {"stop", "kill", "restart", "delete"}
LIFECYCLE_ACTIONS == {"start", "restart", "stop", "kill", "delete", "release"}

ASSUME ConstantsAssumption ==
    /\ Requests \cap Automatics = {} /\ Actions \subseteq LIFECYCLE_ACTIONS
    /\ LastDaemon \in Nat \ {0} /\ MaxEdits \in Nat /\ MaxFaults \in Nat
    /\ NoOne \notin Ids \cup Actors

VARIABLES
    stage,       \* of each daemon: off, up, draining, gone
    lock,        \* the actor that holds the definition lock, or NoOne
    definition,  \* its revision; 0 once it is deleted
    workers,     \* every worker ever started; a lifetime is its place here
    row,         \* the journal's records
    held,        \* the journal's stop fact
    ask,         \* what each request asks, from the service's view of the time
    open,        \* whether the service still waits for its answer
    told,        \* the answers the service was given
    job,         \* what each actor is doing
    faults

vars == <<stage, lock, definition, workers, row, held, ask, open, told, job, faults>>
world == <<stage, definition, ask, open, told>>

Idle == [at |-> "idle", id |-> NoOne, answer |-> "none"]
NoRow == [phase |-> "none", owner |-> 0, result |-> "none"]
Pending(d) == [phase |-> "pending", owner |-> d, result |-> "none"]
Terminal(d, result) == [phase |-> "terminal", owner |-> d, result |-> result]
NoAsk == [action |-> "none", revision |-> 0, lifetime |-> {}]

Places == {"idle", "reading", "locking", "killing", "stopped", "removing", "removed",
           "building", "admitting", "producing", "attaching", "reporting"}
Answers == {"done", "refused", "unknown"}

\* Every variable keeps its type.
LifecycleTypeOK ==
    /\ stage \in [Daemons -> {"off", "up", "draining", "gone"}]
    /\ lock \in Actors \cup {NoOne}
    /\ definition \in 0 .. MaxEdits + 1
    /\ \A l \in DOMAIN workers :
         workers[l] \in [by : Daemons, id : Ids, live : BOOLEAN, managed : BOOLEAN]
    /\ row \in [Ids -> [phase : {"none", "pending", "terminal"}, owner : 0 .. LastDaemon,
                        result : Answers \cup {"none"}]]
    /\ held \in BOOLEAN
    /\ \A i \in Ids : /\ ask[i].action \in Actions \cup {"automatic", "none"}
                      /\ ask[i].revision \in 0 .. MaxEdits + 1
                      /\ ask[i].lifetime \subseteq DOMAIN workers
    /\ open \in [Ids -> {"unasked", "open", "closed"}]
    /\ told \in [Ids -> SUBSET Answers]
    /\ job \in [Actors -> [at : Places, id : Ids \cup {NoOne}, answer : Answers \cup {"none"}]]
    /\ faults \in 0 .. MaxFaults

Init ==
    /\ stage = [d \in Daemons |-> IF d = 1 THEN "up" ELSE "off"]
    /\ lock = NoOne /\ definition = 1 /\ workers = <<>>
    /\ row = [i \in Ids |-> NoRow] /\ held = FALSE
    /\ ask = [i \in Ids |-> NoAsk]
    /\ open = [i \in Ids |-> "unasked"] /\ told = [i \in Ids |-> {}]
    /\ job = [a \in Actors |-> Idle]
    /\ faults = 0

Fault == faults < MaxFaults /\ faults' = faults + 1

\* rawIdentity: the managed lifetimes this daemon's host holds.
Known(d) == {l \in DOMAIN workers : workers[l].by = d /\ workers[l].managed}

Action(a) == ask[job[a].id].action
Goto(a, place) == job' = [job EXCEPT ![a].at = place]

\* A lifecycle request is reported; an automatic start ends its control.
End(a, i, answer) ==
    job' = [job EXCEPT ![a] = IF a[2] = "automatic" THEN Idle
                              ELSE [at |-> "reporting", id |-> i, answer |-> answer]]

\* The lock is free, or its holder is dead and the lock is broken.
CanLock == lock \in {NoOne} \cup {a \in Actors : stage[a[1]] = "gone"}

(* The journal *)

\* (Mutant: a record that ended unknown is reserved again.)
FreshUnlessSettled(i) == row[i].phase = "none" \/ row[i].result = "unknown"

Fresh(i) == row[i].phase = "none"

Reserved == \E i \in Ids : row[i].phase = "pending"

ReserveRefuses(i) == Reserved \/ (i \in Automatics /\ held)

\* The answer kept for a request seen before.
Receipt(i) == IF row[i].phase = "pending" THEN "unknown" ELSE row[i].result

\* finish's stop fact: a start or a release ends the hold.
FactAfter(i, result) ==
    IF result = "done" /\ ask[i].action \in {"start", "restart", "release"} THEN FALSE ELSE held

Finish(a, result) ==
    LET i == job[a].id IN
    IF row[i].phase = "terminal"
    THEN UNCHANGED <<row, held>> /\ End(a, i, row[i].result)
    ELSE /\ row' = [row EXCEPT ![i] = Terminal(@.owner, result)]
         /\ held' = FactAfter(i, result)
         /\ End(a, i, result)

\* The row stays pending; the answer is its "execution-unknown".
LeaveUnknown(a) == End(a, job[a].id, "unknown") /\ UNCHANGED <<row, held>>

(* The service *)

\* A request is made from the latest definition and the latest lifetime the
\* service has heard of, or from none.
Ask(i) ==
    /\ open[i] = "unasked" /\ definition > 0
    /\ \E action \in IF i \in Automatics THEN {"automatic"} ELSE Actions :
       \E lifetime \in IF i \in Automatics THEN {{}} ELSE {{}, {Len(workers)} \ {0}} :
         ask' = [ask EXCEPT ![i] = [action |-> action, revision |-> definition, lifetime |-> lifetime]]
    /\ open' = [open EXCEPT ![i] = "open"]
    /\ UNCHANGED <<stage, lock, definition, workers, row, held, told, job, faults>>

(* LifecycleSync.pass, and AgentLifecycle.execute up to its first await.     *)
(* Every request still open is handed back at every claim.                   *)

\* (Mutant: a request with a record is not answered again.)
ClaimFreshOnly(d, r) ==
    LET a == <<d, "lifecycle">> IN
    /\ stage[d] = "up" /\ job[a] = Idle /\ open[r] = "open" /\ Fresh(r)
    /\ \/ /\ ReserveRefuses(r)
          /\ row' = [row EXCEPT ![r] = Terminal(d, "refused")]
          /\ End(a, r, "refused")
       \/ /\ ~ReserveRefuses(r)
          /\ row' = [row EXCEPT ![r] = Pending(d)]
          /\ job' = [job EXCEPT ![a] = [at |-> "reading", id |-> r, answer |-> "none"]]
    /\ UNCHANGED <<world, lock, workers, held, faults>>

Claim(d, r) ==
    LET a == <<d, "lifecycle">> IN
    /\ stage[d] = "up" /\ job[a] = Idle /\ open[r] = "open"
    /\ \/ /\ ~Fresh(r)
          /\ End(a, r, Receipt(r)) /\ UNCHANGED row
       \/ /\ Fresh(r) /\ ReserveRefuses(r)
          /\ row' = [row EXCEPT ![r] = Terminal(d, "refused")]
          /\ End(a, r, "refused")
       \/ /\ Fresh(r) /\ ~ReserveRefuses(r)
          /\ row' = [row EXCEPT ![r] = Pending(d)]
          /\ job' = [job EXCEPT ![a] = [at |-> "reading", id |-> r, answer |-> "none"]]
    /\ UNCHANGED <<world, lock, workers, held, faults>>

Report(a) ==
    /\ job[a].at = "reporting"
    /\ job' = [job EXCEPT ![a] = Idle]
    /\ \/ /\ open' = [open EXCEPT ![job[a].id] = "closed"]
          /\ told' = [told EXCEPT ![job[a].id] = @ \cup {job[a].answer}]
          /\ UNCHANGED faults
       \/ Fault /\ UNCHANGED <<open, told>>
    /\ UNCHANGED <<stage, lock, definition, workers, row, held, ask>>

(* AgentLifecycle.execute *)

\* The revision, or the lifetime, is not the one the request names.
Refused(a) ==
    LET asked == ask[job[a].id] IN
    definition # asked.revision \/ Known(a[1]) # asked.lifetime

\* A start of a running agent, a release and every stop go under the lock.
UnderLock(a) ==
    Action(a) \in StopActions \cup {"release"} \/ ask[job[a].id].lifetime # {}

Read(a) ==
    /\ job[a].at = "reading"
    /\ \/ Refused(a) /\ Finish(a, "refused")
       \/ /\ ~Refused(a)
          /\ Goto(a, IF UnderLock(a) THEN "locking" ELSE "building")
          /\ UNCHANGED <<row, held>>
    /\ UNCHANGED <<world, lock, workers, faults>>

\* withLifecycleDefinition: refused, or already running, or released, or a
\* stop with no worker, or a stop that begins to kill and keeps the lock.
Locked(a) ==
    /\ job[a].at = "locking" /\ CanLock
    /\ \/ Refused(a) /\ Finish(a, "refused") /\ lock' = NoOne
       \/ /\ ~Refused(a) /\ Action(a) \in {"start", "release"}
          /\ Finish(a, "done") /\ lock' = NoOne
       \/ /\ ~Refused(a) /\ Action(a) \in StopActions /\ ask[job[a].id].lifetime = {}
          /\ held' = (held \/ Action(a) # "kill")
          /\ Goto(a, "stopped") /\ lock' = NoOne /\ UNCHANGED row
       \/ /\ ~Refused(a) /\ Action(a) \in StopActions /\ ask[job[a].id].lifetime # {}
          /\ Goto(a, "killing") /\ lock' = a /\ UNCHANGED <<row, held>>
    /\ UNCHANGED <<world, workers, faults>>

\* The stop's verification: dead, and recorded as stopped unless it was a
\* kill; or a survivor, which proves nothing.
Kill(a) ==
    /\ job[a].at = "killing"
    /\ \E l \in ask[job[a].id].lifetime :
         \/ /\ workers' = [workers EXCEPT ![l].live = FALSE, ![l].managed = FALSE]
            /\ held' = (held \/ Action(a) # "kill")
            /\ Goto(a, "stopped")
            /\ UNCHANGED row
         \/ /\ workers[l].live
            /\ LeaveUnknown(a) /\ UNCHANGED workers
    /\ lock' = NoOne
    /\ UNCHANGED <<world, faults>>

AfterStop(a) ==
    /\ job[a].at = "stopped"
    /\ \/ Action(a) \in {"stop", "kill"} /\ Finish(a, "done")
       \/ Action(a) = "delete" /\ Goto(a, "removing") /\ UNCHANGED <<row, held>>
       \/ Action(a) = "restart" /\ Goto(a, "building") /\ UNCHANGED <<row, held>>
    /\ UNCHANGED <<world, lock, workers, faults>>

\* applyRequest, a session of the definition store of its own.
Remove(a) ==
    /\ job[a].at = "removing" /\ CanLock
    /\ lock' = NoOne
    /\ \/ /\ definition = ask[job[a].id].revision
          /\ definition' = 0
          /\ Goto(a, "removed") /\ UNCHANGED <<row, held>>
       \/ /\ definition # ask[job[a].id].revision
          /\ Finish(a, "refused") /\ UNCHANGED definition
    /\ UNCHANGED <<stage, ask, open, told, workers, faults>>

Removed(a) ==
    /\ job[a].at = "removed"
    /\ Finish(a, "done")
    /\ UNCHANGED <<world, lock, workers, faults>>

\* LifecycleLaunch.prepare reads the definition once more, and may refuse.
Build(a) ==
    /\ job[a].at = "building"
    /\ \/ definition # ask[job[a].id].revision /\ Finish(a, "refused") /\ UNCHANGED faults
       \/ Fault /\ Finish(a, "refused")
       \/ /\ definition = ask[job[a].id].revision
          /\ Goto(a, "admitting") /\ UNCHANGED <<row, held, faults>>
    /\ UNCHANGED <<world, lock, workers>>

\* The start's own check, under the lock: the definition, then the identity.
Unadmitted(a) == definition # ask[job[a].id].revision \/ Known(a[1]) # {}

\* admitStart of an explicit start: its record is pending already.
Admit(a) ==
    /\ a[2] = "lifecycle" /\ job[a].at = "admitting" /\ CanLock
    /\ \/ Unadmitted(a) /\ Finish(a, "refused") /\ lock' = NoOne
       \/ /\ ~Unadmitted(a)
          /\ Goto(a, "producing") /\ lock' = a /\ UNCHANGED <<row, held>>
    /\ UNCHANGED <<world, workers, faults>>

\* automaticStartAdmission: a first look outside the lock.
AutomaticTake(d, i) ==
    LET a == <<d, "automatic">> IN
    /\ stage[d] = "up" /\ job[a] = Idle /\ open[i] = "open"
    /\ open' = [open EXCEPT ![i] = "closed"]
    /\ job' = [job EXCEPT ![a] = IF Known(d) = {} /\ definition > 0
                                 THEN [at |-> "admitting", id |-> i, answer |-> "none"] ELSE Idle]
    /\ UNCHANGED <<stage, lock, definition, workers, row, held, ask, told, faults>>

\* admitColdStart: the record is made under the definition lock.
AutomaticAdmit(a) ==
    LET i == job[a].id IN
    /\ a[2] = "automatic" /\ job[a].at = "admitting" /\ CanLock
    /\ \/ Unadmitted(a) /\ End(a, i, "refused") /\ lock' = NoOne /\ UNCHANGED row
       \/ /\ ~Unadmitted(a) /\ (~Fresh(i) \/ ReserveRefuses(i))
          /\ row' = IF Fresh(i) THEN [row EXCEPT ![i] = Terminal(a[1], "refused")] ELSE row
          /\ End(a, i, "refused") /\ lock' = NoOne
       \/ /\ ~Unadmitted(a) /\ Fresh(i) /\ ~ReserveRefuses(i)
          /\ row' = [row EXCEPT ![i] = Pending(a[1])]
          /\ Goto(a, "producing") /\ lock' = a
    /\ UNCHANGED <<world, workers, held, faults>>

\* The producer, under the lock: a worker, which the host's identity shows
\* at once; a refusal before any spawn; or a throw that proves nothing.
Produce(a) ==
    /\ job[a].at = "producing"
    /\ lock' = NoOne
    /\ \/ /\ workers' = Append(workers, [by |-> a[1], id |-> job[a].id, live |-> TRUE, managed |-> TRUE])
          /\ Goto(a, "attaching") /\ UNCHANGED <<row, held, faults>>
       \/ Fault /\ Finish(a, "refused") /\ UNCHANGED workers
       \/ Fault /\ LeaveUnknown(a) /\ UNCHANGED workers
    /\ UNCHANGED world

\* The subscription and its acknowledgement, outside the lock, then the
\* identity once more: for an automatic start, the very lifetime it made.
Attach(a) ==
    LET mine == {l \in Known(a[1]) : a[2] = "lifecycle" \/ workers[l].id = job[a].id} IN
    /\ job[a].at = "attaching"
    /\ \/ mine # {} /\ Finish(a, "done") /\ UNCHANGED faults
       \/ mine = {} /\ LeaveUnknown(a) /\ UNCHANGED faults
       \/ Fault /\ LeaveUnknown(a)
    /\ UNCHANGED <<world, lock, workers>>

\* The lock was held too long. Before any effect that refuses the request;
\* after one it leaves the record as it is.
LockTimeout(a) ==
    /\ job[a].at \in {"locking", "removing", "admitting"} /\ ~CanLock
    /\ IF job[a].at = "locking" THEN Finish(a, "refused") ELSE LeaveUnknown(a)
    /\ UNCHANGED <<world, lock, workers, faults>>

(* The world *)

WorkerExits(l) ==
    /\ l \in DOMAIN workers /\ workers[l].live
    /\ workers' = [workers EXCEPT ![l].live = FALSE]
    /\ UNCHANGED <<world, lock, row, held, job, faults>>

\* ManagedLifetimes.end, at the observed exit.
ObserveExit(l) ==
    /\ l \in DOMAIN workers /\ ~workers[l].live /\ workers[l].managed
    /\ stage[workers[l].by] # "gone"
    /\ workers' = [workers EXCEPT ![l].managed = FALSE]
    /\ UNCHANGED <<world, lock, row, held, job, faults>>

\* An operator's edit: a session of the definition store.
Edit ==
    /\ definition \in 1 .. MaxEdits /\ CanLock
    /\ definition' = definition + 1
    /\ UNCHANGED <<stage, lock, workers, row, held, ask, open, told, job, faults>>

\* The daemon is told to go: its listener closes and its passes claim no more,
\* but what they have in hand runs on.
Drain(d) ==
    /\ d < LastDaemon /\ stage[d] = "up"
    /\ stage' = [stage EXCEPT ![d] = "draining"]
    /\ UNCHANGED <<lock, definition, workers, row, held, ask, open, told, job, faults>>

\* The process is gone, drained or not.
Leave(d) ==
    /\ d < LastDaemon /\ stage[d] \in {"up", "draining"}
    /\ stage' = [stage EXCEPT ![d] = "gone"]
    /\ job' = [a \in Actors |-> IF a[1] = d THEN Idle ELSE job[a]]
    /\ UNCHANGED <<lock, definition, workers, row, held, ask, open, told, faults>>

\* The process that made the record is proved gone.
ObsoleteOwner(o) == stage[o] = "gone"

\* settleObsolete, unless the probe went unanswered.
Settled ==
    [i \in Ids |-> IF row[i].phase = "pending" /\ ObsoleteOwner(row[i].owner)
                   THEN Terminal(row[i].owner, "unknown") ELSE row[i]]

\* A successor boots once its predecessor's listener is free, settles what a
\* dead owner left pending, and recovery ends the workers of the dead.
Boot(d) ==
    /\ stage[d] = "off" /\ d > 1 /\ stage[d - 1] \in {"draining", "gone"}
    /\ stage' = [stage EXCEPT ![d] = "up"]
    /\ workers' = [l \in DOMAIN workers |->
                     IF stage[workers[l].by] = "gone" THEN [workers[l] EXCEPT !.live = FALSE] ELSE workers[l]]
    /\ \/ row' = Settled /\ UNCHANGED faults
       \/ Fault /\ UNCHANGED row
    /\ UNCHANGED <<lock, definition, held, ask, open, told, job>>

Work(a) ==
    \/ Read(a) \/ Locked(a) \/ Kill(a) \/ AfterStop(a) \/ Remove(a) \/ Removed(a)
    \/ Build(a) \/ Admit(a) \/ AutomaticAdmit(a) \/ Produce(a) \/ Attach(a)
    \/ LockTimeout(a) \/ Report(a)

Next ==
    \/ \E i \in Ids : Ask(i)
    \/ \E d \in Daemons : \/ \E r \in Requests : Claim(d, r)
                          \/ \E i \in Automatics : AutomaticTake(d, i)
                          \/ Drain(d) \/ Leave(d) \/ Boot(d)
    \/ \E a \in Actors : Work(a)
    \/ \E l \in DOMAIN workers : WorkerExits(l) \/ ObserveExit(l)
    \/ Edit

\* The loops of a daemon that runs keep running; a daemon that goes is
\* followed by the next.
Fairness ==
    /\ \A d \in Daemons, r \in Requests : WF_vars(Claim(d, r))
    /\ \A a \in Actors : WF_vars(Work(a))
    /\ \A d \in Daemons : WF_vars(Boot(d))

Spec == Init /\ [][Next]_vars /\ Fairness

(* Properties *)

\* Between its reservation and its answer an actor may act on the agent.
Acting(a) ==
    /\ job[a].at \notin {"idle", "reporting"}
    /\ a[2] = "automatic" => job[a].at # "admitting"

\* Whoever acts on the agent holds the one pending record, in whatever daemon
\* it runs: a successor that boots while its predecessor still drains settles
\* nothing under it, and no two actors start or stop the agent at once.
OneActor ==
    \A a \in Actors : Acting(a) =>
        /\ row[job[a].id] = Pending(a[1])
        /\ \A b \in Actors \ {a} : ~Acting(b)

\* A request makes at most one worker, however often it is claimed and
\* whichever daemon claims it; one that was refused made none, and the
\* service is never told both that it was done and that it was refused.
ExecutedOnce ==
    \A i \in Ids :
        LET made == {l \in DOMAIN workers : workers[l].id = i} IN
        /\ Cardinality(made) <= 1
        /\ "refused" \in told[i] => made = {} /\ "done" \notin told[i]

\* While nothing is pending, an agent the operator holds stopped, or one that
\* was deleted, has no worker under a daemon that runs: neither an automatic
\* start in flight nor a start whose end was lost leaves one behind.
HeldIsStopped ==
    (held \/ definition = 0) /\ ~Reserved =>
        \A l \in DOMAIN workers : workers[l].live => stage[workers[l].by] # "up"

\* What the service is told was done was done: the lifetime a stop named is
\* dead, a restart made a worker besides, and of a deleted agent no definition
\* is left.  A restart that died or was refused between its stop and its start
\* is never called done.
DoneWasDone ==
    \A i \in Ids : "done" \in told[i] =>
        /\ ask[i].action \in StopActions => \A l \in ask[i].lifetime : ~workers[l].live
        /\ ask[i].action = "restart" => \E l \in DOMAIN workers : workers[l].id = i
        /\ ask[i].action = "delete" => definition = 0

\* One actor at a time, each request executed at most once by whichever, a hold
\* that holds, and an answer that says what was done.
LifecycleIsSafe == LifecycleTypeOK /\ OneActor /\ ExecutedOnce /\ HeldIsStopped /\ DoneWasDone

\* Every lifecycle request is answered, across lost reports, a daemon that
\* dies with the request in hand and a lock it leaves behind.
RequestIsAnswered == \A r \in Requests : (open[r] = "open") ~> (open[r] = "closed")

=============================================================================
