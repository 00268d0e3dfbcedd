--------------------------- MODULE CommsTerminals ---------------------------
(***************************************************************************)
(* The terminals the aify-comms plugin runs for one agent: the control     *)
(* loop of lib/plugins/aify-comms/terminal-controls.mjs, the handle book   *)
(* it keeps (handle-book.mjs) and the launches the lifecycle loop makes    *)
(* into the same book (lifecycle-launch.mjs).                              *)
(*                                                                         *)
(* Two tiers name one worker: the service by its terminal, the Runner by   *)
(* the handle it answered to a start.  Every await of the loop is a place  *)
(* where the worker can end, the service can give the terminal up, an old  *)
(* control can come back, or the lifecycle loop can start the next worker. *)
(*                                                                         *)
(* The service and the Runner are seen through what the plugin uses of     *)
(* them.  All terminals are of one agent, the case in which they compete.  *)
(* An input or a resize changes none of this state and is left out.        *)
(***************************************************************************)
EXTENDS Naturals, Sequences, FiniteSets

CONSTANTS
    Terminals,   \* terminal ids of the service, all naming one agent
    MaxWorkers,  \* bound: workers started in one behaviour
    MaxControls, \* bound: controls the service issues
    MaxReplays   \* bound: stop controls the service delivers again

TermAssumption == MaxWorkers \in Nat /\ MaxControls \in Nat

Handles == 1..MaxWorkers
Controls == 1..MaxControls
NoHandle == 0

\* terminalStanding: a row the service has ended and one it no longer has are
\* acted on alike.
Rows == {"live", "over"}

VARIABLES
    row,       \* what the service holds of each terminal
    ctl,       \* the controls it has issued: a sequence of [act, t]
    queue,     \* the controls waiting to be claimed
    replays,   \* stop controls delivered again so far
    worker,    \* Runner's process behind each handle
    book,      \* handle book: the handle of each terminal
    carrier,   \* handle book: the handle whose release is kept for a terminal
    listening, \* <<terminal, handle>>: the listeners attached in the Runner
    spoke,     \* terminal produced output within the quiet window
    target,    \* StopControlTargets: what a stop control was captured for
    claimed,   \* controls claimed by the pass in progress, in order
    touch,     \* held terminals the pass has still to report alive
    hand,      \* the await the control loop is in
    launch,    \* the await the lifecycle loop's launch is in
    struck     \* history: the handles each stop control struck

termVars == <<row, ctl, queue, replays, worker, book, carrier,
              listening, spoke, target, claimed, touch, hand, launch,
              struck>>

serviceVars == <<row, ctl, queue, replays>>
bookVars == <<book, carrier, listening, spoke>>
passVars == <<claimed, touch>>

Idle == [at |-> "idle"]
NoTarget == <<>>

\* heldTerminalIds: the book intersected with what the Runner runs now.
HeldTerminals == {t \in Terminals : book[t] # NoHandle /\ worker[book[t]] = "live"}

\* createHandleBook.otherTerminalsFor: the agent's other terminals.
OtherTerminals(t) == {o \in Terminals \ {t} : book[o] # NoHandle}

\* The Runner holds a current lifetime for the agent.
AgentIsRunning == \E h \in Handles : worker[h] = "live"

\* The Runner answers a subscription while it keeps the stream: a stop drops it,
\* an exit does not.
HasStream(h) == h # NoHandle /\ worker[h] \in {"live", "exited"}

NextHandle == CHOOSE h \in Handles : worker[h] = "new"
CanStart == \E h \in Handles : worker[h] = "new"

(***************************************************************************)
(* The handle book.                                                        *)
(***************************************************************************)
TermInit ==
    /\ row = [t \in Terminals |-> "over"]
    /\ ctl = <<>>
    /\ queue = {}
    /\ replays = 0
    /\ worker = [h \in Handles |-> "new"]
    /\ book = [t \in Terminals |-> NoHandle]
    /\ carrier = [t \in Terminals |-> NoHandle]
    /\ listening = {}
    /\ spoke = [t \in Terminals |-> FALSE]
    /\ target = [c \in Controls |-> NoTarget]
    /\ claimed = <<>>
    /\ touch = {}
    /\ hand = Idle
    /\ launch = Idle
    /\ struck = [c \in Controls |-> {}]

\* forget: the listener whose release is kept is detached with the entry.
Forget(S) ==
    /\ book' = [t \in Terminals |-> IF t \in S THEN NoHandle ELSE book[t]]
    /\ carrier' = [t \in Terminals |-> IF t \in S THEN NoHandle ELSE carrier[t]]
    /\ listening' = listening \ {<<t, carrier[t]>> : t \in S}
    /\ spoke' = [t \in Terminals |-> t \notin S /\ spoke[t]]

\* remember, then carryTerminal, then carriedBy: one synchronous stretch.
\* The terminals in S are forgotten first.  A process that has exited tells the
\* new listener so at once.
Carry(t, h, S) ==
    /\ book' = [u \in Terminals |->
                  IF u = t THEN h ELSE IF u \in S THEN NoHandle ELSE book[u]]
    /\ spoke' = [u \in Terminals |-> u = t \/ (u \notin S /\ spoke[u])]
    /\ carrier' = [u \in Terminals |->
                     IF u = t THEN h ELSE IF u \in S THEN NoHandle ELSE carrier[u]]
    /\ listening' = (listening \ {<<u, carrier[u]>> : u \in S}) \cup {<<t, h>>}

(***************************************************************************)
(* The service: it issues controls, gives terminals up, and may deliver a  *)
(* stop control again.  A control that was claimed is handed to nobody     *)
(* else, except that replay.                                               *)
(***************************************************************************)
Issue(act, t) ==
    /\ Len(ctl) < MaxControls
    /\ ctl' = Append(ctl, [act |-> act, t |-> t])
    /\ queue' = queue \cup {Len(ctl) + 1}

\* A start goes to a terminal that is not in use: a new one, or one started
\* anew under its name once its worker's end has been heard here.  One the
\* service gave up under a running worker is replaced by another terminal.
Startable(t) ==
    /\ row[t] # "live"
    /\ \A h \in Handles : <<t, h>> \notin listening
    /\ \A a \in {hand, launch} : a.at \in {"launching", "standing", "produced"} => a.t # t
    /\ \A c \in queue \cup {claimed[i] : i \in DOMAIN claimed} :
         ~(ctl[c].act = "start" /\ ctl[c].t = t)

AskStart(t) ==
    /\ Startable(t)
    /\ Issue("start", t)
    /\ row' = [row EXCEPT ![t] = "live"]
    /\ UNCHANGED <<replays, worker, bookVars, target, passVars, hand, launch, struck>>

AskStop(t) ==
    /\ row[t] = "live"
    /\ Issue("stop", t)
    /\ UNCHANGED <<row, replays, worker, bookVars, target, passVars, hand, launch, struck>>

\* A reconciler, an operator, a restored database: the row ends or is lost.
GiveUp(t) ==
    /\ row[t] = "live"
    /\ row' = [row EXCEPT ![t] = "over"]
    /\ UNCHANGED <<ctl, queue, replays, worker, bookVars, target, passVars, hand, launch, struck>>

Replay(c) ==
    /\ replays < MaxReplays
    /\ c \in 1..Len(ctl) /\ ctl[c].act = "stop"
    /\ c \notin queue /\ \A i \in 1..Len(claimed) : claimed[i] # c
    /\ queue' = queue \cup {c}
    /\ replays' = replays + 1
    /\ UNCHANGED <<row, ctl, worker, bookVars, target, passVars, hand, launch, struck>>

(***************************************************************************)
(* The workers.                                                            *)
(***************************************************************************)
\* A chunk: every listener notes that its terminal spoke.
Speak(h) ==
    /\ worker[h] = "live"
    /\ spoke' = [t \in Terminals |->
                   spoke[t] \/ (<<t, h>> \in listening /\ book[t] # NoHandle)]
    /\ spoke' # spoke
    /\ UNCHANGED <<serviceVars, worker, book, carrier, listening, target, passVars, hand, launch, struck>>

\* ORPHAN_QUIET_MS pass in silence.  No request is in flight that long.
Hush(t) ==
    /\ spoke[t]
    /\ ~(hand.at = "touched" /\ hand.t = t)
    /\ spoke' = [spoke EXCEPT ![t] = FALSE]
    /\ UNCHANGED <<serviceVars, worker, book, carrier, listening, target, passVars, hand, launch, struck>>

\* The exit event reaches the listeners of the process, and each forgets the
\* terminal it was attached for.
TellExit(h) == Forget({t \in Terminals : <<t, h>> \in listening})

Exit(h) ==
    /\ worker[h] = "live"
    /\ worker' = [worker EXCEPT ![h] = "exited"]
    /\ TellExit(h)
    /\ UNCHANGED <<serviceVars, target, passVars, hand, launch, struck>>

\* A stop is verified by a probe that may run ahead of the exit event.
LateExit(h) ==
    /\ worker[h] \in {"exited", "stopped"} /\ \E t \in Terminals : <<t, h>> \in listening
    /\ TellExit(h)
    /\ UNCHANGED <<serviceVars, worker, target, passVars, hand, launch, struck>>

\* The Runner's verified stop of a handle, whichever caller asked.
StopWorker(h) == worker' = [worker EXCEPT ![h] = IF @ = "live" THEN "stopped" ELSE @]

\* An operator's stop that reaches the Runner without this plugin.
StopElsewhere(h) ==
    /\ worker[h] = "live"
    /\ StopWorker(h)
    /\ UNCHANGED <<serviceVars, bookVars, target, passVars, hand, launch, struck>>

(***************************************************************************)
(* The control pass: claim, report what is held alive, carry out each      *)
(* claimed control.                                                        *)
(***************************************************************************)
\* The claim answers with what is queued; the terminals to report alive are
\* listed once, when the pass begins to.
BeginPass ==
    /\ claimed = <<>> /\ touch = {} /\ hand = Idle
    /\ \E order \in [1..Cardinality(queue) -> queue] :
         /\ \A i, j \in DOMAIN order : i < j => order[i] < order[j]
         /\ claimed' = order
    /\ queue' = {}
    /\ touch' = HeldTerminals
    /\ claimed' # <<>> \/ touch' # {}
    /\ UNCHANGED <<row, ctl, replays, worker, bookVars, target, hand, launch, struck>>

\* One liveness frame: the answer says what the row was when it arrived there;
\* "unknown" is an outage.
Touch(t) ==
    /\ hand = Idle /\ t \in touch
    /\ touch' = touch \ {t}
    /\ \E said \in {row[t], "unknown"} : hand' = [at |-> "touched", t |-> t, said |-> said]
    /\ UNCHANGED <<serviceVars, worker, bookVars, target, claimed, launch, struck>>

\* (Mutant: the answer is believed, however lately the worker spoke.)
TouchBelieved ==
    /\ hand.at = "touched"
    /\ LET t == hand.t
           h == book[t]
           strike == hand.said = "over" /\ h # NoHandle
       IN hand' = IF strike THEN [at |-> "striking", t |-> t, h |-> h] ELSE Idle
    /\ UNCHANGED <<serviceVars, worker, bookVars, target, passVars, launch, struck>>

\* An end status or a 404 stops the worker, unless it spoke within the window.
\* Both are read after the answer, with no await before the stop is asked.
TouchAnswered ==
    /\ hand.at = "touched"
    /\ LET t == hand.t
           h == book[t]
           strike == hand.said = "over" /\ ~spoke[t] /\ h # NoHandle
       IN hand' = IF strike THEN [at |-> "striking", t |-> t, h |-> h] ELSE Idle
    /\ UNCHANGED <<serviceVars, worker, bookVars, target, passVars, launch, struck>>

\* stopOrphan: the entry is forgotten only after a verified end, and only if
\* the terminal still has that handle.
OrphanStopped ==
    /\ hand.at = "striking"
    /\ hand' = Idle
    /\ \/ /\ StopWorker(hand.h)
          /\ IF book[hand.t] = hand.h THEN Forget({hand.t}) ELSE UNCHANGED bookVars
       \/ UNCHANGED <<worker, bookVars>>
    /\ UNCHANGED <<serviceVars, target, passVars, launch, struck>>

\* The control at the head of what was claimed, once the frames are out.
Taking(act) ==
    /\ hand = Idle /\ touch = {} /\ claimed # <<>>
    /\ ctl[Head(claimed)].act = act

\* report: an answer that may not land; the control is settled here either way.
Reported == claimed' = Tail(claimed) /\ hand' = Idle

TakeStart ==
    /\ Taking("start")
    /\ hand' = [at |-> "launching", t |-> ctl[Head(claimed)].t]
    /\ UNCHANGED <<serviceVars, worker, bookVars, target, passVars, launch, struck>>

\* The launch, its env and the roots have been waited for, and one may refuse.
LaunchRefused ==
    /\ hand.at = "launching"
    /\ Reported
    /\ UNCHANGED <<serviceVars, worker, bookVars, target, touch, launch, struck>>

\* One worker per agent: another terminal of the agent in the book is asked about.
AskStanding ==
    /\ hand.at = "launching"
    /\ \E prev \in OtherTerminals(hand.t) : \E said \in {row[prev], "unknown"} :
         hand' = [at |-> "standing", t |-> hand.t, prev |-> prev, said |-> said]
    /\ UNCHANGED <<serviceVars, worker, bookVars, target, passVars, launch, struck>>

RefuseSecond ==
    /\ hand.at = "standing" /\ hand.said \in {"live", "unknown"}
    /\ Reported
    /\ UNCHANGED <<serviceVars, worker, bookVars, target, touch, launch, struck>>

\* Adoption: the running worker is re-pointed at the new terminal.  Its handle
\* is read after the answer; with no stream behind it the control fails.
Adopt ==
    /\ hand.at = "standing" /\ hand.said = "over"
    /\ LET h == book[hand.prev]
       IN IF HasStream(h) THEN Carry(hand.t, h, {hand.prev})
                          ELSE Forget({hand.prev, hand.t})
    /\ Reported
    /\ UNCHANGED <<serviceVars, worker, target, touch, launch, struck>>

\* Admission holds the definition lock: the agent must be cold, and produce
\* starts the process under it.
Produce ==
    /\ hand.at = "launching" /\ OtherTerminals(hand.t) = {}
    /\ CanStart /\ ~AgentIsRunning
    /\ worker' = [worker EXCEPT ![NextHandle] = "live"]
    /\ hand' = [at |-> "produced", t |-> hand.t, h |-> NextHandle]
    /\ UNCHANGED <<serviceVars, bookVars, target, passVars, launch, struck>>

\* complete: remembered, subscribed and reported.  A worker that is already
\* released has no stream, and the control fails with the entry in the book.
Complete ==
    /\ hand.at = "produced"
    /\ IF HasStream(hand.h)
       THEN Carry(hand.t, hand.h, {})
       ELSE /\ book' = [book EXCEPT ![hand.t] = hand.h]
            /\ spoke' = [spoke EXCEPT ![hand.t] = TRUE]
            /\ UNCHANGED <<carrier, listening>>
    /\ Reported
    /\ UNCHANGED <<serviceVars, worker, target, touch, launch, struck>>

\* StopControlTargets.capture: the first delivery binds the lifetime.
Captures(c, t) ==
    /\ book[t] # NoHandle
    /\ target[c] \in {NoTarget, <<t, book[t]>>}

TakeStop ==
    /\ Taking("stop")
    /\ LET c == Head(claimed)
           t == ctl[c].t
       IN /\ Captures(c, t)
          /\ target' = [target EXCEPT ![c] = <<t, book[t]>>]
          /\ hand' = [at |-> "stopping", t |-> t, h |-> book[t]]
          /\ struck' = [struck EXCEPT ![c] = @ \cup {book[t]}]
    /\ UNCHANGED <<serviceVars, worker, bookVars, passVars, launch>>

RefuseStop ==
    /\ Taking("stop")
    /\ ~Captures(Head(claimed), ctl[Head(claimed)].t)
    /\ Reported
    /\ UNCHANGED <<serviceVars, worker, bookVars, target, touch, launch, struck>>

\* The verified stop; a terminal that has another handle by now is left alone.
Stopped ==
    /\ hand.at = "stopping"
    /\ \/ /\ StopWorker(hand.h)
          /\ IF book[hand.t] \in {NoHandle, hand.h}
             THEN /\ Forget({hand.t})
                  /\ row' \in {row, [row EXCEPT ![hand.t] = "over"]}
             ELSE UNCHANGED <<bookVars, row>>
       \/ UNCHANGED <<worker, bookVars, row>>
    /\ Reported
    /\ UNCHANGED <<ctl, queue, replays, target, touch, launch, struck>>

(***************************************************************************)
(* A lifecycle launch (LifecycleLaunch.start) beside the control loop: the *)
(* same admission, the same book.                                          *)
(***************************************************************************)
LifecycleProduce(t) ==
    /\ launch = Idle
    /\ Startable(t)
    /\ CanStart /\ ~AgentIsRunning
    /\ row' = [row EXCEPT ![t] = "live"]
    /\ worker' = [worker EXCEPT ![NextHandle] = "live"]
    /\ launch' = [at |-> "produced", t |-> t, h |-> NextHandle]
    /\ UNCHANGED <<ctl, queue, replays, bookVars, target, passVars, hand, struck>>

LifecycleCarry ==
    /\ launch.at = "produced"
    /\ IF HasStream(launch.h)
       THEN Carry(launch.t, launch.h, {})
       ELSE /\ book' = [book EXCEPT ![launch.t] = launch.h]
            /\ spoke' = [spoke EXCEPT ![launch.t] = TRUE]
            /\ UNCHANGED <<carrier, listening>>
    /\ launch' = Idle
    /\ UNCHANGED <<serviceVars, worker, target, passVars, hand, struck>>

ControlLoop ==
    \/ BeginPass
    \/ \E t \in Terminals : Touch(t)
    \/ TouchAnswered \/ OrphanStopped
    \/ TakeStart \/ LaunchRefused \/ AskStanding \/ RefuseSecond \/ Adopt
    \/ Produce \/ Complete
    \/ TakeStop \/ RefuseStop \/ Stopped

TermNext ==
    \/ \E t \in Terminals :
         \/ AskStart(t)
         \/ AskStop(t)
         \/ GiveUp(t)
         \/ Hush(t)
         \/ LifecycleProduce(t)
    \/ \E c \in Controls : Replay(c)
    \/ \E h \in Handles : Speak(h) \/ Exit(h) \/ LateExit(h) \/ StopElsewhere(h)
    \/ ControlLoop
    \/ LifecycleCarry

TermSpec == TermInit /\ [][TermNext]_termVars

(***************************************************************************)
(* Properties.                                                             *)
(***************************************************************************)
\* The state has the shape the actions assume.
TermTypeOK ==
    /\ row \in [Terminals -> Rows]
    /\ \A i \in DOMAIN ctl : ctl[i] \in [act : {"start", "stop"}, t : Terminals]
    /\ queue \subseteq 1..Len(ctl)
    /\ worker \in [Handles -> {"new", "live", "exited", "stopped"}]
    /\ book \in [Terminals -> 0..MaxWorkers]
    /\ carrier \in [Terminals -> 0..MaxWorkers]
    /\ listening \subseteq Terminals \X Handles
    /\ spoke \in [Terminals -> BOOLEAN]
    /\ touch \subseteq Terminals

\* A worker that runs is held under one terminal, and its output is carried
\* there and nowhere else (handle-book.mjs: a worker the book does not name
\* cannot be addressed, and one it names twice doubles every byte), except
\* between the start that made it and the entry it is about to get.
InStart == {a.h : a \in {b \in {hand, launch} : b.at = "produced"}}
LiveWorkersAreHeld ==
    \A h \in Handles : worker[h] = "live" /\ h \notin InStart =>
        \E t \in Terminals :
            /\ {u \in Terminals : book[u] = h} = {t}
            /\ {u \in Terminals : <<u, h>> \in listening} = {t}

\* A stop control strikes the lifetime it was first carried out for and no
\* later one, however often it is delivered (handle-book.mjs:38: a replay must
\* never bind a replacement).
StopStrikesOneLifetime == \A c \in Controls : Cardinality(struck[c]) <= 1

\* No live worker is stopped as an orphan while the service holds its terminal
\* live: the answer that condemned it can be older than the worker.
StrikesAnOrphan ==
    hand'.at = "striking" /\ worker[hand'.h] = "live" => row[hand'.t] = "over"

\* The three together.
WorkersAreHeld ==
    /\ [](TermTypeOK /\ LiveWorkersAreHeld /\ StopStrikesOneLifetime)
    /\ [][StrikesAnOrphan]_termVars

=============================================================================
