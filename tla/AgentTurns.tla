----------------------------- MODULE AgentTurns -----------------------------
(***************************************************************************)
(* One resident agent as the residents host sees it: AgentStateHost         *)
(* (agent-state-host.mjs) over lifetime records (resident-lifetimes.mjs),   *)
(* the cached answers of the OS (process-probe.mjs, ProcessProbeCache), the *)
(* turn events of its hooks (agent-turn-events.mjs, turn-events.mjs) and    *)
(* the turns file (turns-file.mjs).                                         *)
(*                                                                         *)
(* Two lifetimes of the agent, launched one after the other or at once, may *)
(* be given the same pid, and so may a stranger.  A birth is the place in a *)
(* pid's line of holders; a holder that writes its record does so while it  *)
(* lives, so it is older than any later holder and younger than any earlier *)
(* one.  Windows is modelled, where an identity is a creation time; a tie   *)
(* of creation and write, which is `unknown`, and the age of an answer      *)
(* (an answer may always be asked anew) are left out.                       *)
(***************************************************************************)
EXTENDS Naturals, Sequences, FiniteSets, SequencesExt

CONSTANTS
    MaxEvents,    \* bound: turn events fired
    MaxReboots,   \* bound: hosts that die
    MaxTroubles   \* bound: listings, records and files that cannot be read

Lifetimes == {1, 2}
Stranger == 3
NoOne == 0
Pids == {1, 2}

VARIABLES
    pidOf,      \* the pid of each lifetime's launcher
    holders,    \* each pid's holders so far, in the order of their births
    living,     \* the last of them lives
    wrote,      \* lifetimes whose record has been written
    records,    \* records on disk
    fired,      \* the turn events each lifetime's hooks have fired, each with its kind and time
    hooks,      \* events on their way; one that is lost stays there
    stored,     \* the turns file
    turns,      \* #turns
    known,      \* #known
    pins,       \* #pins: the holder each lifetime was adopted as
    kept,       \* ProcessProbeCache's answer for each pid, and whose records it may judge
    asking,     \* the background probe in flight
    live,       \* #lifetimes' entry: the current lifetime and the unknown ones
    told,       \* onEnded was called in this very step
    reboots,
    troubles,
    acked       \* history: the events of each lifetime answered as applied, of those
                \* since its turn was last begun from nothing

processVars == <<pidOf, holders, living, wrote, fired>>
hostVars == <<turns, known, pins, kept, asking, live>>
turnVars == <<processVars, records, hooks, stored, hostVars, told, reboots, troubles, acked>>

NoTurn == [open |-> FALSE, awaiting |-> FALSE, last |-> 0]
NoAnswer == [who |-> NoOne, seen |-> {}]
Idle == [on |-> FALSE, who |-> [p \in Pids |-> NoOne], seen |-> {}]
NoLifetime == [current |-> NoOne, unknown |-> {}, conflict |-> FALSE]

Holder(p) == IF living[p] THEN Last(holders[p]) ELSE NoOne
Lives(l) == Holder(pidOf[l]) = l

EventKinds == {"turn-start", "turn-end", "blocked", "unblocked"}

\* EFFECTS: what each kind makes of a turn.
Effect(turn, kind, at) ==
    [open |-> kind = "turn-start" \/ (turn.open /\ kind # "turn-end"),
     awaiting |-> kind = "blocked", last |-> at]

\* A program ends a turn it has begun, and asks again only when it was answered.
Busy(l) ==
    \E s \in DOMAIN fired[l] :
        /\ fired[l][s].kind = "turn-start"
        /\ \A e \in DOMAIN fired[l] : e > s => fired[l][e].kind # "turn-end"
Awaits(l) == fired[l] # <<>> /\ Last(fired[l]).kind = "blocked"

MayFire(l, kind) ==
    CASE kind = "turn-start" -> TRUE
      [] kind = "turn-end" -> Busy(l)
      [] kind = "blocked" -> ~Awaits(l)
      [] kind = "unblocked" -> Awaits(l)

\* Events are stamped in the order they are fired, each later than the one before;
\* but the hooks of the first lifetime give a turn's end the time of the event
\* before it, as a clock that is too coarse would.
Stamp(l, kind) ==
    LET before == IF fired[l] = <<>> THEN 0 ELSE Last(fired[l]).at
    IN IF l = 1 /\ kind = "turn-end" THEN before ELSE before + 1

TurnsInit ==
    /\ pidOf \in {[l \in Lifetimes |-> IF l = 2 THEN p ELSE 1] : p \in Pids}
    /\ holders = [p \in Pids |-> <<>>] /\ living = [p \in Pids |-> FALSE]
    /\ wrote = {} /\ records = {}
    /\ fired = [l \in Lifetimes |-> <<>>] /\ hooks = {}
    /\ stored = [l \in Lifetimes |-> NoTurn] /\ turns = stored /\ known = {}
    /\ pins = [l \in Lifetimes |-> NoOne]
    /\ kept = [p \in Pids |-> NoAnswer] /\ asking = Idle
    /\ live = NoLifetime /\ told = FALSE /\ reboots = 0 /\ troubles = 0
    /\ acked = [l \in Lifetimes |-> {}]

(***************************************************************************)
(* The agent's launchers and the rest of the machine.                      *)
(***************************************************************************)
Born(x, p) ==
    /\ ~living[p] /\ x \notin ToSet(holders[p])
    /\ holders' = [holders EXCEPT ![p] = Append(@, x)]
    /\ living' = [living EXCEPT ![p] = TRUE]
    /\ told' = FALSE
    /\ UNCHANGED <<pidOf, wrote, fired, records, hooks, stored, hostVars, reboots, troubles, acked>>

\* The first lifetime is the one launched first.
Launched(l) == (l = 2 => 1 \in ToSet(holders[1])) /\ Born(l, pidOf[l])
StrangerBorn == pidOf[1] = pidOf[2] /\ Born(Stranger, 1)

Dies(p) ==
    /\ living[p]
    /\ living' = [living EXCEPT ![p] = FALSE]
    /\ told' = FALSE
    /\ UNCHANGED <<pidOf, holders, wrote, fired, records, hooks, stored, hostVars, reboots, troubles, acked>>

WritesRecord(l) ==
    /\ Lives(l) /\ l \notin wrote
    /\ wrote' = wrote \cup {l} /\ records' = records \cup {l}
    /\ told' = FALSE
    /\ UNCHANGED <<pidOf, holders, living, fired, hooks, stored, hostVars, reboots, troubles, acked>>

Fires(l) ==
    /\ Lives(l) /\ l \in wrote /\ Len(fired[1]) + Len(fired[2]) < MaxEvents
    /\ \E kind \in EventKinds :
        /\ MayFire(l, kind)
        /\ fired' = [fired EXCEPT ![l] = Append(@, [kind |-> kind, at |-> Stamp(l, kind)])]
    /\ hooks' = hooks \cup {<<l, Len(fired'[l])>>}
    /\ told' = FALSE
    /\ UNCHANGED <<pidOf, holders, living, wrote, records, stored, hostVars, reboots, troubles, acked>>

(***************************************************************************)
(* What the OS says.                                                       *)
(***************************************************************************)
\* ProcessProbeCache.answers: an answer is reused only for records written
\* before its probe started, all of those of the pid that were read.
MayJudge(cache, read, p) == cache[p].who # NoOne /\ {l \in read : pidOf[l] = p} \subseteq cache[p].seen

\* #between: signal 0 is asked every time.
Unanswered == 4
Gone == 5
Answer(cache, read, p) ==
    IF ~living[p] THEN Gone ELSE IF MayJudge(cache, read, p) THEN cache[p].who ELSE Unanswered

\* A probe of the records' pids starts; what it will say is as it is now.
ProbeStarts ==
    /\ ~asking.on /\ records # {}
    /\ asking' = [on |-> TRUE, who |-> [p \in Pids |-> Holder(p)], seen |-> wrote]
    /\ told' = FALSE
    /\ UNCHANGED <<processVars, records, hooks, stored, turns, known, pins, kept, live, reboots, troubles, acked>>

(***************************************************************************)
(* refresh.                                                                *)
(***************************************************************************)
\* x held l's pid after l did.
Precedes(l, x) ==
    LET line == holders[pidOf[l]] IN
    \E i, j \in DOMAIN line : i < j /\ line[i] = l /\ line[j] = x

Verdict(word, pin) == [verified |-> word, pin |-> pin]

\* verifyLifetime: the verdict, and the pin kept with it.  A launcher's process
\* older than the record is taken for its writer; a stranger is not.
Judged(l, answer, pin) ==
    CASE answer = Gone -> Verdict("no", NoOne)
      [] answer = Unanswered -> Verdict("unknown", pin)
      [] answer \notin {Gone, Unanswered} /\ pin # NoOne ->
            IF answer = pin THEN Verdict("yes", pin) ELSE Verdict("no", NoOne)
      [] answer \notin {Gone, Unanswered} /\ pin = NoOne ->
            IF Precedes(l, answer) THEN Verdict("no", NoOne)
            ELSE IF answer = Stranger THEN Verdict("unknown", NoOne)
            ELSE Verdict("yes", answer)

\* currentLifetimes for the agent.
Entry(read, verdict) ==
    LET yes == {l \in read : verdict[l].verified = "yes"}
        unknown == {l \in read : verdict[l].verified = "unknown"}
    IN [current |-> IF Cardinality(yes) = 1 THEN CHOOSE l \in yes : TRUE ELSE NoOne,
        unknown |-> unknown, conflict |-> Cardinality(yes) > 1]

IsLive(entry) == entry.current # NoOne \/ entry.conflict \/ entry.unknown # {}

\* The records that were read are judged in one answer of the OS; one proved
\* dead is removed.  A folder or a record that cannot be read says nothing of
\* who ended, and the entries are those of what was read.
RefreshReading(read, trusted) ==
    LET verdict == [l \in read |-> Judged(l, Answer(kept, read, pidOf[l]), pins[l])]
        entry == Entry(read, verdict)
    IN /\ pins' = [l \in Lifetimes |-> IF l \in read THEN verdict[l].pin ELSE pins[l]]
       /\ records' = records \ {l \in read : verdict[l].verified = "no"}
       /\ live' = entry
       /\ told' = (trusted /\ IsLive(live) /\ ~IsLive(entry))

\* A listing fails, or one record of it cannot be read.
TroubledRefresh ==
    /\ troubles < MaxTroubles
    /\ troubles' = troubles + 1
    /\ \/ RefreshReading({}, FALSE)
       \/ \E l \in records : RefreshReading(records \ {l}, FALSE)
    /\ UNCHANGED <<processVars, hooks, stored, turns, known, kept, asking, reboots, acked>>

Refresh ==
    /\ RefreshReading(records, TRUE)
    /\ UNCHANGED <<processVars, hooks, stored, turns, known, kept, asking, reboots, troubles, acked>>

\* The probe lands: its answers are kept, and the host judges again.
ProbeLands ==
    /\ asking.on
    /\ kept' = [p \in Pids |-> [who |-> asking.who[p], seen |-> asking.seen]]
    /\ asking' = Idle /\ told' = FALSE
    /\ UNCHANGED <<processVars, records, hooks, stored, turns, known, pins, live, reboots, troubles, acked>>

ProbeFails ==
    /\ asking.on
    /\ asking' = Idle /\ told' = FALSE
    /\ UNCHANGED <<processVars, records, hooks, stored, turns, known, pins, kept, live, reboots, troubles, acked>>

(***************************************************************************)
(* A turn event arrives: refresh, then admission, order and effect.        *)
(***************************************************************************)
\* admitTurnEvent, by the entry the refresh has just selected.
Admits(entry, l, event) ==
    /\ ~entry.conflict
    /\ entry.current = l \/ (l \in entry.unknown /\ event.kind = "turn-end")

\* (Mutant: an event is taken as it arrives, whatever the time it carries.)
ComesAnyTime(l, event) == TRUE

\* orderTurnEvent.
ComesAfter(l, event) ==
    \/ turns[l].last = 0
    \/ event.at > turns[l].last
    \/ event.at = turns[l].last /\ event.kind = "turn-end"

\* The event is saved durably, then kept in memory and answered; the save may
\* fail, and the host may die between the save and the answer (Reboot).
Receive(l, n) ==
    LET event == fired[l][n] IN
    /\ <<l, n>> \in hooks
    /\ hooks' = hooks \ {<<l, n>>}
    /\ RefreshReading(records, TRUE)
    /\ IF Admits(live', l, event) /\ ComesAfter(l, event)
       THEN \/ /\ stored' = [turns EXCEPT ![l] = Effect(@, event.kind, event.at)]
               /\ turns' = stored' /\ known' = known \cup {l}
               /\ acked' = [acked EXCEPT ![l] = (IF l \in known THEN @ ELSE {}) \cup {n}]
               /\ UNCHANGED troubles
            \/ /\ troubles < MaxTroubles /\ troubles' = troubles + 1
               /\ UNCHANGED <<stored, turns, known, acked>>
       ELSE UNCHANGED <<stored, turns, known, acked, troubles>>
    /\ UNCHANGED <<processVars, kept, asking, reboots>>

(***************************************************************************)
(* The host dies, or hands the role over, and another boots.               *)
(***************************************************************************)
\* boot: the turns are read, and the records that could be read are judged by what
\* the cache answers, with nothing pinned.  restoreTurns drops the turn of a lifetime
\* proved dead, and keeps that of one no record was read of; a file that cannot be
\* read restores nothing, and no turn is known then.
Boots(read, readable, cache) ==
    LET verdict == [l \in read |-> Judged(l, Answer(cache, read, pidOf[l]), NoOne)]
        dead == {l \in read : verdict[l].verified = "no"}
        back == {l \in Lifetimes \ dead : readable /\ stored[l].last # 0}
    IN /\ pins' = [l \in Lifetimes |-> IF l \in read THEN verdict[l].pin ELSE NoOne]
       /\ records' = records \ dead
       /\ live' = Entry(read, verdict)
       /\ known' = back
       /\ turns' = [l \in Lifetimes |-> IF l \in back THEN stored[l] ELSE NoTurn]
       /\ stored' = IF readable THEN turns' ELSE stored
       /\ kept' = cache

\* The daemon that takes the role serves already, with a cache of its own: it holds
\* what its last probe answered, as this one does (an answer just got is one that
\* landed just before), or nothing yet.
Caches == {kept, [p \in Pids |-> NoAnswer]}

\* The listing may fail, or one record of it be unreadable, or the file.
Reboot ==
    /\ reboots < MaxReboots /\ reboots' = reboots + 1
    /\ \E cache \in Caches :
        \/ Boots(records, TRUE, cache) /\ UNCHANGED troubles
        \/ /\ troubles < MaxTroubles /\ troubles' = troubles + 1
           /\ \E read \in {records, {}} \cup {records \ {l} : l \in records}, readable \in BOOLEAN :
                 (read # records \/ ~readable) /\ Boots(read, readable, cache)
    /\ asking' = (IF kept' = kept THEN asking ELSE Idle) /\ told' = FALSE
    /\ UNCHANGED <<processVars, hooks, acked>>

TurnsNext ==
    \/ \E l \in Lifetimes : Launched(l) \/ WritesRecord(l) \/ Fires(l)
    \/ StrangerBorn
    \/ \E p \in Pids : Dies(p)
    \/ \E e \in hooks : Receive(e[1], e[2])
    \/ ProbeStarts \/ ProbeLands \/ ProbeFails
    \/ Refresh \/ TroubledRefresh \/ Reboot

TurnsSpec == TurnsInit /\ [][TurnsNext]_turnVars

\* The word of the current lifetime (current, with deriveAgentState for a
\* process that runs and a terminal nobody reads).
Word ==
    IF live.conflict \/ live.current = NoOne THEN "unknown"
    ELSE IF turns[live.current].open
         THEN IF turns[live.current].awaiting THEN "blocked" ELSE "working"
    ELSE IF live.current \in known THEN "idle" ELSE "unknown"

(***************************************************************************)
(* Properties.                                                             *)
(***************************************************************************)
\* A record is never removed, nor its lifetime called ended, while the process
\* that wrote it lives: not for an answer about a pid's earlier holder, and not
\* for a folder that could not be read (agent-state-host.mjs:106-123, 250-260).
RecordsOutliveTheirProcess ==
    /\ \A l \in wrote : Lives(l) => l \in records
    /\ told => \A l \in wrote : ~Lives(l)

\* A turn is what its acknowledged events made it in the order they were fired,
\* however they were delivered and whatever the host went through since: it is open
\* after a start no later event ended, it waits for an answer if the latest event
\* asked for one, and it carries that event's time.  So an agent is called idle
\* only when every start that was acknowledged was followed by an end that was
\* (turn-events.mjs:19-25, 61-95; agent-state-host.mjs:173-176).
IsOpenAfter(l, done) ==
    \E s \in done : /\ fired[l][s].kind = "turn-start"
                     /\ \A e \in done : e > s => fired[l][e].kind # "turn-end"
IsMade(l, done, turn) ==
    \E n \in done :
        /\ \A m \in done : m <= n
        /\ turn.last = fired[l][n].at /\ (turn.awaiting <=> fired[l][n].kind = "blocked")
        /\ turn.open <=> IsOpenAfter(l, done)
TurnIsItsLatest ==
    /\ \A l \in known : IsMade(l, acked[l], turns[l])
    /\ Word = "idle" => ~IsOpenAfter(live.current, acked[live.current])

TurnsAreTrue == RecordsOutliveTheirProcess /\ TurnIsItsLatest

=============================================================================
