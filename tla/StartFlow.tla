----------------------------- MODULE StartFlow -----------------------------
(***************************************************************************)
(* Starting an agent from the console: the start list                      *)
(* (lib/console-session/start-list.mjs), the key's effects                 *)
(* (lib/dashboard/key-actions.mjs), and the plugin that reads the roster   *)
(* and this host's definitions and asks the service                        *)
(* (lib/plugins/aify-comms/agent-starter.mjs).  The roster moves while a   *)
(* list is on its way and while the operator looks at it.                  *)
(***************************************************************************)
EXTENDS Naturals, FiniteSets

CONSTANTS Startables,   \* agents of the roster
          MaxOpenings,  \* times the list is opened
          MaxTurns,     \* changes of the roster and the store
          MaxStarts,    \* starts the operator asks for
          MaxSilences   \* requests that are not answered

VARIABLES
  roster,     \* each agent's status, and the definition the service holds
  store,      \* this host's own definition of it
  list,       \* the start list: the opening, whether it is answered, its rows
  fetches,    \* lists on their way: the opening, how far, what was read
  starting,   \* the start under way of each agent: how far, what was read
  pendingStart, said, \* the start awaiting its worker, and the last outcome
  workers,    \* agents in the process list
  turns, starts, silences,
  sinceOpen,  \* (history) agents the roster allowed, and agents the store had, since the list was opened
  sinceAsked, \* (history) the same, since each agent's start was asked for
  sinceTaken  \* (history) agents in the process list since their start was accepted

flowVars == <<roster, store, list, fetches, starting, pendingStart, said, workers, turns, starts, silences,
              sinceOpen, sinceAsked, sinceTaken>>

Statuses == {"available", "starting", "online"}
Holders == {"here", "elsewhere", "withdrawn", "nobody"}
Kept == {"managed", "resident", "absent"}

\* Statuses that mean no worker runs and one can be started; any other is
\* refused.
StatusAllows(status) == status = "available"

\* The service's accepted owner decides first, then this host's definition,
\* then the status.
RosterAllows(entry) == entry.holder \notin {"elsewhere", "withdrawn"} /\ StatusAllows(entry.status)
Startable(entry, kept) == RosterAllows(entry) /\ kept = "managed"

NotOpen == [open |-> FALSE, opening |-> 0, asked |-> FALSE, rows |-> {}]
NoStart == [stage |-> "none", entry |-> [status |-> "online", holder |-> "nobody"]]

FlowInit ==
  /\ roster \in [Startables -> [status : {"available", "online"}, holder : {"here"}]]
  /\ store = [a \in Startables |-> "managed"]
  /\ list = NotOpen /\ fetches = {}
  /\ starting = [a \in Startables |-> NoStart]
  /\ pendingStart = "none" /\ said = [what |-> "nothing", agent |-> "none"]
  /\ workers = {a \in Startables : roster[a].status = "online"}
  /\ turns = 0 /\ starts = 0 /\ silences = 0
  /\ sinceOpen = [roster |-> {}, store |-> {}] /\ sinceAsked = [roster |-> {}, store |-> {}] /\ sinceTaken = {}

\* What was true at some moment: every step looks at the state it makes.
Remembers(opened, asked, taken) ==
  LET allowed == [roster |-> {a \in Startables : RosterAllows(roster'[a])},
                  store |-> {a \in Startables : store'[a] = "managed"}]
  IN
  /\ sinceOpen' = [k \in DOMAIN allowed |-> (IF opened THEN {} ELSE sinceOpen[k]) \cup allowed[k]]
  /\ sinceAsked' = [k \in DOMAIN allowed |-> (sinceAsked[k] \ asked) \cup allowed[k]]
  /\ sinceTaken' = (sinceTaken \ taken) \cup workers'

Remembering == Remembers(FALSE, {}, {})

----------------------------------------------------------------------------
(* The service, the workers and the store. *)

\* The roster or the store changes: an agent comes up by another way, ends,
\* or its definition moves to another host or is withdrawn.
Moves ==
  /\ turns < MaxTurns /\ turns' = turns + 1
  /\ \E a \in Startables :
       \/ /\ \E s \in Statuses, h \in Holders : roster' = [roster EXCEPT ![a] = [status |-> s, holder |-> h]]
          /\ UNCHANGED <<store, workers>>
       \/ /\ \E k \in Kept : store' = [store EXCEPT ![a] = k]
          /\ UNCHANGED <<roster, workers>>
       \/ /\ workers' = IF a \in workers THEN workers \ {a} ELSE workers \cup {a}
          /\ UNCHANGED <<roster, store>>
  /\ UNCHANGED <<list, fetches, starting, pendingStart, said, starts, silences>>
  /\ Remembering

----------------------------------------------------------------------------
(* The list. *)

\* Opening it marks it unanswered again, and the old rows go with it.
Opened(l) == [open |-> TRUE, opening |-> l.opening + 1, asked |-> FALSE, rows |-> {}]

OpensList ==
  /\ ~ list.open /\ list.opening < MaxOpenings
  /\ list' = Opened(list)
  /\ fetches' = fetches \cup {[opening |-> list.opening + 1, stage |-> "roster", entries |-> roster, rows |-> {}]}
  /\ UNCHANGED <<roster, store, starting, pendingStart, said, workers, turns, starts, silences>>
  /\ Remembers(TRUE, {}, {})

ClosesList ==
  /\ list.open
  /\ list' = [list EXCEPT !.open = FALSE]
  /\ UNCHANGED <<roster, store, fetches, starting, pendingStart, said, workers, turns, starts, silences>>
  /\ Remembering

\* The plugin reads the roster; no answer is an empty list with its problem.
ListReadsRoster ==
  /\ \E f \in {g \in fetches : g.stage = "roster"} :
       \/ /\ fetches' = (fetches \ {f}) \cup {[f EXCEPT !.stage = "store", !.entries = roster]}
          /\ UNCHANGED silences
       \/ /\ silences < MaxSilences /\ silences' = silences + 1
          /\ fetches' = (fetches \ {f}) \cup {[f EXCEPT !.stage = "answered"]}
  /\ UNCHANGED <<roster, store, list, starting, pendingStart, said, workers, turns, starts>>
  /\ Remembering

\* Then this host's definitions, and offers what both allow.
Offered(entries, kept) == {a \in Startables : Startable(entries[a], kept[a])}

ListReadsStore ==
  /\ \E f \in {g \in fetches : g.stage = "store"} :
       fetches' = (fetches \ {f}) \cup {[f EXCEPT !.stage = "answered", !.rows = Offered(f.entries, store)]}
  /\ UNCHANGED <<roster, store, list, starting, pendingStart, said, workers, turns, starts, silences>>
  /\ Remembering

\* Only the answer to the current opening fills the list; a refusal is an
\* answer too.
\* (Mutant: an answer is taken only while the list is drawn the first time.)
IsCurrentOnce(opening) == opening = list.opening /\ opening = 1
IsCurrent(opening) == opening = list.opening

ListLands ==
  /\ \E f \in {g \in fetches : g.stage = "answered"} :
       /\ fetches' = fetches \ {f}
       /\ list' = IF IsCurrent(f.opening) THEN [list EXCEPT !.asked = TRUE, !.rows = f.rows] ELSE list
  /\ UNCHANGED <<roster, store, starting, pendingStart, said, workers, turns, starts, silences>>
  /\ Remembering

----------------------------------------------------------------------------
(* A start. *)

\* Enter on a row: the list closes and the caller is asked.
Chooses ==
  /\ list.open /\ starts < MaxStarts /\ starts' = starts + 1
  /\ \E a \in list.rows :
       /\ starting[a].stage = "none"
       /\ starting' = [starting EXCEPT ![a].stage = "roster"]
       /\ UNCHANGED <<roster, store, fetches, pendingStart, said, workers, turns, silences>>
       /\ Remembers(FALSE, {a}, {})
  /\ list' = [list EXCEPT !.open = FALSE]

Announces(what, a) == said' = [what |-> what, agent |-> a]

\* A refusal, whatever its reason, clears the start that was awaited.
Refused(a) ==
  /\ starting' = [starting EXCEPT ![a] = NoStart]
  /\ pendingStart' = "none" /\ Announces("refused", a)

\* The list was a snapshot: the roster is read again at the moment of acting.
ReadsAgain(a) == roster[a]

StartReadsRoster(a) ==
  /\ starting[a].stage = "roster"
  /\ \/ /\ starting' = [starting EXCEPT ![a] = [stage |-> "store", entry |-> ReadsAgain(a)]]
        /\ UNCHANGED <<pendingStart, said, silences>>
     \/ silences < MaxSilences /\ silences' = silences + 1 /\ Refused(a)
  /\ UNCHANGED <<roster, store, list, fetches, workers, turns, starts>>
  /\ Remembering

\* And this host's definition; the same rule decides.
StartJudges(a) ==
  /\ starting[a].stage = "store"
  /\ IF Startable(starting[a].entry, store[a])
     THEN starting' = [starting EXCEPT ![a].stage = "post"] /\ UNCHANGED <<pendingStart, said>>
     ELSE Refused(a)
  /\ UNCHANGED <<roster, store, list, fetches, workers, turns, starts, silences>>
  /\ Remembering

\* The service queues it for this host, or refuses; a lost answer is a
\* refusal here.
StartPosts(a) ==
  /\ starting[a].stage = "post"
  /\ UNCHANGED <<store, list, fetches, workers, turns, starts>>
  /\ \/ /\ roster' = [roster EXCEPT ![a].status = IF @ = "available" THEN "starting" ELSE @]
        /\ \/ /\ starting' = [starting EXCEPT ![a] = NoStart]
              /\ pendingStart' = a /\ Announces("accepted", a)
              /\ UNCHANGED silences /\ Remembers(FALSE, {}, {a})
           \/ silences < MaxSilences /\ silences' = silences + 1 /\ Refused(a) /\ Remembering
     \/ Refused(a) /\ UNCHANGED <<roster, silences>> /\ Remembering

\* The worker comes up by the ordinary way.
StartedComes(a) ==
  /\ roster[a].status = "starting"
  /\ roster' = [roster EXCEPT ![a].status = "online"]
  /\ workers' = workers \cup {a}
  /\ UNCHANGED <<store, list, fetches, starting, pendingStart, said, turns, starts, silences>>
  /\ Remembering

\* The process list names the worker that is awaited.
Arrives(a) == a \in workers

NotesArrivals ==
  /\ pendingStart # "none" /\ Arrives(pendingStart)
  /\ Announces("running", pendingStart)
  /\ pendingStart' = "none"
  /\ UNCHANGED <<roster, store, list, fetches, starting, workers, turns, starts, silences>>
  /\ Remembering

FlowNext ==
  \/ Moves \/ OpensList \/ ClosesList \/ ListReadsRoster \/ ListReadsStore \/ ListLands \/ Chooses \/ NotesArrivals
  \/ \E a \in Startables : StartReadsRoster(a) \/ StartJudges(a) \/ StartPosts(a) \/ StartedComes(a)

\* The daemon reads and lands what was asked for; nothing else need happen.
FlowFair ==
  /\ WF_flowVars(ListReadsRoster) /\ WF_flowVars(ListReadsStore) /\ WF_flowVars(ListLands)

FlowSpec == FlowInit /\ [][FlowNext]_flowVars /\ FlowFair

----------------------------------------------------------------------------
(* Properties. *)

\* Every row drawn was allowed by the roster, and had by the store, at some
\* moment since the list was opened: never a row of an earlier opening.
RowsAreOfThisOpening ==
  list.asked => list.rows \subseteq sinceOpen.roster \cap sinceOpen.store

\* A start is asked of the service only for an agent that the roster allowed
\* and the store had after the operator chose it.
StartsAreFresh ==
  \A a \in Startables : starting[a].stage = "post" => a \in sinceAsked.roster \cap sinceAsked.store

\* "X is running" is said only once X was in the process list after its start
\* was accepted.
RunningIsRunning == said.what = "running" => said.agent \in sinceTaken

\* The list that is drawn unanswered has nothing to choose.
UnansweredOffersNothing == list.open /\ ~ list.asked => list.rows = {}

StartsAreHonest == RowsAreOfThisOpening /\ StartsAreFresh /\ RunningIsRunning /\ UnansweredOffersNothing

\* An opened list is answered, or closed.
ListIsAnswered == (list.open /\ ~ list.asked) ~> (list.asked \/ ~ list.open)
=============================================================================
