------------------------------ MODULE SweepRuns ------------------------------
(***************************************************************************)
(* The provider's clients that the aify-dashboard plugin runs: the queue's  *)
(* client for a project with calls waiting (ProviderRunner), then the sweep *)
(* client for the heads of the folders it watches (SweepRunner), once a     *)
(* minute, one after the other.                                            *)
(*                                                                         *)
(* A client's run is one of its outcomes: module ClientRun is its inside.   *)
(* A wait is over or not; that it doubles is left out, but that it has      *)
(* reached its cap is kept, since it is then said.  One project, which has  *)
(* every folder.                                                           *)
(***************************************************************************)
EXTENDS Naturals, FiniteSets

CONSTANTS
    SweepFolders,   \* the folders of the project
    SweepHeads,     \* commits
    MaxHeadMoves,   \* bound: moves of a head, and changes of the watch list
    MaxConfigs,     \* bound: changes of the plugin's configuration section
    MaxMisruns      \* bound: runs and questions that do not succeed, and restarts of the plugin

NoHead == "no head"        \* not watched
EveryHead == "every head"  \* a stop of the whole folder

VARIABLES
    watchedHead,   \* folder -> the head the dashboard last accepted of it
    section,       \* the configuration section: a number
    calls,         \* the project has calls in the queue
    headMoveCount,
    misruns,
    sweeper,       \* SweepRunner's fields
    provider,      \* ProviderRunner's fields
    pass,          \* the pass in progress: where it is, the section it read, the folders due, its rows
    warnings       \* CleanupWarnings, kept for the process: the clients whose kill was not confirmed

plantVars == <<watchedHead, section, calls, headMoveCount>>
sweepVars == <<plantVars, misruns, sweeper, provider, pass, warnings>>

NotLatched == [head |-> NoHead, under |-> 0]
NewSweeper ==
    [settled |-> [f \in SweepFolders |-> NoHead],
     waiting |-> [f \in SweepFolders |-> [head |-> NoHead, due |-> TRUE, refusals |-> 0]],
     latched |-> [f \in SweepFolders |-> NotLatched],
     down    |-> [f \in SweepFolders |-> [runs |-> 0, due |-> TRUE]],
     heads   |-> [f \in SweepFolders |-> NoHead],
     rows    |-> {}]
NewProvider == [latch |-> 0, rows |-> {}]
NoPass == [at |-> "no", under |-> 0, due |-> {}, rows |-> {}]

SweepInit ==
    /\ watchedHead \in [SweepFolders -> SweepHeads] /\ section = 1 /\ calls \in BOOLEAN /\ headMoveCount = 0
    /\ misruns = 0
    /\ sweeper = NewSweeper /\ provider = NewProvider /\ pass = NoPass
    /\ warnings = {}

Misruns == misruns < MaxMisruns /\ misruns' = misruns + 1

(***************************************************************************)
(* The folders, the operator and the clock.                                *)
(***************************************************************************)
WatchedHeadMoves(f, h) ==
    /\ headMoveCount < MaxHeadMoves /\ watchedHead[f] # h
    /\ watchedHead' = [watchedHead EXCEPT ![f] = h] /\ headMoveCount' = headMoveCount + 1
    /\ UNCHANGED <<section, calls, misruns, sweeper, provider, pass, warnings>>

SectionChanges ==
    /\ section < MaxConfigs
    /\ section' = section + 1
    /\ UNCHANGED <<watchedHead, calls, headMoveCount, misruns, sweeper, provider, pass, warnings>>

WaitIsOver(f) ==
    /\ sweeper' = [sweeper EXCEPT !.waiting[f].due = TRUE, !.down[f].due = TRUE]
    /\ sweeper' # sweeper
    /\ UNCHANGED <<plantVars, misruns, provider, pass, warnings>>

(***************************************************************************)
(* ProviderRunner.pass: the queue first.                                   *)
(***************************************************************************)
PassBegins ==
    /\ pass.at = "no"
    /\ pass' = [NoPass EXCEPT !.at = "queue", !.under = section]
    /\ provider' = IF calls /\ provider.latch # 0 /\ provider.latch # section
                   THEN [provider EXCEPT !.latch = 0] ELSE provider
    /\ UNCHANGED <<plantVars, misruns, sweeper, warnings>>

ToSweep(rows) ==
    /\ provider' = [provider EXCEPT !.rows = rows]
    /\ pass' = [pass EXCEPT !.at = "reconcile"]

QueueIsEmpty ==
    /\ pass.at = "queue" /\ ~calls
    /\ ToSweep({})
    /\ UNCHANGED <<plantVars, misruns, sweeper, warnings>>

QueueIsStopped ==
    /\ pass.at = "queue" /\ calls /\ provider.latch # 0
    /\ ToSweep({"stopped"})
    /\ UNCHANGED <<plantVars, misruns, sweeper, warnings>>

QueueClientServes ==
    /\ pass.at = "queue" /\ calls /\ provider.latch = 0
    /\ calls' = FALSE /\ ToSweep({})
    /\ UNCHANGED <<watchedHead, section, headMoveCount, misruns, sweeper, warnings>>

\* No grant, no key, no checkout, no answer: said, and asked again next minute.
QueueIsNotServed ==
    /\ pass.at = "queue" /\ calls /\ Misruns
    /\ ToSweep({"not served"})
    /\ UNCHANGED <<plantVars, sweeper, warnings>>

\* An exit 1 or 2, and any other: the project stops under this section.
QueueClientStops ==
    /\ pass.at = "queue" /\ calls /\ provider.latch = 0 /\ Misruns
    /\ provider' = [latch |-> pass.under, rows |-> {"stopped"}]
    /\ pass' = [pass EXCEPT !.at = "reconcile"]
    /\ UNCHANGED <<plantVars, sweeper, warnings>>

(***************************************************************************)
(* SweepRunner.pass: #reconcile, #due, and a stop lifted by a new section.  *)
(***************************************************************************)
\* A stop at one head goes with the head; a stop of the folder stays.
Retired(heads, latch, f) == latch.head \notin {NoHead, EveryHead} /\ heads[f] # latch.head

Reconciled ==
    [sweeper EXCEPT !.heads = watchedHead,
        !.latched = [f \in SweepFolders |-> IF Retired(watchedHead, @[f], f) THEN NotLatched ELSE @[f]]]

IsDue(s, f) ==
    /\ s.heads[f] \notin {NoHead, s.settled[f]}
    /\ s.down[f].due
    /\ s.waiting[f].head = s.heads[f] => s.waiting[f].due

Due(s) == {f \in SweepFolders : IsDue(s, f)}

\* A new head replaces what was waiting.
Replaced(s) ==
    [s EXCEPT !.waiting = [f \in SweepFolders |->
        IF f \in Due(s) /\ @[f].head # s.heads[f] THEN [head |-> NoHead, due |-> TRUE, refusals |-> 0] ELSE @[f]]]

\* (Mutant: a stop of a folder outlives the section it was made under.)
LiftedNone(s, under) == s

Lifted(s, under) ==
    [s EXCEPT !.latched = [f \in SweepFolders |-> IF @[f].under # under THEN NotLatched ELSE @[f]]]

Retried(s, f) == s.heads[f] \notin {NoHead, s.settled[f]} /\ s.latched[f].head = NoHead

\* Two misses in a row reach the cap here.
DownRow(s, f) == s.down[f].runs >= 2

Standing(s) ==
    {<<"stopped", f, s.latched[f].head>> : f \in {g \in SweepFolders : s.latched[g].head # NoHead}}
    \cup {<<"tried again", f, NoHead>> : f \in {g \in SweepFolders : DownRow(s, g) /\ Retried(s, g)}}

Reconcile ==
    /\ pass.at = "reconcile"
    /\ LET s == Replaced(Reconciled) IN
       IF Due(s) = {} THEN /\ sweeper' = [s EXCEPT !.rows = Standing(s)]
                           /\ pass' = NoPass
       ELSE /\ sweeper' = Lifted(s, section)
            /\ pass' = [pass EXCEPT !.at = "sweep", !.under = section, !.due = Due(s), !.rows = {}]
    /\ UNCHANGED <<plantVars, misruns, provider, warnings>>

\* A checkout that cannot be run from: said, and nothing is swept.
NoCheckout ==
    /\ pass.at = "reconcile" /\ Misruns
    /\ LET s == Replaced(Reconciled) IN
       /\ Due(s) # {}
       /\ sweeper' = [Lifted(s, section) EXCEPT !.rows = {<<"none is swept", f, NoHead>> : f \in Due(s)}]
    /\ pass' = NoPass
    /\ UNCHANGED <<plantVars, provider, warnings>>

(***************************************************************************)
(* #sweep, one folder after another.                                       *)
(***************************************************************************)
Sweeping(f) == pass.at = "sweep" /\ f \in pass.due
Went(f, rows) == pass' = [pass EXCEPT !.due = @ \ {f}, !.rows = @ \cup rows]

IsStopped(f) ==
    /\ Sweeping(f) /\ sweeper.latched[f].head # NoHead
    /\ Went(f, {})
    /\ UNCHANGED <<plantVars, misruns, sweeper, provider, warnings>>

MaySweep(f) == Sweeping(f) /\ sweeper.latched[f].head = NoHead

\* The folder is outside the grant, or the watch set or the key was not read:
\* said, and asked again.
IsNotSwept(f) ==
    /\ MaySweep(f) /\ Misruns
    /\ Went(f, {<<"not swept", f, sweeper.heads[f]>>})
    /\ UNCHANGED <<plantVars, sweeper, provider, warnings>>

\* The grant itself was not read, or a reading of the folder's own failed: the
\* pass is over, and its row takes the place of all that stood.
PassThrows(f) ==
    /\ MaySweep(f) /\ Misruns
    /\ sweeper' = [sweeper EXCEPT !.rows = {<<"none is swept", g, NoHead>> : g \in pass.due}]
    /\ pass' = NoPass
    /\ UNCHANGED <<plantVars, provider, warnings>>

Settled(s, f) ==
    [s EXCEPT !.settled[f] = s.heads[f], !.waiting[f] = [head |-> NoHead, due |-> TRUE, refusals |-> 0],
              !.down[f] = [runs |-> 0, due |-> TRUE]]

\* Nothing is watched there, or the sweep is posted: exits 0 and 3.
IsSwept(f) ==
    /\ MaySweep(f)
    /\ sweeper' = Settled(sweeper, f) /\ Went(f, {})
    /\ UNCHANGED <<plantVars, misruns, provider, warnings>>

Waiting(s, f) ==
    IF s.waiting[f].head = s.heads[f] THEN s.waiting[f]
    ELSE [head |-> s.heads[f], due |-> TRUE, refusals |-> 0]

LatchedAt(s, f, h) ==
    [s EXCEPT !.latched[f] = [head |-> h, under |-> pass.under],
              !.waiting[f] = [head |-> NoHead, due |-> TRUE, refusals |-> 0]]

\* Exit 5: every head of the folder waits.
DashboardIsDown(f) ==
    /\ MaySweep(f) /\ Misruns
    /\ sweeper' = [sweeper EXCEPT !.down[f] = [runs |-> IF @.runs < 2 THEN @.runs + 1 ELSE @.runs, due |-> FALSE],
                                  !.waiting[f].refusals = 0]
    /\ Went(f, {})
    /\ UNCHANGED <<plantVars, provider, warnings>>

\* Exit 4: the head waits for a clean tree.
TreeIsDirty(f) ==
    /\ MaySweep(f) /\ Misruns
    /\ sweeper' = [sweeper EXCEPT !.waiting[f] = [Waiting(sweeper, f) EXCEPT !.due = FALSE, !.refusals = 0]]
    /\ Went(f, {})
    /\ UNCHANGED <<plantVars, provider, warnings>>

Answers(s, f) == [s EXCEPT !.down[f] = [runs |-> 0, due |-> TRUE]]

\* Exit 2: something moved; three in a row stop this head.
MovedAfterReserve(f) ==
    /\ MaySweep(f) /\ Misruns
    /\ LET s == Answers(sweeper, f)
           w == [Waiting(s, f) EXCEPT !.refusals = @ + 1, !.due = TRUE]
       IN sweeper' = IF w.refusals < 3 THEN [s EXCEPT !.waiting[f] = w] ELSE LatchedAt(s, f, s.heads[f])
    /\ Went(f, {})
    /\ UNCHANGED <<plantVars, provider, warnings>>

\* Exits 6 and 1 stop this head, any other exit the folder.
StopsAt(f, h) ==
    /\ MaySweep(f) /\ Misruns
    /\ \E s \in {sweeper, Answers(sweeper, f)} : sweeper' = LatchedAt(s, f, h)
    /\ Went(f, {})
    /\ UNCHANGED <<plantVars, provider, warnings>>

(***************************************************************************)
(* A kill that is not confirmed, and the plugin's stop.                     *)
(***************************************************************************)
Unconfirmed(client) == warnings' = warnings \cup {client}

\* Whichever way the run ended, its kill is noted first.
Noted(client, stopped) == Unconfirmed(client) \/ (~stopped /\ UNCHANGED warnings)

\* A run past its time is killed; it is tried again.
SweepTimesOut(f) ==
    /\ MaySweep(f) /\ Misruns /\ Noted("sweep", FALSE)
    /\ sweeper' = [sweeper EXCEPT !.waiting[f] = [Waiting(sweeper, f) EXCEPT !.due = TRUE, !.refusals = 0]]
    /\ Went(f, {})
    /\ UNCHANGED <<plantVars, provider>>

QueueTimesOut ==
    /\ pass.at = "queue" /\ calls /\ provider.latch = 0 /\ Misruns /\ Noted("provider", FALSE)
    /\ ToSweep({})
    /\ UNCHANGED <<plantVars, sweeper>>

\* The plugin stops with a client running, or with none, and is started again.
PluginRestarts ==
    /\ Misruns
    /\ \/ UNCHANGED warnings
       \/ pass.at = "queue" /\ calls /\ provider.latch = 0 /\ Noted("provider", TRUE)
       \/ (\E f \in SweepFolders : MaySweep(f)) /\ Noted("sweep", TRUE)
    /\ sweeper' = NewSweeper /\ provider' = NewProvider /\ pass' = NoPass
    /\ UNCHANGED plantVars

PassEnds ==
    /\ pass.at = "sweep" /\ pass.due = {}
    /\ sweeper' = [sweeper EXCEPT !.rows = pass.rows \cup Standing(sweeper)]
    /\ pass' = NoPass
    /\ UNCHANGED <<plantVars, misruns, provider, warnings>>

PassSteps ==
    \/ PassBegins \/ QueueIsEmpty \/ QueueIsStopped \/ QueueClientServes \/ Reconcile \/ PassEnds
    \/ \E f \in SweepFolders : IsStopped(f) \/ IsSwept(f)

SweepNext ==
    \/ PassSteps
    \/ QueueIsNotServed \/ QueueClientStops \/ QueueTimesOut \/ NoCheckout \/ PluginRestarts
    \/ SectionChanges
    \/ \E f \in SweepFolders :
         \/ WaitIsOver(f) \/ \E h \in SweepHeads \cup {NoHead} : WatchedHeadMoves(f, h)
         \/ IsNotSwept(f) \/ PassThrows(f) \/ DashboardIsDown(f) \/ TreeIsDirty(f) \/ MovedAfterReserve(f) \/ SweepTimesOut(f)
         \/ StopsAt(f, EveryHead) \/ StopsAt(f, sweeper.heads[f])

\* A pass is made every minute and ends; a wait ends.
SweepSpec ==
    /\ SweepInit /\ [][SweepNext]_sweepVars
    /\ WF_sweepVars(PassSteps) /\ \A f \in SweepFolders : WF_sweepVars(WaitIsOver(f))

(***************************************************************************)
(* Properties.                                                             *)
(***************************************************************************)
\* A folder said to be tried again is one that a pass tries: once its wait is
\* over the next pass has it due and not stopped, if its head is where the row
\* found it (sweep-runner.mjs:179-183); and a row of a stop is a stop.
SweepsAreHonest ==
    \A row \in sweeper.rows :
        /\ row[1] = "tried again" /\ watchedHead = sweeper.heads /\ pass.at \in {"no", "queue"}
              /\ sweeper.down[row[2]].due /\ sweeper.waiting[row[2]].due
             => IsDue(sweeper, row[2]) /\ sweeper.latched[row[2]].head = NoHead
        /\ row[1] = "stopped" /\ row[3] # EveryHead /\ pass.at = "no" => row[3] = sweeper.heads[row[2]]

\* A head that stays is swept, or a row says that it is stopped under the
\* section as it is; and calls that wait are served, or a row says the same of
\* them (sweep-runner.mjs:15-29, provider-runner.mjs:18-20).
SweptOrSaid ==
    /\ \A f \in SweepFolders : \A h \in SweepHeads :
         <>[](watchedHead[f] = h) =>
         <>[](\/ sweeper.settled[f] = h
              \/ /\ \E at \in {h, EveryHead} : <<"stopped", f, at>> \in sweeper.rows
                 /\ sweeper.latched[f].under = section)
    /\ <>[](~calls \/ (provider.rows # {} /\ provider.latch = section))

=============================================================================
