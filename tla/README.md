# aify-env: specifications

aify-env is one process on a host that owns the processes and terminals of coding agents on behalf of
services. This folder holds TLA+ models of the parts of it whose correctness depends on order: who holds a
process, who may end it, what survives a crash, what a retry does, what the services and the operator are
told. Every definition was written from the JavaScript under `lib/` and `bin/`; where a doc or a comment and
the code disagree, the model follows the code and the disagreement is a run of its own.

`PROJECT.json` is the index: components, runs, hazards (each at its source line), the lines each definition
translates, findings and theorems. To repeat the work, in this folder:

    tlc -workers 2 -config MCCustody.cfg MCCustody.tla     # any run of PROJECT.json
    tlapm CustodyProofs.tla                                 # any module of proofs

## 1. Inventory

Node runs one callback at a time, so inside the daemon everything is interleaving between two awaits; real
parallelism is with the operating system, other daemons, editors, services and viewers.

| Component | State it keeps | Operations | What is hard | What makes it correct | Module |
|---|---|---|---|---|---|
| Process custody (`runner`, `in-flight-spawns`, `runner-stop`, `posix-process-group`, `process-registry`, `managed-lifetimes`, `reaper`) | in-flight spawns, live map, stop witnesses, registry, lifetimes, group and its one termination attempt, rows of the owned record | start, handoff, exit, close, stop, TERM/KILL attempt, sweep | exit before close, descendants that outlive the leader, reused numbers, stops that share an attempt, probes that fail | nothing running is let go of; "stopped" is true; no stranger is signalled; every stop is answered | Runner |
| Shutdown (`shutdown`, `shutdown-hooks`, `bin/aify-env`) | stage, snapshot, outstanding stops, stuck set | signal, snapshot, stops, deadline, retirement of rows, exit, second signal | one snapshot against starts still waiting; answers after the deadline | snapshot complete; a complete exit left nothing; a signal ends in an exit | Shutdown |
| Takeover and recovery (`successor-recovery`, `orphan-reap`, `recovered-process-termination`, `incumbent`) | displaced owner, remembered rows, plan, confirmed and unresolved | take the port, plan, kill, hold, two deltas of the record, open | the predecessor writes after it frees the port; a crash between any two steps; reused numbers | no row lost while its tree runs; only orphans struck; the fence; the hold ends | Recovery |
| Owned record (`owned-process-record`, `durable-file`) | the file, copies kept aside | read, compose, rename; damaged and newer rows | writers without a lock, deaths and power cuts between steps | no row lost but by the named race; damage is kept aside | OwnedRecord |
| Definition lock (`definition-lock`, `lock-break`) | lock file, guards of guards | take, break, reclaim, release, unlock | deletion by path of what was read earlier; breakers that die | exclusive hold; only what was judged is deleted; a dead lock goes away | DefinitionLock |
| Definition store (`agent-definitions`, its recovery, requests, snapshot; `definition-sync`) | definition file, ledger, intent, receipts, trash | set, remove, adopt, recover, settle, snapshot, guarded start, apply a request | four durable steps with a crash between any two; an editor that ignores the lock; lost reports | a revision names one body; outcomes agree; no body lost; a request runs once | DefinitionStore |
| Agent lifecycle (`agent-lifecycle`, `daemon-agent-lifecycle`, `lifecycle-sync`, `lifecycle-launch`) | journal of requests and stop facts, jobs in hand | claim, reserve, read, stop, remove, build, start, attach, finish, report; automatic start; boot | redelivery, two daemons at once, a lock held through a kill, lost acknowledgements | one actor; one execution; a held agent stays stopped; every request is answered | Lifecycle |
| Residents (`residents-role`, `residents-generation`, `daemon-residents`) | role endpoint, generation, entered operation | bind, take a generation, boot, enter, effect, release | an operation that outlives the role; a successor that boots meanwhile | no effect without the role; generations grow; the role is taken again | Residents |
| Agent state (`agent-state-*`, `turn-events`, `turns-file`, `resident-lifetimes`) | lifetimes, cached answers of the OS, turns and their file; publications and acknowledgements | hook, probe, list, store, restore; observe, publish, acknowledge, retire | reused pids, late hooks, bodies that overtake each other, a target that is edited | a turn is of the lifetime it was told of; the named target ends up with the row; retirement is confirmed only if true | AgentTurns, StatePublication |
| aify-comms plugin (`index`, `pass-loop`, `plugin-phase`, `claim`) | phase, loops, a claimed request | beat, pass, claim, report, hold, let go, resume | a phase that moves while a pass waits; reports that fail | it lets go only when it runs nothing; a claimed request is answered | CommsPlugin, PluginLife |
| Its terminals (`terminal-controls`, `handle-book`, `lifecycle-launch`) | handles by the service's name, captured stops, listeners | start, adopt, refuse, stop, liveness, orphan | redelivered controls, a worker that ends in any await, two launchers of one agent | a control reaches the worker it was made for; no worker runs that nobody holds | CommsTerminals |
| Its output and screens (`output-sender`, `screen-observer`, `screen-rules`, `screen-answers`) | queue, timers, marker; verdict, hold, reports | coalesce, post, drop, mark; look, confirm, report, answer | limits, lost posts, a screen that changes while it is read | output in order and the loss told; the service ends up with what is on the screen; a dialog is answered once | OutputSender, ScreenObserver |
| aify-dashboard plugin (`head-watcher`, `range-reporter`, `file-list`, `sweep-*`, `provider-*`, `activity-*`) | accepted heads, resyncs, sweep rows and waits, activity checkpoint | look, report, yield; pass, run, end; append, batch, acknowledge, retire | reports applied and lost, two environments at one host, kills that are not confirmed, crashes between removals | what was acknowledged was had; swept or said; activity is shipped or counted as lost | HeadWatch, SweepRuns, ActivityLedger, ClientRun |
| Screen streaming (`runner-stream`, `screen-checkpoint`, `screen-baseline`, `output-follower`, `daemon-http`) | retained output, geometry, copy of the screen, subscription, follower | print, resize, subscribe, snapshot, receive, draw, drop, reconnect | snapshot against live feed, split escape sequences, resize overtaking output | what is shown is a screen the terminal had; the end is told | ScreenStream |
| Console (`console-session`, `keys`, `dashboard/`, `agent-starter`) | focus, list, cursor, menu and its subject, the attached pane; start list | key, refresh, attach, act; open, choose, read again, start | lists reordered between a look and a key, answers after a selection changed | a key acts on what the operator saw; a start is of what was shown, and its outcome is said | ConsoleInput, StartFlow |
| Typed input and sizes (`input-sender`, `input-socket`, `terminal-size-owner`) | pending keys, one request in flight, owner of the size | type, send, switch to the socket and back, resize, detach | a request that may still be handled after its client gave up | keys in order, at the size of who typed them | InputWire |
| Service plugins and advertising (`service-plugins`, `plugin-bootstrap`, `host-advertiser`, `advertise`) | running plugins, keys, accepted beats | follow, detach, resume, add; beat, opt out, walk the harnesses | a registry changed while a plugin stops; beats that overlap edits | one plugin per service; a bridge stands down only where the host is described | HostRegistry, HeartBeats |
| Hermes gateways (`hermes-gateway-book`, `hermes-gateway-ports`, `agent-gateways`) | one record per agent | prepare, register, end | reused pids, ports chosen but not yet bound, the role that moves | nothing unproven is killed; no two agents are handed one gateway | GatewayBook |
| Herdr panes (`herdr-pane-opener`, `herdr-pane-reporter`) | pane ids, seqs, last word | open, report, close | an id given again while reports to it are under way | an operator's pane is left alone; a worker's pane follows it | HerdrPanes |
| Credentials and installation (`credential-*`, `install-chain*`) | the file, kept ACL answers; phases and what was placed | replace, remove, read; look, acquire, connect, render, apply | links and renames by others between two calls; a specification that changes between readings | no key is read through an unproven file; what was approved is what ran | CredentialStore, InstallChain |
| Choosing an environment (`instance-bootstrap`, `serving-endpoint`, `attach-target`, `process-registry`) | receipts | launch, list, resolve, act | receipts that outlive their environment, ports and pids used again | a command acts on the process it named | EnvChoice |
| Views and text, secrets, launch composition, host reports, the doctor's other rows, HTTP checks, scripts | little or none | | | | section 8 |

## 2. Modules

Every component module stands alone: state, `Init`, one action per step, `Next`, its fairness and its properties.
`Shutdown` EXTENDS `Runner` (its next-state relation contains the Runner's actions, guarded by what the process still accepts),
and one module of proofs, `CustodyProofs`, holds both, with Recovery. `DefinitionStore` works under a lock held by one process at a time, which is what `DefinitionLock` shows; `Lifecycle` has a hold of that lock as one variable and
starts or ends a worker in one step, which is what `DefinitionLock` and `Runner` show.

`PluginLife` is abstract: what a plugin promises the registry that steers it (it lets go only when it runs no worker, takes none once it is held, and never serves again what it let go of).
`CommsPlugin`, with its loops, awaits and reports, implements it under a refinement mapping (`INSTANCE PluginLife WITH ...`, property `KeepsItsPromise`); `HostRegistry` relies on exactly that promise of the plugins it keeps.

An `MC` module instantiates the components it checks **side by side**: `part` names the component a behaviour is of, and the other components stay where they are. A component about which something is proved
is EXTENDED, so that run and theorem are about one and the same definition (MCCustody: Shutdown and Recovery; MCFiles: the lock, the record, the turns, the choice, the chain and the credentials; MCTerminals: the terminals, the input, the panes and the gateways; MCPublished: the store, the publication and the ledger); the others are INSTANCEd. A run's states are the sum of its components', so
nothing is hidden by the grouping; it keeps one full pass over the project short. A property of such a run is a conjunction over the components it names, each conjunct guarded by `part`; a liveness conjunct has the component's own
fairness as its antecedent (`part = "..." /\ Fair => ...`), so no component lends another its fairness.

### Custody, teardown, takeover

**Runner.** A child's numbers are abstracted to what is known of them: `root` (running, zombie, reaped), `workers` (children
with a descendant in their group), `strangers` (children whose number is somebody else's now). The variables
`inFlight, live, stops, registry, managed, recorded` are the code's collections under their own names, `group` and `attempt` the
`PosixProcessGroup`. `Start`, `Refuse`, `SpawnTerminal`, `SpawnPiped`, `Handoff`, `SpawnFails` are the pieces of `start()` between its
awaits; `ExitEvent` and `Close` are the two events (`Close` is `finish()`); `Stop`, `StopEnds`, `StopEndsUnseen` are
`RunnerStop.perform`; `GroupTerm/Kill/Gone/Unresolved` are the shared attempt; `Sweep` is the reaper's tick. `World` is the operating system.

**Shutdown.** `stage` follows `createShutdown`: `before` (beforeStop's budget), `entering` (the synchronous loop that begins each stop),
`stopping` (the race with the deadline), `retiring`, `exited`. `owed` holds children whose stop was asked for while they were in flight
(`#stopOnHandoff`): the promise outlives its own budget. `CutShort` is a second signal or a crash.

**Recovery.** `Bind`, `SignalIncumbent`, `Plan`, `Reap`, `Hold`, `Open`, `AdmitStart`, `RequestAgain` are the successor's steps; `Crash` replaces it by one
that remembers nothing. `file` is the shared record. Evidence of an owner is a birth, a bare pid or malformed, and each platform
judges a tree by its own rule (a recorded group, or what can be reached). The record's own read and rename are `OwnedRecord`'s.

### Files

**DefinitionLock.** A text is written by one process only (it names the pid and carries a nonce), so the folder is one function from
names to texts: `file[Lock]` is the lock and `file[t]` the guard that must be held to delete a file holding `t`. Guards are
guarded in turn up to `MaxDepth` (`MAX_DEPTH`, 4).

**DefinitionStore.** `stage` is the durable step an operation has reached (intent, file, ledger, intent deleted), `ledger`, `intent`, `temp`, `trash` the files. The
callers' memories (`shown`, `given`, `snapshots`, `told`) are kept to compare what was said at different times; `ran` is which operations put their file where it belongs.

**OwnedRecord.** `page` is the file (rows, damage, rows of a newer version), `errand` a writer's place between its read and its rename, `asides` the copies of damaged
bytes, `settled` what a power cut leaves.

**CredentialStore, InstallChain, EnvChoice, GatewayBook.** One action per await of the command or route. `stamp` numbers a file's change times; `serving` is what a service serves at each of the readings;
receipts outlive the environments that `births` number; `task` is the place of `prepare` between two answers, and its `entered` says that the role has not moved since it was admitted (`enter()`'s operation).

### Agents and services

**Lifecycle.** An actor is a daemon's request pass or its automatic start; `job` is where its function stands (the places are the awaits of
`AgentLifecycle.execute` and of `admitColdStart`). `row` is the journal, `held` its stop fact, `ask/open/told` the service's side. A daemon is off, up,
draining or gone; `Boot` is `settleObsolete` beside recovery, and the lock of a gone daemon can be broken.

**Residents.** `bound` is who holds the endpoint (a kernel lock), `generation` the number on disk, `operation` what each daemon has entered; `turnsBy` and `shown` are what was written and read under a tenure.

**AgentTurns, StatePublication.** A pid's holders stand in a line, so a birth is a place in it; `known` and `pins` are the probe cache and what it may not forget. Each target has a network of its own (`net`), where bodies are
kept in their numbers' order and any of them may be taken or lost; a receiver drops what is older than what it took.

**CommsPlugin, CommsTerminals, OutputSender, ScreenObserver.** `loop` has each loop's place in `runPasses`; `ctl` and `hand` the control and the start in hand, `book` the handle book, `carrier` and `listening` who carries a worker's
end to the service; `posted`, `dropped`, `lost` account for every chunk; `seen`, `confirmed` and `telling` are the observer's throttle, hold and report.

**HostRegistry, HeartBeats.** `entry` is the registry's, `plugins` those that run, `follow` the place in a change; `attempts` and `answers` the beats under way and what `/health` keeps of them.

**HeadWatch, SweepRuns, ClientRun, ActivityLedger.** `dash` is what the dashboard has; `look`, `pass`, `run`, `ledger` are the code's places and checkpoints; another environment of the host acts in each where the code allows for it.

### What the operator sees

**ScreenStream.** A screen is what drew it: the chunks since the last reset with the width and parser state each met, and the
resizes between. This tells apart exactly what the properties need: a chunk drawn twice, at another width, after the
other half of a sequence, or not at all.

**ConsoleInput, InputWire, StartFlow, HerdrPanes.** `onScreen` is the last redraw and `acted` what a key was done to; a key is its number at its client, `forgone` those its client gave up on; `roster` moves while a list is on its way; pane ids are given again.

## 3. Runs

Each passing run explores its bounded state space completely, in two to three and a half minutes with two workers.

| Run | Components and bounds | Why that is enough | Shows |
|---|---|---|---|
| custody | Shutdown over Runner: two starts on terminals and pipes without a request, one start with a request on POSIX groups. Runner: one start, the three host kinds, two racing stops. Recovery: one predecessor, one other instance, one child owned by either, both platforms, three kinds of evidence, one crash | no handler of the runner reads or writes another child's state; a start may wait at the gate or be in flight while the other is admitted; two callers are what a shared attempt needs (the theorems hold for any number). Recovered children are planned and ended one at a time by rules that read only their own row; a second crash repeats the first | `CustodyIsTrue`: what runs is held, "stopped" is true, no stranger struck. `TeardownIsTrue`: a complete exit left nothing. `TakeoverIsSafe`: rows outlive trees, confirmation is true, only orphans struck, the fence. `StopsAreRecorded`. `EndsAreLearned`: ends learned, stops answered, the signal ends in an exit, the hold ends |
| files | DefinitionLock: three callers of which two may die anywhere, an operator's unlock, guards to depth 4. OwnedRecord: two writers, one row, one damage, one failure. AgentTurns: two lifetimes, two events, two reboots and a failure. EnvChoice: two environments, ports and pids. InstallChain: two services, three served artifacts, one change of what is served, one write by others. CredentialStore: one reader, two spellings | two dead breakers make a guard of a guard; two writers are what a lost update needs; two holders of a pid, two ports and two spellings are what can be confused | `LockIsSafe`, `LocksAreBroken`, `RecordIsKept`, `TurnsAreTrue`, `ChoiceIsSafe`, `ChainIsSafe`, `CredentialsAreKept` |
| published | DefinitionStore: five operations on one body with one crash or failed listing and one hand edit (together up to the fourth), or four on two bodies with two mishaps of any kind. StatePublication: two targets, two moves of the row, two bodies under way at once. ActivityLedger: two environments, two frames, one replacement, one crash | a lifetime of a definition (create, update, remove, create again) with a recovery in it; a target edited away and back, a body that a later one overtakes, or one to each of the two targets; two claimants of one checkpoint | `StoreIsTrue`, `RequestsAreSettled`, `RetirementIsTrue`, `LedgerIsHonest` |
| lifecycle | two requests of any action, one automatic start, two daemons; four mishaps and requests together, the second request once the first has been executed or a successor may claim it; or one request and one fault more | two requests overlap only across daemons; a third adds a repetition of `agent-reserved`; a lost report in each daemon | `LifecycleIsSafe`: one actor, one execution, no worker under a hold, "done" was done. `RequestsAreAnswered`: every request is answered |
| terminals | CommsTerminals: two terminals, two workers, two controls, one replay. InputWire: two viewers, two keys, two sizes. HerdrPanes: two workers, two pane ids. GatewayBook: two environments, agents, ports and pids, three launches. ScreenStream: chunks ESC and c (a reset split in two), widths 1 and 2, a copy of width 1, two retained chunks, four chunks or resizes, two connections | a worker re-pointed from one terminal to the other while the first name is started anew; the reset split at any point, trimmed replay, resize before, inside and after the hand-over | `WorkersAreHeld`, `KeysAtSize`, `PanesAreTheirs`, `GatewaysAreKept`, `PaneIsTrue` |
| console | OutputSender: six chunks, a cap of three. ScreenObserver: three screens. ConsoleInput: two workers. InputWire: one viewer who comes twice, three keys. StartFlow: two agents, two openings. HerdrPanes: one worker, two words, two failures. ScreenStream: three chunks or resizes | the cap is reached with a POST out; a screen that changes during a look and back; an answer to an earlier opening | `OutputIsCarried`, `ScreenIsRead`, `OperatorIsServed`, `TypedIsSent`, `StartsAreServed`, `PanesAreLookedAfter`, `ExitIsTold` |
| services | CommsPlugin: one request, one worker. HostRegistry: two endpoints, two edits. StatePublication: one target, edited. Residents: two daemons, three tenures, one mishap. HeadWatch: two heads, one failure, one other environment. SweepRuns: one folder, two heads. ActivityLedger: two frames, two failures. HeartBeats: two names on one endpoint. ClientRun: three pids, five births | an entry edited away and back while a plugin detaches; a holder, its successor, and the first again; a number handed to a stranger | `KeepsItsPromise` (the refinement), `LoopsServeTheirClaims`, `RegistryIsKept`, `StateIsTold`, `RoleIsKept`, `DashboardIsTrue`, `SweepsAreKept`, `ActivityIsShipped`, `HealthIsTrue`, `ClientRunsEnd` |

Deadlock is not checked: a behaviour may end when a daemon has exited, a command has answered, or a bound is used up. What must go on is stated as liveness instead.

Five runs expect a violation. Each states what the repository says and finds where the code does otherwise. `definition_unlock` is an instance of MCFiles (a holder on another host of the folder), `screen_repaint` of ScreenStream itself:

- **shutdown_rule**: "if aify-env dies, the processes it handles die with it" (`bin/aify-env.mjs:353`). A start that waits at the
  start gate or in its admission when the teardown takes its one snapshot spawns afterwards, and a teardown that calls itself complete leaves it running.
- **definition_unlock**: "remove the lock only when its holder is not running" (`definition-lock.mjs:153`). The unlock asks the local process table
  about a holder on another host of a shared folder. `UnlockIsTrueOnOneHost` proves that on one host the statement holds.
- **definition_redelivery**: a redelivered request "is recognised and writes nothing" (`definition-sync.mjs:94`). A creation whose report was lost is
  applied again after the operator removed what it created. `RequestsAreSettled` shows that updates and removals are safe.
- **screen_repaint**: a full reset inside a replay, followed in that replay by a resize, is taken for a repaint after it: the pane shows as sound a screen drawn
  at a width it was not written at (`screen-baseline.mjs:112`). `PaneIsTrue` holds with that case left out.
- **watch_checkout**: a folder checked out on another branch and back while its look is under way keeps the fingerprint taken before with the head read in between
  (`head-watcher.mjs:312`): the folder is then quiet at a head it is not at. `DashboardIsTrue` holds without checkouts, where a head moves only by writing the ref it names.

## 4. Fairness

Fairness is weak unless said otherwise and stands for what the event loop, timers or another party provide. A person, a service's decisions, and a process's own doings are never fair.

- Runner: delivered events, the spawn's own event, the sweep's interval, an attempt's schedule and a stop's bounded wait. `close` is fair only without
  a descendant, who may hold the pipe for ever.
- Shutdown: its timers and its synchronous loop; nothing of the children or the service.
- Recovery: each await has its bound, start requests keep coming (they are what asks a held successor again), and a probe asked again and again
  answers some day: strong fairness of `Open` alone.
- DefinitionLock: a live process goes on with its call, and calls keep coming. `LocksAreBroken` also assumes that no dead holder's number reads as live for ever.
- Lifecycle: the passes' loop, the functions in hand, and the service manager that starts a successor after a daemon that went.
- CommsPlugin: a beat settles (it has a timeout), each loop's pass ends and the next begins, what is asked of the phase is carried out.
- HostRegistry: the beat's interval, answers and detaches that are bounded, the retry of an add.
- StatePublication: the tick and each request's timeout; strong fairness that the registry and the credential can be read, and that the newest body is taken, since each is tried again and may fail any number of times, not for ever.
- Residents: strong fairness of the bind, which is tried at an interval and fails while another holds the endpoint; boot, close and the generation are bounded.
- HeadWatch, SweepRuns, ActivityLedger, HeartBeats: their intervals and bounded steps, and that a sweep's wait is over some day.
- ClientRun: the kill's deadline and the steps of the end it begins.
- OutputSender, ScreenObserver: timers and bounded requests; strong fairness that a liveness frame lands, since one is sent again and again.
- ConsoleInput: the redraw after a read, and a stream that was asked for comes up. InputWire: the environment handles what reached it, a POST is answered or times out.
- StartFlow: the reads behind a list end. HerdrPanes: Herdr answers or its call times out, the reporter ticks. ScreenStream: the copy's parser, its timeout and the follower's read loop.

## 5. What is proved

All theorems hold for every value of the constants that meets the named assumptions of the module. Most of the inductive invariants were held against a run of their component before they were proved.

**CustodyProofs**. *The Runner and the teardown* (any starts, requests, callers and hosts):  `CustodyHolds` is `CustodyIsTrue`, of parts `CustodyIsKept`, `StoppedIsTrue`, `StrangersAreSafe`, `TellingIsTrue`, `TypeCorrect`; and `StopsAreOnRecord`.
The inductive invariant `IndInv` is a conjunction over children. `CustodyKept` alone is not inductive: that a stop which reads ESRCH may let go needs that a latched
group is empty for good, that an attempt polls its number so that it is not reused, and that "killing" is only waited for where there is no group. One lemma per action shows the child's own part and that it
leaves the others `Untouched`. For Shutdown: the teardown calls only what a caller of `stop()` may, so the Runner's invariant is kept (`CustodyIsTrueThroughout`, `StopsAreRecordedThroughout`, which rests on
`TeardownRemovesByStop`); `EndInv` adds what the end of the race has verified, and `ToldInv` that a listed child is requested, over, or still owed its stop (`TeardownHolds`).
*Takeover and the record* (any children, environments, crashes and changes): `TakeoverHolds` is `TakeoverIsSafe`. That nothing is lost when the two deltas are written needs `PlanCovers`: every remembered row is confirmed, unresolved, still on
the list or being ended. That only orphans are struck needs that an owner judged dead stays dead while the list is worked off (`ReapableAreOrphans`), where a probe's "gone" is true but its silence says nothing.
`RecordHolds` is `RecordIsKept`, an action property: that an answered change stands, if it was alone, speaks of what was said earlier and, with a power cut, of two pages at once, so `WordIsTrue` holds the change that was answered against the file and against what is settled, `AloneIsAlone` says that an errand counted as alone has no other beside it, and `DamageIsKept` that the copy aside was
made before its rename.

**FilesProofs** (any processes, texts and depth; `OneHost`: an unlock sees every holder's process). *The lock*: a condemned text's writer is dead and death is final, so what a breaker deletes never is a live
process's; two breakers of one text need one guard (`LockHolds`, `UnlockIsTrueOnOneHost`). *The choice of an environment* (any ports and pids): `ChoiceHolds`. `ChosenIsTheOnlyOne` is about a scan that took many steps, so `NoneIsMissed` follows it: whatever the look saw running
and still runs is yet to be asked, has answered, or left a question unanswered; `HandlesAreSpent` says that an instance's number is never given twice, which is why a handle read from a list cannot come to mean another process.
*The guided installation* (any services and clients): `ChainHolds`. An installer is resolved only from what the operator named, approved, or a connection put there (`InstallersMayRun`), `JoinedSoFar` and `AppliedSoFar` follow the two nested walks, and `EndedWhole` is what "done" may say.
*Credentials* (any commands, readers, spellings and keys; `CredAssumption`: the model's sentinel is none of them): `CredentialsHold` is `CredentialsAreKept`. What a reader or the kept entry calls private was so at its file's stamp or later (`AnswersWerePrivate`), whatever became of the file between the question and the answer; and a command past its scan works under a private directory and saw
no file or one of its own name (`CommandsAreCareful`).
*The reports of a HEAD* (any history, failed calls, lost answers and checkouts; no assumption): `CoverageHolds` is `CoverageIsHonest`. A range that is kept reaches from its base to its target without a hole (`RangeIsWhole`), and what of it is not among the batches still to be sent was sent (`RangeIsSent`), so the last batch may move the acknowledged head.
*The passes over the folders* (any folders and heads; no assumption): `SweepsHold` is `SweepsAreHonest`. `SweepInv` says of the rows of a pass under way what holds of the folders as they are at that point (`RowsFit`), and that a stop is of the whole folder or of the head the runner goes by (`StopsAreCurrent`).

**LifecycleProofs** (any requests, automatic starts and daemons): `LifecycleHolds`, of `OneActorHolds`, `ExecutesOnce`, `OperatorIsObeyed` and `TypesHold`. `OneActor` is not inductive: it says nothing of records nobody acts on. `IndInv` adds that at most one record is pending, that
whoever acts holds that record under its own daemon, and that a daemon with a job in hand is up or draining, so that a successor, which settles only the records of the gone, settles nothing under anybody.
`OnceInv` rests on it: workers have distinct ids, an actor that has not produced yet has an id without a worker, a record that ended refused made none, and what is reported or told as done or refused is what the record says, which no step changes once it ended.
`ObeyInv` rests on both. `HeldIsStopped` speaks only of moments when nothing is pending, so `Works` says for each place of an actor what it has seen to by then: from the kill on no daemon that runs has a worker (`Halted`), the lifetime a stop names is dead, and an automatic start that has its
record was made under no hold, which no other actor can set meanwhile. That the host's own list of workers (`Known`) is enough to say so needs the order of the daemons: predecessors run no more when one boots (`DaemonsFollow`), and while a request is pending no later daemon makes a worker
(`PendingIsLatest`). `DoneIsDone` keeps for each record that ended done what it was done for.

**DefinitionStoreProofs** (any bodies, requests, operations, crashes, failed listings and hand edits): `StoreHolds`, the inductive invariant `StoreInv`, and from it `WhatTheStoreShowsIsTrue` (`StoreIsTrue`) and `RequestsAreSettledThroughout` (`RequestsAreSettled`). Neither property says anything of the
files between two steps, which is where a crash leaves them. The invariant does: the pending intent's ledger is the next one of the one that stands (`AfterIsNext`), each of the four steps has what came before it behind it and nothing of what comes after (`StepsAreTrue`), a temporary
file is the pending body (`TempIsPending`), a version on disk or in the trash names only an operation that ran (`ReceiptsAreTrue`), recovery's plan is what the records say (`PlanIsTrue`), and every name and snapshot ever shown lies behind the ledger's counters (`NamesAreBehind`, `SnapshotsAreBehind`), so
that a revision that is given next was never given before. A request runs once because what ran is found again: in the ledger, the trash, the archive or the pending intent (`RequestsArePast`).

**PublishedProofs** (any targets, bodies and their order of arrival; any environments, frames and batches). `RetirementHolds` is `RetirementIsTrue`: a lifetime any target can still be shown was numbered by the sender, a retirement is sent only when all numbered lifetimes have ended, and an ended one
does not come back; the invariant carries that through bodies on their way (`ShownIsPublished`, `RetiredIsProven`). `LedgerHolds` is `LedgerIsHonest`: a checkpoint is sound against the prefix of the segment it was checked with (`IsSound`: what the cursor went past was told, a staged batch is the frames
it covers, a reason it gives has its gap in the batch), and stays so when the segment grows, since `SoundInSegment` moves it from the prefix to the whole.
*What the services are told* (any services, endpoints, edits and answers; `BeatsAreShort`: a beat ends within its interval, without which an older acceptance may land on a newer refusal): `BeatsHold` is `HealthIsHonest`. A beat in flight has told each of its targets at most once, and what was answered to it is still the last that target said (`OneBeat`, `KeptIsSaid`).

**CommsPluginProofs** (any requests, any number of workers): `PromiseIsKept`, that the plugin implements PluginLife, and `GoneForGood`. The mapping alone says nothing of a start in hand, which comes after the phase that admitted it; the invariant says that such
a start is the running plugin's or in a pass the detach still waits for, and that a claim in hand keeps its loop in its pass, so that no report moves a loop that is off. *The registry of plugins* (any endpoints, edits and beats; `StaleIsPositive`): `RegistryHolds`, of `OnePluginServes`, `KeysStayHome` and `FreshWasAccepted`: an acceptance that has not aged out is the last thing its endpoint said, whether or not it is the one written to now (`AcceptedStands`).
`LoopsHold`, that each loop follows the plugin's phase, from the same invariant. *The output on its way* (any cap, chunks and lost POSTs): `OutputHolds` is `OutputIsOrdered`. All a worker wrote lies in three places, heard, in the POST and queued, each younger than the one before (`StillOrdered`), and the end is behind all three (`EndIsBehind`); that the
cap gives up the oldest is a fact about a suffix of an ascending sequence (`CapDropsOldest`). *The screen* (any changes of it between two readings): `ObserverHolds` is the action property `ObserverIsCareful`. It needs what the dialog has been given so far and where its cursor was read: nothing typed, DOWN on its way or taken, ENTER only after "Yes" was read (`AnswersInOrder`).
*Starting from the console* (any agents and openings): `StartsHold` is `StartsAreHonest`. A fetch carries the opening it was begun for, and its answers are of a time since (`FetchesAreOfTheirOpening`); a start read the roster, then the store, after it was asked for (`StartsReadAfterAsking`).

**ResidentsProofs** (any daemons, binds and harms; any processes, events and deliveries). `RoleIsExclusiveAlways`: what is entered was entered under the bind there is; what was published carries a number no greater than the file's while the file stands, in the order of the tenures; a holder's number is above all
published before it; and something published implies a descriptor, without which alone a missing file is begun anew. `TurnsHold` is `TurnsAreTrue`: a number is held by one lifetime at a time (`HeldOnce`), the answers that are kept of it are of a time since it was last seen held (`AnswersAreFair`, `PinsAreOwn`), and
what a turn says is what its latest acknowledged event made of it (`TurnsAreAcked`), in the file as in the memory.
*Ending a provider client* (any process numbers, forks and refused calls; `ClientPidIsAPid`): `ClientRunHolds` is `ClientRunIsHonest`. A handle keeps its process's number from being given again, so what is held is the process that was opened (`HandlesHold`); a process whose turn is over has
been ended and has no child but those that are held too (`TurnsAreTaken`), for as long as no call was refused; so that when the helper says it is done, every child of what it reached is gone (`DoneMeansGone`).

**TerminalsProofs**. *The terminals of the service* (any terminals, workers and controls; `TermAssumption`): `WorkersHold` is `WorkersAreHeld`. A control waits in one place and a terminal has at most one start coming (`ControlsApart`), so no listener is added beside another and every live worker has its book entry;
and what condemned a worker is still so when it is struck, or the worker has spoken since, or nobody is left to strike (`StrikeInv`): that is what the await between the answer and the strike puts in doubt.
*Keys and sizes* (any viewers, keys, sizes, lost sockets and late answers; `WireAssumption`): `KeysHold` is `KeysAtSize`. A viewer's keys are split over its queue, the one request it awaits, the socket's frames and what has landed, each part older than the one before; what a late request carries was forgone. Order, once-only and the honest leave
are read off that split, and `SizeOK` says that the owner's size on record is the terminal's.
*Panes* (any workers and pane ids; `PaneAssumption`, and `~ ForeignReuse`, section 7): `PanesStayTheirs` is `PanesAreTheirs`. An opener's pane is its worker's or gone (`HeldAreTheirs`), and whatever another's reports on their way would say of a claimed pane is stamped before the claim (`OthersAreOlder`).
*Gateways* (any owners, agents, ports, pids and launches; `GatewaysAreNumbered`): `GatewaysHold` is `GatewaysAreKept`. While a request is entered nobody else writes its agent's record, so what it read stands (`ReadsStand`), one looks for a port at a time (`OneLooks`), and what answers to a recorded pid and port was started for that agent (`RecordsAreTrue`).
*The console* (any agents, lists and orders of them; `ListedIsFinite`): `KeysGoWhereShown`, of `KeysReachTheShown` and `ChoicesHitTheNamed`, an action property. A key is typed on the word of flags that the last frame left; `LiveIsShown` says that while they stand the screen shows the live stream of the process under the cursor, and `ScreenIsCurrent` that the menu
and cursor shown are those of the session. A sync re-points the cursor by name and follows what is then under it (`SyncedFacts`), twice after an attach, where the old pane is closed first so that it binds nothing (`BoundSync`).

Three proofs found the model at fault, and it was changed to what the code does. In GatewayBook a request that an environment had begun in one tenure of the residents' role could act after the role went to another and came back: the invariant `ReadsStand` would not go through. The source binds an operation to its tenure (`residents-role.mjs:121`), so the model now has `entered`,
which the role's move clears. In StatePublication the last body on the way answered for whatever request was in flight, so that after a request's own body was lost an earlier body, taken late, could count as its acknowledgement and confirm a retirement: each target now has a network of its own, and a
request hears only of its own body (`Hears`, `"awaited"`). In AgentTurns the property spoke only of lifetimes that live and have acknowledged events, and a
turns' file that could not be read wiped that history: `TurnIsItsLatest` is now of every known turn, and demands an acknowledged event behind it.

**Only model-checked.** All liveness: the prover does not reach ENABLED. `PaneIsTrue`: what a replay draws is computed by a recursion over its chunks (`DrawAll`), and the provers do not do induction over data. `SearchesLandThere`
of ConsoleInput: the rows a search leaves are a `SelectSeq` of the list, which is such a recursion too.

## 6. Bounds by name

`MaxDepth`, `Retained`, `MaxWidth`, `FlushAt`, `MaxPending`, `BatchLimit`, `StaleBeats`, `BeatStale`, `BeatRewalk`, `ReceiptLimit`, `Largest` are the code's own limits, scaled down. Every other `Max...` is a bound of the model on how often
the environment does something: edits (`MaxEdits`, `MaxTargetEdits`, `MaxRewrites`), failures (`MaxFaults`, `MaxCrashes`, `MaxSlips`, `MaxTroubles`, `MaxMishaps`, `MaxHitches`, `MaxWireFaults`, ...), or how much there is of a
thing (`MaxChunks`, `MaxTyped`, `MaxWorkers`, `MaxLifetimes`, `MaxBirths`, ...). `LastDaemon` does not leave. `Small`, `SmallScreen` and `SmallNetwork` in an MC module bound combinations and are stated there.

## 7. Limits of the models

- Runner: a number is not reused while an attempt polls it; a non-group child's number is not reused before its exit event; the error a child emits after its spawn only shortens a wait and is left out; descendants that leave their group by
  `setsid` are outside custody in the code too; on Windows a tree is what can still be reached from its root.
- Recovery: a start's verification of a recorded child (launcher and 30 seconds) is taken as exact; recovery switched off is not modelled. OwnedRecord: a retain or retire with nothing to write answers that it is done although an earlier rename was never durable, and is modelled so.
- The store: one id; counters do not run out; the ledger is never lost or malformed; names do not collide by case. A creation decided when both listings of one hold failed writes over a file made by hand (`agent-definitions.mjs:213`): the model does so too. The lock: no torn lock of an older version.
- Screen: an emulator is available on a host or not; a failed one that is tried again, streams without a declared size, several viewers' sizes, and xterm's own limit are left out.
- Lifecycle: managed agents, one incarnation, the journal present and whole. The reading of the definition and of the identity is one step (it is repeated under the lock). A draining daemon's workers are unknown to its successor, so
  "one worker per agent" is a statement about each daemon. An automatic control is taken once. The last daemon never leaves.
- CommsTerminals: a terminal's name is given again only after its previous worker's end was heard; admission requires a cold agent; an input or a resize changes none of the state.
- HostRegistry: one service name. A plugin that failed to start at boot stays registered and is not retried while its entry stands, in the code as in the model.
- OutputSender: `forget`'s comment says pending output goes with it; a POST in flight goes on to send what is left, and the model lets it.
- AgentTurns: after a failed listing the known lifetimes are empty, so an agent that ends before the next good one is never reported ended; a "blocked" that overtakes its "turn-start" leaves the turn closed until the next hook. StatePublication: a body applied but unacknowledged differs from what the sender believes until the next snapshot.
- Residents: a server that closes by itself is not modelled. HeadWatch: another aify-env of the host serves at least one of our ticks; checkouts are in the violation run only.
- ClientRun: Windows only; a POSIX group is the Runner's. ActivityLedger: a crash between a removal and its save refuses retirement for ever; a segment made again by a hook in flight is never witnessed; a loss adds a gap to a staged batch without a new generation. All three are the code's.
- ConsoleInput: one key per read, then a redraw. InputWire: a POST that timed out may be handled later; resizes by HTTP have no answer anybody waits for; frames lost with a socket are counted by nobody; a viewer whose size was taken over types at another's until it resizes.
- EnvChoice: a live daemon whose health does not answer is neither counted nor reported. CredentialStore: Windows only; a temporary file is listed as an orphan by who looks meanwhile.
- GatewayBook: a gateway never takes both the pid and the port another is known by; the choice of a port is serial within one environment only.
- StartFlow: a second start's outcome overwrites the pending start of the first, so that "X is running" is then not said of it.
- HerdrPanes: the id of a pane that the operator closed is not given again while its worker lives (`ForeignReuse = FALSE`). With it TRUE a worker's end closes a pane that is the operator's (`herdr-pane-opener.mjs:47` against `:205`): the opener knows a pane by its id alone. The periodic re-assertion is left out.
- HeartBeats: one beat at a time (`MaxTogether = 1`). With two, an older acceptance may land after a newer refusal: beats are begun at an interval without waiting for the last, and each lasts up to five seconds per target. Names that trim to the same word, and a clock set back, are not modelled.

## 8. Not modelled, and why

Views, panes and text are functions from a snapshot to lines. Launch composition (command line, environment, folder, secrets asked for) is a function of the definition and the host's files; that it may refuse is an outcome in
Runner, Lifecycle and CommsTerminals. Host reports and configuration are readings and single calls of the modelled stores. The doctor reads and reports (its row of advertisements is in HeartBeats). The HTTP routes add checks around the
actions that are modelled. Measurement scripts are not part of the program.

## 9. What could follow

1. An abstract `Custody` (a child is unknown, held or released; released only when nothing runs) which Runner, and Shutdown through it, implement; an abstract `Lock` (free, or held by one live process) for DefinitionLock, which Lifecycle's `lock` and DefinitionStore's hold would then cite.
2. Proofs: the publication's own promise to the services beyond retirement.
3. The resident half of Lifecycle composed with Residents; several ids in the store; POSIX in CredentialStore.
