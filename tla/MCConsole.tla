-------- MODULE MCConsole ---------------------------------------------------
(***************************************************************************)
(* What the operator and the service see of a worker and of the host, and  *)
(* what is typed at it, side by side: a behaviour is one component's, with *)
(* its neighbours as its module has them.                                  *)
(***************************************************************************)
EXTENDS Naturals, Sequences, FiniteSets, TLC

CONSTANTS MaxChunks, FlushAt, MaxPending, MaxFaces, MaxUnread,
    MaxConfirmations, Listed, MaxTroubles, Clients, Nameless, Shapes,
    MaxViewers, MaxTyped, MaxReshapes, MaxWireFaults, Startables, MaxOpenings,
    MaxTurns, MaxStarts, MaxSilences, PaneWorkers, PaneIds, PaneWords,
    MaxWords, MaxMeddles, MaxPaneTroubles, Kinds, Widths, MaxWidth, Retained,
    MaxOps, MaxConnections, BeatNames, BeatUrls, BeatStale, BeatRewalk,
    MaxTogether, MaxRewrites, MaxTurnarounds

VARIABLES
  part,  \* the component this behaviour is of
  written, unsentChunks, posted, dropped, coalescing, sendTimer, tracked,
  exit, late, heard, lost, discarded,
  face, faces, unread, observed, lookAt, lookAgain, seen, confirmed,
  telling, next, frame, believed, strokes, taken, showing, refused,
  watching, before,
  view, onScreen, acted, troubles,
  stay, typed, unsent, flight, link, wire, posts, forgone, owned, tty,
  landed, wireFaults,
  roster, store, list, fetches, starting, pendingStart, said, workers,
  turns, starts, silences, sinceOpen, sinceAsked, sinceTaken,
  living, word, panes, opening, told, flights, reading, seqs, astray, words,
  meddles, paneTroubles,
  done, truth, exited, checkpoint, copy, parsed, conn, joined, held, frames,
  draws, status, meta, emulator, pending, applying, drawn, repainted,
  carry, printed, connections, relied,
  entries, readable, answers, harnesses, heardAgo, attempts, beatTold,
  detected, inFlight, rewrites, turnarounds, saidLast, heldBy, installedAt

Sender == INSTANCE OutputSender WITH unsent <- unsentChunks
Obs == INSTANCE ScreenObserver
Con == INSTANCE ConsoleInput
Wire == INSTANCE InputWire
Flow == INSTANCE StartFlow
Pane == INSTANCE HerdrPanes
Screen == INSTANCE ScreenStream WITH wire <- frames
Ads == INSTANCE HeartBeats WITH told <- beatTold, heard <- heardAgo, said <-
    saidLast

ASSUME Sender!SenderSizes
ASSUME Con!ListedIsFinite
ASSUME Wire!WireAssumption
ASSUME Pane!PaneAssumption
ASSUME Screen!StreamAssumption
ASSUME Ads!BeatAssumption

\* MaxOps is reached only with at most one resize and an emulator, and a viewer
\* that connects again does so to a terminal that has done little.
SmallScreen ==
  /\ Len(done) = MaxOps => Len(done) - Len(Screen!Chunks(done)) <= 1 /\ draws
  /\ connections = 2 => Len(done) < MaxOps - 1

\* One rewrite of two alike: it is of a's entry.
SmallBeats == entries["b"] = [listed |-> TRUE, url |-> "u", advertise |-> "absent", path |-> "plugin"]

outputVars == <<written, unsentChunks, posted, dropped, coalescing, sendTimer,
    tracked, exit, late, heard, lost, discarded>>
observerVars == <<face, faces, unread, observed, lookAt, lookAgain, seen,
    confirmed, telling, next, frame, believed, strokes, taken, showing,
    refused, watching, before>>
consoleVars == <<view, onScreen, acted, troubles>>
wireVars == <<stay, typed, unsent, flight, link, wire, posts, forgone, owned,
    tty, landed, wireFaults>>
flowVars == <<roster, store, list, fetches, starting, pendingStart, said,
    workers, turns, starts, silences, sinceOpen, sinceAsked, sinceTaken>>
paneVars == <<living, word, panes, opening, told, flights, reading, seqs,
    astray, words, meddles, paneTroubles>>
screenVars == <<done, truth, exited, checkpoint, copy, parsed, conn, joined,
    held, frames, draws, status, meta, emulator, pending, applying, drawn,
    repainted, carry, printed, connections, relied>>
beatVars == <<entries, readable, answers, harnesses, heardAgo, attempts,
    beatTold, detected, inFlight, rewrites, turnarounds, saidLast, heldBy,
    installedAt>>
vars == <<part, outputVars, observerVars, consoleVars, wireVars, flowVars,
    paneVars, screenVars, beatVars>>

\* The components at rest are where they begin.
Init ==
  /\ part \in {"sender", "observer", "console", "input", "start", "panes", "screen", "beats"}
  /\ Sender!OutputInit
  /\ Obs!ObserverInit
  /\ Con!ConsoleInit
  /\ Wire!WireInit
  /\ Flow!FlowInit
  /\ part # "start" => \A a \in Startables : roster[a].status = "available"
  /\ Pane!PanesInit
  /\ Screen!Init
  /\ part # "screen" => truth[1].cols = 1 /\ checkpoint /\ draws
  /\ Ads!BeatsInit

Of(name) ==
  /\ part = name /\ part' = part
  /\ IF name = "sender" THEN TRUE ELSE UNCHANGED outputVars
  /\ IF name = "observer" THEN TRUE ELSE UNCHANGED observerVars
  /\ IF name = "console" THEN TRUE ELSE UNCHANGED consoleVars
  /\ IF name = "input" THEN TRUE ELSE UNCHANGED wireVars
  /\ IF name = "start" THEN TRUE ELSE UNCHANGED flowVars
  /\ IF name = "panes" THEN TRUE ELSE UNCHANGED paneVars
  /\ IF name = "screen" THEN TRUE ELSE UNCHANGED screenVars
  /\ IF name = "beats" THEN TRUE ELSE UNCHANGED beatVars

SenderActs == Of("sender") /\ Sender!OutputNext
ObserverActs == Of("observer") /\ Obs!ObserverNext
ConsoleActs == Of("console") /\ Con!ConsoleNext
InputActs == Of("input") /\ Wire!WireNext
StartActs == Of("start") /\ Flow!FlowNext
PaneActs == Of("panes") /\ Pane!PanesNext
ScreenActs == Of("screen") /\ Screen!Next /\ SmallScreen'
BeatActs == Of("beats") /\ Ads!BeatsNext /\ SmallBeats'

Next == SenderActs \/ ObserverActs \/ ConsoleActs \/ InputActs \/ StartActs \/
    PaneActs \/ ScreenActs \/ BeatActs

Spec == Init /\ [][Next]_vars

\* Each component's own fairness, where the behaviour is of it.
SenderFair ==
  /\ WF_outputVars(part = "sender" /\ Sender!WindowCloses)
  /\ WF_outputVars(part = "sender" /\ Sender!TimerFires)
  /\ WF_outputVars(part = "sender" /\ Sender!Lands)
  /\ WF_outputVars(part = "sender" /\ Sender!DrainForExit)
  /\ WF_outputVars(part = "sender" /\ (Sender!Drained \/ Sender!DrainTimesOut))
  /\ WF_outputVars(part = "sender" /\ Sender!MarkerLands)

ObsFair ==
  /\ WF_observerVars(part = "observer" /\ Obs!Look)
  /\ WF_observerVars(part = "observer" /\ Obs!Settle)
  /\ WF_observerVars(part = "observer" /\ Obs!Reports)
  /\ WF_observerVars(part = "observer" /\ Obs!TakesKey)
  /\ WF_observerVars(part = "observer" /\ Obs!FrameLeaves)
  /\ SF_observerVars(part = "observer" /\ Obs!FrameLands)

ConFair ==
  /\ WF_consoleVars(part = "console" /\ Con!Repaint)
  /\ WF_consoleVars(part = "console" /\ Con!StreamComesUp)

WireFair ==
  /\ WF_wireVars(part = "input" /\ Wire!HandlePost)
  /\ \A c \in Clients :
       /\ WF_wireVars(part = "input" /\ Wire!HandleFrame(c))
       /\ WF_wireVars(part = "input" /\ Wire!PostAnswered(c))

FlowFair ==
  /\ WF_flowVars(part = "start" /\ Flow!ListReadsRoster)
  /\ WF_flowVars(part = "start" /\ Flow!ListReadsStore)
  /\ WF_flowVars(part = "start" /\ Flow!ListLands)

PaneFair ==
  /\ \A w \in PaneWorkers :
       /\ WF_paneVars(part = "panes" /\ Pane!PaneIsReady(w))
       /\ WF_paneVars(part = "panes" /\ Pane!Closes(w))
  /\ WF_paneVars(part = "panes" /\ Pane!TellTick)
  /\ WF_paneVars(part = "panes" /\ Pane!ReadingEnds)
  /\ WF_paneVars(part = "panes" /\ Pane!Lands)
  /\ WF_paneVars(part = "panes" /\ Pane!ReportIsAnswered)

ScreenFair ==
  /\ WF_screenVars(part = "screen" /\ Screen!Parse)
  /\ WF_screenVars(part = "screen" /\ Screen!TakeShot)
  /\ WF_screenVars(part = "screen" /\ Screen!BoundaryTimeout)
  /\ WF_screenVars(part = "screen" /\ (Screen!ReceiveMeta \/ Screen!ReceiveOutput \/ Screen!ReceiveShot \/ Screen!ReceiveExit))

AdsFair ==
  /\ WF_beatVars(part = "beats" /\ Ads!Beats)
  /\ \A k \in Ads!BeatSlots :
       /\ WF_beatVars(part = "beats" /\ Ads!Tells(k))
       /\ WF_beatVars(part = "beats" /\ Ads!BeatEnds(k))

-----------------------------------------------------------------------------
\* The service hears the output in order, what is dropped is the oldest and
\* is counted, and the end comes last; and what waits is posted, and an exit
\* done.
OutputIsCarried ==
  /\ [](part = "sender" => Sender!OutputIsOrdered)
  /\ (part = "sender" /\ SenderFair => Sender!OutputIsPosted)

\* Idle is only said of a screen that was read again, and no key answers a
\* question with a refusal; and the service comes to believe the state the
\* last face shows.
ScreenIsRead ==
  /\ [][part = "observer" => Obs!IdleIsConfirmed /\ Obs!AnswersNeverRefuse]_observerVars
  /\ (part = "observer" /\ ObsFair => Obs!ScreenIsTold)

\* A key reaches the worker whose screen is shown, and a choice strikes what
\* was named when it was made; and an attached operator comes to a screen
\* that can be typed at.
OperatorIsServed ==
  /\ [][part = "console" => Con!KeysReachTheShown /\ Con!ChoicesHitTheNamed /\ Con!SearchesLandThere]_consoleVars
  /\ (part = "console" /\ ConFair => Con!AttachedIsReadable)

\* What was typed lands, or is counted as forgone, while its viewer stays.
TypedIsSent == (part = "input" /\ WireFair => Wire!TypedIsSent)

\* The list's rows are of this opening, a start was startable since it was
\* chosen, and who is called running ran; and an open list is answered.
StartsAreServed ==
  /\ [](part = "start" => Flow!StartsAreHonest)
  /\ (part = "start" /\ FlowFair => Flow!ListIsAnswered)

\* A pane comes to tell its worker's word, and goes when the worker is gone.
PanesAreLookedAfter == (part = "panes" /\ PaneFair => Pane!PanesAreLookedAfter)

\* A viewer that streams is told of the terminal's end.
ExitIsTold == (part = "screen" /\ ScreenFair => Screen!ExitIsTold)

\* Where a service's bridge stands down this host is described, the doctor
\* blames a credential only where the service did, and what is said is
\* recent; and the services that are to be told and accept it are, exactly,
\* those whose bridges stand down.
HealthIsTrue ==
  /\ [](part = "beats" => Ads!HealthIsHonest)
  /\ (part = "beats" /\ AdsFair => Ads!HealthCatchesUp)

=============================================================================
