---------------------------- MODULE OutputSender ----------------------------
(***************************************************************************)
(* The ordered output of one terminal on its way to the service:           *)
(* createOutputSender (lib/plugins/aify-comms/output-sender.mjs) and the   *)
(* exit marker carryTerminal sends behind it (terminal-controls.mjs).      *)
(*                                                                         *)
(* A chunk is one unit of output, numbered in the order the process wrote  *)
(* it.  One POST is in flight at a time for a stream; what arrives         *)
(* meanwhile is coalesced, and dropped oldest first at a cap.  The marker  *)
(* goes by another call, after a wait for the queue that is bounded.       *)
(***************************************************************************)
EXTENDS Naturals, Sequences, FiniteSets, SequencesExt

CONSTANTS
    MaxChunks,  \* bound: chunks the process writes
    FlushAt,    \* FLUSH_AT_CHARS
    MaxPending  \* MAX_PENDING_CHARS

SenderSizes == FlushAt \in Nat \ {0} /\ MaxPending \in Nat /\ MaxPending > FlushAt

Marker == 0

VARIABLES
    written,  \* chunks written so far
    unsent,  \* the stream's queue
    posted,   \* the body of its POST in flight, <<>> when none
    dropped,  \* chunks dropped since the last announcement
    coalescing, \* the window since the last POST is open
    sendTimer, \* the end of that window is armed
    tracked,  \* the sender still tracks the terminal
    exit,     \* carryTerminal's exit: "no", "draining", "marking", "done"
    late,     \* the marker was announced as sent before the output had drained
    heard,    \* what the service has, in the order it got it
    lost,     \* history: chunks of POSTs that failed, each announced
    discarded \* history: chunks dropped at the cap

outputVars == <<written, unsent, posted, dropped, coalescing, sendTimer, tracked,
                exit, late, heard, lost, discarded>>

streamVars == <<unsent, posted, dropped, coalescing, sendTimer, discarded>>

OutputInit ==
    /\ written = 0 /\ unsent = <<>> /\ posted = <<>> /\ dropped = 0
    /\ coalescing = FALSE /\ sendTimer = FALSE /\ tracked = TRUE
    /\ exit = "no" /\ late = FALSE
    /\ heard = <<>> /\ lost = {} /\ discarded = {}

\* drain, up to its await: everything queued goes in one POST, and what was
\* dropped is announced with it.
DrainNow(queue) ==
    /\ posted' = queue /\ unsent' = <<>>
    /\ dropped' = 0
    /\ coalescing' = TRUE /\ sendTimer' = FALSE

\* (Mutant: a POST that settles leaves what came meanwhile to the next chunk.)
ForgetsToArm(queue) ==
    /\ unsent' = queue /\ posted' = <<>>
    /\ UNCHANGED <<dropped, coalescing, sendTimer>>

\* schedule, with no POST in flight: post now, or arm the end of the window.
SendOrArm(queue) ==
    IF queue = <<>>
    THEN unsent' = queue /\ posted' = <<>> /\ UNCHANGED <<dropped, coalescing, sendTimer>>
    ELSE IF ~coalescing \/ Len(queue) >= FlushAt
    THEN DrainNow(queue)
    ELSE /\ unsent' = queue /\ posted' = <<>> /\ sendTimer' = TRUE
         /\ UNCHANGED <<dropped, coalescing>>

\* The oldest of what waits is dropped, and counted.
Capped(queue) ==
    IF Len(queue) > MaxPending
    THEN SubSeq(queue, Len(queue) - MaxPending + 1, Len(queue)) ELSE queue

\* send: a queue the chunk would take past the size goes first; a POST in
\* flight lets the queue grow to the cap.
Send ==
    /\ exit = "no" /\ written < MaxChunks
    /\ written' = written + 1
    /\ LET chunk == written + 1
           first == posted = <<>> /\ unsent # <<>> /\ Len(unsent) + 1 > FlushAt
           queue == Append(unsent, chunk)
       IN IF first
          THEN /\ posted' = unsent /\ unsent' = <<chunk>>
               /\ dropped' = 0 /\ coalescing' = TRUE /\ sendTimer' = FALSE
               /\ UNCHANGED discarded
          ELSE IF posted # <<>>
          THEN /\ unsent' = Capped(queue)
               /\ discarded' = discarded \cup (ToSet(queue) \ ToSet(Capped(queue)))
               /\ dropped' = dropped + Len(queue) - Len(Capped(queue))
               /\ UNCHANGED <<posted, coalescing, sendTimer>>
          ELSE SendOrArm(queue) /\ UNCHANGED discarded
    /\ UNCHANGED <<tracked, exit, late, heard, lost>>

\* COALESCE_MS pass, and the timer armed for it fires.
WindowCloses ==
    /\ coalescing
    /\ coalescing' = FALSE
    /\ UNCHANGED <<written, unsent, posted, dropped, sendTimer, tracked, exit, late, heard, lost, discarded>>

TimerFires ==
    /\ sendTimer /\ ~coalescing
    /\ IF posted = <<>> /\ unsent # <<>>
       THEN DrainNow(unsent)
       ELSE sendTimer' = FALSE /\ UNCHANGED <<unsent, posted, dropped, coalescing>>
    /\ UNCHANGED <<written, tracked, exit, late, heard, lost, discarded>>

\* The POST reaches the service, or fails, which is announced.  A request that
\* times out may have reached it.
Lands ==
    /\ posted # <<>>
    /\ \/ heard' = heard \o posted /\ UNCHANGED lost
       \/ UNCHANGED heard /\ lost' = lost \cup ToSet(posted)
       \/ heard' = heard \o posted /\ lost' = lost \cup ToSet(posted)
    /\ SendOrArm(unsent)
    /\ UNCHANGED <<written, tracked, exit, late, discarded>>

\* The process exits: the wait for its output begins.
ProcessExits ==
    /\ exit = "no"
    /\ exit' = "draining"
    /\ UNCHANGED <<written, streamVars, tracked, late, heard, lost>>

\* drained: the queue does not wait out its window any more.
DrainForExit ==
    /\ exit = "draining" /\ tracked
    /\ posted = <<>> /\ unsent # <<>>
    /\ DrainNow(unsent)
    /\ UNCHANGED <<written, tracked, exit, late, heard, lost, discarded>>

\* Nothing queued and nothing in flight; the terminal is forgotten.
Drained ==
    /\ exit = "draining"
    /\ unsent = <<>> /\ posted = <<>>
    /\ exit' = "marking" /\ tracked' = FALSE
    /\ UNCHANGED <<written, streamVars, late, heard, lost>>

\* DRAIN_WAIT_MS pass with a POST unanswered: the terminal is forgotten too, but
\* the POST still holds its stream and goes on to post what is left of it.
DrainTimesOut ==
    /\ exit = "draining" /\ posted # <<>>
    /\ exit' = "marking" /\ tracked' = FALSE /\ late' = TRUE
    /\ UNCHANGED <<written, streamVars, heard, lost>>

MarkerLands ==
    /\ exit = "marking"
    /\ exit' = "done"
    /\ heard' \in {heard, Append(heard, Marker)}
    /\ UNCHANGED <<written, streamVars, tracked, late, lost>>

OutputNext ==
    \/ Send \/ WindowCloses \/ TimerFires \/ Lands
    \/ ProcessExits \/ DrainForExit \/ Drained \/ DrainTimesOut \/ MarkerLands

\* Timers fire and every request is answered or times out.
OutputFairness ==
    /\ WF_outputVars(WindowCloses) /\ WF_outputVars(TimerFires) /\ WF_outputVars(Lands)
    /\ WF_outputVars(DrainForExit) /\ WF_outputVars(Drained \/ DrainTimesOut)
    /\ WF_outputVars(MarkerLands)

OutputSpec == OutputInit /\ [][OutputNext]_outputVars /\ OutputFairness

(***************************************************************************)
(* Properties.                                                             *)
(***************************************************************************)
\* The service gets a terminal's output in the order it was written, no chunk
\* twice (output-sender.mjs: two POSTs racing land in either order).
InOrder == \A i, j \in DOMAIN heard : i < j /\ heard[i] # Marker /\ heard[j] # Marker => heard[i] < heard[j]

\* What is dropped at the cap is older than everything still to be sent.
OldestIsDropped == \A c \in discarded : \A i \in DOMAIN unsent : c < unsent[i]

\* No chunk goes missing without a word: it is at the service, on its way, in a
\* POST whose failure was announced, or dropped at the cap and counted.
Accounted ==
    1..written = (ToSet(heard) \ {Marker}) \cup ToSet(posted) \cup ToSet(unsent) \cup lost \cup discarded

\* The end is the last thing the service hears of a terminal, unless the marker
\* was announced as out of order (terminal-controls.mjs:621-628).
EndIsLast ==
    ~late => \A i \in DOMAIN heard : heard[i] = Marker => i = Len(heard) /\ unsent = <<>> /\ posted = <<>>

OutputIsOrdered == InOrder /\ OldestIsDropped /\ Accounted /\ EndIsLast

\* Every chunk leaves the host in the end, and the end is told: a POST that
\* settles, a window that closes and a wait that runs out each pass it on.
OutputIsPosted ==
    /\ unsent # <<>> ~> unsent = <<>>
    /\ exit = "draining" ~> exit = "done"

=============================================================================
