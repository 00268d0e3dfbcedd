--------------------------- MODULE ScreenObserver ---------------------------
(***************************************************************************)
(* One managed terminal's screen, watched: screen-observer.mjs, the verdict *)
(* of screen-rules.mjs and background-shell.mjs on what it shows, the       *)
(* answers of screen-answers.mjs to the folder-trust dialog, and the        *)
(* service's belief, set by a transition's report and by the liveness       *)
(* frames that repeat the current observation.                              *)
(*                                                                         *)
(* Time is not modelled: the throttle is the step from armed to reading,    *)
(* and PENDING_IDLE_CAP_MS may have passed at any confirmation after the    *)
(* first.  Nobody else types at the dialog while it shows.                  *)
(***************************************************************************)
EXTENDS Naturals, Sequences

CONSTANTS
    MaxFaces,     \* bound: times the screen changes by itself
    MaxUnread,    \* bound: reads that fail
    MaxConfirmations \* PENDING_IDLE_CONFIRMATIONS

\* What the screen shows: an agent at work; its prompt, matched by a rule that
\* marks it visible; a prompt no rule marks, or a screen no rule matches, which
\* reads as idle too; the prompt with a background shell in its footer; a
\* transcript viewer, whose rule asks for no update (so does a state that is
\* not reported); and the folder-trust dialog with its cursor on "No, exit" or
\* on "Yes".
Faces == {"work", "box", "prompt", "footer", "viewer", "no", "yes"}
NoState == "none"
Reported == {"idle", "working", "blocked", "shell"}
Dialog == {"no", "yes"}

VARIABLES
    face,      \* what the screen shows
    faces,     \* times it changed by itself
    unread,    \* reads that failed
    observed,  \* the observer's current state
    lookAt,    \* "off", "armed" (its timer is set) or "reading"
    lookAgain, \* output arrived while it read
    seen,      \* what the read in progress will bring
    confirmed, \* the hold: 0 when none, else one more than its confirmations
    telling,   \* the report in flight
    next,      \* the transition to report after it
    frame,     \* a liveness frame in flight
    believed,  \* what the service believes
    strokes,      \* typed by an answer and not yet taken by the agent
    taken,     \* the steps of the dialog this terminal has been given
    showing,   \* ScreenAnswers' #showing: the last screen read was the dialog
    refused,   \* the agent took ENTER on "No, exit" and left
    watching,  \* not disposed
    before     \* history: the last screen read that had a state to report

answerVars == <<strokes, taken, showing, refused>>
tellVars == <<telling, next, frame, believed>>
lookVars == <<lookAt, lookAgain, seen, confirmed, before>>
screenObserverVars == <<face, faces, unread, observed, watching, lookVars, tellVars, answerVars>>

\* evaluateScreen's pick for a screen: its state, whether a rule gave it,
\* whether that rule marks an idle or a blocked screen as visible, and whether
\* it asks for no update.
Evaluated(f) ==
    [state |-> CASE f = "work" -> "working" [] f \in Dialog -> "blocked" [] OTHER -> "idle",
     ruled |-> f # "prompt",
     visible |-> f = "box" \/ f \in Dialog,
     skip |-> f = "viewer"]

\* withBackgroundShell: an idle verdict a rule gave, with live work in the
\* footer, reads as "shell"; the visible mark is carried and not claimed.
Detected(f) ==
    IF Evaluated(f).state = "idle" /\ Evaluated(f).ruled /\ f = "footer"
    THEN [Evaluated(f) EXCEPT !.state = "shell"] ELSE Evaluated(f)

Settles(f) == ~Detected(f).skip /\ Detected(f).state \in Reported

ObserverInit ==
    /\ face = "work" /\ faces = 0 /\ unread = 0
    /\ observed = NoState /\ watching = TRUE
    /\ lookAt = "armed" /\ lookAgain = FALSE /\ seen = "work" /\ confirmed = 0 /\ before = NoState
    /\ telling = NoState /\ next = NoState /\ frame = NoState /\ believed = NoState
    /\ strokes = <<>> /\ taken = {} /\ showing = FALSE /\ refused = FALSE

\* wake, from output (noteOutput) or a recheck.
Wake ==
    /\ lookAt' = IF lookAt = "off" /\ watching THEN "armed" ELSE lookAt
    /\ lookAgain' = (lookAgain \/ (lookAt = "reading" /\ watching))

\* The agent draws another screen: it moves on by itself.  The dialog is shown
\* at its start and left by an answer.
Draws(f) ==
    /\ faces < MaxFaces /\ ~refused /\ face \notin Dialog /\ f # face
    /\ f = "no" => faces = 0
    /\ f # "yes"
    /\ face' = f /\ faces' = faces + 1
    /\ Wake
    /\ UNCHANGED <<unread, observed, watching, seen, confirmed, before, tellVars, answerVars>>

\* The agent takes one typed key and draws what it does.  The menu wraps.
TakesKey ==
    /\ strokes # <<>> /\ ~refused
    /\ strokes' = Tail(strokes)
    /\ face' = CASE face = "no" /\ Head(strokes) = "down" -> "yes"
                 [] face = "yes" /\ Head(strokes) = "down" -> "no"
                 [] face = "yes" /\ Head(strokes) = "enter" -> "work"
                 [] OTHER -> face
    /\ refused' = (face = "no" /\ Head(strokes) = "enter")
    /\ Wake
    /\ UNCHANGED <<faces, unread, observed, watching, seen, confirmed, before, tellVars, taken, showing>>

\* The timer fires: evaluate asks for the screen, and gets it as it is now or
\* as it has become when the answer comes.
Look ==
    /\ lookAt = "armed"
    /\ lookAt' = "reading" /\ seen' = face
    /\ UNCHANGED <<face, faces, unread, observed, watching, lookAgain, confirmed, before, tellVars, answerVars>>

\* folderTrustAnswer's step for a screen.
Step(f) == CASE f = "no" -> "down" [] f = "yes" -> "enter" [] OTHER -> "none"

\* autoConfirmSettings: a setting that is missing means on, one that cannot be
\* read means off.
Confirms(setting) == setting \in {"missing", "true"}

\* The watcher of forTerminal: each step once per terminal, while the setting
\* (read then) is on; a write the runner refuses is not repeated.
Answer(f) ==
    /\ showing' = (f \in Dialog)
    /\ \/ /\ f \in Dialog /\ Step(f) \notin taken
          /\ \E setting \in {"missing", "true", "false", "unreadable"} : Confirms(setting)
          /\ taken' = taken \cup {Step(f)}
          /\ \/ strokes' = Append(strokes, Step(f))
             \/ UNCHANGED strokes
       \/ UNCHANGED <<taken, strokes>>
    /\ UNCHANGED refused

\* send: one report in flight, and the latest transition waits for it.
Tell(state) ==
    IF telling = NoState
    THEN telling' = state /\ UNCHANGED next
    ELSE next' = state /\ UNCHANGED telling

\* settle: an idle, under either name, that nothing on screen marks.
PlainIdle(f) ==
    observed = "working" /\ Detected(f).state \in {"idle", "shell"} /\ ~Detected(f).visible

\* (Mutant: output that came while the screen was read is forgotten.)
LooksOnce(rechecks) ==
    /\ lookAt' = IF rechecks THEN "armed" ELSE "off"
    /\ lookAgain' = FALSE

\* settle's wake for the next confirmation, and the look that output asked for
\* while the read was under way.
LookOn(rechecks) ==
    /\ lookAt' = IF rechecks \/ lookAgain THEN "armed" ELSE "off"
    /\ lookAgain' = FALSE

\* The read answers, its screen is judged, and the verdict settled: held until
\* it is confirmed or the cap has passed, or published if it is new.
Settle ==
    /\ lookAt = "reading" /\ watching
    /\ seen' \in {seen, face}
    /\ Answer(seen')
    /\ before' = IF Settles(seen') THEN seen' ELSE before
    /\ \/ /\ ~Settles(seen')
          /\ LookOn(FALSE)
          /\ UNCHANGED <<observed, confirmed, telling, next>>
       \/ /\ Settles(seen') /\ PlainIdle(seen')
          /\ confirmed < MaxConfirmations
          /\ confirmed' = confirmed + 1
          /\ LookOn(TRUE)
          /\ UNCHANGED <<observed, telling, next>>
       \/ /\ Settles(seen')
          /\ PlainIdle(seen') => confirmed >= 1   \* the cap, or enough of them
          /\ confirmed' = 0
          /\ LookOn(FALSE)
          /\ observed' = Detected(seen').state
          /\ IF observed' = observed THEN UNCHANGED <<telling, next>> ELSE Tell(observed')
    /\ UNCHANGED <<face, faces, unread, watching, frame, believed>>

\* The host cannot read the screen: nothing is claimed any more.
Unread ==
    /\ lookAt = "reading" /\ watching /\ unread < MaxUnread
    /\ unread' = unread + 1
    /\ observed' = NoState /\ confirmed' = 0 /\ before' = NoState
    /\ LookOn(FALSE)
    /\ UNCHANGED <<face, faces, watching, seen, tellVars, answerVars>>

\* The report in flight reaches the service, or fails; the loop goes on.
Reports ==
    /\ telling # NoState
    /\ believed' \in {believed, telling}
    /\ telling' = IF watching THEN next ELSE NoState
    /\ next' = IF watching THEN NoState ELSE next
    /\ UNCHANGED <<face, faces, unread, observed, watching, lookVars, frame, answerVars>>

\* A liveness frame repeats the observation, and lands or is lost.
FrameLeaves ==
    /\ watching /\ observed # NoState /\ frame = NoState
    /\ frame' = observed
    /\ UNCHANGED <<face, faces, unread, observed, watching, lookVars, telling, next, believed, answerVars>>

FrameLands ==
    /\ frame # NoState
    /\ believed' = frame /\ frame' = NoState
    /\ UNCHANGED <<face, faces, unread, observed, watching, lookVars, telling, next, answerVars>>

FrameIsLost ==
    /\ frame # NoState
    /\ frame' = NoState
    /\ UNCHANGED <<face, faces, unread, observed, watching, lookVars, telling, next, believed, answerVars>>

\* The terminal is let go of; a read under way comes to nothing.
Dispose ==
    /\ watching
    /\ watching' = FALSE /\ observed' = NoState
    /\ lookAt' = "off" /\ lookAgain' = FALSE
    /\ UNCHANGED <<face, faces, unread, seen, confirmed, before, tellVars, answerVars>>

ObserverNext ==
    \/ \E f \in Faces : Draws(f)
    \/ TakesKey \/ Look \/ Settle \/ Unread
    \/ Reports \/ FrameLeaves \/ FrameLands \/ FrameIsLost \/ Dispose

\* Timers fire, reads answer and requests settle; frames are sent for as long as
\* the terminal is held, and one that keeps being sent gets through.
ObserverFairness ==
    /\ WF_screenObserverVars(Look) /\ WF_screenObserverVars(Settle)
    /\ WF_screenObserverVars(Reports) /\ WF_screenObserverVars(TakesKey)
    /\ WF_screenObserverVars(FrameLeaves) /\ SF_screenObserverVars(FrameLands)

ObserverSpec == ObserverInit /\ [][ObserverNext]_screenObserverVars /\ ObserverFairness

(***************************************************************************)
(* Properties.                                                             *)
(***************************************************************************)
\* A working agent is not called idle, under either name, on one unmarked
\* screen: the screen read before it said the same (screen-observer.mjs:94-114,
\* the gap between two tool calls is not an idle agent).
IdleIsConfirmed ==
    observed = "working" /\ observed' \in {"idle", "shell"} /\ ~Detected(seen').visible
    => before # NoState /\ Detected(before).state \in {"idle", "shell"} /\ ~Detected(before).visible

\* An answer to the dialog never makes the agent leave: ENTER does not reach
\* the menu with its cursor on "No, exit" (screen-answers.mjs:13-23).
AnswersNeverRefuse == ~refused'

ObserverIsCareful == [][IdleIsConfirmed /\ AnswersNeverRefuse]_screenObserverVars

\* While the host can read a screen that stays as it is, the service comes to
\* believe what it shows and goes on believing it, whatever order reports,
\* failures and frames came in.
ScreenIsTold ==
    \A f \in Faces :
        Settles(f) => (<>[](face = f /\ observed # NoState) => <>[](believed = Detected(f).state))

=============================================================================
