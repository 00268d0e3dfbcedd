--------------------------- MODULE ConsoleInput ---------------------------
(***************************************************************************)
(* The console's keyboard: keys.mjs routes a key by the focus, a            *)
(* ConsoleSession keeps the process list, the cursor and the menu's subject *)
(* (console-session/subjects.mjs), its PaneFollower the stream that is shown *)
(* and what the last frame of it showed, and dashboard.mjs draws, and acts  *)
(* on what a key asked for.  The start list, the pane menu and the keys     *)
(* that change columns or order are left out.                              *)
(*                                                                         *)
(* The list may be another one, in another order, at every refresh.  A      *)
(* frame may fail to be written, the window may be resized between any two  *)
(* keys, and the stream comes up, shows a notice, and fails as it likes.    *)
(***************************************************************************)
EXTENDS Naturals, Sequences, FiniteSets

CONSTANTS
    Listed,       \* agents with a process
    MaxTroubles   \* bound: frames not written, streams that fail or show a notice

\* A host runs finitely many agents.
ListedIsFinite == IsFiniteSet(Listed)

Nobody == "nobody"

VARIABLES
    view,      \* the session: focus, list, subjects, pane and start list
    onScreen,  \* what the last frame drawn shows
    acted,     \* what the last read asked for
    troubles   \* troubles so far

consoleVars == <<view, onScreen, acted, troubles>>

\* A screen nothing is known of: the last frame was not written whole.
Blank == [pane |-> Nobody, titled |-> Nobody, live |-> FALSE, cursor |-> Nobody,
          subject |-> Nobody, known |-> FALSE]
DidNothing == [kind |-> "nothing", agent |-> Nobody]

\* The lists a snapshot may bring.
Lists == UNION {{f \in [1 .. n -> Listed] : \A i, j \in 1 .. n : f[i] = f[j] => i = j} : n \in 0 .. Cardinality(Listed)}

\* initialFocus, and a session nothing has been reported to yet.
ConsoleInit ==
    /\ view = [mode |-> "dashboard", selected |-> 0, paneHidden |-> TRUE, confirming |-> "nothing",
               searching |-> FALSE, matching |-> {}, processes |-> <<>>,
               subject |-> Nobody, returnTo |-> Nobody,
               watched |-> Nobody, status |-> "none", problem |-> FALSE,
               rendered |-> FALSE, frameProblem |-> FALSE, frameStreaming |-> FALSE,
               size |-> "roomy"]
    /\ onScreen = Blank
    /\ acted = DidNothing
    /\ troubles = 0

---------------------------------------------------------------------------
\* The list under the picker's search, and the row under the cursor.
Visible(v) == IF v.searching THEN SelectSeq(v.processes, LAMBDA a : a \in v.matching) ELSE v.processes

RowOf(rows, agent) ==
    IF \E i \in DOMAIN rows : rows[i] = agent THEN CHOOSE i \in DOMAIN rows : rows[i] = agent ELSE 0

Selected(v) == IF v.selected \in DOMAIN Visible(v) THEN Visible(v)[v.selected] ELSE Nobody

\* reconcileFocus: no row keeps only the modes that need none.
Reconciled(v, n) ==
    IF n = 0
    THEN [v EXCEPT !.selected = 0,
                   !.mode = IF @ = "picker" \/ (@ = "confirm" /\ v.confirming = "shutdown")
                            THEN @ ELSE "dashboard",
                   !.confirming = IF v.mode = "confirm" /\ @ = "shutdown" THEN @ ELSE "nothing"]
    ELSE [v EXCEPT !.selected = IF @ = 0 THEN 1 ELSE IF @ > n THEN n ELSE @,
                   !.paneHidden = IF v.mode = "pty" THEN FALSE ELSE @]

\* Subjects.releaseOutside.
Released(v) == IF v.mode \in {"menu", "confirm"} THEN v ELSE [v EXCEPT !.subject = Nobody]

CanDraw(v) == v.size # "narrow"

\* PaneFollower.close.
Closed(v) == [v EXCEPT !.watched = Nobody, !.status = "none", !.problem = FALSE]

\* follow: the stream of the agent under the cursor while its pane can be read,
\* opened again a while after it failed; its readiness starts from nothing.
Followed(v) ==
    LET target == IF ~v.paneHidden /\ CanDraw(v) THEN Selected(v) ELSE Nobody
    IN IF target = v.watched /\ ~(target # Nobody /\ v.status = "due") THEN v
       ELSE IF target = Nobody THEN [Closed(v) EXCEPT !.rendered = FALSE]
       ELSE [Closed(v) EXCEPT !.rendered = FALSE, !.watched = target, !.status = "connecting"]

\* (Mutant: the cursor keeps its row number when the list changes.)
PointedByRow(v, rows, matching) ==
    [v EXCEPT !.processes = rows, !.matching = matching]

\* syncProcesses' re-pointing: a bound pane stays on its process or is left,
\* and off a pane the cursor stays on its agent.
Pointed(v, rows, matching) ==
    LET next == [v EXCEPT !.processes = rows, !.matching = matching]
        bound == v.mode = "pty" /\ v.watched # Nobody
        at == RowOf(Visible(next), IF bound THEN v.watched ELSE Selected(v))
    IN [next EXCEPT !.mode = IF bound /\ at = 0 THEN "dashboard" ELSE @,
                    !.selected = IF at # 0 THEN at ELSE @]

\* syncProcesses, as the set of the one session it leads to.
Synced(v, rows, matching) ==
    {Followed(r) : r \in {Released(Reconciled(p, Len(Visible(p)))) : p \in {Pointed(v, rows, matching)}}}

\* inputIsLive: the frame on the screen showed this process's live stream, and
\* nothing has gone wrong since.
InputIsLive(v) ==
    /\ CanDraw(v) /\ v.rendered
    /\ v.status = "streaming" /\ ~v.problem
    /\ ~v.frameProblem /\ v.frameStreaming

---------------------------------------------------------------------------
\* What a key does, by mode: the session after it, and what it asked for.
Answer(v, kind, agent) ==
    [view |-> v, acted |-> [kind |-> kind, agent |-> agent], reselects |-> FALSE]
Reselecting(answer) == [answer EXCEPT !.reselects = TRUE]
Quiet(v) == Answer(v, "nothing", Nobody)

\* move and jumpTo, then the sync that re-derives the stream: up and down wrap,
\* a digit names its row, so any row is one key away.
Moves(v) == {Reselecting(Quiet([v EXCEPT !.selected = i])) : i \in DOMAIN Visible(v)}

\* A key in an attached pane goes to the process, if the operator can see it.
Typed(v) == IF InputIsLive(v) THEN Answer(v, "typed", Selected(v)) ELSE Quiet(v)

\* handleInput's attach.  From the menu: to the agent the menu named, found in
\* the list as it is, or refused; the old pane is closed, so it binds nothing.
Attached(v) == Reselecting(Answer([v EXCEPT !.mode = "pty", !.paneHidden = FALSE], "bound", v.subject))

AttachedFromMenu(v) ==
    LET at == RowOf(v.processes, v.subject)
    IN IF at = 0
       THEN Quiet([v EXCEPT !.mode = "dashboard", !.paneHidden = FALSE, !.subject = Nobody])
       ELSE Attached(Closed([v EXCEPT !.selected = at]))

\* takeActionTarget: by identity, in the list as it is now; gone means refused.
Confirmed(v) ==
    LET done == [v EXCEPT !.mode = "dashboard", !.confirming = "nothing", !.subject = Nobody]
    IN IF v.confirming = "shutdown" THEN Answer(done, "shutdown", Nobody)
       ELSE IF RowOf(v.processes, v.subject) # 0 THEN Answer(done, "stopped", v.subject)
       ELSE Quiet(done)

\* Leaving the picker re-points the cursor by identity in the whole list.
LeftPicker(v, agent) ==
    LET whole == [v EXCEPT !.mode = "dashboard", !.searching = FALSE, !.matching = {}]
        at == RowOf(whole.processes, agent)
    IN [whole EXCEPT !.selected = IF at = 0 THEN @ ELSE at,
                     !.returnTo = IF agent = Nobody THEN @ ELSE Nobody]

\* routeKey for one key, by mode.  A control key and a name that is typed are
\* told apart by the mode they are pressed in.
PtyKey(v, key) ==
    IF key = "detach" THEN Quiet([v EXCEPT !.mode = "dashboard"]) ELSE Typed(v)

PickerKeys(v) ==
    {Reselecting(Quiet(LeftPicker(v, v.returnTo))),
     Reselecting(Answer(LeftPicker(v, IF Selected(v) # Nobody THEN Selected(v) ELSE v.returnTo),
                        "accepted", Selected(v)))}
    \cup Moves(v)
    \cup {Reselecting(Quiet([v EXCEPT !.searching = TRUE, !.matching = m])) : m \in SUBSET Listed}

ConfirmKeys(v) == {Confirmed(v), Quiet([v EXCEPT !.mode = "dashboard", !.confirming = "nothing", !.subject = Nobody])}

MenuKeys(v) ==
    {Quiet([v EXCEPT !.mode = "dashboard", !.subject = Nobody]),
     Quiet([v EXCEPT !.mode = "confirm", !.confirming = "stop"]),
     AttachedFromMenu(v)}

DashboardKeys(v) ==
    {Quiet([v EXCEPT !.mode = "confirm", !.confirming = "shutdown"]),
     Reselecting(Quiet([v EXCEPT !.paneHidden = ~@])),
     Reselecting(Quiet([v EXCEPT !.mode = "picker", !.searching = FALSE, !.returnTo = Selected(v)]))}
    \cup Moves(v)
    \cup IF v.selected = 0 THEN {}
         ELSE {Quiet([v EXCEPT !.mode = "menu", !.subject = Selected(v)]), Attached(v)}

KeyResults(v) ==
    CASE v.mode = "pty"       -> {PtyKey(v, "detach"), PtyKey(v, "key")}
      [] v.mode = "picker"    -> PickerKeys(v)
      [] v.mode = "confirm"   -> ConfirmKeys(v)
      [] v.mode = "menu"      -> MenuKeys(v)
      [] v.mode = "dashboard" -> DashboardKeys(v)

---------------------------------------------------------------------------
\* notePaneRendered: the frame's own problem and status, kept with it; a pane
\* that did not reach the screen is left.
Noted(s, drew) ==
    [s EXCEPT !.rendered = drew,
              !.frameProblem = drew /\ s.problem,
              !.frameStreaming = drew /\ s.status = "streaming",
              !.mode = IF ~drew /\ @ = "pty" THEN "dashboard" ELSE @]

PaneIsDrawn(s) == ~s.paneHidden /\ Selected(s) # Nobody /\ s.watched # Nobody /\ s.size = "roomy"

\* paint: reconcile with the list, draw, and report what reached the screen.
Paint(v, rows, matching) ==
    \E s \in Synced(v, rows, matching), written \in BOOLEAN :
        /\ written \/ troubles < MaxTroubles
        /\ troubles' = IF written THEN troubles ELSE troubles + 1
        /\ view' = Noted(s, PaneIsDrawn(s) /\ written)
        /\ onScreen' = IF ~written THEN Blank
                       ELSE [pane |-> IF PaneIsDrawn(s) THEN s.watched ELSE Nobody,
                             titled |-> IF PaneIsDrawn(s) THEN Selected(s) ELSE Nobody,
                             live |-> s.status = "streaming" /\ ~s.problem,
                             cursor |-> Selected(s), subject |-> s.subject, known |-> TRUE]

\* One key is read, routed and acted on, and the view drawn again.
Press ==
    \E r \in KeyResults(view) :
        \E v \in IF r.reselects THEN Synced(r.view, r.view.processes, r.view.matching) ELSE {r.view} :
            /\ Paint(IF ~CanDraw(v) /\ v.mode = "pty" THEN [v EXCEPT !.mode = "dashboard"] ELSE v,
                     v.processes, v.matching)
            /\ acted' = r.acted

\* A snapshot is collected and drawn: any rows, in any order, some of them
\* matching what was searched for.
Refresh ==
    /\ \E rows \in Lists, m \in IF view.searching THEN SUBSET Listed ELSE {view.matching} :
           Paint(view, rows, m)
    /\ acted' = DidNothing

\* Output arrives and the pane is drawn again; and every refresh draws.
Repaint ==
    /\ Paint(view, view.processes, view.matching)
    /\ acted' = DidNothing

\* noteViewport, then a redraw: a pane that cannot be drawn is left at once.
Resize ==
    /\ \E size \in {"narrow", "short", "roomy"} :
           \E v \in {[view EXCEPT !.size = size,
                                   !.mode = IF @ = "pty" /\ size = "narrow" THEN "dashboard" ELSE @]} :
               \E s \in Synced(v, v.processes, v.matching) : Paint(s, s.processes, s.matching)
    /\ acted' = DidNothing

\* The stream: it comes up, perhaps with a notice, shows the process, and a
\* failed one has been failed long enough to be tried again.
StreamComesUp ==
    /\ \/ /\ view.status = "connecting"
          /\ \E problem \in BOOLEAN : view' = [view EXCEPT !.status = "streaming", !.problem = problem]
       \/ /\ view.status = "streaming" /\ view.problem
          /\ view' = [view EXCEPT !.problem = FALSE]
       \/ /\ view.status = "failed"
          /\ view' = [view EXCEPT !.status = "due"]
    /\ acted' = DidNothing
    /\ UNCHANGED <<onScreen, troubles>>

StreamGoesWrong ==
    /\ view.status \in {"connecting", "streaming"} /\ troubles < MaxTroubles
    /\ \/ view' = [view EXCEPT !.status = "failed", !.problem = FALSE]
       \/ view.status = "streaming" /\ view' = [view EXCEPT !.problem = TRUE]
    /\ troubles' = troubles + 1
    /\ acted' = DidNothing
    /\ UNCHANGED onScreen

ConsoleNext ==
    \/ Press \/ Refresh \/ Repaint \/ Resize
    \/ StreamComesUp \/ StreamGoesWrong

\* The view redraws every interval, and the daemon serves the stream.
ConsoleFair == WF_consoleVars(Repaint) /\ WF_consoleVars(StreamComesUp)
ConsoleSpec == ConsoleInit /\ [][ConsoleNext]_consoleVars /\ ConsoleFair

---------------------------------------------------------------------------
\* A keystroke reaches a process only while the frame on the screen shows that
\* process's live stream under its name (inputIsLive, follow, syncProcesses).
KeysReachTheShown ==
    acted'.kind = "typed" =>
        onScreen.live /\ onScreen.pane = acted'.agent /\ onScreen.titled = acted'.agent

\* A stop, and an attach from the menu, go to the agent the menu on the screen
\* named, and a search that is accepted is for the agent it highlighted
\* (subjects.mjs).
ChoicesHitTheNamed ==
    onScreen.known =>
        /\ acted'.kind = "stopped" => acted'.agent = onScreen.subject
        /\ acted'.kind = "bound" /\ acted'.agent # Nobody /\ view'.mode = "pty"
               => view'.watched = onScreen.subject
        /\ acted'.kind = "accepted" => acted'.agent = onScreen.cursor

\* And the cursor is then on that agent in the whole list.
SearchesLandThere ==
    onScreen.known /\ acted'.kind = "accepted" /\ acted'.agent # Nobody => Selected(view') = acted'.agent

OperatorIsObeyed == [][KeysReachTheShown /\ ChoicesHitTheNamed /\ SearchesLandThere]_consoleVars

\* An attached pane becomes one that can be typed into, or is left: a stream
\* that failed is opened again, and the frame that grants input is drawn.
AttachedIsReadable == view.mode = "pty" ~> (InputIsLive(view) \/ view.mode # "pty")
=============================================================================
