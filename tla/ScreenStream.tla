---------------------------- MODULE ScreenStream ----------------------------
(***************************************************************************)
(* How a viewer comes to show the screen of a terminal that has been        *)
(* running for a while: the runner's retained output and geometry (lib/     *)
(* runner.mjs, runner-stream.mjs), the daemon's own copy of the screen      *)
(* (screen-checkpoint.mjs), the subscription that joins the two             *)
(* (subscribeScreen, daemon-http.mjs), the wire, and the viewer's follower  *)
(* (output-follower.mjs) with its verdict on the screen (screen-            *)
(* baseline.mjs, pane-buffer.mjs refusalReason).                            *)
(*                                                                          *)
(* A chunk of output stands for its bytes and has length one.  A screen is  *)
(* what drew it: the chunks since the last full reset, each with the width  *)
(* it was drawn at and the parser's state it met, and the resizes that      *)
(* reflowed them.  Two screens are equal when they were drawn alike.        *)
(***************************************************************************)
EXTENDS Integers, Sequences

CONSTANTS
    Kinds,          \* chunks: "text", "reset" (holds ESC c), "esc" (ends with
                    \* ESC) and "c" (begins with c)
    Widths,         \* widths of the terminal
    MaxWidth,       \* the widest a checkpoint holds
    Retained,       \* chunks the replay buffer holds
    MaxOps,         \* chunks and resizes in a behaviour
    MaxConnections  \* connections of the viewer in a behaviour

StreamAssumption ==
    /\ Kinds \subseteq {"text", "reset", "esc", "c"}
    /\ Widths \subseteq Nat \ {0} /\ MaxWidth \in Nat
    /\ Retained \in Nat \ {0} /\ MaxOps \in Nat /\ MaxConnections \in Nat

VARIABLES
    \* The terminal and its stream in the daemon.
    done,           \* every chunk and resize so far
    truth,          \* the screen after each of them, the first one blank
    exited,         \* the process ended: its terminal has no size any more
    checkpoint,     \* the daemon keeps a copy of the screen
    copy,           \* that copy
    parsed,         \* how many of the chunks and resizes it has parsed
    conn,           \* the subscription
    joined,         \* its place in the copy's queue
    held,           \* chunks and resizes held for it
    wire            \* frames on their way to the viewer

daemon == <<done, truth, exited, checkpoint, copy, parsed>>
feed == <<conn, joined, held>>

VARIABLES
    \* The viewer.
    draws,          \* its host has the emulator
    status,         \* OutputFollower.status
    meta,           \* what the first meta declared, at the latest width
    emulator,       \* the screen: none, opening or on
    pending,        \* what arrived while it opened
    applying,       \* what it has not applied yet
    drawn,          \* the screen it drew
    repainted,      \* a full reset has been applied
    carry,          \* the last byte that arrived was ESC
    printed,        \* the line buffer is not empty
    connections,
    relied          \* history: a reset inside a replay that straddles a resize

viewer == <<status, meta, emulator, pending, applying, drawn, repainted, carry,
            printed, relied>>

vars == <<daemon, feed, wire, draws, viewer, connections>>

NoMeta == [cols |-> 0, truncated |-> TRUE, resized |-> TRUE, checkpoint |-> FALSE]

Blank(cols) == [cols |-> cols, picture |-> <<>>, mid |-> FALSE]

IsChunk(op) == op.kind # "size"

\* The variables' types, and what they share: a subscription waits only for a copy
\* that exists, which never parses past its place, and nothing is kept for a screen
\* that is not opening, or scheduled for one that is not open (ScreenCheckpoint,
\* #openScreen).
ScreenTypeOK ==
    /\ exited \in BOOLEAN /\ checkpoint \in BOOLEAN /\ draws \in BOOLEAN
    /\ parsed \in 0..Len(done) /\ Len(truth) = Len(done) + 1
    /\ conn \in {"idle", "queued", "waiting", "live", "ended"}
    /\ status \in {"idle", "streaming", "exited", "failed"}
    /\ emulator \in {"none", "opening", "on"}
    /\ conn \in {"queued", "waiting"} => checkpoint /\ joined <= Len(done)
    /\ conn = "queued" => parsed <= joined
    /\ emulator # "opening" => pending = <<>>
    /\ emulator # "on" => applying = <<>>
    /\ Len(done) <= MaxOps /\ connections <= MaxConnections

Init ==
    /\ done = <<>>
    /\ \E cols \in Widths : truth = <<Blank(cols)>> /\ copy = Blank(cols)
    /\ exited = FALSE
    /\ checkpoint \in {FALSE, copy.cols <= MaxWidth}
    /\ parsed = 0
    /\ conn = "idle" /\ joined = 0 /\ held = <<>> /\ wire = <<>>
    /\ draws \in BOOLEAN
    /\ status = "idle" /\ meta = NoMeta
    /\ emulator = "none" /\ pending = <<>> /\ applying = <<>>
    /\ drawn = Blank(0)
    /\ repainted = FALSE /\ carry = FALSE /\ printed = FALSE /\ relied = FALSE
    /\ connections = 0

-----------------------------------------------------------------------------
(* Screens *)

\* What one chunk does to a screen.  A chunk that begins with c resets only
\* after an ESC; whatever the parser was in the middle of swallows part of it.
DrawChunk(screen, op) ==
    LET resets == op.kind = "reset" \/ (op.kind = "c" /\ screen.mid)
        mark == [n |-> op.n, cols |-> screen.cols,
                 mid |-> screen.mid /\ op.kind # "reset"] IN
    [cols |-> screen.cols,
     picture |-> IF resets THEN <<mark>> ELSE Append(screen.picture, mark),
     mid |-> op.kind = "esc"]

\* A resize reflows what is there.
Resize(screen, cols) ==
    [screen EXCEPT !.cols = cols,
                   !.picture = IF @ = <<>> \/ cols = screen.cols THEN @
                               ELSE Append(@, [n |-> 0, cols |-> cols, mid |-> FALSE])]

Draw(screen, op) ==
    IF IsChunk(op) THEN DrawChunk(screen, op) ELSE Resize(screen, op.cols)

\* A replay is drawn as one write.
DrawAll(screen, ops) ==
    LET after[i \in 0..Len(ops)] ==
          IF i = 0 THEN screen ELSE Draw(after[i - 1], ops[i]) IN
    after[Len(ops)]

Now == truth[Len(truth)]

(* What the runner retains: RunnerStream, #meta.  h is what has happened. *)

Chunks(h) == SelectSeq(h, IsChunk)

Buffer(h) ==
    LET n == Len(Chunks(h)) IN
    SubSeq(Chunks(h), IF n > Retained THEN n - Retained + 1 ELSE 1, n)

\* The chunks produced before the latest resize; -1 is no resize.
ResizedAt(h) ==
    LET sizes == {i \in 1..Len(h) : ~IsChunk(h[i])} IN
    IF sizes = {} THEN -1
    ELSE Len(Chunks(SubSeq(h, 1, CHOOSE i \in sizes : \A j \in sizes : j <= i)))

Meta(h, cols) ==
    [cols |-> cols,
     truncated |-> Len(Chunks(h)) > Retained,
     resized |-> ResizedAt(h) >= 0 /\ ResizedAt(h) >= Len(Chunks(h)) - Len(Buffer(h)),
     checkpoint |-> FALSE]

(* Frames on the wire: the writers of daemon-http.mjs *)

Frame(kind, m, ops, screen) == [kind |-> kind, meta |-> m, ops |-> ops, screen |-> screen]

MetaFrame(m) == Frame("meta", m, <<>>, Blank(0))
OutputFrame(op) == Frame("output", NoMeta, <<op>>, Blank(0))
ReplayFrame(ops) == Frame("replay", NoMeta, ops, Blank(0))
ShotFrame(screen) == Frame("shot", NoMeta, <<>>, screen)
ExitFrame == Frame("exit", NoMeta, <<>>, Blank(0))

EventFrame(h, op) ==
    IF IsChunk(op) THEN OutputFrame(op) ELSE MetaFrame(Meta(h, op.cols))

ReplayFrames(h, cols) ==
    <<MetaFrame(Meta(h, cols))>>
    \o IF Buffer(h) = <<>> THEN <<>> ELSE <<ReplayFrame(Buffer(h))>>

\* (Mutant: a subscriber that comes late is not told of the exit.)
ReplayUntold(h, cols, ended) == wire' = ReplayFrames(h, cols) /\ conn' = "live"

\* #attach with a replay: the meta, the buffer in one piece, and the exit of a
\* process that has ended already.
Replay(h, cols, ended) ==
    IF ended THEN wire' = Append(ReplayFrames(h, cols), ExitFrame) /\ conn' = "ended"
    ELSE wire' = ReplayFrames(h, cols) /\ conn' = "live"

\* The size of a process that has ended: none, unless its group is still held.
SizesNow == IF exited THEN {0, Now.cols} ELSE {Now.cols}

-----------------------------------------------------------------------------
(* The terminal *)

\* A chunk or a resize reaches the copy's queue and every listener at once.  A
\* screen too large for a copy ends the copy, which answers its waiters null.
Happens(op) ==
    LET h == Append(done, op)
        kept == checkpoint /\ (IsChunk(op) \/ op.cols <= MaxWidth) IN
    /\ Len(done) < MaxOps /\ ~exited
    /\ done' = h
    /\ truth' = Append(truth, Draw(Now, op))
    /\ checkpoint' = kept
    /\ \/ /\ conn = "live"
          /\ wire' = Append(wire, EventFrame(h, op)) /\ UNCHANGED feed
       \/ /\ conn \in {"queued", "waiting"} /\ kept
          /\ held' = Append(held, op) /\ UNCHANGED <<conn, joined, wire>>
       \/ /\ conn \in {"queued", "waiting"} /\ ~kept
          /\ Replay(h, Draw(Now, op).cols, FALSE) /\ held' = <<>> /\ UNCHANGED joined
       \/ /\ conn \in {"idle", "ended"}
          /\ UNCHANGED <<feed, wire>>
    /\ UNCHANGED <<exited, copy, parsed, draws, viewer, connections>>

Output == \E kind \in Kinds : Happens([kind |-> kind, n |-> Len(done) + 1, cols |-> 0])

ResizeTerminal == \E cols \in Widths :
    Happens([kind |-> "size", n |-> Len(done) + 1, cols |-> cols])

\* The process ends, and its copy with it.
Exit ==
    /\ ~exited /\ exited' = TRUE /\ checkpoint' = FALSE
    /\ \/ /\ conn = "live"
          /\ wire' = Append(wire, ExitFrame) /\ conn' = "ended" /\ UNCHANGED held
       \/ /\ conn \in {"queued", "waiting"}
          /\ \E cols \in {0, Now.cols} : Replay(done, cols, TRUE)
          /\ held' = <<>>
       \/ /\ conn \in {"idle", "ended"}
          /\ UNCHANGED <<conn, held, wire>>
    /\ UNCHANGED <<done, truth, copy, parsed, joined, draws, viewer, connections>>

-----------------------------------------------------------------------------
(* The daemon's copy and a subscription: subscribeScreen, ScreenCheckpoint *)

\* A new follower connects.  With a copy it waits its turn in the copy's queue.
Connect ==
    /\ conn = "idle" /\ status = "idle" /\ connections < MaxConnections
    /\ connections' = connections + 1 /\ status' = "streaming"
    /\ \/ /\ checkpoint
          /\ conn' = "queued" /\ joined' = Len(done) /\ held' = <<>> /\ UNCHANGED wire
       \/ /\ ~checkpoint
          /\ \E cols \in SizesNow : Replay(done, cols, exited)
          /\ UNCHANGED <<joined, held>>
    /\ UNCHANGED <<daemon, draws, meta, emulator, pending, applying, drawn, repainted,
                   carry, printed, relied>>

\* What the snapshot does not include yet.
HeldAfter(at) == SelectSeq(held, LAMBDA op : op.n > at)

\* The screen, the geometry it was taken at, and what came after it.
Deliver(screen, at) ==
    LET later == HeldAfter(at) IN
    /\ wire' = <<MetaFrame([Meta(done, screen.cols) EXCEPT !.checkpoint = TRUE]),
                 ShotFrame(screen)>>
               \o [i \in 1..Len(later) |-> EventFrame(done, later[i])]
    /\ conn' = "live" /\ held' = <<>> /\ UNCHANGED joined

\* (Mutant: a snapshot is taken in the middle of an escape sequence.)
AnyPlace(screen) == TRUE

\* #atBoundary: a serialized screen cannot say what the parser is in the middle of.
AtBoundary(screen) == ~screen.mid

\* The copy parses what is next in its queue; a chunk retries a snapshot that
\* found no boundary.  A queued snapshot has its own place there.
Parse ==
    /\ checkpoint /\ parsed < Len(done)
    /\ conn = "queued" => parsed < joined
    /\ LET op == done[parsed + 1]
           drawing == Draw(copy, op) IN
       /\ copy' = drawing /\ parsed' = parsed + 1
       /\ IF conn = "waiting" /\ IsChunk(op) /\ AtBoundary(drawing)
          THEN Deliver(drawing, parsed + 1)
          ELSE UNCHANGED <<feed, wire>>
    /\ UNCHANGED <<done, truth, exited, checkpoint, draws, viewer, connections>>

\* The snapshot's turn.
TakeShot ==
    /\ conn = "queued" /\ parsed = joined
    /\ \/ AtBoundary(copy) /\ Deliver(copy, parsed)
       \/ ~AtBoundary(copy) /\ conn' = "waiting" /\ UNCHANGED <<joined, held, wire>>
    /\ UNCHANGED <<daemon, draws, viewer, connections>>

\* BOUNDARY_WAIT_MS passed.
BoundaryTimeout ==
    /\ conn = "waiting"
    /\ Replay(done, Now.cols, FALSE) /\ held' = <<>> /\ UNCHANGED joined
    /\ UNCHANGED <<daemon, draws, viewer, connections>>

\* The connection breaks; what was on its way is lost.
Drop ==
    /\ status = "streaming"
    /\ status' = "failed" /\ conn' = "idle" /\ held' = <<>> /\ wire' = <<>>
    /\ UNCHANGED <<daemon, joined, draws, meta, emulator, pending, applying, drawn,
                   repainted, carry, printed, relied, connections>>

-----------------------------------------------------------------------------
(* The viewer: OutputFollower *)

\* The view replaces a follower that failed.
Reopen ==
    /\ status = "failed" /\ connections < MaxConnections
    /\ status' = "idle" /\ meta' = NoMeta
    /\ emulator' = "none" /\ pending' = <<>> /\ applying' = <<>> /\ drawn' = Blank(0)
    /\ repainted' = FALSE /\ carry' = FALSE /\ printed' = FALSE /\ relied' = FALSE
    /\ UNCHANGED <<daemon, feed, wire, draws, connections>>

Known == meta # NoMeta

Arrives(kinds) == status = "streaming" /\ wire # <<>> /\ Head(wire).kind \in kinds

Work(kind, ops, screen, cols, repaints) ==
    [kind |-> kind, ops |-> ops, screen |-> screen, cols |-> cols, repaints |-> repaints]

\* Something to do to the screen: in line behind everything before it, or kept
\* while the emulator opens, or of no use to anyone.
Schedule(work) ==
    /\ applying' = IF emulator = "on" THEN Append(applying, work) ELSE applying
    /\ pending' = IF emulator = "opening" THEN Append(pending, work) ELSE pending

ScheduleResize(cols) == Schedule(Work("size", <<>>, Blank(0), cols, FALSE))

\* The first meta says what the replay is worth; later ones only move the size.
ReceiveMeta ==
    /\ Arrives({"meta"})
    /\ wire' = Tail(wire)
    /\ LET m == Head(wire).meta IN
       /\ meta' = IF Known THEN [meta EXCEPT !.cols = m.cols] ELSE m
       /\ IF Known /\ meta.cols # m.cols THEN ScheduleResize(m.cols)
          ELSE UNCHANGED <<applying, pending>>
       /\ IF m.cols > 0 /\ emulator = "none" /\ draws
          THEN emulator' = "opening" /\ drawn' = Blank(m.cols)
          ELSE UNCHANGED <<emulator, drawn>>
    /\ UNCHANGED <<daemon, feed, draws, status, repainted, carry, printed, relied,
                   connections>>

\* hasFullRepaint over the carried byte and the text.
HasFullRepaint(ops) ==
    \E i \in 1..Len(ops) :
        \/ ops[i].kind = "reset"
        \/ ops[i].kind = "c" /\ IF i = 1 THEN carry ELSE ops[i - 1].kind = "esc"

ReceiveOutput ==
    /\ Arrives({"output", "replay"})
    /\ wire' = Tail(wire) /\ printed' = TRUE
    /\ LET frame == Head(wire)
           repaints == HasFullRepaint(frame.ops) IN
       /\ Schedule(Work("draw", frame.ops, Blank(0), 0, repaints))
       /\ carry' = (frame.ops[Len(frame.ops)].kind = "esc")
       /\ relied' = (relied \/ (repaints /\ frame.kind = "replay" /\ meta.resized))
    /\ UNCHANGED <<daemon, feed, draws, status, meta, emulator, drawn, repainted,
                   connections>>

\* A serialized screen is output like any other; it holds no full reset.
ReceiveShot ==
    /\ Arrives({"shot"})
    /\ wire' = Tail(wire) /\ printed' = TRUE /\ carry' = FALSE
    /\ Schedule(Work("shot", <<>>, Head(wire).screen, 0, FALSE))
    /\ UNCHANGED <<daemon, feed, draws, status, meta, emulator, drawn, repainted, relied,
                   connections>>

ReceiveExit ==
    /\ Arrives({"exit"})
    /\ wire' = Tail(wire) /\ status' = "exited"
    /\ UNCHANGED <<daemon, feed, draws, meta, emulator, pending, applying, drawn, repainted,
                   carry, printed, relied, connections>>

\* The emulator is there: it walks through what waited for it.
ScreenReady ==
    /\ emulator = "opening"
    /\ emulator' = "on" /\ applying' = pending /\ pending' = <<>>
    /\ UNCHANGED <<daemon, feed, wire, draws, status, meta, drawn, repainted, carry,
                   printed, relied, connections>>

ApplyNext ==
    /\ applying # <<>>
    /\ LET work == Head(applying) IN
       /\ drawn' = CASE work.kind = "draw" -> DrawAll(drawn, work.ops)
                      [] work.kind = "size" -> Resize(drawn, work.cols)
                      [] work.kind = "shot" -> [work.screen EXCEPT !.cols = drawn.cols, !.mid = FALSE]
       /\ repainted' = (repainted \/ work.repaints)
    /\ applying' = Tail(applying)
    /\ UNCHANGED <<daemon, feed, wire, draws, status, meta, emulator, pending, carry,
                   printed, relied, connections>>

-----------------------------------------------------------------------------
Next ==
    \/ Output \/ ResizeTerminal \/ Exit
    \/ Connect \/ Parse \/ TakeShot \/ BoundaryTimeout \/ Drop
    \/ Reopen \/ ReceiveMeta \/ ReceiveOutput \/ ReceiveShot \/ ReceiveExit
    \/ ScreenReady \/ ApplyNext

\* The copy's parser, its timer and the follower's read loop all run on; the
\* process, the operator and the network owe nothing.
Fairness ==
    /\ WF_vars(Parse) /\ WF_vars(TakeShot) /\ WF_vars(BoundaryTimeout)
    /\ WF_vars(ReceiveMeta \/ ReceiveOutput \/ ReceiveShot \/ ReceiveExit)

Spec == Init /\ [][Next]_vars /\ Fairness

-----------------------------------------------------------------------------
(* Properties *)

BaselineIsSound(m, since) ==
    since \/ m.checkpoint \/ (~m.resized /\ ~m.truncated)

\* paneProblem is empty and there is a screen to draw.
PaneShows ==
    printed /\ emulator = "on" /\ BaselineIsSound(meta, repainted)

\* A screen the pane shows, rather than a notice, is one the terminal really had
\* at some moment (or has not been drawn on yet): whatever was trimmed, resized,
\* split across frames or snapshotted on the way (baselineIsSound, subscribeScreen,
\* OutputFollower).  Left out: a reset in a replay that a resize followed.
PaneShowsARealScreen ==
    PaneShows /\ ~relied =>
        \/ drawn.picture = <<>>
        \/ \E i \in 1..Len(truth) : drawn = truth[i]

\* Once everything that was sent has been drawn, the pane shows the screen as it
\* is now: the hand-over from the snapshot to the live feed neither loses nor
\* repeats a chunk or a resize (subscribeScreen's held events).
ShowsTheLatestScreen ==
    PaneShows /\ ~relied /\ conn = "live" /\ wire = <<>> /\ applying = <<>>
        => drawn = Now

\* What baselineIsSound is documented to mean: a full repaint since the screen was
\* created makes what was lost before it irrelevant.
RepaintMakesTheScreenReal ==
    PaneShows /\ repainted =>
        \/ drawn.picture = <<>>
        \/ \E i \in 1..Len(truth) : drawn = truth[i]

\* A viewer of a process that has ended is told so, or its connection breaks:
\* whether it was replayed to, waiting for a snapshot or already live when the
\* process ended (finish, #attach, ScreenCheckpoint.dispose).
ExitIsTold == exited /\ status = "streaming" ~> status # "streaming"
=============================================================================
