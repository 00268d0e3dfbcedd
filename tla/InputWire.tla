----------------------------- MODULE InputWire -----------------------------
(***************************************************************************)
(* Keystrokes on their way to a terminal that several viewers share.       *)
(* Every attached client queues what is typed and keeps one request in     *)
(* flight (lib/input-sender.mjs); the requests go by HTTP until the local  *)
(* socket is connected (bin/aify-env-attach.mjs, lib/input-socket.mjs) and *)
(* again once it has died.  The environment hands the bytes to the process *)
(* and, before a viewer's bytes, gives the terminal back that viewer's     *)
(* size (lib/terminal-size-owner.mjs, lib/runner.mjs).                     *)
(*                                                                         *)
(* A key is its number at its client.  A request whose client stopped      *)
(* waiting may still be handled, or never.                                 *)
(***************************************************************************)
EXTENDS Naturals, FiniteSets, Sequences, SequencesExt, FiniteSetsExt

CONSTANTS Clients,     \* attached clients, each with a screen of its own
          Nameless,    \* those that send no viewer name: `aify-env tui`
          Shapes,      \* terminal sizes
          MaxViewers,  \* MAX_VIEWERS of lib/terminal-size-owner.mjs
          MaxTyped,    \* bound: keys typed in all
          MaxReshapes, \* bound: times any client's screen changes size
          MaxWireFaults \* bound: late answers, lost sockets and refused resizes

WireAssumption == Nameless \subseteq Clients /\ "unnamed" \notin Clients /\ MaxViewers \in Nat \ {0}

VARIABLES
  stay,      \* a client's stage: "attached", "detaching" or "left"
  typed,     \* keys typed at each client
  unsent,    \* InputSender._pending
  flight,    \* the keys of the request the sender waits for, <<>> for none
  link,      \* the local socket: "none", "up" or "dead"
  wire,      \* frames written to the socket and not yet handled
  posts,     \* HTTP requests under way
  forgone,   \* keys of sends that failed, and keys lost with a socket
  owned,     \* what a leaving client said: whether all had been sent
  tty,       \* the terminal: its size, the owner and the sizes on record
  landed,    \* keys the process has been given, in order, of each client
  wireFaults \* faults so far

clientVars == <<stay, typed, unsent, flight, forgone, owned>>
wireVars == <<stay, typed, unsent, flight, link, wire, posts, forgone, owned, tty, landed, wireFaults>>

Named(c) == c \notin Nameless

Keyed(c, keys) == [kind |-> "input", client |-> c, keys |-> keys]
Shaped(c, shape) == [kind |-> "resize", client |-> c, shape |-> shape]
Posted(request, n) == [request |-> request, number |-> n, state |-> "asked"]

WireInit ==
  /\ stay = [c \in Clients |-> "attached"]
  /\ typed = [c \in Clients |-> 0]
  /\ unsent = [c \in Clients |-> <<>>]
  /\ flight = [c \in Clients |-> <<>>]
  /\ link = [c \in Clients |-> "none"]
  /\ wire = [c \in Clients |-> <<>>]
  /\ posts = {}
  /\ forgone = [c \in Clients |-> {}]
  /\ owned = [c \in Clients |-> "nothing"]
  /\ tty \in {[alive |-> TRUE, shape |-> s, owner |-> c, sizes |-> <<[viewer |-> c, shape |-> s]>>,
               reshapes |-> 0] : c \in Clients \ Nameless, s \in Shapes}
  /\ landed = [c \in Clients |-> <<>>]
  /\ wireFaults = 0

----------------------------------------------------------------------------
(* The size of the terminal. *)

OnRecord(t, c) == {i \in DOMAIN t.sizes : t.sizes[i].viewer = c}

\* TerminalSizeOwner.resized: the viewer becomes the owner and the most recent
\* one on record; the least recent is forgotten past MaxViewers.
Recorded(t, c, shape) ==
  IF ~Named(c) THEN [t EXCEPT !.shape = shape, !.owner = "unnamed"]
  ELSE LET others == IF OnRecord(t, c) = {} THEN t.sizes ELSE RemoveAt(t.sizes, CHOOSE i \in OnRecord(t, c) : TRUE)
           all == Append(others, [viewer |-> c, shape |-> shape])
           kept == IF Len(all) > MaxViewers THEN Tail(all) ELSE all
       IN [t EXCEPT !.shape = shape, !.owner = c, !.sizes = kept]

\* (Mutant: whoever resized last keeps the size.)
OwedNever(t, c) == {}

\* sizeBeforeInput: the sizes the terminal must take before c's keys (one or none).
Owed(t, c) ==
  IF ~Named(c) \/ t.owner = c THEN {} ELSE {t.sizes[i].shape : i \in OnRecord(t, c)}

----------------------------------------------------------------------------
(* The environment handles a request, whichever way it came. *)

\* Runner.resize; the pseudo-terminal may refuse (`takes` FALSE).
Reshape(request, takes) ==
  /\ tty' = IF takes /\ tty.alive THEN Recorded(tty, request.client, request.shape) ELSE tty
  /\ UNCHANGED landed

\* Runner.write: the size owed is given first, and a refusal withholds the keys.
Feed(request, takes) ==
  LET c == request.client
      owed == Owed(tty, c)
      refused == ~tty.alive \/ (owed # {} /\ ~takes)
  IN IF refused THEN UNCHANGED <<tty, landed>>
     ELSE /\ tty' = IF owed = {} THEN tty ELSE Recorded(tty, c, CHOOSE s \in owed : TRUE)
          /\ landed' = [landed EXCEPT ![c] = @ \o request.keys]

Handle(request, takes) ==
  /\ wireFaults' = wireFaults + (IF takes THEN 0 ELSE 1)
  /\ IF request.kind = "input" THEN Feed(request, takes) ELSE Reshape(request, takes)

Allowed == IF wireFaults < MaxWireFaults THEN BOOLEAN ELSE {TRUE}

Took(request) == IF request.kind = "input" THEN landed'[request.client] # landed[request.client]
                 ELSE tty'.owner = request.client

----------------------------------------------------------------------------
(* The sender of one client. *)

\* InputSender._drain: a frame is sent once it is written, a request once answered.
Drain(c, keys) ==
  IF keys = <<>> THEN
    /\ flight' = [flight EXCEPT ![c] = <<>>]
    /\ unsent' = [unsent EXCEPT ![c] = <<>>]
    /\ UNCHANGED <<wire, posts>>
  ELSE IF link[c] = "up" THEN
    /\ wire' = [wire EXCEPT ![c] = Append(@, Keyed(c, keys))]
    /\ flight' = [flight EXCEPT ![c] = <<>>]
    /\ unsent' = [unsent EXCEPT ![c] = <<>>]
    /\ UNCHANGED posts
  ELSE
    /\ posts' = posts \cup {Posted(Keyed(c, keys), Head(keys))}
    /\ flight' = [flight EXCEPT ![c] = keys]
    /\ unsent' = [unsent EXCEPT ![c] = <<>>]
    /\ UNCHANGED wire

TypedInAll == MapThenSumSet(LAMBDA c : typed[c], Clients)

\* InputSender.write: queued, and sent when nothing is out.
TypeKey(c) ==
  /\ stay[c] = "attached" /\ TypedInAll < MaxTyped
  /\ typed' = [typed EXCEPT ![c] = @ + 1]
  /\ \E keys \in {Append(unsent[c], typed[c] + 1)} :
       IF flight[c] = <<>> THEN Drain(c, keys)
       ELSE unsent' = [unsent EXCEPT ![c] = keys] /\ UNCHANGED <<flight, wire, posts>>
  /\ UNCHANGED <<stay, link, forgone, owned, tty, landed, wireFaults>>

\* The environment handles a posted request; the answer is on its way.
HandlePost ==
  \E p \in posts, takes \in Allowed :
    /\ p.state \in {"asked", "late"}
    /\ Handle(p.request, takes)
    /\ posts' = (posts \ {p}) \cup
         (IF p.state = "late" \/ p.request.kind = "resize" THEN {}
          ELSE {[p EXCEPT !.state = IF Took(p.request) THEN "ok" ELSE "refused"]})
    /\ UNCHANGED <<clientVars, link, wire>>

InFlight(c) == {p \in posts : p.request.kind = "input" /\ p.request.client = c
                              /\ p.state # "late" /\ p.request.keys = flight[c]}

\* (Mutant: what was typed meanwhile waits for the next key.)
SendOnLater(c, failed, rest) ==
  /\ forgone' = IF failed THEN [forgone EXCEPT ![c] = @ \cup ToSet(flight[c])] ELSE forgone
  /\ posts' = rest
  /\ flight' = [flight EXCEPT ![c] = <<>>]
  /\ UNCHANGED <<unsent, wire>>

\* The request is over for its sender, which goes on with what was typed since.
SendOn(c, failed, rest) ==
  /\ forgone' = IF failed THEN [forgone EXCEPT ![c] = @ \cup ToSet(flight[c])] ELSE forgone
  /\ IF unsent[c] = <<>> \/ link[c] = "up" THEN
       /\ posts' = rest
       /\ wire' = IF unsent[c] = <<>> THEN wire
                  ELSE [wire EXCEPT ![c] = Append(@, Keyed(c, unsent[c]))]
       /\ flight' = [flight EXCEPT ![c] = <<>>]
     ELSE
       /\ posts' = rest \cup {Posted(Keyed(c, unsent[c]), Head(unsent[c]))}
       /\ flight' = [flight EXCEPT ![c] = unsent[c]]
       /\ UNCHANGED wire
  /\ unsent' = [unsent EXCEPT ![c] = <<>>]

PostAnswered(c) ==
  \E p \in InFlight(c) :
    /\ stay[c] # "left" /\ p.state \in {"ok", "refused"}
    /\ SendOn(c, p.state = "refused", posts \ {p})
    /\ UNCHANGED <<stay, typed, link, owned, tty, landed, wireFaults>>

\* postJson gives up after its timeout: the send failed, whatever became of it.
PostGivenUp(c) ==
  /\ stay[c] # "left" /\ wireFaults < MaxWireFaults
  /\ wireFaults' = wireFaults + 1
  /\ \E p \in InFlight(c), arrives \in BOOLEAN :
       SendOn(c, TRUE, (posts \ {p}) \cup
         (IF p.state = "asked" /\ arrives THEN {[p EXCEPT !.state = "late"]} ELSE {}))
  /\ UNCHANGED <<stay, typed, link, owned, tty, landed>>

----------------------------------------------------------------------------
(* The local socket. *)

Connect(c) ==
  /\ stay[c] = "attached" /\ Named(c) /\ link[c] = "none"
  /\ link' = [link EXCEPT ![c] = "up"]
  /\ UNCHANGED <<clientVars, wire, posts, tty, landed, wireFaults>>

FrameKeys(frame) == IF frame.kind = "input" THEN ToSet(frame.keys) ELSE {}

\* Frames nobody will read are lost, and nobody counts them.
SocketDies(c) ==
  /\ link[c] = "up" /\ wireFaults < MaxWireFaults
  /\ wireFaults' = wireFaults + 1
  /\ link' = [link EXCEPT ![c] = "dead"]
  /\ forgone' = [forgone EXCEPT ![c] = @ \cup UNION {FrameKeys(wire[c][i]) : i \in DOMAIN wire[c]}]
  /\ wire' = [wire EXCEPT ![c] = <<>>]
  /\ UNCHANGED <<stay, typed, unsent, flight, owned, posts, tty, landed>>

\* leave(): what is still queued goes with the client.
Leaves(c, said) ==
  /\ stay' = [stay EXCEPT ![c] = "left"]
  /\ owned' = [owned EXCEPT ![c] = said]
  /\ UNCHANGED <<typed, unsent, flight>>

\* One socket's frames are handled one after the other.  A 404 ends the client;
\* any other refusal is not looked at.
HandleFrame(c) ==
  \E takes \in Allowed :
    /\ wire[c] # <<>>
    /\ Handle(Head(wire[c]), takes)
    /\ wire' = [wire EXCEPT ![c] = Tail(@)]
    /\ forgone' = IF Took(Head(wire[c])) THEN forgone
                  ELSE [forgone EXCEPT ![c] = @ \cup FrameKeys(Head(wire[c]))]
    /\ IF tty.alive \/ stay[c] = "left" THEN UNCHANGED <<stay, typed, unsent, flight, owned>>
       ELSE Leaves(c, "gone")
    /\ UNCHANGED <<link, posts>>

----------------------------------------------------------------------------
(* Screens, leaving and the end of the process. *)

\* sendResize: over the socket in its place, over HTTP beside everything else.
ScreenChanges(c) ==
  /\ stay[c] = "attached" /\ Named(c) /\ tty.reshapes < MaxReshapes
  /\ \E shape \in Shapes :
       /\ tty' = [tty EXCEPT !.reshapes = @ + 1]
       /\ IF link[c] = "up" THEN wire' = [wire EXCEPT ![c] = Append(@, Shaped(c, shape))] /\ UNCHANGED posts
          ELSE posts' = posts \cup {Posted(Shaped(c, shape), tty.reshapes)} /\ UNCHANGED wire
  /\ UNCHANGED <<stay, typed, unsent, flight, link, forgone, owned, landed, wireFaults>>

\* Ctrl+] (and a quit of the view): nothing more is read.
Detach(c) ==
  /\ stay[c] = "attached"
  /\ stay' = [stay EXCEPT ![c] = "detaching"]
  /\ UNCHANGED <<typed, unsent, flight, link, wire, posts, forgone, owned, tty, landed, wireFaults>>

Busy(c) == flight[c] # <<>> \/ unsent[c] # <<>>

\* drainedWithin: all was sent, or the bound has passed with some unsent.
DetachEnds(c) ==
  /\ stay[c] = "detaching"
  /\ \E said \in {IF Busy(c) THEN "unsent" ELSE "sent"} : Leaves(c, said)
  /\ UNCHANGED <<link, wire, posts, forgone, tty, landed, wireFaults>>

ProcessEnds ==
  /\ tty.alive
  /\ tty' = [tty EXCEPT !.alive = FALSE]
  /\ UNCHANGED <<clientVars, link, wire, posts, landed, wireFaults>>

WireNext ==
  \/ \E c \in Clients :
       \/ TypeKey(c) \/ PostAnswered(c) \/ PostGivenUp(c)
       \/ Connect(c) \/ SocketDies(c) \/ HandleFrame(c)
       \/ ScreenChanges(c) \/ Detach(c) \/ DetachEnds(c)
  \/ HandlePost \/ ProcessEnds

WireFair ==
  /\ WF_wireVars(HandlePost)
  /\ \A c \in Clients : WF_wireVars(HandleFrame(c)) /\ WF_wireVars(PostAnswered(c))

WireSpec == WireInit /\ [][WireNext]_wireVars /\ WireFair

----------------------------------------------------------------------------
(* Properties *)

\* A client's keys reach the process in the order they were typed and never
\* twice, across the change from HTTP to the socket and back; only keys of a
\* send that was counted as failed may come late (lib/input-sender.mjs).
KeysInOrder ==
  \A c \in Clients :
    /\ \A i, j \in DOMAIN landed[c] : i < j /\ {landed[c][i], landed[c][j]} \cap forgone[c] = {} => landed[c][i] < landed[c][j]
    /\ IsInjective(landed[c])

\* The terminal has its owner's size, and keys of a viewer whose size is on
\* record land at that size, whoever resized last and whether or not the
\* pseudo-terminal took the resize (lib/terminal-size-owner.mjs).
KeysLandAtTheirSize ==
  \A c \in Clients :
    (Named(c) /\ landed'[c] # landed[c]) =>
      \A i \in OnRecord(tty, c) : tty'.shape = tty.sizes[i].shape

OwnersSizeIsShown == tty.owner # "unnamed" => \E i \in OnRecord(tty, tty.owner) : tty.shape = tty.sizes[i].shape

\* A client that leaves saying that all was sent leaves nothing behind: every key
\* is with the process, on the socket, or in a send it counted (bin/aify-env-attach.mjs).
LeavingIsHonest ==
  \A c \in Clients :
    owned[c] = "sent" =>
      \A k \in 1..typed[c] :
        \/ k \in ToSet(landed[c]) \cup forgone[c]
        \/ \E i \in DOMAIN wire[c] : k \in FrameKeys(wire[c][i])

InputIsOrderly == KeysInOrder /\ OwnersSizeIsShown /\ LeavingIsHonest

\* Both, of all viewers of a terminal.
KeysAtSize == []InputIsOrderly /\ [][KeysLandAtTheirSize]_wireVars

\* What is typed at a client that stays is sooner or later with the process, or
\* counted or lost with the socket: nothing stays queued (lib/input-sender.mjs).
TypedIsSent ==
  \A c \in Clients : \A k \in 1..MaxTyped :
    (typed[c] >= k) ~> (k \in ToSet(landed[c]) \cup forgone[c] \/ stay[c] # "attached")
=============================================================================
