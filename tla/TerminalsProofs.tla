-------------------------- MODULE TerminalsProofs --------------------------
(***************************************************************************)
(* The terminals of an environment and what runs behind them, for any       *)
(* terminals, viewers, keystrokes, panes, agents, ports and processes: one  *)
(* invariant for each of five components, preserved action by action.       *)
(*                                                                         *)
(* CommsTerminals.  A control waits in one place and a terminal has at most *)
(* one start coming, so no listener is added beside another; and an answer  *)
(* that condemns a worker stays true until the strike, or the worker has    *)
(* spoken since, or nobody is left there to strike.                        *)
(*                                                                         *)
(* InputWire.  A viewer's keys are split over what it has queued, the one   *)
(* request it awaits, the socket's frames and what has landed, each part    *)
(* older than the one before it; nothing still on its way has been forgone. *)
(*                                                                         *)
(* HerdrPanes.  While an opener holds a pane's id the pane is its worker's, *)
(* or went without the opener being told; and what another's reports under  *)
(* way would say of a claimed pane is numbered before the claim, so Herdr   *)
(* passes over it.                                                         *)
(*                                                                         *)
(* GatewayBook.  While a request is in the tenure it began in nobody else   *)
(* writes its agent's record: what it has read stands, one looks for a port *)
(* at a time, and what answers to a recorded pid and port was started for   *)
(* the lifetime the record names.                                           *)
(*                                                                         *)
(* ConsoleInput.  The stream that is followed is that of the process under  *)
(* the cursor, and what the last frame granted is withdrawn with the frame. *)
(***************************************************************************)
EXTENDS CommsTerminals, GatewayBook, HerdrPanes, InputWire, ConsoleInput, FiniteSetTheorems, SequenceTheorems, TLAPS

(***************************************************************************)
(* The terminals of one agent.                                             *)
(***************************************************************************)
Controlled == [act : {"start", "stop"}, t : Terminals]

\* The awaits the loop can be in, and what each carries.
HandShape ==
  /\ hand.at \in {"idle", "touched", "striking", "launching", "standing", "produced", "stopping"}
  /\ hand.at # "idle" => hand.t \in Terminals
  /\ hand.at \in {"striking", "produced", "stopping"} => hand.h \in Handles
  /\ hand.at = "standing" => hand.prev \in Terminals /\ hand.prev # hand.t
  /\ launch.at \in {"idle", "produced"}
  /\ launch.at = "produced" => launch.t \in Terminals /\ launch.h \in Handles

TermShape ==
  /\ TermTypeOK
  /\ ctl \in Seq(Controlled) /\ Len(ctl) <= MaxControls
  /\ claimed \in Seq(1 .. Len(ctl))
  /\ target \in [Controls -> {NoTarget} \cup (Terminals \X Handles)]
  /\ struck \in [Controls -> SUBSET Handles]
  /\ HandShape

\* The controls that are still to be carried out, the one in hand among them.
Waiting == queue \cup {claimed[i] : i \in DOMAIN claimed}
Asks(c, t) == ctl[c].act = "start" /\ ctl[c].t = t

\* A control waits in one place, a terminal has one start coming, and what is
\* in hand is the head of what was claimed.
ControlsApart ==
  /\ \A i, j \in DOMAIN claimed : claimed[i] = claimed[j] => i = j
  /\ \A i \in DOMAIN claimed : claimed[i] \notin queue
  /\ \A c, d \in Waiting, t \in Terminals : Asks(c, t) /\ Asks(d, t) => c = d
  /\ hand.at \in {"launching", "standing", "produced"} => claimed # <<>> /\ Asks(Head(claimed), hand.t)
  /\ hand.at = "stopping" => claimed # <<>>
  /\ launch.at = "produced" => \A c \in Waiting : ~ Asks(c, launch.t)

Starting(t) == (\E c \in Waiting : Asks(c, t)) \/ (launch.at = "produced" /\ launch.t = t)

ControlInv == TermShape /\ ControlsApart

\* Handles and books: one listener on a terminal, none where a start is coming,
\* and a worker between its start and its entry is in no book.
HeardOn(t) == \E h \in Handles : <<t, h>> \in listening

BookInv ==
  /\ \A t \in Terminals, h \in Handles : <<t, h>> \in listening => carrier[t] = h /\ worker[h] # "new"
  /\ \A t \in Terminals : book[t] # NoHandle => worker[book[t]] # "new"
  /\ \A t \in Terminals : Starting(t) => ~ HeardOn(t)
  /\ \A a \in {hand, launch} : a.at = "produced" =>
       worker[a.h] # "new" /\ \A t \in Terminals : book[t] # a.h /\ <<t, a.h>> \notin listening
  /\ hand.at = "produced" /\ launch.at = "produced" => hand.h # launch.h

\* An answer that condemns: the row is over still, or the worker has spoken, or
\* there is nobody to strike.
StrikeInv ==
  /\ hand.at = "touched" /\ hand.said = "over" => row[hand.t] = "over" \/ spoke[hand.t] \/ ~ HeardOn(hand.t)
  /\ hand.at = "striking" =>
       /\ worker[hand.h] # "new"
       /\ worker[hand.h] = "live" => <<hand.t, hand.h>> \in listening /\ row[hand.t] = "over"

\* What a stop control struck is what it was captured for.
StruckInv ==
  \A c \in Controls : IF target[c] = NoTarget THEN struck[c] = {} ELSE struck[c] \subseteq {target[c][2]}

TermInv == ControlInv /\ BookInv /\ LiveWorkersAreHeld /\ StrikeInv /\ StruckInv

LEMMA ClaimedIsWaiting ==
  ASSUME TermAssumption, ControlInv, claimed # <<>>
  PROVE  /\ Head(claimed) = claimed[1] /\ 1 \in DOMAIN claimed /\ Head(claimed) \in Waiting
         /\ Head(claimed) \in 1 .. Len(ctl) /\ Head(claimed) \in Controls
         /\ ctl[Head(claimed)] \in Controlled
<1>1. claimed \in Seq(1 .. Len(ctl)) /\ ctl \in Seq(Controlled) /\ Len(ctl) <= MaxControls
  BY DEF ControlInv, TermShape
<1>2. Head(claimed) = claimed[1] /\ 1 \in DOMAIN claimed
  BY <1>1
<1>3. Head(claimed) \in 1 .. Len(ctl)
  BY <1>1, <1>2
<1>4. Head(claimed) \in Controls
  BY <1>1, <1>3 DEF Controls, TermAssumption
<1>5. ctl[Head(claimed)] \in Controlled
  BY <1>1, <1>3
<1> QED BY <1>2, <1>3, <1>4, <1>5 DEF Waiting

\* A control that is reported waits nowhere.
LEMMA ReportedIs ==
  ASSUME ControlInv, claimed # <<>>, Reported, UNCHANGED <<ctl, queue, launch>>
  PROVE  /\ claimed' \in Seq(1 .. Len(ctl')) /\ ControlsApart' /\ hand' = Idle
         /\ Waiting' \subseteq Waiting /\ Head(claimed) \notin Waiting'
         /\ \A c \in Waiting' : ctl'[c] = ctl[c]
<1>1. claimed \in Seq(1 .. Len(ctl)) /\ claimed' = Tail(claimed) /\ hand' = Idle /\ UNCHANGED <<ctl, queue, launch>>
  BY DEF ControlInv, TermShape, Reported
<1>2. claimed' \in Seq(1 .. Len(ctl')) /\ Len(claimed') = Len(claimed) - 1 /\ \A i \in DOMAIN claimed' : claimed'[i] = claimed[i + 1] /\ i + 1 \in DOMAIN claimed
  BY <1>1
<1>3. Head(claimed) = claimed[1] /\ 1 \in DOMAIN claimed
  BY <1>1
<1>4. \A i \in DOMAIN claimed' : i \in Nat /\ i + 1 # 1
  BY <1>2
<1>5. Waiting' \subseteq Waiting
  BY <1>1, <1>2 DEF Waiting
<1>6. Head(claimed) \notin Waiting'
  BY <1>1, <1>2, <1>3, <1>4 DEF Waiting, ControlInv, ControlsApart
<1>7. \A i, j \in DOMAIN claimed' : claimed'[i] = claimed'[j] => i = j
  BY <1>2, <1>4 DEF ControlInv, ControlsApart
<1>8. ControlsApart'
  BY <1>1, <1>2, <1>5, <1>7 DEF ControlInv, ControlsApart, Asks, Idle
<1> QED BY <1>1, <1>2, <1>5, <1>6, <1>8

\* Handles and books.
LEMMA BookedIsAHandle ==
  ASSUME TermAssumption, TermTypeOK, NEW t \in Terminals
  PROVE  book[t] # NoHandle => book[t] \in Handles
  BY DEF TermAssumption, TermTypeOK, NoHandle, Handles

LEMMA NextIsNew ==
  ASSUME CanStart
  PROVE  NextHandle \in Handles /\ worker[NextHandle] = "new"
  BY DEF CanStart, NextHandle

\* What keeps the controls where they are, and the hand and the launch.
LEMMA ControlsStay ==
  ASSUME ControlInv, UNCHANGED <<ctl, queue, claimed, hand, launch, target, struck>>, TermTypeOK'
  PROVE  ControlInv' /\ Waiting' = Waiting
<1>1. TermShape'
  BY DEF ControlInv, TermShape, HandShape
<1>2. Waiting' = Waiting
  BY DEF Waiting
<1>3. ControlsApart'
  BY <1>2 DEF ControlInv, ControlsApart, Asks
<1> QED BY <1>1, <1>2, <1>3 DEF ControlInv

\* A step of the hand that leaves the controls alone.
LEMMA HandMoves ==
  ASSUME ControlInv, UNCHANGED <<ctl, queue, claimed, launch, target, struck>>, TermTypeOK', HandShape',
         hand'.at \in {"launching", "standing", "produced"} => claimed # <<>> /\ Asks(Head(claimed), hand'.t),
         hand'.at # "stopping"
  PROVE  ControlInv' /\ Waiting' = Waiting
<1>1. TermShape'
  BY DEF ControlInv, TermShape
<1>2. Waiting' = Waiting
  BY DEF Waiting
<1>3. ControlsApart'
  BY <1>2 DEF ControlInv, ControlsApart, Asks
<1> QED BY <1>1, <1>2, <1>3 DEF ControlInv

\* A control is settled.
LEMMA HandReports ==
  ASSUME ControlInv, claimed # <<>>, Reported, UNCHANGED <<ctl, queue, launch, target, struck>>, TermTypeOK'
  PROVE  ControlInv' /\ Waiting' \subseteq Waiting /\ Head(claimed) \notin Waiting' /\ hand' = Idle
<1>1. /\ claimed' \in Seq(1 .. Len(ctl')) /\ ControlsApart' /\ hand' = Idle
      /\ Waiting' \subseteq Waiting /\ Head(claimed) \notin Waiting'
  BY ReportedIs
<1>2. HandShape'
  BY <1>1 DEF ControlInv, TermShape, HandShape, Idle
<1>3. TermShape'
  BY <1>1, <1>2 DEF ControlInv, TermShape
<1> QED BY <1>1, <1>3 DEF ControlInv

\* The book's operations keep its types.
LEMMA ForgetTypes ==
  ASSUME TermAssumption, TermTypeOK, NEW S \in SUBSET Terminals, Forget(S)
  PROVE  /\ book' \in [Terminals -> 0 .. MaxWorkers] /\ carrier' \in [Terminals -> 0 .. MaxWorkers]
         /\ listening' \subseteq Terminals \X Handles /\ spoke' \in [Terminals -> BOOLEAN]
<1>1. book \in [Terminals -> 0 .. MaxWorkers] /\ carrier \in [Terminals -> 0 .. MaxWorkers] /\ spoke \in [Terminals -> BOOLEAN]
      /\ listening \subseteq Terminals \X Handles /\ NoHandle \in 0 .. MaxWorkers
  BY DEF TermTypeOK, TermAssumption, NoHandle
<1>2. book' \in [Terminals -> 0 .. MaxWorkers] /\ carrier' \in [Terminals -> 0 .. MaxWorkers]
  BY <1>1 DEF Forget
<1>3. spoke' \in [Terminals -> BOOLEAN]
  BY <1>1 DEF Forget
<1>4. listening' \subseteq Terminals \X Handles
  BY <1>1 DEF Forget
<1> QED BY <1>2, <1>3, <1>4

LEMMA CarryTypes ==
  ASSUME TermAssumption, TermTypeOK, NEW t \in Terminals, NEW h \in Handles, NEW S \in SUBSET Terminals, Carry(t, h, S)
  PROVE  /\ book' \in [Terminals -> 0 .. MaxWorkers] /\ carrier' \in [Terminals -> 0 .. MaxWorkers]
         /\ listening' \subseteq Terminals \X Handles /\ spoke' \in [Terminals -> BOOLEAN]
<1>1. book \in [Terminals -> 0 .. MaxWorkers] /\ carrier \in [Terminals -> 0 .. MaxWorkers] /\ spoke \in [Terminals -> BOOLEAN]
      /\ listening \subseteq Terminals \X Handles /\ NoHandle \in 0 .. MaxWorkers /\ h \in 0 .. MaxWorkers
  BY DEF TermTypeOK, TermAssumption, NoHandle, Handles
<1>2. book' \in [Terminals -> 0 .. MaxWorkers] /\ carrier' \in [Terminals -> 0 .. MaxWorkers]
  BY <1>1 DEF Carry
<1>3. spoke' \in [Terminals -> BOOLEAN]
  BY <1>1 DEF Carry
<1>4. listening' \subseteq Terminals \X Handles
  BY <1>1 DEF Carry
<1> QED BY <1>2, <1>3, <1>4

\* A start that ends with an entry in the book.
Enters(t, h) ==
  IF HasStream(h) THEN Carry(t, h, {})
  ELSE /\ book' = [book EXCEPT ![t] = h]
       /\ spoke' = [spoke EXCEPT ![t] = TRUE]
       /\ UNCHANGED <<carrier, listening>>

LEMMA EntersTypes ==
  ASSUME TermAssumption, TermTypeOK, NEW t \in Terminals, NEW h \in Handles, Enters(t, h)
  PROVE  /\ book' \in [Terminals -> 0 .. MaxWorkers] /\ carrier' \in [Terminals -> 0 .. MaxWorkers]
         /\ listening' \subseteq Terminals \X Handles /\ spoke' \in [Terminals -> BOOLEAN]
<1>1. CASE HasStream(h)
  BY <1>1, CarryTypes DEF Enters
<1>2. CASE ~ HasStream(h)
  <2>1. book' = [book EXCEPT ![t] = h] /\ spoke' = [spoke EXCEPT ![t] = TRUE] /\ carrier' = carrier /\ listening' = listening
    BY <1>2 DEF Enters
  <2>2. h \in 0 .. MaxWorkers
    BY DEF TermAssumption, Handles
  <2>3. book' \in [Terminals -> 0 .. MaxWorkers]
    BY <2>1, <2>2 DEF TermTypeOK
  <2>4. spoke' \in [Terminals -> BOOLEAN]
    BY <2>1 DEF TermTypeOK
  <2> QED BY <2>1, <2>3, <2>4 DEF TermTypeOK
<1> QED BY <1>1, <1>2

LEMMA StopTypes ==
  ASSUME TermTypeOK, NEW h, StopWorker(h)
  PROVE  worker' \in [Handles -> {"new", "live", "exited", "stopped"}]
  BY DEF TermTypeOK, StopWorker

\* A control is issued, and waits.
LEMMA IssuedWaits ==
  ASSUME TermAssumption, ControlInv, NEW act \in {"start", "stop"}, NEW t \in Terminals, Issue(act, t),
         act = "start" => Startable(t), row' \in [Terminals -> Rows],
         UNCHANGED <<worker, book, carrier, listening, spoke, target, claimed, touch, hand, launch, struck>>
  PROVE  ControlInv' /\ Waiting' = Waiting \cup {Len(ctl) + 1} /\ Waiting \subseteq 1 .. Len(ctl)
         /\ (\A c \in Waiting : ctl'[c] = ctl[c])
         /\ ctl'[Len(ctl) + 1] = [act |-> act, t |-> t]
<1>0. /\ ctl \in Seq(Controlled) /\ Len(ctl) <= MaxControls /\ claimed \in Seq(1 .. Len(ctl)) /\ queue \subseteq 1 .. Len(ctl)
      /\ Len(ctl) \in Nat /\ MaxControls \in Nat
  BY DEF ControlInv, TermShape, TermTypeOK, TermAssumption
<1>3. /\ Len(ctl) < MaxControls /\ ctl' = Append(ctl, [act |-> act, t |-> t]) /\ queue' = queue \cup {Len(ctl) + 1}
  BY DEF Issue
<1>4. /\ ctl' \in Seq(Controlled) /\ Len(ctl') = Len(ctl) + 1 /\ Len(ctl') <= MaxControls
      /\ \A c \in 1 .. Len(ctl) : ctl'[c] = ctl[c]
      /\ ctl'[Len(ctl) + 1] = [act |-> act, t |-> t]
  BY <1>0, <1>3 DEF Controlled
<1>5. /\ claimed' \in Seq(1 .. Len(ctl')) /\ queue' \subseteq 1 .. Len(ctl')
      /\ \A i \in DOMAIN claimed : claimed[i] \in 1 .. Len(ctl) /\ claimed[i] # Len(ctl) + 1
  <2>1. 1 .. Len(ctl) \subseteq 1 .. Len(ctl')
    BY <1>0, <1>4
  <2>2. \A i \in DOMAIN claimed : claimed[i] \in 1 .. Len(ctl)
    BY <1>0
  <2>3. claimed' \in Seq(1 .. Len(ctl')) /\ Len(ctl) + 1 \in 1 .. Len(ctl')
    BY <1>0, <1>4, <2>1
  <2>4. queue' \subseteq 1 .. Len(ctl')
    BY <1>0, <1>3, <2>1, <2>3
  <2>5. \A i \in DOMAIN claimed : claimed[i] # Len(ctl) + 1
    BY <1>0, <2>2
  <2> QED BY <2>2, <2>3, <2>4, <2>5
<1>6. TermTypeOK'
  <2>1. \A i \in DOMAIN ctl' : ctl'[i] \in Controlled
    BY <1>4
  <2> QED BY <1>5, <2>1 DEF ControlInv, TermShape, TermTypeOK, Controlled
<1>7. TermShape'
  BY <1>4, <1>5, <1>6 DEF ControlInv, TermShape, HandShape
<1>8. Waiting' = Waiting \cup {Len(ctl) + 1} /\ Waiting \subseteq 1 .. Len(ctl)
  BY <1>0, <1>3, <1>5 DEF Waiting
<1>9. /\ \A c \in Waiting : ctl'[c] = ctl[c]
      /\ Len(ctl) + 1 \notin Waiting
  BY <1>0, <1>4, <1>8
<1>10. act = "start" => /\ \A c \in Waiting : ~ Asks(c, t)
                        /\ launch.at = "produced" => launch.t # t
  BY DEF Startable, Waiting, Asks
<1>11. \A c, d \in Waiting' : \A u \in Terminals :
          (ctl'[c].act = "start" /\ ctl'[c].t = u) /\ (ctl'[d].act = "start" /\ ctl'[d].t = u) => c = d
  <2> SUFFICES ASSUME NEW c \in Waiting', NEW d \in Waiting', NEW u \in Terminals,
                      ctl'[c].act = "start", ctl'[c].t = u, ctl'[d].act = "start", ctl'[d].t = u
               PROVE  c = d
    OBVIOUS
  <2>1. CASE c \in Waiting /\ d \in Waiting
    BY <1>9, <2>1 DEF ControlInv, ControlsApart, Asks
  <2>2. CASE c = Len(ctl) + 1 /\ d \in Waiting
    BY <1>4, <1>9, <1>10, <2>2 DEF Asks
  <2>3. CASE d = Len(ctl) + 1 /\ c \in Waiting
    BY <1>4, <1>9, <1>10, <2>3 DEF Asks
  <2> QED BY <1>8, <2>1, <2>2, <2>3
<1>12. \A i \in DOMAIN claimed' : claimed'[i] \notin queue'
  BY <1>3, <1>5 DEF ControlInv, ControlsApart
<1>13. hand'.at \in {"launching", "standing", "produced"} =>
         claimed' # <<>> /\ ctl'[Head(claimed')].act = "start" /\ ctl'[Head(claimed')].t = hand'.t
  BY <1>9, ClaimedIsWaiting DEF ControlInv, ControlsApart, Asks
<1>14. launch'.at = "produced" => \A c \in Waiting' : ~ (ctl'[c].act = "start" /\ ctl'[c].t = launch'.t)
  <2>1. \A c \in Waiting : ctl'[c] = ctl[c]
    BY <1>9
  <2>2. launch'.at = "produced" => \A c \in Waiting : ~ (ctl[c].act = "start" /\ ctl[c].t = launch'.t)
    BY DEF ControlInv, ControlsApart, Asks
  <2>3. launch'.at = "produced" => ~ (ctl'[Len(ctl) + 1].act = "start" /\ ctl'[Len(ctl) + 1].t = launch'.t)
    BY <1>4, <1>10
  <2> QED BY <1>8, <2>1, <2>2, <2>3
<1>15. ControlsApart'
  BY <1>11, <1>12, <1>13, <1>14 DEF ControlInv, ControlsApart, Asks
<1> QED BY <1>4, <1>7, <1>8, <1>9, <1>15 DEF ControlInv

\* A stop that is delivered again waits again, and asks for no start.
LEMMA ReplayWaits ==
  ASSUME TermAssumption, ControlInv, NEW c \in Controls, Replay(c)
  PROVE  ControlInv' /\ Waiting' = Waiting \cup {c} /\ (\A u : ~ Asks(c, u)) /\ ctl' = ctl
<1>0. /\ claimed \in Seq(1 .. Len(ctl)) /\ queue \subseteq 1 .. Len(ctl)
  BY DEF ControlInv, TermShape, TermTypeOK
<1>1. c \in 1 .. Len(ctl) /\ ctl[c].act = "stop" /\ queue' = queue \cup {c} /\ (\A i \in 1 .. Len(claimed) : claimed[i] # c)
      /\ UNCHANGED <<row, ctl, worker, book, carrier, listening, spoke, target, claimed, touch, hand, launch, struck>>
  BY DEF Replay, bookVars, passVars
<1>2. TermTypeOK'
  BY <1>0, <1>1 DEF ControlInv, TermShape, TermTypeOK
<1>3. TermShape'
  BY <1>1, <1>2 DEF ControlInv, TermShape, HandShape
<1>4. Waiting' = Waiting \cup {c} /\ (\A u : ~ Asks(c, u))
  BY <1>1 DEF Waiting, Asks
<1>5. \A i \in DOMAIN claimed' : claimed'[i] \notin queue'
  BY <1>0, <1>1 DEF ControlInv, ControlsApart
<1>6. \A d, e \in Waiting', t \in Terminals :
        (ctl'[d].act = "start" /\ ctl'[d].t = t) /\ (ctl'[e].act = "start" /\ ctl'[e].t = t) => d = e
  BY <1>1, <1>4 DEF ControlInv, ControlsApart, Asks
<1>7. launch'.at = "produced" => \A d \in Waiting' : ~ (ctl'[d].act = "start" /\ ctl'[d].t = launch'.t)
  BY <1>1, <1>4 DEF ControlInv, ControlsApart, Asks
<1>8. ControlsApart'
  BY <1>1, <1>5, <1>6, <1>7 DEF ControlInv, ControlsApart, Asks
<1> QED BY <1>1, <1>3, <1>4, <1>8 DEF ControlInv

\* The launch of the lifecycle loop moves.
LEMMA LaunchMoves ==
  ASSUME ControlInv, UNCHANGED <<ctl, queue, claimed, hand, target, struck>>, TermTypeOK', HandShape',
         launch'.at = "produced" => \A c \in Waiting : ~ Asks(c, launch'.t)
  PROVE  ControlInv' /\ Waiting' = Waiting
<1>1. TermShape'
  BY DEF ControlInv, TermShape
<1>2. Waiting' = Waiting
  BY DEF Waiting
<1>3. ControlsApart'
  BY <1>2 DEF ControlInv, ControlsApart, Asks
<1> QED BY <1>1, <1>2, <1>3 DEF ControlInv

\* No start comes that was not coming.
LEMMA StartsShrink ==
  ASSUME Waiting' \subseteq Waiting, \A c \in Waiting' : ctl'[c] = ctl[c], launch' = launch \/ launch' = Idle
  PROVE  \A u : Starting(u)' => Starting(u)
  BY DEF Starting, Asks, Idle

\* What the workers do leaves the controls where they are.
LEMMA WorkersKeepControls ==
  ASSUME TermAssumption, ControlInv,
         (\E t \in Terminals : GiveUp(t) \/ Hush(t))
         \/ (\E h \in Handles : Speak(h) \/ Exit(h) \/ LateExit(h) \/ StopElsewhere(h))
  PROVE  ControlInv' /\ \A u : Starting(u)' => Starting(u)
<1>0. TermTypeOK /\ UNCHANGED <<ctl, queue, claimed, touch, hand, launch, target, struck>>
  BY DEF ControlInv, TermShape, GiveUp, Hush, Speak, Exit, LateExit, StopElsewhere, bookVars, passVars, serviceVars
<1>1. ASSUME NEW t \in Terminals, GiveUp(t) PROVE TermTypeOK'
  BY <1>0, <1>1 DEF GiveUp, bookVars, passVars, TermTypeOK, Rows
<1>2. ASSUME NEW t \in Terminals, Hush(t) PROVE TermTypeOK'
  BY <1>0, <1>2 DEF Hush, serviceVars, passVars, TermTypeOK
<1>3. ASSUME NEW h \in Handles, Speak(h) PROVE TermTypeOK'
  BY <1>0, <1>3 DEF Speak, serviceVars, passVars, TermTypeOK
<1>4. ASSUME NEW h \in Handles, Exit(h) \/ LateExit(h) PROVE TermTypeOK'
  <2>1. Forget({t \in Terminals : <<t, h>> \in listening}) /\ UNCHANGED row
        /\ worker' \in [Handles -> {"new", "live", "exited", "stopped"}]
    BY <1>0, <1>4 DEF Exit, LateExit, TellExit, serviceVars, TermTypeOK
  <2> DEFINE S == {t \in Terminals : <<t, h>> \in listening}
  <2>2. S \in SUBSET Terminals
    OBVIOUS
  <2>3. /\ book' \in [Terminals -> 0 .. MaxWorkers] /\ carrier' \in [Terminals -> 0 .. MaxWorkers]
        /\ listening' \subseteq Terminals \X Handles /\ spoke' \in [Terminals -> BOOLEAN]
    BY <1>0, <2>1, <2>2, ForgetTypes
  <2> QED BY <1>0, <2>1, <2>3 DEF TermTypeOK
<1>5. ASSUME NEW h \in Handles, StopElsewhere(h) PROVE TermTypeOK'
  BY <1>0, <1>5, StopTypes DEF StopElsewhere, bookVars, serviceVars, passVars, TermTypeOK
<1>6. TermTypeOK'
  BY <1>1, <1>2, <1>3, <1>4, <1>5
<1>7. ControlInv' /\ Waiting' = Waiting
  BY <1>0, <1>6, ControlsStay
<1> QED BY <1>0, <1>7, StartsShrink

\* A pass begins with what was queued, each control once.
LEMMA BeginKeepsControls ==
  ASSUME TermAssumption, ControlInv, BeginPass
  PROVE  ControlInv' /\ \A u : Starting(u)' => Starting(u)
<1>0. /\ claimed = <<>> /\ hand = Idle /\ queue' = {} /\ touch' = HeldTerminals /\ queue \subseteq 1 .. Len(ctl)
      /\ UNCHANGED <<row, ctl, worker, book, carrier, listening, spoke, target, hand, launch, struck>>
      /\ Len(ctl) \in Nat
  BY DEF BeginPass, bookVars, ControlInv, TermShape, TermTypeOK
<1>1. Cardinality(queue) \in Nat
  <2>1. IsFiniteSet(1 .. Len(ctl))
    BY <1>0, FS_Interval
  <2>2. IsFiniteSet(queue)
    BY <1>0, <2>1, FS_Subset
  <2> QED BY <2>2, FS_CardinalityType
<1>2. PICK order \in [1 .. Cardinality(queue) -> queue] :
        (\A i, j \in DOMAIN order : i < j => order[i] < order[j]) /\ claimed' = order
  BY DEF BeginPass
<1>3. claimed' \in Seq(1 .. Len(ctl')) /\ DOMAIN claimed' = 1 .. Cardinality(queue) /\ \A i \in DOMAIN claimed' : claimed'[i] \in queue
  <2>1. claimed' \in [1 .. Cardinality(queue) -> 1 .. Len(ctl)]
    BY <1>0, <1>2
  <2>2. claimed' \in Seq(1 .. Len(ctl))
    BY <1>1, <2>1
  <2> QED BY <1>0, <1>2, <2>1, <2>2
<1>4. Waiting' \subseteq Waiting
  BY <1>0, <1>3 DEF Waiting
<1>5. \A i, j \in DOMAIN claimed' : claimed'[i] = claimed'[j] => i = j
  <2> SUFFICES ASSUME NEW i \in DOMAIN claimed', NEW j \in DOMAIN claimed', i < j PROVE claimed'[i] # claimed'[j]
    BY <1>1, <1>3
  <2>1. claimed'[i] < claimed'[j]
    BY <1>2
  <2>2. claimed'[i] \in queue /\ claimed'[j] \in queue
    BY <1>3
  <2>3. claimed'[i] \in 1 .. Len(ctl) /\ claimed'[j] \in 1 .. Len(ctl)
    BY <1>0, <2>2
  <2> QED BY <1>0, <2>1, <2>3
<1>6. TermTypeOK'
  BY <1>0 DEF ControlInv, TermShape, TermTypeOK, HeldTerminals
<1>7. TermShape'
  BY <1>0, <1>3, <1>6 DEF ControlInv, TermShape, HandShape
<1>8. \A c, d \in Waiting', t \in Terminals :
        (ctl'[c].act = "start" /\ ctl'[c].t = t) /\ (ctl'[d].act = "start" /\ ctl'[d].t = t) => c = d
  BY <1>0, <1>4 DEF ControlInv, ControlsApart, Asks
<1>9. launch'.at = "produced" => \A c \in Waiting' : ~ (ctl'[c].act = "start" /\ ctl'[c].t = launch'.t)
  BY <1>0, <1>4 DEF ControlInv, ControlsApart, Asks
<1>10. ControlsApart'
  BY <1>0, <1>5, <1>8, <1>9 DEF ControlsApart, Asks, Idle
<1>11. ControlInv'
  BY <1>7, <1>10 DEF ControlInv
<1> QED BY <1>0, <1>4, <1>11, StartsShrink

\* The loop's hand moves on: nothing is settled yet.
LEMMA HandKeepsControls ==
  ASSUME TermAssumption, ControlInv,
         (\E t \in Terminals : Touch(t)) \/ TouchAnswered \/ OrphanStopped \/ TakeStart \/ AskStanding \/ Produce
  PROVE  ControlInv' /\ \A u : Starting(u)' => Starting(u)
<1>0. TermTypeOK /\ HandShape /\ UNCHANGED <<row, ctl, queue, claimed, launch, target, struck>>
  BY DEF ControlInv, TermShape, Touch, TouchAnswered, OrphanStopped, TakeStart, AskStanding, Produce, bookVars, passVars, serviceVars
<1> DEFINE Right == /\ TermTypeOK' /\ HandShape'
                    /\ hand'.at \in {"launching", "standing", "produced"} => claimed # <<>> /\ Asks(Head(claimed), hand'.t)
                    /\ hand'.at # "stopping"
<1>1. ASSUME NEW t \in Terminals, Touch(t) PROVE Right
  <2>1. PICK said : hand' = [at |-> "touched", t |-> t, said |-> said]
    BY <1>1 DEF Touch
  <2>2. TermTypeOK'
    BY <1>0, <1>1 DEF Touch, bookVars, serviceVars, TermTypeOK
  <2> QED BY <1>0, <2>1, <2>2 DEF HandShape
<1>2. ASSUME TouchAnswered PROVE Right
  <2>1. hand.t \in Terminals /\ UNCHANGED <<worker, book, carrier, listening, spoke, touch>>
    BY <1>0, <1>2 DEF TouchAnswered, HandShape, bookVars, passVars
  <2>2. hand' = Idle \/ (book[hand.t] # NoHandle /\ hand' = [at |-> "striking", t |-> hand.t, h |-> book[hand.t]])
    BY <1>2 DEF TouchAnswered
  <2>3. TermTypeOK'
    BY <1>0, <2>1 DEF TermTypeOK
  <2> QED BY <1>0, <2>1, <2>2, <2>3, BookedIsAHandle DEF HandShape, Idle
<1>3. ASSUME OrphanStopped PROVE Right
  <2>1. hand.t \in Terminals /\ hand' = Idle /\ UNCHANGED touch
    BY <1>0, <1>3 DEF OrphanStopped, HandShape, passVars
  <2>2. worker' \in [Handles -> {"new", "live", "exited", "stopped"}]
    BY <1>0, <1>3, StopTypes DEF OrphanStopped, TermTypeOK
  <2>3. /\ book' \in [Terminals -> 0 .. MaxWorkers] /\ carrier' \in [Terminals -> 0 .. MaxWorkers]
        /\ listening' \subseteq Terminals \X Handles /\ spoke' \in [Terminals -> BOOLEAN]
    <3>1. {hand.t} \in SUBSET Terminals
      BY <2>1
    <3>2. Forget({hand.t}) \/ UNCHANGED bookVars
      BY <1>3 DEF OrphanStopped
    <3> QED BY <1>0, <3>1, <3>2, ForgetTypes DEF bookVars, TermTypeOK
  <2> QED BY <1>0, <2>1, <2>2, <2>3 DEF HandShape, Idle, TermTypeOK
<1>4. ASSUME TakeStart PROVE Right
  <2>1. claimed # <<>> /\ hand' = [at |-> "launching", t |-> ctl[Head(claimed)].t] /\ ctl[Head(claimed)].act = "start"
        /\ UNCHANGED <<worker, book, carrier, listening, spoke, touch>>
    BY <1>4 DEF TakeStart, Taking, bookVars, passVars
  <2>2. ctl[Head(claimed)].t \in Terminals
    BY <2>1, ClaimedIsWaiting DEF Controlled
  <2> QED BY <1>0, <2>1, <2>2 DEF HandShape, TermTypeOK, Asks
<1>5. ASSUME AskStanding PROVE Right
  <2>1. PICK prev \in OtherTerminals(hand.t) : \E said : hand' = [at |-> "standing", t |-> hand.t, prev |-> prev, said |-> said]
    BY <1>5 DEF AskStanding
  <2>2. hand.at = "launching" /\ prev \in Terminals /\ prev # hand.t /\ hand.t \in Terminals
        /\ UNCHANGED <<worker, book, carrier, listening, spoke, touch>>
    BY <1>0, <1>5 DEF AskStanding, OtherTerminals, HandShape, bookVars, passVars
  <2> QED BY <1>0, <2>1, <2>2 DEF HandShape, TermTypeOK, ControlInv, ControlsApart
<1>6. ASSUME Produce PROVE Right
  <2>1. hand.at = "launching" /\ hand.t \in Terminals /\ NextHandle \in Handles /\ hand' = [at |-> "produced", t |-> hand.t, h |-> NextHandle]
        /\ worker' = [worker EXCEPT ![NextHandle] = "live"] /\ UNCHANGED <<book, carrier, listening, spoke, touch>>
    BY <1>0, <1>6, NextIsNew DEF Produce, HandShape, bookVars, passVars
  <2>2. TermTypeOK'
    BY <1>0, <2>1 DEF TermTypeOK
  <2> QED BY <1>0, <2>1, <2>2 DEF HandShape, ControlInv, ControlsApart
<1>7. Right
  BY <1>1, <1>2, <1>3, <1>4, <1>5, <1>6
<1>8. ControlInv' /\ Waiting' = Waiting
  BY <1>0, <1>7, HandMoves
<1> QED BY <1>0, <1>8, StartsShrink

\* The control in hand is claimed.
LEMMA InHandIsClaimed ==
  ASSUME ControlInv, hand.at \in {"launching", "standing", "produced", "stopping"}
  PROVE  claimed # <<>> /\ hand.t \in Terminals
         /\ (hand.at # "stopping" => Head(claimed) \in Waiting /\ Asks(Head(claimed), hand.t))
<1>1. claimed # <<>> /\ hand.t \in Terminals /\ (hand.at # "stopping" => Asks(Head(claimed), hand.t))
  BY DEF ControlInv, ControlsApart, TermShape, HandShape
<1>2. Head(claimed) = claimed[1] /\ 1 \in DOMAIN claimed
  BY <1>1 DEF ControlInv, TermShape
<1> QED BY <1>1, <1>2 DEF Waiting

\* What settles a control keeps the types.
LEMMA AdoptTypes ==
  ASSUME TermAssumption, TermTypeOK, HandShape, Adopt
  PROVE  TermTypeOK'
<1>1. hand.t \in Terminals /\ hand.prev \in Terminals /\ {hand.prev} \in SUBSET Terminals /\ {hand.prev, hand.t} \in SUBSET Terminals
      /\ UNCHANGED <<row, ctl, queue, worker, touch>>
  BY DEF Adopt, HandShape, serviceVars
<1>2. /\ book' \in [Terminals -> 0 .. MaxWorkers] /\ carrier' \in [Terminals -> 0 .. MaxWorkers]
      /\ listening' \subseteq Terminals \X Handles /\ spoke' \in [Terminals -> BOOLEAN]
  <2>1. CASE HasStream(book[hand.prev])
    <3>1. book[hand.prev] \in Handles
      BY <1>1, <2>1, BookedIsAHandle DEF HasStream
    <3>2. Carry(hand.t, book[hand.prev], {hand.prev})
      BY <2>1 DEF Adopt
    <3> QED BY <1>1, <3>1, <3>2, CarryTypes
  <2>2. CASE ~ HasStream(book[hand.prev])
    BY <1>1, <2>2, ForgetTypes DEF Adopt
  <2> QED BY <2>1, <2>2
<1> QED BY <1>1, <1>2 DEF TermTypeOK

LEMMA StoppedTypes ==
  ASSUME TermAssumption, TermTypeOK, HandShape, Stopped
  PROVE  TermTypeOK'
<1>1. hand.t \in Terminals /\ hand.h \in Handles /\ {hand.t} \in SUBSET Terminals /\ UNCHANGED <<ctl, queue, touch>>
  BY DEF Stopped, HandShape
<1>2. row' \in [Terminals -> Rows]
  BY <1>1 DEF Stopped, TermTypeOK, Rows
<1>3. worker' \in [Handles -> {"new", "live", "exited", "stopped"}]
  BY StopTypes DEF Stopped, TermTypeOK
<1>4. Forget({hand.t}) \/ UNCHANGED bookVars
  BY DEF Stopped
<1>5. /\ book' \in [Terminals -> 0 .. MaxWorkers] /\ carrier' \in [Terminals -> 0 .. MaxWorkers]
      /\ listening' \subseteq Terminals \X Handles /\ spoke' \in [Terminals -> BOOLEAN]
  BY <1>1, <1>4, ForgetTypes DEF bookVars, TermTypeOK
<1> QED BY <1>1, <1>2, <1>3, <1>5 DEF TermTypeOK

\* A control is settled: its start is no longer coming.
LEMMA ReportKeepsControls ==
  ASSUME TermAssumption, ControlInv, LaunchRefused \/ RefuseSecond \/ Adopt \/ Complete \/ RefuseStop \/ Stopped
  PROVE  /\ ControlInv' /\ hand' = Idle
         /\ \A u : Starting(u)' => Starting(u)
         /\ Adopt \/ Complete => \A u : u = hand.t => ~ Starting(u)'
<1>1. TermTypeOK /\ HandShape
  BY DEF ControlInv, TermShape
<1>2. claimed # <<>>
  BY InHandIsClaimed DEF LaunchRefused, RefuseSecond, Adopt, Complete, RefuseStop, Stopped, Taking
<1>3. Reported /\ UNCHANGED <<ctl, queue, touch, launch, target, struck>>
  BY DEF LaunchRefused, RefuseSecond, Adopt, Complete, RefuseStop, Stopped, serviceVars
<1>4. CASE LaunchRefused \/ RefuseSecond \/ RefuseStop
  <2>1. UNCHANGED <<row, worker, book, carrier, listening, spoke>>
    BY <1>4 DEF LaunchRefused, RefuseSecond, RefuseStop, serviceVars, bookVars
  <2>2. TermTypeOK'
    BY <1>1, <1>3, <2>1 DEF TermTypeOK
  <2> QED BY <1>2, <1>3, <1>4, <2>2, HandReports, StartsShrink DEF LaunchRefused, RefuseSecond, RefuseStop, Adopt, Complete, Taking, Idle
<1>5. CASE Adopt \/ Complete \/ Stopped
  <2>1. ASSUME Complete PROVE TermTypeOK'
    <3>1. hand.t \in Terminals /\ hand.h \in Handles /\ Enters(hand.t, hand.h) /\ UNCHANGED <<row, worker>>
      BY <1>1, <2>1 DEF Complete, HandShape, Enters, serviceVars
    <3>2. /\ book' \in [Terminals -> 0 .. MaxWorkers] /\ carrier' \in [Terminals -> 0 .. MaxWorkers]
          /\ listening' \subseteq Terminals \X Handles /\ spoke' \in [Terminals -> BOOLEAN]
      BY <1>1, <3>1, EntersTypes
    <3> QED BY <1>1, <1>3, <3>1, <3>2 DEF TermTypeOK
  <2>2. TermTypeOK'
    BY <1>1, <1>5, <2>1, AdoptTypes, StoppedTypes
  <2>3. ControlInv' /\ hand' = Idle /\ Waiting' \subseteq Waiting /\ Head(claimed) \notin Waiting'
    BY <1>2, <1>3, <2>2, HandReports
  <2>4. \A u : Starting(u)' => Starting(u)
    BY <1>3, <2>3, StartsShrink
  <2>5. ASSUME Adopt \/ Complete PROVE \A c \in Waiting' : ~ Asks(c, hand.t)
    <3>1. Head(claimed) \in Waiting /\ Asks(Head(claimed), hand.t) /\ hand.t \in Terminals
      BY <2>5, InHandIsClaimed DEF Adopt, Complete
    <3> QED BY <2>3, <3>1 DEF ControlInv, ControlsApart
  <2>6. ASSUME Adopt \/ Complete PROVE \A u : u = hand.t => ~ Starting(u)'
    <3>1. Asks(Head(claimed), hand.t) /\ Head(claimed) \in Waiting
      BY <2>6, InHandIsClaimed DEF Adopt, Complete
    <3>2. ~ (launch'.at = "produced" /\ launch'.t = hand.t)
      BY <1>3, <3>1 DEF ControlInv, ControlsApart
    <3>3. \A c \in Waiting' : ~ (ctl'[c].act = "start" /\ ctl'[c].t = hand.t)
      BY <1>3, <2>5, <2>6 DEF Asks
    <3> QED BY <3>2, <3>3 DEF Starting, Asks
  <2> QED BY <2>3, <2>4, <2>6
<1> QED BY <1>4, <1>5

\* A stop is taken: what it was captured for is bound, and is what is struck.
LEMMA TakeStopKeepsControls ==
  ASSUME TermAssumption, ControlInv, TakeStop
  PROVE  ControlInv' /\ \A u : Starting(u)' => Starting(u)
<1>1. /\ TermTypeOK /\ HandShape /\ claimed # <<>> /\ UNCHANGED <<row, ctl, queue, worker, book, carrier, listening, spoke, claimed, touch, launch>>
  BY DEF ControlInv, TermShape, TakeStop, Taking, serviceVars, bookVars, passVars
<1>2. Head(claimed) \in Controls /\ ctl[Head(claimed)].t \in Terminals /\ book[ctl[Head(claimed)].t] # NoHandle
  BY <1>1, ClaimedIsWaiting DEF TakeStop, Captures, Controlled
<1>3. book[ctl[Head(claimed)].t] \in Handles
  BY <1>1, <1>2, BookedIsAHandle
<1>4. /\ target' = [target EXCEPT ![Head(claimed)] = <<ctl[Head(claimed)].t, book[ctl[Head(claimed)].t]>>]
      /\ hand' = [at |-> "stopping", t |-> ctl[Head(claimed)].t, h |-> book[ctl[Head(claimed)].t]]
      /\ struck' = [struck EXCEPT ![Head(claimed)] = @ \cup {book[ctl[Head(claimed)].t]}]
  BY DEF TakeStop
<1>5. target' \in [Controls -> {NoTarget} \cup (Terminals \X Handles)] /\ struck' \in [Controls -> SUBSET Handles]
  BY <1>2, <1>3, <1>4 DEF ControlInv, TermShape
<1>6. HandShape'
  BY <1>1, <1>2, <1>3, <1>4 DEF HandShape
<1>7. TermShape'
  BY <1>1, <1>5, <1>6 DEF ControlInv, TermShape, TermTypeOK
<1>8. Waiting' = Waiting
  BY <1>1 DEF Waiting
<1>9. ControlsApart'
  BY <1>1, <1>4, <1>8 DEF ControlInv, ControlsApart, Asks
<1> QED BY <1>1, <1>7, <1>8, <1>9, StartsShrink DEF ControlInv

\* The lifecycle loop's launch: the terminal it takes has no start coming.
LEMMA LaunchKeepsControls ==
  ASSUME TermAssumption, ControlInv, (\E t \in Terminals : LifecycleProduce(t)) \/ LifecycleCarry
  PROVE  /\ ControlInv' /\ Waiting' = Waiting /\ ctl' = ctl
         /\ LifecycleCarry => \A u : u = launch.t => ~ Starting(u)'
<1>1. TermTypeOK /\ HandShape /\ UNCHANGED <<ctl, queue, claimed, touch, hand, target, struck>>
  BY DEF ControlInv, TermShape, LifecycleProduce, LifecycleCarry, serviceVars, passVars
<1>2. ASSUME NEW t \in Terminals, LifecycleProduce(t) PROVE ControlInv' /\ Waiting' = Waiting
  <2>1. /\ NextHandle \in Handles /\ launch' = [at |-> "produced", t |-> t, h |-> NextHandle]
        /\ worker' = [worker EXCEPT ![NextHandle] = "live"] /\ row' = [row EXCEPT ![t] = "live"]
        /\ UNCHANGED <<book, carrier, listening, spoke>>
    BY <1>2, NextIsNew DEF LifecycleProduce, bookVars
  <2>2. TermTypeOK'
    BY <1>1, <2>1 DEF TermTypeOK, Rows
  <2>3. HandShape'
    BY <1>1, <2>1 DEF HandShape
  <2>4. \A c \in Waiting : ~ Asks(c, t)
    BY <1>2 DEF LifecycleProduce, Startable, Waiting, Asks
  <2> QED BY <1>1, <2>1, <2>2, <2>3, <2>4, LaunchMoves
<1>3. ASSUME LifecycleCarry PROVE ControlInv' /\ Waiting' = Waiting /\ launch' = Idle
  <2>1. launch.t \in Terminals /\ launch.h \in Handles /\ Enters(launch.t, launch.h) /\ UNCHANGED <<row, worker>> /\ launch' = Idle
    BY <1>1, <1>3 DEF LifecycleCarry, HandShape, Enters, serviceVars
  <2>2. /\ book' \in [Terminals -> 0 .. MaxWorkers] /\ carrier' \in [Terminals -> 0 .. MaxWorkers]
        /\ listening' \subseteq Terminals \X Handles /\ spoke' \in [Terminals -> BOOLEAN]
    BY <1>1, <2>1, EntersTypes
  <2>3. TermTypeOK'
    BY <1>1, <2>1, <2>2 DEF TermTypeOK
  <2>4. HandShape'
    BY <1>1, <2>1 DEF HandShape, Idle
  <2> QED BY <1>1, <2>1, <2>3, <2>4, LaunchMoves DEF Idle
<1>4. ASSUME LifecycleCarry PROVE \A u : u = launch.t => ~ Starting(u)'
  <2>1. \A c \in Waiting' : ~ (ctl'[c].act = "start" /\ ctl'[c].t = launch.t)
    BY <1>1, <1>3, <1>4 DEF LifecycleCarry, ControlInv, ControlsApart, Asks
  <2> QED BY <1>3, <1>4, <2>1 DEF Starting, Asks, Idle
<1> QED BY <1>1, <1>2, <1>3, <1>4

(***************************************************************************)
(* The book of handles.                                                    *)
(***************************************************************************)
Holds(t, h) ==
  /\ book[t] = h /\ <<t, h>> \in listening
  /\ \A u \in Terminals : (book[u] = h => u = t) /\ (<<u, h>> \in listening => u = t)

LEMMA HeldIs == LiveWorkersAreHeld <=> \A h \in Handles : worker[h] = "live" /\ h \notin InStart => \E t \in Terminals : Holds(t, h)
<1>1. ASSUME NEW t \in Terminals, NEW h \in Handles
      PROVE  ({u \in Terminals : book[u] = h} = {t} /\ {u \in Terminals : <<u, h>> \in listening} = {t}) <=> Holds(t, h)
  BY DEF Holds
<1> QED BY <1>1 DEF LiveWorkersAreHeld

LEMMA HeldWillBe ==
  ASSUME \A h \in Handles : worker'[h] = "live" /\ h \notin InStart' => \E t \in Terminals : Holds(t, h)'
  PROVE  LiveWorkersAreHeld'
<1>1. ASSUME NEW t \in Terminals, NEW h \in Handles, Holds(t, h)'
      PROVE  {u \in Terminals : book'[u] = h} = {t} /\ {u \in Terminals : <<u, h>> \in listening'} = {t}
  <2>1. book'[t] = h /\ \A u \in Terminals : book'[u] = h => u = t
    BY <1>1 DEF Holds
  <2>2. <<t, h>> \in listening' /\ \A u \in Terminals : <<u, h>> \in listening' => u = t
    BY <1>1 DEF Holds
  <2>3. {u \in Terminals : book'[u] = h} = {t}
    BY <2>1
  <2>4. {u \in Terminals : <<u, h>> \in listening'} = {t}
    BY <2>2
  <2> QED BY <2>3, <2>4
<1> QED BY <1>1 DEF LiveWorkersAreHeld

LEMMA InStartIs == \A h : h \in InStart <=> (hand.at = "produced" /\ hand.h = h) \/ (launch.at = "produced" /\ launch.h = h)
  BY DEF InStart

\* What forgetting and carrying do, terminal by terminal.
LEMMA ForgetIs ==
  ASSUME BookInv, NEW S \in SUBSET Terminals, Forget(S)
  PROVE  /\ \A t \in Terminals : book'[t] = IF t \in S THEN NoHandle ELSE book[t]
         /\ \A t \in Terminals : carrier'[t] = IF t \in S THEN NoHandle ELSE carrier[t]
         /\ \A t \in Terminals : spoke'[t] = (t \notin S /\ spoke[t])
         /\ \A t \in Terminals, h \in Handles : <<t, h>> \in listening' <=> <<t, h>> \in listening /\ t \notin S
<1>1. ASSUME NEW t \in Terminals, NEW h \in Handles
      PROVE  <<t, h>> \in listening' <=> <<t, h>> \in listening /\ t \notin S
  <2>1. listening' = listening \ {<<u, carrier[u]>> : u \in S}
    BY DEF Forget
  <2>2. <<t, h>> \in listening => carrier[t] = h
    BY DEF BookInv
  <2> QED BY <2>1, <2>2
<1> QED BY <1>1 DEF Forget

LEMMA CarryIs ==
  ASSUME BookInv, NEW S \in SUBSET Terminals, NEW t \in Terminals, NEW h \in Handles, Carry(t, h, S)
  PROVE  /\ \A u \in Terminals : book'[u] = IF u = t THEN h ELSE IF u \in S THEN NoHandle ELSE book[u]
         /\ \A u \in Terminals : carrier'[u] = IF u = t THEN h ELSE IF u \in S THEN NoHandle ELSE carrier[u]
         /\ \A u \in Terminals : spoke'[u] = (u = t \/ (u \notin S /\ spoke[u]))
         /\ \A u \in Terminals, g \in Handles :
              <<u, g>> \in listening' <=> (u = t /\ g = h) \/ (<<u, g>> \in listening /\ u \notin S)
<1>1. ASSUME NEW u \in Terminals, NEW g \in Handles
      PROVE  <<u, g>> \in listening' <=> (u = t /\ g = h) \/ (<<u, g>> \in listening /\ u \notin S)
  <2>1. listening' = (listening \ {<<v, carrier[v]>> : v \in S}) \cup {<<t, h>>}
    BY DEF Carry
  <2>2. <<u, g>> \in listening => carrier[u] = g
    BY DEF BookInv
  <2> QED BY <2>1, <2>2
<1> QED BY <1>1 DEF Carry

LEMMA CarryAlone ==
  ASSUME BookInv, NEW t \in Terminals, NEW h \in Handles, Carry(t, h, {})
  PROVE  /\ \A u \in Terminals : spoke'[u] = (u = t \/ spoke[u])
         /\ \A u \in Terminals, g \in Handles : <<u, g>> \in listening' <=> (u = t /\ g = h) \/ <<u, g>> \in listening
<1> DEFINE S == {}
<1>1. S \in SUBSET Terminals /\ Carry(t, h, S) /\ \A u : u \notin S
  OBVIOUS
<1> HIDE DEF S
<1>2. \A u \in Terminals : spoke'[u] = (u = t \/ (u \notin S /\ spoke[u]))
  BY <1>1, CarryIs
<1>3. \A u \in Terminals, g \in Handles : <<u, g>> \in listening' <=> (u = t /\ g = h) \/ (<<u, g>> \in listening /\ u \notin S)
  BY <1>1, CarryIs
<1> QED BY <1>1, <1>2, <1>3

\* Nothing moves in the book.
LEMMA QuietKeepsBook ==
  ASSUME BookInv, LiveWorkersAreHeld, UNCHANGED <<worker, book, carrier, listening, launch>>,
         hand' = hand \/ (hand.at # "produced" /\ hand'.at # "produced"),
         \A u \in Terminals : Starting(u)' => Starting(u) \/ ~ HeardOn(u)
  PROVE  BookInv' /\ LiveWorkersAreHeld'
<1>1. \A a : a \in {hand', launch'} /\ a.at = "produced" => a \in {hand, launch}
  OBVIOUS
<1>2. InStart' = InStart
  BY DEF InStart
<1>3. \A u \in Terminals : Starting(u)' => ~ HeardOn(u)'
  BY DEF BookInv, HeardOn
<1>4. BookInv'
  BY <1>1, <1>3 DEF BookInv
<1> QED BY <1>2, <1>4 DEF LiveWorkersAreHeld

\* Workers end and entries go, none of them the entry of a worker that runs.
LEMMA EndingKeepsBook ==
  ASSUME TermAssumption, TermTypeOK, BookInv, LiveWorkersAreHeld, NEW S \in SUBSET Terminals, Forget(S) \/ UNCHANGED <<book, carrier, listening>>,
         \A h \in Handles : (worker'[h] = "live" => worker[h] = "live") /\ (worker'[h] = "new" <=> worker[h] = "new"),
         Forget(S) => \A u \in S, h \in Handles : worker'[h] = "live" /\ <<u, h>> \in listening => book[u] # h,
         hand' = hand \/ (hand.at # "produced" /\ hand'.at # "produced"), launch' = launch, HandShape,
         \A u \in Terminals : Starting(u)' => Starting(u)
  PROVE  BookInv' /\ LiveWorkersAreHeld'
<1>1. /\ \A t \in Terminals : book'[t] = NoHandle \/ book'[t] = book[t]
      /\ \A t \in Terminals, h \in Handles : <<t, h>> \in listening' => <<t, h>> \in listening /\ carrier'[t] = carrier[t]
      /\ \A h \in Handles, t \in Terminals : worker'[h] = "live" /\ <<t, h>> \in listening /\ book[t] = h => <<t, h>> \in listening' /\ book'[t] = h
  BY ForgetIs
<1>2. \A t \in Terminals : book[t] # NoHandle => book[t] \in Handles
  BY BookedIsAHandle
<1>3. \A a : a \in {hand', launch'} /\ a.at = "produced" => a \in {hand, launch} /\ a.h \in Handles
  BY DEF HandShape
<1>4. InStart' = InStart
  BY DEF InStart
<1>5. BookInv'
  <2>1. \A t \in Terminals, h \in Handles : <<t, h>> \in listening' => carrier'[t] = h /\ worker'[h] # "new"
    BY <1>1 DEF BookInv
  <2>2. \A t \in Terminals : book'[t] # NoHandle => worker'[book'[t]] # "new"
    BY <1>1, <1>2 DEF BookInv
  <2>3. \A u \in Terminals : Starting(u)' => ~ HeardOn(u)'
    BY <1>1 DEF BookInv, HeardOn
  <2>4. \A a \in {hand', launch'} : a.at = "produced" =>
          worker'[a.h] # "new" /\ \A t \in Terminals : book'[t] # a.h /\ <<t, a.h>> \notin listening'
    <3> SUFFICES ASSUME NEW a \in {hand', launch'}, a.at = "produced"
                 PROVE  worker'[a.h] # "new" /\ \A t \in Terminals : book'[t] # a.h /\ <<t, a.h>> \notin listening'
      OBVIOUS
    <3>1. a \in {hand, launch} /\ a.h \in Handles /\ a.h # NoHandle
      BY <1>3 DEF Handles, NoHandle, TermAssumption
    <3> QED BY <1>1, <3>1 DEF BookInv
  <2>5. hand'.at = "produced" /\ launch'.at = "produced" => hand'.h # launch'.h
    BY DEF BookInv
  <2> QED BY <2>1, <2>2, <2>3, <2>4, <2>5 DEF BookInv
<1>6. LiveWorkersAreHeld'
  <2> SUFFICES ASSUME NEW h \in Handles, worker'[h] = "live", h \notin InStart'
               PROVE  \E t \in Terminals : Holds(t, h)'
    BY HeldWillBe
  <2>1. PICK t \in Terminals : Holds(t, h)
    BY <1>4, HeldIs
  <2>2. h # NoHandle
    BY DEF Handles, NoHandle, TermAssumption
  <2>3. book'[t] = h /\ <<t, h>> \in listening'
    BY <1>1, <2>1 DEF Holds
  <2>4. \A u \in Terminals : (book'[u] = h => u = t) /\ (<<u, h>> \in listening' => u = t)
    BY <1>1, <2>1, <2>2 DEF Holds
  <2> QED BY <2>3, <2>4 DEF Holds
<1> QED BY <1>5, <1>6

\* A worker is made and waits for its entry.
LEMMA MakingKeepsBook ==
  ASSUME TermAssumption, TermTypeOK, BookInv, LiveWorkersAreHeld, HandShape, CanStart, worker' = [worker EXCEPT ![NextHandle] = "live"],
         UNCHANGED <<book, carrier, listening>>,
         \/ hand.at # "produced" /\ hand'.at = "produced" /\ hand'.h = NextHandle /\ launch' = launch
         \/ launch.at # "produced" /\ launch'.at = "produced" /\ launch'.h = NextHandle /\ hand' = hand,
         \A u \in Terminals : Starting(u)' => Starting(u) \/ ~ HeardOn(u)
  PROVE  BookInv' /\ LiveWorkersAreHeld'
<1>1. NextHandle \in Handles /\ worker[NextHandle] = "new" /\ worker'[NextHandle] = "live"
      /\ \A h \in Handles : h # NextHandle => worker'[h] = worker[h]
  BY NextIsNew DEF TermTypeOK
<1>2. \A t \in Terminals : book[t] # NoHandle => book[t] \in Handles
  BY BookedIsAHandle
<1>3. /\ \A t \in Terminals : book[t] # NextHandle /\ <<t, NextHandle>> \notin listening
      /\ \A a \in {hand, launch} : a.at = "produced" => a.h # NextHandle
  BY <1>1, <1>2 DEF BookInv, Handles, NoHandle, TermAssumption
<1>4. \A a \in {hand', launch'} : a.at = "produced" => a.h = NextHandle \/ (a \in {hand, launch} /\ a.h \in Handles)
  BY DEF HandShape
<1>5. BookInv'
  <2>1. \A t \in Terminals, h \in Handles : <<t, h>> \in listening' => carrier'[t] = h /\ worker'[h] # "new"
    BY <1>1, <1>3 DEF BookInv
  <2>2. \A t \in Terminals : book'[t] # NoHandle => worker'[book'[t]] # "new"
    BY <1>1, <1>2 DEF BookInv
  <2>3. \A u \in Terminals : Starting(u)' => ~ HeardOn(u)'
    BY DEF BookInv, HeardOn
  <2>4. \A a \in {hand', launch'} : a.at = "produced" =>
          worker'[a.h] # "new" /\ \A t \in Terminals : book'[t] # a.h /\ <<t, a.h>> \notin listening'
    BY <1>1, <1>3, <1>4 DEF BookInv
  <2>5. hand'.at = "produced" /\ launch'.at = "produced" => hand'.h # launch'.h
    BY <1>3
  <2> QED BY <2>1, <2>2, <2>3, <2>4, <2>5 DEF BookInv
<1>6. LiveWorkersAreHeld'
  <2> SUFFICES ASSUME NEW h \in Handles, worker'[h] = "live", h \notin InStart'
               PROVE  \E t \in Terminals : Holds(t, h)'
    BY HeldWillBe
  <2>1. h # NextHandle /\ h \notin InStart
    BY InStartIs DEF InStart
  <2>2. PICK t \in Terminals : Holds(t, h)
    BY <1>1, <2>1, HeldIs
  <2> QED BY <2>2 DEF Holds
<1> QED BY <1>5, <1>6

\* An entry is made: for a start that has come, its terminal was heard nowhere;
\* the worker is the start's own, or the one that is taken from another terminal.
LEMMA EnteringKeepsBook ==
  ASSUME TermAssumption, TermTypeOK, BookInv, LiveWorkersAreHeld, HandShape, worker' = worker,
         NEW t \in Terminals, NEW h \in Handles, NEW S \in SUBSET Terminals, t \notin S, ~ HeardOn(t), worker[h] # "new",
         Carry(t, h, S) \/ (worker[h] # "live" /\ S = {} /\ book' = [book EXCEPT ![t] = h] /\ UNCHANGED <<carrier, listening>>),
         \A u \in Terminals : u \in S => book[u] = h,
         \A u \in Terminals : worker[h] = "live" /\ u # t /\ (book[u] = h \/ <<u, h>> \in listening) => u \in S,
         \A u \in Terminals : Starting(u)' => Starting(u) /\ u # t,
         \A a \in {hand', launch'} : a.at = "produced" => a \in {hand, launch} /\ a.h # h,
         \A a \in {hand, launch} : a.at = "produced" => a \in {hand', launch'} \/ a.h = h,
         hand'.at = "produced" /\ launch'.at = "produced" => hand' = hand /\ launch' = launch
  PROVE  BookInv' /\ LiveWorkersAreHeld'
<1>1. \A u \in Terminals : book'[u] = IF u = t THEN h ELSE IF u \in S THEN NoHandle ELSE book[u]
  BY CarryIs DEF TermTypeOK
<1>2. \A u \in Terminals : \A g \in Handles : <<u, g>> \in listening' => (u = t /\ g = h) \/ (<<u, g>> \in listening /\ u \notin S)
  BY CarryIs
<1>3. \A u \in Terminals : \A g \in Handles : <<u, g>> \in listening /\ u \notin S => <<u, g>> \in listening'
  BY CarryIs
<1>4. worker[h] = "live" => <<t, h>> \in listening'
  BY CarryIs
<1>5. \A u \in Terminals, g \in Handles : <<u, g>> \in listening' => carrier'[u] = g
  <2> SUFFICES ASSUME NEW u \in Terminals, NEW g \in Handles, <<u, g>> \in listening' PROVE carrier'[u] = g
    OBVIOUS
  <2>1. CASE Carry(t, h, S)
    BY <2>1, CarryIs DEF BookInv, HeardOn
  <2>2. CASE UNCHANGED <<carrier, listening>>
    BY <2>2 DEF BookInv
  <2> QED BY <2>1, <2>2
<1>6. \A u \in Terminals : book[u] # NoHandle => book[u] \in Handles
  BY BookedIsAHandle
<1>7. h # NoHandle
  BY DEF Handles, NoHandle, TermAssumption
<1>8. BookInv'
  <2>1. \A u \in Terminals, g \in Handles : <<u, g>> \in listening' => carrier'[u] = g /\ worker'[g] # "new"
    BY <1>2, <1>5 DEF BookInv
  <2>2. \A u \in Terminals : book'[u] # NoHandle => worker'[book'[u]] # "new"
    BY <1>1, <1>6 DEF BookInv
  <2>3. \A u \in Terminals : Starting(u)' => ~ HeardOn(u)'
    BY <1>2 DEF BookInv, HeardOn
  <2>4. \A a \in {hand', launch'} : a.at = "produced" =>
          worker'[a.h] # "new" /\ \A u \in Terminals : book'[u] # a.h /\ <<u, a.h>> \notin listening'
    <3> SUFFICES ASSUME NEW a \in {hand', launch'}, a.at = "produced", NEW u \in Terminals
                 PROVE  worker'[a.h] # "new" /\ book'[u] # a.h /\ <<u, a.h>> \notin listening'
      OBVIOUS
    <3>1. a \in {hand, launch} /\ a.h # h
      OBVIOUS
    <3>2. a.h \in Handles /\ a.h # NoHandle
      BY <3>1 DEF HandShape, Handles, NoHandle, TermAssumption
    <3>3. worker[a.h] # "new" /\ book[u] # a.h /\ <<u, a.h>> \notin listening
      BY <3>1 DEF BookInv
    <3> QED BY <1>1, <1>2, <3>1, <3>2, <3>3
  <2>5. hand'.at = "produced" /\ launch'.at = "produced" => hand'.h # launch'.h
    BY DEF BookInv
  <2> QED BY <2>1, <2>2, <2>3, <2>4, <2>5 DEF BookInv
<1>9. LiveWorkersAreHeld'
  <2> SUFFICES ASSUME NEW g \in Handles, worker'[g] = "live", g \notin InStart'
               PROVE  \E u \in Terminals : Holds(u, g)'
    BY HeldWillBe
  <2>1. CASE g = h
    <3>1. book'[t] = g /\ <<t, g>> \in listening'
      BY <1>1, <1>4, <2>1
    <3>2. \A u \in Terminals : (book'[u] = g => u = t) /\ (<<u, g>> \in listening' => u = t)
      BY <1>1, <1>2, <1>7, <2>1
    <3> QED BY <3>1, <3>2 DEF Holds
  <2>2. CASE g # h
    <3>1. g \notin InStart
      BY <2>2 DEF InStart
    <3>2. PICK u \in Terminals : Holds(u, g)
      BY <3>1, HeldIs
    <3>3. u # t /\ u \notin S /\ g # NoHandle
      BY <2>2, <3>2 DEF Holds, HeardOn, Handles, NoHandle, TermAssumption
    <3>4. book'[u] = g /\ <<u, g>> \in listening'
      BY <1>1, <1>3, <3>2, <3>3 DEF Holds
    <3>5. \A v \in Terminals : (book'[v] = g => v = u) /\ (<<v, g>> \in listening' => v = u)
      BY <1>1, <1>2, <2>2, <3>2, <3>3 DEF Holds
    <3> QED BY <3>4, <3>5 DEF Holds
  <2> QED BY <2>1, <2>2
<1> QED BY <1>8, <1>9

\* The book and the workers in it, step by step.
LEMMA ServiceStep ==
  ASSUME TermAssumption, TermInv, (\E t \in Terminals : AskStart(t) \/ AskStop(t)) \/ (\E c \in Controls : Replay(c))
  PROVE  ControlInv' /\ BookInv' /\ LiveWorkersAreHeld'
<1>1. ControlInv /\ BookInv /\ LiveWorkersAreHeld
  BY DEF TermInv
<1>2. UNCHANGED <<worker, book, carrier, listening, launch, hand>>
  BY DEF AskStart, AskStop, Replay, bookVars
<1>3. ASSUME NEW t \in Terminals, AskStart(t) \/ AskStop(t)
      PROVE  ControlInv' /\ \A u \in Terminals : Starting(u)' => Starting(u) \/ ~ HeardOn(u)
  <2>1. PICK act \in {"start", "stop"} : Issue(act, t) /\ (act = "start" => Startable(t))
    BY <1>3 DEF AskStart, AskStop
  <2>2. UNCHANGED <<worker, book, carrier, listening, spoke, target, claimed, touch, hand, launch, struck>>
        /\ row' \in [Terminals -> Rows]
    BY <1>1, <1>3 DEF AskStart, AskStop, bookVars, passVars, Rows, ControlInv, TermShape, TermTypeOK
  <2>3. ControlInv' /\ Waiting' = Waiting \cup {Len(ctl) + 1} /\ (\A c \in Waiting : ctl'[c] = ctl[c])
        /\ ctl'[Len(ctl) + 1] = [act |-> act, t |-> t]
    BY <1>1, <2>1, <2>2, IssuedWaits
  <2>4. act = "start" => ~ HeardOn(t)
    BY <2>1 DEF Startable, HeardOn
  <2>5. ASSUME NEW u \in Terminals, Starting(u)' PROVE Starting(u) \/ ~ HeardOn(u)
    <3>1. CASE launch'.at = "produced" /\ launch'.t = u
      BY <2>2, <3>1 DEF Starting
    <3>2. CASE \E c \in Waiting' : ctl'[c].act = "start" /\ ctl'[c].t = u
      <4>1. PICK c \in Waiting' : ctl'[c].act = "start" /\ ctl'[c].t = u
        BY <3>2
      <4>2. CASE c \in Waiting
        BY <2>3, <4>1, <4>2 DEF Starting, Asks
      <4>3. CASE c = Len(ctl) + 1
        BY <2>3, <2>4, <4>1, <4>3
      <4> QED BY <2>3, <4>2, <4>3
    <3> QED BY <2>5, <3>1, <3>2 DEF Starting, Asks
  <2> QED BY <2>3, <2>5
<1>4. ASSUME NEW c \in Controls, Replay(c)
      PROVE  ControlInv' /\ \A u \in Terminals : Starting(u)' => Starting(u) \/ ~ HeardOn(u)
  <2>1. ControlInv' /\ Waiting' = Waiting \cup {c} /\ (\A u : ~ Asks(c, u)) /\ ctl' = ctl
    BY <1>1, <1>4, ReplayWaits
  <2>2. \A u : (\E d \in Waiting' : ctl'[d].act = "start" /\ ctl'[d].t = u) => (\E d \in Waiting : ctl[d].act = "start" /\ ctl[d].t = u)
    BY <2>1 DEF Asks
  <2> QED BY <1>2, <2>1, <2>2 DEF Starting, Asks
<1>5. ControlInv' /\ \A u \in Terminals : Starting(u)' => Starting(u) \/ ~ HeardOn(u)
  BY <1>3, <1>4
<1> QED BY <1>1, <1>2, <1>5, QuietKeepsBook

LEMMA WorkerStep ==
  ASSUME TermAssumption, TermInv,
         (\E t \in Terminals : GiveUp(t) \/ Hush(t))
         \/ (\E h \in Handles : Speak(h) \/ Exit(h) \/ LateExit(h) \/ StopElsewhere(h))
  PROVE  ControlInv' /\ BookInv' /\ LiveWorkersAreHeld'
<1>1. ControlInv /\ BookInv /\ LiveWorkersAreHeld /\ TermTypeOK /\ HandShape
  BY DEF TermInv, ControlInv, TermShape
<1>2. ControlInv' /\ \A u : Starting(u)' => Starting(u)
  BY <1>1, WorkersKeepControls
<1>3. UNCHANGED <<hand, launch>>
  BY DEF GiveUp, Hush, Speak, Exit, LateExit, StopElsewhere
<1>4. CASE (\E t \in Terminals : GiveUp(t) \/ Hush(t)) \/ \E h \in Handles : Speak(h)
  <2>1. UNCHANGED <<worker, book, carrier, listening>>
    BY <1>4 DEF GiveUp, Hush, Speak, bookVars
  <2> QED BY <1>1, <1>2, <1>3, <2>1, QuietKeepsBook
<1>5. ASSUME NEW h \in Handles, Exit(h) \/ LateExit(h) PROVE BookInv' /\ LiveWorkersAreHeld'
  <2> DEFINE S == {t \in Terminals : <<t, h>> \in listening}
  <2>1. Forget(S) /\ S \in SUBSET Terminals
    BY <1>5 DEF Exit, LateExit, TellExit
  <2>2. \A g \in Handles : (worker'[g] = "live" => worker[g] = "live" /\ g # h) /\ (worker'[g] = "new" <=> worker[g] = "new")
    BY <1>1, <1>5 DEF Exit, LateExit, TermTypeOK
  <2>3. \A u \in S, g \in Handles : worker'[g] = "live" /\ <<u, g>> \in listening => FALSE
    BY <1>1, <2>2 DEF BookInv
  <2> QED BY <1>1, <1>2, <1>3, <2>1, <2>2, <2>3, EndingKeepsBook
<1>6. ASSUME NEW h \in Handles, StopElsewhere(h) PROVE BookInv' /\ LiveWorkersAreHeld'
  <2>1. UNCHANGED <<book, carrier, listening>> /\ \A g \in Handles : (worker'[g] = "live" => worker[g] = "live") /\ (worker'[g] = "new" <=> worker[g] = "new")
    BY <1>1, <1>6 DEF StopElsewhere, StopWorker, bookVars, TermTypeOK
  <2>2. {} \in SUBSET Terminals
    OBVIOUS
  <2> QED BY <1>1, <1>2, <1>3, <2>1, <2>2, EndingKeepsBook
<1> QED BY <1>2, <1>4, <1>5, <1>6

LEMMA LoopStep ==
  ASSUME TermAssumption, TermInv, ControlLoop
  PROVE  ControlInv' /\ BookInv' /\ LiveWorkersAreHeld'
<1>1. ControlInv /\ BookInv /\ LiveWorkersAreHeld /\ TermTypeOK /\ HandShape
  BY DEF TermInv, ControlInv, TermShape
<1>2. ControlInv' /\ \A u : Starting(u)' => Starting(u)
  BY <1>1, BeginKeepsControls, HandKeepsControls, ReportKeepsControls, TakeStopKeepsControls DEF ControlLoop
<1>3. UNCHANGED launch
  BY DEF ControlLoop, BeginPass, Touch, TouchAnswered, OrphanStopped, TakeStart, LaunchRefused, AskStanding, RefuseSecond,
         Adopt, Produce, Complete, TakeStop, RefuseStop, Stopped
<1>4. ASSUME BeginPass \/ (\E t \in Terminals : Touch(t)) \/ TouchAnswered \/ TakeStart \/ LaunchRefused \/ AskStanding
             \/ RefuseSecond \/ TakeStop \/ RefuseStop
      PROVE  BookInv' /\ LiveWorkersAreHeld'
  <2>1. UNCHANGED <<worker, book, carrier, listening>> /\ (hand' = hand \/ (hand.at # "produced" /\ hand'.at # "produced"))
    BY <1>4 DEF BeginPass, Touch, TouchAnswered, TakeStart, LaunchRefused, AskStanding, RefuseSecond, TakeStop, RefuseStop,
                Reported, Taking, Idle, bookVars, serviceVars
  <2> QED BY <1>1, <1>2, <1>3, <2>1, QuietKeepsBook
<1>5. ASSUME OrphanStopped \/ Stopped PROVE BookInv' /\ LiveWorkersAreHeld'
  <2>1. hand.t \in Terminals /\ hand.h \in Handles /\ hand.at # "produced" /\ hand' = Idle
    BY <1>1, <1>5 DEF OrphanStopped, Stopped, HandShape, Reported
  <2>2. \/ StopWorker(hand.h) /\ Forget({hand.t}) /\ book[hand.t] \in {NoHandle, hand.h}
        \/ (StopWorker(hand.h) \/ worker' = worker) /\ UNCHANGED <<book, carrier, listening>>
    BY <1>5 DEF OrphanStopped, Stopped, bookVars
  <2>3. \A g \in Handles : (worker'[g] = "live" => worker[g] = "live") /\ (worker'[g] = "new" <=> worker[g] = "new")
    BY <1>1, <2>1, <2>2 DEF StopWorker, TermTypeOK
  <2>4. CASE StopWorker(hand.h) /\ Forget({hand.t}) /\ book[hand.t] \in {NoHandle, hand.h}
    <3>1. \A g \in Handles : worker'[g] = "live" => g # hand.h /\ g # NoHandle
      BY <1>1, <2>1, <2>4 DEF StopWorker, TermTypeOK, Handles, NoHandle, TermAssumption
    <3>2. \A u \in {hand.t}, g \in Handles : worker'[g] = "live" /\ <<u, g>> \in listening => book[u] # g
      BY <2>4, <3>1
    <3>3. {hand.t} \in SUBSET Terminals
      BY <2>1
    <3> QED BY <1>1, <1>2, <1>3, <2>1, <2>3, <2>4, <3>2, <3>3, EndingKeepsBook DEF Idle
  <2>5. CASE UNCHANGED <<book, carrier, listening>>
    <3>1. {} \in SUBSET Terminals /\ (Forget({}) => \A u \in {}, h \in Handles : worker'[h] = "live" /\ <<u, h>> \in listening => book[u] # h)
      OBVIOUS
    <3> QED BY <1>1, <1>2, <1>3, <2>1, <2>3, <2>5, <3>1, EndingKeepsBook DEF Idle
  <2> QED BY <2>2, <2>4, <2>5
<1>6. ASSUME Produce PROVE BookInv' /\ LiveWorkersAreHeld'
  <2>1. /\ CanStart /\ worker' = [worker EXCEPT ![NextHandle] = "live"] /\ UNCHANGED <<book, carrier, listening>>
        /\ hand.at # "produced" /\ hand'.at = "produced" /\ hand'.h = NextHandle
    BY <1>6 DEF Produce, bookVars
  <2> QED BY <1>1, <1>2, <1>3, <2>1, MakingKeepsBook
<1>7. ASSUME Adopt \/ Complete PROVE ~ HeardOn(hand.t) /\ hand.t \in Terminals /\ hand' = Idle /\ worker' = worker
                                  /\ \A u \in Terminals : Starting(u)' => Starting(u) /\ u # hand.t
  <2>1. hand.t \in Terminals /\ Starting(hand.t)
    BY <1>1, <1>7, InHandIsClaimed DEF Adopt, Complete, Starting
  <2>2. worker' = worker
    BY <1>7 DEF Adopt, Complete, serviceVars
  <2> QED BY <1>1, <1>7, <2>1, <2>2, ReportKeepsControls DEF BookInv
<1>8. ASSUME Complete PROVE BookInv' /\ LiveWorkersAreHeld'
  <2>1. hand.at = "produced" /\ hand.h \in Handles /\ worker[hand.h] # "new"
        /\ (\A u \in Terminals : book[u] # hand.h /\ <<u, hand.h>> \notin listening)
        /\ (launch.at = "produced" => launch.h # hand.h)
    BY <1>1, <1>8 DEF Complete, HandShape, BookInv
  <2>2. Carry(hand.t, hand.h, {}) \/ (worker[hand.h] # "live" /\ book' = [book EXCEPT ![hand.t] = hand.h] /\ UNCHANGED <<carrier, listening>>)
    BY <1>8, <2>1 DEF Complete, HasStream, Handles, NoHandle, TermAssumption
  <2>3. \A a \in {hand', launch'} : a.at = "produced" => a \in {hand, launch} /\ a.h # hand.h
    BY <1>3, <1>7, <1>8, <2>1 DEF Idle
  <2>4. \A a \in {hand, launch} : a.at = "produced" => a \in {hand', launch'} \/ a.h = hand.h
    BY <1>3
  <2>5. hand'.at # "produced" /\ {} \in SUBSET Terminals
    BY <1>7, <1>8 DEF Idle
  <2> QED BY <1>1, <1>7, <1>8, <2>1, <2>2, <2>3, <2>4, <2>5, EnteringKeepsBook
<1>9. ASSUME Adopt PROVE BookInv' /\ LiveWorkersAreHeld'
  <2>1. hand.at = "standing" /\ hand.prev \in Terminals /\ hand.prev # hand.t /\ hand'.at # "produced"
    BY <1>1, <1>7, <1>9 DEF Adopt, HandShape, Idle
  <2>2. CASE HasStream(book[hand.prev])
    <3> DEFINE h == book[hand.prev]
    <3>1. h \in Handles /\ h # NoHandle /\ worker[h] # "new" /\ Carry(hand.t, h, {hand.prev})
      BY <1>1, <1>9, <2>1, <2>2, BookedIsAHandle DEF HasStream, Adopt
    <3>2. launch.at = "produced" => launch.h # h
      BY <1>1, <2>1 DEF BookInv
    <3>3. h \notin InStart
      BY <2>1, <3>2, InStartIs
    <3>4. \A u \in Terminals : worker[h] = "live" /\ (book[u] = h \/ <<u, h>> \in listening) => u \in {hand.prev}
      <4> SUFFICES ASSUME NEW u \in Terminals, worker[h] = "live", book[u] = h \/ <<u, h>> \in listening PROVE u = hand.prev
        OBVIOUS
      <4>1. PICK t \in Terminals : Holds(t, h)
        BY <1>1, <3>1, <3>3, HeldIs
      <4> QED BY <2>1, <4>1 DEF Holds
    <3>5. \A a \in {hand', launch'} : a.at = "produced" => a \in {hand, launch} /\ a.h # h
      BY <1>3, <2>1, <3>2
    <3>6. \A a \in {hand, launch} : a.at = "produced" => a \in {hand', launch'}
      BY <1>3, <2>1
    <3>7. {hand.prev} \in SUBSET Terminals /\ hand.t \notin {hand.prev} /\ \A u \in Terminals : u \in {hand.prev} => book[u] = h
      BY <2>1
    <3> HIDE DEF h
    <3> QED BY <1>1, <1>7, <1>9, <2>1, <3>1, <3>4, <3>5, <3>6, <3>7, EnteringKeepsBook
  <2>3. CASE ~ HasStream(book[hand.prev])
    <3>1. Forget({hand.prev, hand.t}) /\ {hand.prev, hand.t} \in SUBSET Terminals
      BY <1>7, <1>9, <2>1, <2>3 DEF Adopt
    <3>2. \A u \in {hand.prev, hand.t}, g \in Handles : worker'[g] = "live" /\ <<u, g>> \in listening => book[u] # g
      BY <1>7, <1>9, <2>3 DEF HasStream, HeardOn, Handles, NoHandle, TermAssumption
    <3> QED BY <1>1, <1>2, <1>3, <1>7, <1>9, <2>1, <3>1, <3>2, EndingKeepsBook
  <2> QED BY <2>2, <2>3
<1> QED BY <1>2, <1>4, <1>5, <1>6, <1>8, <1>9 DEF ControlLoop

LEMMA LaunchStep ==
  ASSUME TermAssumption, TermInv, (\E t \in Terminals : LifecycleProduce(t)) \/ LifecycleCarry
  PROVE  ControlInv' /\ BookInv' /\ LiveWorkersAreHeld'
<1>1. ControlInv /\ BookInv /\ LiveWorkersAreHeld /\ TermTypeOK /\ HandShape
  BY DEF TermInv, ControlInv, TermShape
<1>2. ControlInv' /\ Waiting' = Waiting /\ ctl' = ctl /\ hand' = hand
  BY <1>1, LaunchKeepsControls DEF LifecycleProduce, LifecycleCarry
<1>3. ASSUME NEW t \in Terminals, LifecycleProduce(t) PROVE BookInv' /\ LiveWorkersAreHeld'
  <2>1. /\ CanStart /\ worker' = [worker EXCEPT ![NextHandle] = "live"] /\ UNCHANGED <<book, carrier, listening>>
        /\ launch.at # "produced" /\ launch' = [at |-> "produced", t |-> t, h |-> NextHandle]
    BY <1>3 DEF LifecycleProduce, bookVars, Idle
  <2>2. ~ HeardOn(t)
    BY <1>3 DEF LifecycleProduce, Startable, HeardOn
  <2>3. \A u \in Terminals : Starting(u)' => Starting(u) \/ ~ HeardOn(u)
    BY <1>2, <2>1, <2>2 DEF Starting, Asks
  <2> QED BY <1>1, <1>2, <2>1, <2>3, MakingKeepsBook
<1>4. ASSUME LifecycleCarry PROVE BookInv' /\ LiveWorkersAreHeld'
  <2>1. launch.at = "produced" /\ launch.t \in Terminals /\ launch.h \in Handles /\ worker[launch.h] # "new"
        /\ (\A u \in Terminals : book[u] # launch.h /\ <<u, launch.h>> \notin listening)
        /\ (hand.at = "produced" => launch.h # hand.h) /\ ~ HeardOn(launch.t) /\ worker' = worker /\ launch' = Idle
    BY <1>1, <1>4 DEF LifecycleCarry, HandShape, BookInv, Starting, serviceVars
  <2>2. Carry(launch.t, launch.h, {}) \/ (worker[launch.h] # "live" /\ book' = [book EXCEPT ![launch.t] = launch.h] /\ UNCHANGED <<carrier, listening>>)
    BY <1>4, <2>1 DEF LifecycleCarry, HasStream, Handles, NoHandle, TermAssumption
  <2>3. \A a \in {hand', launch'} : a.at = "produced" => a \in {hand, launch} /\ a.h # launch.h
    BY <1>2, <2>1 DEF Idle
  <2>4. \A a \in {hand, launch} : a.at = "produced" => a \in {hand', launch'} \/ a.h = launch.h
    BY <1>2
  <2>5. launch'.at # "produced" /\ {} \in SUBSET Terminals
    BY <2>1 DEF Idle
  <2>6. \A u \in Terminals : Starting(u)' => Starting(u) /\ u # launch.t
    <3>1. \A u : Starting(u)' => Starting(u)
      BY <1>2, <2>1, StartsShrink
    <3> QED BY <1>1, <1>4, <3>1, LaunchKeepsControls
  <2> QED BY <1>1, <2>1, <2>2, <2>3, <2>4, <2>5, <2>6, EnteringKeepsBook
<1> QED BY <1>2, <1>3, <1>4

(***************************************************************************)
(* What is struck.                                                         *)
(***************************************************************************)
\* While the hand stays: nobody makes the row live under a listener.
LEMMA HandStaysStrikes ==
  ASSUME TermAssumption, TermInv, hand' = hand, HandShape,
         \A t \in Terminals : row[t] = "over" => row'[t] = "over" \/ (~ HeardOn(t) /\ ~ HeardOn(t)'),
         \A t \in Terminals : HeardOn(t)' /\ (spoke[t] \/ ~ HeardOn(t)) => spoke'[t] \/ (HeardOn(t) /\ ~ (hand.at = "touched" /\ hand.t = t)),
         \A h \in Handles : (worker[h] # "new" => worker'[h] # "new") /\ (worker[h] # "new" /\ worker'[h] = "live" => worker[h] = "live"),
         \A t \in Terminals, h \in Handles : <<t, h>> \in listening /\ worker'[h] = "live" => <<t, h>> \in listening'
  PROVE  StrikeInv'
<1>1. ASSUME hand.at = "touched", hand.said = "over", HeardOn(hand.t)', ~ spoke'[hand.t] PROVE row'[hand.t] = "over"
  <2>1. hand.t \in Terminals
    BY <1>1 DEF HandShape
  <2>2. ~ spoke[hand.t] /\ HeardOn(hand.t)
    BY <1>1, <2>1
  <2>3. row[hand.t] = "over"
    BY <1>1, <2>2 DEF TermInv, StrikeInv
  <2> QED BY <2>1, <2>2, <2>3
<1>2. ASSUME hand.at = "striking", worker'[hand.h] = "live" PROVE <<hand.t, hand.h>> \in listening' /\ row'[hand.t] = "over"
  <2>1. hand.t \in Terminals /\ hand.h \in Handles /\ worker[hand.h] # "new"
    BY <1>2 DEF HandShape, TermInv, StrikeInv
  <2>2. <<hand.t, hand.h>> \in listening /\ row[hand.t] = "over"
    BY <1>2, <2>1 DEF TermInv, StrikeInv
  <2> QED BY <1>2, <2>1, <2>2 DEF HeardOn
<1>3. hand.at = "striking" => worker'[hand.h] # "new"
  BY DEF HandShape, TermInv, StrikeInv
<1> QED BY <1>1, <1>2, <1>3 DEF StrikeInv

LEMMA OthersStrike ==
  ASSUME TermAssumption, TermInv,
         \/ \E t \in Terminals : AskStart(t) \/ AskStop(t) \/ GiveUp(t) \/ Hush(t) \/ LifecycleProduce(t)
         \/ \E c \in Controls : Replay(c)
         \/ \E h \in Handles : Speak(h) \/ Exit(h) \/ LateExit(h) \/ StopElsewhere(h)
         \/ LifecycleCarry
  PROVE  StrikeInv'
<1>1. BookInv /\ TermTypeOK /\ HandShape
  BY DEF TermInv, ControlInv, TermShape
<1>2. hand' = hand
  BY DEF AskStart, AskStop, GiveUp, Hush, LifecycleProduce, Replay, Speak, Exit, LateExit, StopElsewhere, LifecycleCarry
<1>3. ASSUME NEW t \in Terminals, AskStart(t) \/ LifecycleProduce(t) PROVE StrikeInv'
  <2>1. ~ HeardOn(t) /\ row' = [row EXCEPT ![t] = "live"] /\ UNCHANGED <<listening, spoke>>
    BY <1>3 DEF AskStart, LifecycleProduce, Startable, HeardOn, bookVars
  <2>2. \A h \in Handles : worker'[h] = worker[h] \/ (worker[h] = "new" /\ worker'[h] = "live")
    <3>1. CASE AskStart(t)
      BY <3>1 DEF AskStart
    <3>2. CASE LifecycleProduce(t)
      <4>1. NextHandle \in Handles /\ worker[NextHandle] = "new" /\ worker' = [worker EXCEPT ![NextHandle] = "live"]
        BY <3>2, NextIsNew DEF LifecycleProduce
      <4> QED BY <1>1, <4>1 DEF TermTypeOK
    <3> QED BY <1>3, <3>1, <3>2
  <2>3. \A u \in Terminals : u # t => row'[u] = row[u]
    BY <1>1, <2>1 DEF TermTypeOK
  <2>4. \A u \in Terminals : HeardOn(u)' <=> HeardOn(u)
    BY <2>1 DEF HeardOn
  <2> QED BY <1>1, <1>2, <2>1, <2>2, <2>3, <2>4, HandStaysStrikes
<1>4. ASSUME NEW t \in Terminals, AskStop(t) \/ GiveUp(t) \/ Hush(t) PROVE StrikeInv'
  <2>1. UNCHANGED <<worker, listening>> /\ \A u \in Terminals : row[u] = "over" => row'[u] = "over"
    BY <1>1, <1>4 DEF AskStop, GiveUp, Hush, serviceVars, bookVars, TermTypeOK
  <2>2. \A u \in Terminals : spoke[u] => spoke'[u] \/ ~ (hand.at = "touched" /\ hand.t = u)
    BY <1>1, <1>4 DEF AskStop, GiveUp, Hush, bookVars, TermTypeOK
  <2>3. \A u \in Terminals : HeardOn(u)' <=> HeardOn(u)
    BY <2>1 DEF HeardOn
  <2> QED BY <1>1, <1>2, <2>1, <2>2, <2>3, HandStaysStrikes
<1>5. ASSUME (\E c \in Controls : Replay(c)) \/ (\E h \in Handles : Speak(h) \/ StopElsewhere(h)) PROVE StrikeInv'
  <2>1. UNCHANGED <<row, listening>> /\ \A u \in Terminals : spoke[u] => spoke'[u]
    BY <1>1, <1>5 DEF Replay, Speak, StopElsewhere, serviceVars, bookVars, TermTypeOK
  <2>2. \A h \in Handles : (worker[h] # "new" => worker'[h] # "new") /\ (worker'[h] = "live" => worker[h] = "live")
    BY <1>1, <1>5 DEF Replay, Speak, StopElsewhere, StopWorker, TermTypeOK
  <2>3. \A u \in Terminals : HeardOn(u)' <=> HeardOn(u)
    BY <2>1 DEF HeardOn
  <2> QED BY <1>1, <1>2, <2>1, <2>2, <2>3, HandStaysStrikes
<1>6. ASSUME NEW h \in Handles, Exit(h) \/ LateExit(h) PROVE StrikeInv'
  <2> DEFINE S == {t \in Terminals : <<t, h>> \in listening}
  <2>1. Forget(S) /\ S \in SUBSET Terminals /\ UNCHANGED row
    BY <1>6 DEF Exit, LateExit, TellExit, serviceVars
  <2>2. \A g \in Handles : (worker[g] # "new" => worker'[g] # "new") /\ (worker'[g] = "live" => worker[g] = "live" /\ g # h)
    BY <1>1, <1>6 DEF Exit, LateExit, TermTypeOK
  <2>3. \A t \in Terminals, g \in Handles : <<t, g>> \in listening' <=> <<t, g>> \in listening /\ t \notin S
    BY <1>1, <2>1, ForgetIs
  <2>4. \A t \in Terminals : spoke'[t] = (t \notin S /\ spoke[t])
    BY <1>1, <2>1, ForgetIs
  <2>5. \A t \in Terminals, g \in Handles : <<t, g>> \in listening /\ worker'[g] = "live" => <<t, g>> \in listening'
    <3> SUFFICES ASSUME NEW t \in Terminals, NEW g \in Handles, <<t, g>> \in listening, worker'[g] = "live" PROVE t \notin S
      BY <2>3
    <3>1. carrier[t] = g /\ g # h
      BY <1>1, <2>2 DEF BookInv
    <3> QED BY <1>1, <3>1 DEF BookInv
  <2>6. \A t \in Terminals : HeardOn(t)' => HeardOn(t) /\ t \notin S
    BY <2>3 DEF HeardOn
  <2> QED BY <1>1, <1>2, <2>1, <2>2, <2>4, <2>5, <2>6, HandStaysStrikes
<1>7. ASSUME LifecycleCarry PROVE StrikeInv'
  <2>1. launch.at = "produced" /\ launch.t \in Terminals /\ launch.h \in Handles /\ UNCHANGED <<row, worker>>
    BY <1>1, <1>7 DEF LifecycleCarry, HandShape, serviceVars
  <2>2. \A u \in Terminals : (spoke[u] => spoke'[u]) /\ (u = launch.t => spoke'[u])
    <3>1. CASE HasStream(launch.h)
      BY <1>7, <2>1, <3>1, CarryAlone, <1>1 DEF LifecycleCarry
    <3>2. CASE ~ HasStream(launch.h)
      BY <1>1, <1>7, <2>1, <3>2 DEF LifecycleCarry, TermTypeOK
    <3> QED BY <3>1, <3>2
  <2>3. \A u \in Terminals, g \in Handles : (<<u, g>> \in listening => <<u, g>> \in listening')
                                          /\ (<<u, g>> \in listening' => <<u, g>> \in listening \/ u = launch.t)
    <3>1. CASE HasStream(launch.h)
      BY <1>7, <2>1, <3>1, CarryAlone, <1>1 DEF LifecycleCarry
    <3>2. CASE ~ HasStream(launch.h)
      BY <1>7, <3>2 DEF LifecycleCarry
    <3> QED BY <3>1, <3>2
  <2>4. \A u \in Terminals : HeardOn(u)' => HeardOn(u) \/ u = launch.t
    BY <2>3 DEF HeardOn
  <2> QED BY <1>1, <1>2, <2>1, <2>2, <2>3, <2>4, HandStaysStrikes
<1> QED BY <1>3, <1>4, <1>5, <1>6, <1>7

\* The loop: the answer that condemns is read with the row, the chunks and the
\* book of now.
LEMMA LoopStrikes ==
  ASSUME TermAssumption, TermInv, ControlLoop
  PROVE  StrikeInv'
<1>1. BookInv /\ TermTypeOK /\ HandShape /\ LiveWorkersAreHeld
  BY DEF TermInv, ControlInv, TermShape
<1>2. ASSUME NEW t \in Terminals, Touch(t) PROVE StrikeInv'
  <2>1. PICK said \in {row[t], "unknown"} : hand' = [at |-> "touched", t |-> t, said |-> said]
    BY <1>2 DEF Touch
  <2>2. row' = row
    BY <1>2 DEF Touch, serviceVars
  <2> QED BY <2>1, <2>2 DEF StrikeInv
<1>3. ASSUME TouchAnswered PROVE StrikeInv'
  <2>1. hand.t \in Terminals /\ hand.at = "touched" /\ UNCHANGED <<row, worker, listening>>
    BY <1>1, <1>3 DEF TouchAnswered, HandShape, serviceVars, bookVars
  <2>2. \/ hand' = Idle
        \/ /\ hand' = [at |-> "striking", t |-> hand.t, h |-> book[hand.t]]
           /\ hand.said = "over" /\ ~ spoke[hand.t] /\ book[hand.t] # NoHandle
    BY <1>3 DEF TouchAnswered
  <2>3. CASE hand' = Idle
    BY <2>3 DEF StrikeInv, Idle
  <2>4. CASE hand' = [at |-> "striking", t |-> hand.t, h |-> book[hand.t]] /\ hand.said = "over" /\ ~ spoke[hand.t] /\ book[hand.t] # NoHandle
    <3> DEFINE h == book[hand.t]
    <3>1. h \in Handles /\ worker[h] # "new"
      BY <1>1, <2>1, <2>4, BookedIsAHandle DEF BookInv
    <3>2. h \notin InStart
      BY <1>1, <2>1, InStartIs DEF BookInv
    <3>3. worker[h] = "live" => <<hand.t, h>> \in listening
      BY <1>1, <2>1, <3>1, <3>2, HeldIs DEF Holds
    <3>4. <<hand.t, h>> \in listening => row[hand.t] = "over"
      BY <2>1, <2>4, <3>1 DEF TermInv, StrikeInv, HeardOn
    <3>5. hand'.at = "striking" /\ hand'.t = hand.t /\ hand'.h = h
      BY <2>4
    <3> HIDE DEF h
    <3> QED BY <2>1, <3>1, <3>3, <3>4, <3>5 DEF StrikeInv
  <2> QED BY <2>2, <2>3, <2>4
<1>4. ASSUME BeginPass \/ OrphanStopped \/ TakeStart \/ LaunchRefused \/ AskStanding \/ RefuseSecond \/ Adopt \/ Produce
             \/ Complete \/ TakeStop \/ RefuseStop \/ Stopped
      PROVE  StrikeInv'
  <2>1. hand'.at \in {"idle", "launching", "standing", "produced", "stopping"}
    BY <1>4 DEF BeginPass, OrphanStopped, TakeStart, LaunchRefused, AskStanding, RefuseSecond, Adopt, Produce,
                Complete, TakeStop, RefuseStop, Stopped, Reported, Idle
  <2> QED BY <2>1 DEF StrikeInv
<1> QED BY <1>2, <1>3, <1>4 DEF ControlLoop

\* Only a stop that is taken strikes, and it strikes what it is bound to.
LEMMA StruckStep ==
  ASSUME TermAssumption, TermInv, TermNext
  PROVE  StruckInv'
<1>1. CASE TakeStop
  <2> DEFINE c == Head(claimed)
             t == ctl[Head(claimed)].t
  <2>1. c \in Controls /\ target \in [Controls -> {NoTarget} \cup (Terminals \X Handles)] /\ struck \in [Controls -> SUBSET Handles]
    BY <1>1, ClaimedIsWaiting DEF TermInv, ControlInv, TermShape, TakeStop, Taking
  <2>2. /\ target[c] \in {NoTarget, <<t, book[t]>>}
        /\ target' = [target EXCEPT ![c] = <<t, book[t]>>]
        /\ struck' = [struck EXCEPT ![c] = struck[c] \cup {book[t]}]
    BY <1>1 DEF TakeStop, Captures
  <2>3. <<t, book[t]>> # NoTarget
    BY DEF NoTarget
  <2>4. struck[c] \subseteq {book[t]}
    BY <2>1, <2>2, <2>3 DEF TermInv, StruckInv
  <2>5. target'[c] = <<t, book[t]>> /\ struck'[c] = struck[c] \cup {book[t]}
        /\ \A d \in Controls : d # c => target'[d] = target[d] /\ struck'[d] = struck[d]
    BY <2>1, <2>2
  <2>6. struck'[c] \subseteq {target'[c][2]}
    BY <2>4, <2>5
  <2> HIDE DEF c, t
  <2> QED BY <2>3, <2>5, <2>6 DEF TermInv, StruckInv
<1>2. CASE UNCHANGED <<target, struck>>
  BY <1>2 DEF TermInv, StruckInv
<1>3. TakeStop \/ UNCHANGED <<target, struck>>
  BY DEF TermNext, ControlLoop, AskStart, AskStop, GiveUp, Hush, LifecycleProduce, Replay, Speak, Exit, LateExit, StopElsewhere, LifecycleCarry,
         BeginPass, Touch, TouchAnswered, OrphanStopped, TakeStart, LaunchRefused, AskStanding, RefuseSecond, Adopt, Produce,
         Complete, RefuseStop, Stopped
<1> QED BY <1>1, <1>2, <1>3

LEMMA TermBegins ==
  ASSUME TermAssumption, TermInit
  PROVE  TermInv
<1>1. TermTypeOK
  BY DEF TermInit, TermTypeOK, Rows, NoHandle, TermAssumption
<1>2. ctl = <<>> /\ claimed = <<>> /\ queue = {} /\ hand = Idle /\ launch = Idle /\ listening = {}
  BY DEF TermInit
<1>3. TermShape
  BY <1>1, <1>2 DEF TermInit, TermShape, HandShape, Idle, TermAssumption
<1>4. ControlsApart
  BY <1>2 DEF ControlsApart, Waiting, Idle
<1>5. BookInv
  BY <1>2 DEF TermInit, BookInv, Starting, Waiting, Idle
<1>6. LiveWorkersAreHeld
  BY DEF TermInit, LiveWorkersAreHeld
<1>7. StrikeInv /\ StruckInv
  BY DEF TermInit, StrikeInv, StruckInv, Idle
<1> QED BY <1>3, <1>4, <1>5, <1>6, <1>7 DEF TermInv, ControlInv

LEMMA TermStep ==
  ASSUME TermAssumption, TermInv, [TermNext]_termVars
  PROVE  TermInv'
<1>1. CASE TermNext
  <2>1. ControlInv' /\ BookInv' /\ LiveWorkersAreHeld'
    BY <1>1, ServiceStep, WorkerStep, LoopStep, LaunchStep DEF TermNext
  <2>2. StrikeInv'
    BY <1>1, OthersStrike, LoopStrikes DEF TermNext
  <2> QED BY <1>1, <2>1, <2>2, StruckStep DEF TermInv
<1>2. CASE UNCHANGED termVars
  <2>1. UNCHANGED <<row, ctl, queue, worker, book, carrier, listening, spoke, target, claimed, touch, hand, launch, struck>>
    BY <1>2 DEF termVars
  <2>2. TermTypeOK' /\ ControlInv' /\ Waiting' = Waiting
    BY <2>1, ControlsStay DEF TermInv, ControlInv, TermShape, TermTypeOK
  <2>3. \A u : Starting(u)' => Starting(u)
    BY <2>1, <2>2, StartsShrink
  <2>4. BookInv' /\ LiveWorkersAreHeld'
    BY <2>1, <2>3, QuietKeepsBook DEF TermInv
  <2>5. StrikeInv' /\ StruckInv'
    BY <2>1 DEF TermInv, StrikeInv, StruckInv, HeardOn
  <2> QED BY <2>2, <2>4, <2>5 DEF TermInv
<1> QED BY <1>1, <1>2

LEMMA StruckIsOne ==
  ASSUME TermInv
  PROVE  StopStrikesOneLifetime
<1> SUFFICES ASSUME NEW c \in Controls PROVE Cardinality(struck[c]) <= 1
  BY DEF StopStrikesOneLifetime
<1>1. CASE struck[c] = {}
  BY <1>1, FS_EmptySet
<1>2. CASE struck[c] = {target[c][2]}
  <2>1. Cardinality({target[c][2]}) = 1
    BY FS_Singleton
  <2> QED BY <1>2, <2>1
<1> QED BY <1>1, <1>2 DEF TermInv, StruckInv

LEMMA OrphanIsOver ==
  ASSUME TermInv, TermInv', [TermNext]_termVars
  PROVE  StrikesAnOrphan
<1>1. CASE hand' = hand
  BY <1>1 DEF TermInv, StrikeInv, StrikesAnOrphan
<1>2. CASE TouchAnswered
  <2>1. UNCHANGED <<row, worker>>
    BY <1>2 DEF TouchAnswered, serviceVars
  <2> QED BY <2>1 DEF TermInv, StrikeInv, StrikesAnOrphan
<1>3. ASSUME hand' # hand, ~ TouchAnswered PROVE hand'.at # "striking"
  <2>1. ControlLoop
    BY <1>3 DEF TermNext, termVars, AskStart, AskStop, GiveUp, Hush, LifecycleProduce, Replay, Speak, Exit, LateExit, StopElsewhere, LifecycleCarry
  <2> QED BY <1>3, <2>1 DEF ControlLoop, BeginPass, Touch, OrphanStopped, TakeStart, LaunchRefused, AskStanding, RefuseSecond, Adopt, Produce,
                Complete, TakeStop, RefuseStop, Stopped, Reported, Idle
<1> QED BY <1>1, <1>2, <1>3 DEF StrikesAnOrphan

\* Through every interleaving of the control loop, the lifecycle loop, the service
\* and the workers' ends: a worker that runs is held under one terminal and heard
\* there alone, a stop control strikes one lifetime however often it is delivered,
\* and no worker is struck as an orphan while its row is live.
THEOREM WorkersHold ==
  ASSUME TermAssumption
  PROVE  TermSpec => WorkersAreHeld
<1>1. TermInit => TermInv
  BY TermBegins
<1>2. TermInv /\ [TermNext]_termVars => TermInv'
  BY TermStep
<1>3. TermInv => TermTypeOK /\ LiveWorkersAreHeld /\ StopStrikesOneLifetime
  BY StruckIsOne DEF TermInv, ControlInv, TermShape
<1>4. TermInv /\ TermInv' /\ [TermNext]_termVars => [StrikesAnOrphan]_termVars
  BY OrphanIsOver
<1> QED BY <1>1, <1>2, <1>3, <1>4, PTL DEF TermSpec, WorkersAreHeld

----------------------------------------------------------------------------
(***************************************************************************)
(* Keystrokes and sizes.                                                   *)
(***************************************************************************)
KeySeqs == Seq(Nat)
Inputs == [kind : {"input"}, client : Clients, keys : KeySeqs]
Resizes == [kind : {"resize"}, client : Clients, shape : Shapes]
Posts == [request : Inputs \cup Resizes, number : Nat, state : {"asked", "ok", "refused", "late"}]
SizeEntries == [viewer : Clients, shape : Shapes]
Ttys == [alive : BOOLEAN, shape : Shapes, owner : Clients \cup {"unnamed"}, sizes : Seq(SizeEntries), reshapes : Nat]

WireTypeOK ==
  /\ stay \in [Clients -> {"attached", "detaching", "left"}]
  /\ typed \in [Clients -> Nat]
  /\ unsent \in [Clients -> KeySeqs] /\ flight \in [Clients -> KeySeqs] /\ landed \in [Clients -> KeySeqs]
  /\ link \in [Clients -> {"none", "up", "dead"}]
  /\ wire \in [Clients -> Seq(Inputs \cup Resizes)]
  /\ posts \subseteq Posts
  /\ forgone \in [Clients -> SUBSET Nat]
  /\ owned \in [Clients -> {"nothing", "sent", "unsent", "gone"}]
  /\ tty \in Ttys

\* Each viewer is on record once, and the owner with the terminal's size.
OnceEach(sizes) == \A i, j \in DOMAIN sizes : sizes[i].viewer = sizes[j].viewer => i = j

SizeOK(t) ==
  /\ OnceEach(t.sizes)
  /\ t.owner # "unnamed" => \E i \in OnRecord(t, t.owner) : t.shape = t.sizes[i].shape

Rises(s) == \A i, j \in DOMAIN s : i < j => s[i] < s[j]
Before(ks, ls) == \A k \in ks, l \in ls : k < l
KeysOf(frames) == UNION {FrameKeys(frames[i]) : i \in DOMAIN frames}

\* Keys that landed: those not forgone in their order, and none twice.
LandedOK(s, gone) ==
  /\ \A i, j \in DOMAIN s : i < j /\ {s[i], s[j]} \cap gone = {} => s[i] < s[j]
  /\ IsInjective(s)

\* The socket's frames are the client's, and carry its keys in their order.
FramesOK(frames, c) ==
  /\ \A i \in DOMAIN frames :
       frames[i].client = c /\ (frames[i].kind = "input" => frames[i].keys # <<>> /\ Rises(frames[i].keys))
  /\ \A i, j \in DOMAIN frames : i < j => Before(FrameKeys(frames[i]), FrameKeys(frames[j]))

\* Of the keys queued, out, on the socket, landed and forgone: what is behind
\* came later, and nothing on its way has been forgone.
KeysOK(queued, out, onWire, there, gone, last) ==
  /\ Before(out \cup onWire \cup (there \ gone), queued)
  /\ Before(there \ gone, onWire)
  /\ (queued \cup out \cup onWire) \cap gone = {}
  /\ \A k \in queued \cup out \cup onWire \cup there \cup gone : k <= last

ClientOK(queued, out, frames, there, gone, last, socket, c) ==
  /\ Rises(queued) /\ Rises(out) /\ FramesOK(frames, c) /\ LandedOK(there, gone)
  /\ KeysOK(ToSet(queued), ToSet(out), KeysOf(frames), ToSet(there), gone, last)
  /\ socket # "up" => frames = <<>>
  /\ out # <<>> => KeysOf(frames) = {}

AsksOf(ps, c) == {p \in ps : p.request.kind = "input" /\ p.request.client = c}

\* One request of a client is waited for; one that is not may come late, with
\* keys that were forgone.
PostOK(p, out, there, gone) ==
  /\ p.request.keys # <<>> /\ Rises(p.request.keys)
  /\ p.state # "late" => p.request.keys = out
  /\ p.state = "late" => ToSet(p.request.keys) \subseteq gone /\ ToSet(p.request.keys) \cap there = {}
  /\ p.state = "asked" => Before(there \ gone, ToSet(p.request.keys))
  /\ p.state = "ok" => ToSet(p.request.keys) \subseteq there

PairOK(p, q) ==
  /\ p.state = "late" \/ q.state = "late"
  /\ p.state = "late" /\ q.state = "late" => ToSet(p.request.keys) \cap ToSet(q.request.keys) = {}

AwaitOK(asks, out, there, gone) ==
  /\ \A p \in asks : PostOK(p, out, there, gone)
  /\ \A p, q \in asks : p # q => PairOK(p, q)

\* Every key is somewhere, and none is with a client that said all was sent.
KeptOK(queued, out, frames, there, gone, last, said, at) ==
  /\ 1 .. last \subseteq there \cup gone \cup KeysOf(frames) \cup ToSet(out) \cup ToSet(queued)
  /\ said # "nothing" => at = "left"
  /\ said = "sent" => out = <<>> /\ queued = <<>>

PerClient(c) ==
  /\ ClientOK(unsent[c], flight[c], wire[c], landed[c], forgone[c], typed[c], link[c], c)
  /\ AwaitOK(AsksOf(posts, c), flight[c], ToSet(landed[c]), forgone[c])
  /\ KeptOK(unsent[c], flight[c], wire[c], ToSet(landed[c]), forgone[c], typed[c], owned[c], stay[c])

WireInv == WireTypeOK /\ SizeOK(tty) /\ \A c \in Clients : PerClient(c)


----------------------------------------------------------------------------
(* Sequences of keys and of frames. *)
LEMMA KeySetIs ==
  ASSUME NEW s \in KeySeqs
  PROVE  /\ ToSet(s) \subseteq Nat /\ (s = <<>> <=> ToSet(s) = {})
         /\ ToSet(<<>>) = {}
<1>1. Len(s) \in Nat /\ DOMAIN s = 1 .. Len(s) /\ \A i \in DOMAIN s : s[i] \in Nat
  BY DEF KeySeqs
<1>2. s # <<>> => 1 \in DOMAIN s
  BY <1>1, EmptySeq DEF KeySeqs
<1>3. ToSet(<<>>) = {}
  BY DEF ToSet
<1> QED BY <1>1, <1>2, <1>3 DEF ToSet

LEMMA NothingRises ==
  /\ Rises(<<>>) /\ KeysOf(<<>>) = {} /\ <<>> \in KeySeqs /\ ToSet(<<>>) = {}
  /\ \A c : FramesOK(<<>>, c)
  /\ \A g : LandedOK(<<>>, g)
<1>1. DOMAIN <<>> = {} /\ <<>> \in KeySeqs
  BY DEF KeySeqs
<1> QED BY <1>1 DEF Rises, KeysOf, FramesOK, LandedOK, ToSet, IsInjective

LEMMA ConcatIs ==
  ASSUME NEW s \in KeySeqs, NEW t \in KeySeqs
  PROVE  /\ s \o t \in KeySeqs /\ Len(s \o t) = Len(s) + Len(t) /\ DOMAIN (s \o t) = 1 .. Len(s) + Len(t)
         /\ Len(s) \in Nat /\ DOMAIN s = 1 .. Len(s) /\ Len(t) \in Nat /\ DOMAIN t = 1 .. Len(t)
         /\ \A i \in 1 .. Len(s) : (s \o t)[i] = s[i]
         /\ \A i \in 1 .. Len(t) : (s \o t)[Len(s) + i] = t[i]
         /\ ToSet(s \o t) = ToSet(s) \cup ToSet(t)
<1>1. /\ s \o t \in KeySeqs /\ Len(s \o t) = Len(s) + Len(t)
      /\ Len(s) \in Nat /\ DOMAIN s = 1 .. Len(s) /\ Len(t) \in Nat /\ DOMAIN t = 1 .. Len(t)
      /\ \A i \in 1 .. Len(s) + Len(t) : (s \o t)[i] = IF i <= Len(s) THEN s[i] ELSE t[i - Len(s)]
  BY ConcatProperties DEF KeySeqs
<1>2. DOMAIN (s \o t) = 1 .. Len(s) + Len(t)
  BY <1>1, LenProperties DEF KeySeqs
<1>3. \A i \in 1 .. Len(s) : (s \o t)[i] = s[i]
  BY <1>1
<1>4. \A i \in 1 .. Len(t) : Len(s) + i \in 1 .. Len(s) + Len(t) /\ ~ (Len(s) + i <= Len(s)) /\ (Len(s) + i) - Len(s) = i
  BY <1>1
<1>5. \A i \in 1 .. Len(t) : (s \o t)[Len(s) + i] = t[i]
  BY <1>1, <1>4
<1>6. \A i \in 1 .. Len(s) + Len(t) : i \in 1 .. Len(s) \/ (i - Len(s) \in 1 .. Len(t) /\ i = Len(s) + (i - Len(s)))
  BY <1>1
<1>7. ToSet(s \o t) = ToSet(s) \cup ToSet(t)
  <2>1. ASSUME NEW k \in ToSet(s \o t)
        PROVE  k \in ToSet(s) \cup ToSet(t)
    <3>1. PICK i \in 1 .. Len(s) + Len(t) : k = (s \o t)[i]
      BY <1>2, <2>1 DEF ToSet
    <3> QED BY <1>1, <1>6, <3>1 DEF ToSet
  <2>2. ASSUME NEW k \in ToSet(s)
        PROVE  k \in ToSet(s \o t)
    <3>1. PICK i \in 1 .. Len(s) : k = s[i]
      BY <1>1, <2>2 DEF ToSet
    <3>2. i \in DOMAIN (s \o t) /\ (s \o t)[i] = k
      BY <1>1, <1>2, <1>3, <3>1
    <3> QED BY <3>2 DEF ToSet
  <2>3. ASSUME NEW k \in ToSet(t)
        PROVE  k \in ToSet(s \o t)
    <3>1. PICK i \in 1 .. Len(t) : k = t[i]
      BY <1>1, <2>3 DEF ToSet
    <3>2. Len(s) + i \in DOMAIN (s \o t) /\ (s \o t)[Len(s) + i] = k
      BY <1>2, <1>4, <1>5, <3>1
    <3> QED BY <3>2 DEF ToSet
  <2> QED BY <2>1, <2>2, <2>3
<1> QED BY <1>1, <1>2, <1>3, <1>5, <1>7

LEMMA AppendIs ==
  ASSUME NEW s \in KeySeqs, NEW n \in Nat
  PROVE  /\ Append(s, n) \in KeySeqs /\ Append(s, n) # <<>> /\ ToSet(Append(s, n)) = ToSet(s) \cup {n}
         /\ Rises(s) /\ Before(ToSet(s), {n}) => Rises(Append(s, n))
<1>1. /\ Append(s, n) \in KeySeqs /\ Len(Append(s, n)) = Len(s) + 1 /\ DOMAIN Append(s, n) = 1 .. Len(s) + 1
      /\ Len(s) \in Nat /\ DOMAIN s = 1 .. Len(s)
      /\ \A i \in 1 .. Len(s) : Append(s, n)[i] = s[i]
      /\ Append(s, n)[Len(s) + 1] = n
  BY DEF KeySeqs
<1>2. \A i \in 1 .. Len(s) + 1 : i \in 1 .. Len(s) \/ i = Len(s) + 1
  BY <1>1
<1>3. \A i \in 1 .. Len(s) : i \in 1 .. Len(s) + 1
  BY <1>1
<1>4. Len(s) + 1 \in 1 .. Len(s) + 1
  BY <1>1
<1>5. ToSet(Append(s, n)) = ToSet(s) \cup {n}
  BY <1>1, <1>2, <1>3, <1>4 DEF ToSet
<1>6. Append(s, n) # <<>>
  <2>1. n \in ToSet(Append(s, n))
    BY <1>5
  <2> QED BY <1>1, <2>1, KeySetIs
<1>7. ASSUME Rises(s), Before(ToSet(s), {n})
      PROVE  Rises(Append(s, n))
  <2>1. \A i \in 1 .. Len(s) : s[i] < n
    BY <1>1, <1>7 DEF Before, ToSet
  <2> SUFFICES ASSUME NEW i \in 1 .. Len(s) + 1, NEW j \in 1 .. Len(s) + 1, i < j
               PROVE  Append(s, n)[i] < Append(s, n)[j]
    BY <1>1 DEF Rises
  <2>2. i \in 1 .. Len(s)
    BY <1>1
  <2>3. CASE j \in 1 .. Len(s)
    BY <1>1, <1>7, <2>2, <2>3 DEF Rises
  <2>4. CASE j = Len(s) + 1
    BY <1>1, <2>1, <2>2, <2>4
  <2> QED BY <1>2, <2>3, <2>4
<1> QED BY <1>1, <1>5, <1>6, <1>7

\* Keys land behind those that did.
LEMMA LandingIs ==
  ASSUME NEW s \in KeySeqs, NEW t \in KeySeqs, NEW gone, LandedOK(s, gone), Rises(t), ToSet(s) \cap ToSet(t) = {},
         ToSet(t) \subseteq gone \/ Before(ToSet(s) \ gone, ToSet(t))
  PROVE  LandedOK(s \o t, gone)
<1> DEFINE u == s \o t
<1>1. /\ DOMAIN u = 1 .. Len(s) + Len(t)
      /\ Len(s) \in Nat /\ DOMAIN s = 1 .. Len(s) /\ Len(t) \in Nat /\ DOMAIN t = 1 .. Len(t)
      /\ \A i \in 1 .. Len(s) : u[i] = s[i]
      /\ \A i \in 1 .. Len(t) : u[Len(s) + i] = t[i]
  BY ConcatIs
<1> HIDE DEF u
<1>2. \A i \in 1 .. Len(s) + Len(t) : i \in 1 .. Len(s) \/ (\E m \in 1 .. Len(t) : i = Len(s) + m)
  <2> SUFFICES ASSUME NEW i \in 1 .. Len(s) + Len(t), i \notin 1 .. Len(s)
               PROVE  \E m \in 1 .. Len(t) : i = Len(s) + m
    OBVIOUS
  <2>1. i - Len(s) \in 1 .. Len(t) /\ i = Len(s) + (i - Len(s))
    BY <1>1
  <2> QED BY <2>1
<1>3. (\A i \in 1 .. Len(s) : s[i] \in ToSet(s) /\ s[i] \in Nat) /\ (\A i \in 1 .. Len(t) : t[i] \in ToSet(t) /\ t[i] \in Nat)
  <2>1. (\A i \in 1 .. Len(s) : s[i] \in ToSet(s)) /\ (\A i \in 1 .. Len(t) : t[i] \in ToSet(t))
    BY <1>1 DEF ToSet
  <2>2. ToSet(s) \subseteq Nat /\ ToSet(t) \subseteq Nat
    BY KeySetIs
  <2> QED BY <2>1, <2>2
<1>4. ASSUME NEW i \in 1 .. Len(s) + Len(t), NEW j \in 1 .. Len(s) + Len(t), i < j
      PROVE  /\ {u[i], u[j]} \cap gone = {} => u[i] < u[j]
             /\ u[i] # u[j]
  <2>1. CASE j \in 1 .. Len(s)
    <3>1. i \in 1 .. Len(s) /\ u[i] = s[i] /\ u[j] = s[j]
      BY <1>1, <1>4, <2>1
    <3> QED BY <1>1, <1>4, <2>1, <3>1 DEF LandedOK, IsInjective
  <2>2. ASSUME NEW m \in 1 .. Len(t), j = Len(s) + m
        PROVE  /\ {u[i], u[j]} \cap gone = {} => u[i] < u[j]
               /\ u[i] # u[j]
    <3>1. u[j] = t[m] /\ t[m] \in ToSet(t)
      BY <1>1, <1>3, <2>2
    <3>2. CASE i \in 1 .. Len(s)
      <4>1. u[i] = s[i] /\ s[i] \in ToSet(s)
        BY <1>1, <1>3, <3>2
      <4> QED BY <3>1, <4>1 DEF Before
    <3>3. ASSUME NEW l \in 1 .. Len(t), i = Len(s) + l
          PROVE  u[i] < u[j] /\ u[i] # u[j]
      <4>1. u[i] = t[l] /\ l < m
        BY <1>1, <1>4, <2>2, <3>3
      <4>2. t[l] < t[m] /\ t[l] \in Nat /\ t[m] \in Nat
        BY <1>1, <1>3, <4>1 DEF Rises
      <4> QED BY <3>1, <4>1, <4>2
    <3> QED BY <1>2, <3>2, <3>3
  <2> QED BY <1>2, <2>1, <2>2
<1>5. \A i, j \in DOMAIN u : i < j /\ {u[i], u[j]} \cap gone = {} => u[i] < u[j]
  BY <1>1, <1>4
<1>6. IsInjective(u)
  <2> SUFFICES ASSUME NEW i \in DOMAIN u, NEW j \in DOMAIN u, u[i] = u[j]
               PROVE  i = j
    BY DEF IsInjective
  <2>1. ~ (i < j) /\ ~ (j < i)
    BY <1>1, <1>4
  <2> QED BY <1>1, <2>1
<1> QED BY <1>5, <1>6 DEF LandedOK, u

LEMMA MoreForgone ==
  ASSUME NEW s, NEW gone, NEW more, LandedOK(s, gone)
  PROVE  LandedOK(s, gone \cup more)
BY DEF LandedOK

\* A frame is put behind the others, and the first is taken.
Frames == Inputs \cup Resizes

LEMMA FrameIs ==
  ASSUME NEW f \in Frames
  PROVE  /\ f.kind = "input" => f.keys \in KeySeqs /\ FrameKeys(f) = ToSet(f.keys)
         /\ f.kind # "input" => FrameKeys(f) = {}
         /\ FrameKeys(f) \subseteq Nat
<1>1. CASE f \in Inputs
  BY <1>1, KeySetIs DEF Inputs, FrameKeys
<1>2. CASE f \in Resizes
  BY <1>2 DEF Resizes, FrameKeys
<1> QED BY <1>1, <1>2 DEF Frames

LEMMA FrameAppended ==
  ASSUME NEW s \in Seq(Frames), NEW f \in Frames, NEW c, FramesOK(s, c), f.client = c,
         f.kind = "input" => f.keys # <<>> /\ Rises(f.keys), Before(KeysOf(s), FrameKeys(f))
  PROVE  /\ Append(s, f) \in Seq(Frames) /\ FramesOK(Append(s, f), c)
         /\ KeysOf(Append(s, f)) = KeysOf(s) \cup FrameKeys(f)
<1> DEFINE t == Append(s, f)
<1>1. /\ t \in Seq(Frames) /\ DOMAIN t = 1 .. Len(s) + 1
      /\ Len(s) \in Nat /\ DOMAIN s = 1 .. Len(s)
      /\ \A i \in 1 .. Len(s) : t[i] = s[i]
      /\ t[Len(s) + 1] = f
  OBVIOUS
<1> HIDE DEF t
<1>2. \A i \in 1 .. Len(s) + 1 : i \in 1 .. Len(s) \/ i = Len(s) + 1
  BY <1>1
<1>3. (\A i \in 1 .. Len(s) : i \in 1 .. Len(s) + 1) /\ Len(s) + 1 \in 1 .. Len(s) + 1
  BY <1>1
<1>4. KeysOf(t) = KeysOf(s) \cup FrameKeys(f)
  <2>1. \A k : k \in KeysOf(t) <=> \E i \in 1 .. Len(s) + 1 : k \in FrameKeys(t[i])
    BY <1>1 DEF KeysOf
  <2>2. \A k : k \in KeysOf(s) <=> \E i \in 1 .. Len(s) : k \in FrameKeys(s[i])
    BY <1>1 DEF KeysOf
  <2> QED BY <1>1, <1>2, <1>3, <2>1, <2>2
<1>5. \A i \in 1 .. Len(s) + 1 : t[i].client = c /\ (t[i].kind = "input" => t[i].keys # <<>> /\ Rises(t[i].keys))
  BY <1>1, <1>2 DEF FramesOK
<1>6. ASSUME NEW i \in 1 .. Len(s) + 1, NEW j \in 1 .. Len(s) + 1, i < j
      PROVE  Before(FrameKeys(t[i]), FrameKeys(t[j]))
  <2>1. i \in 1 .. Len(s)
    BY <1>1, <1>6
  <2>2. CASE j \in 1 .. Len(s)
    BY <1>1, <1>6, <2>1, <2>2 DEF FramesOK
  <2>3. CASE j = Len(s) + 1
    <3>1. FrameKeys(s[i]) \subseteq KeysOf(s)
      BY <1>1, <2>1 DEF KeysOf
    <3> QED BY <1>1, <2>1, <2>3, <3>1 DEF Before
  <2> QED BY <1>2, <2>2, <2>3
<1>7. FramesOK(t, c)
  BY <1>1, <1>5, <1>6 DEF FramesOK
<1> QED BY <1>1, <1>4, <1>7 DEF t

LEMMA FrameTaken ==
  ASSUME NEW s \in Seq(Frames), NEW c, s # <<>>, FramesOK(s, c)
  PROVE  /\ Head(s) \in Frames /\ Tail(s) \in Seq(Frames) /\ FramesOK(Tail(s), c)
         /\ Head(s).client = c /\ (Head(s).kind = "input" => Head(s).keys # <<>> /\ Rises(Head(s).keys))
         /\ KeysOf(s) = FrameKeys(Head(s)) \cup KeysOf(Tail(s))
         /\ Before(FrameKeys(Head(s)), KeysOf(Tail(s)))
<1> DEFINE t == Tail(s)
           n == Len(t)
<1>1. /\ t \in Seq(Frames) /\ n \in Nat /\ DOMAIN t = 1 .. n
      /\ DOMAIN s = 1 .. n + 1
      /\ \A i \in 1 .. n : t[i] = s[i + 1]
      /\ Head(s) = s[1] /\ Head(s) \in Frames
  <2>1. Len(s) \in Nat /\ Len(s) # 0 /\ DOMAIN s = 1 .. Len(s)
    BY EmptySeq, LenProperties
  <2>2. Head(s) \in Frames /\ t \in Seq(Frames) /\ Len(t) = Len(s) - 1 /\ \A i \in 1 .. Len(t) : t[i] = s[i + 1]
    BY HeadTailProperties
  <2>3. Head(s) = s[1]
    OBVIOUS
  <2>4. DOMAIN t = 1 .. Len(t) /\ Len(t) \in Nat
    BY <2>2, LenProperties
  <2> QED BY <2>1, <2>2, <2>3, <2>4
<1> HIDE DEF t, n
<1>2. /\ 1 \in 1 .. n + 1 /\ \A i \in 1 .. n : i + 1 \in 1 .. n + 1 /\ 1 < i + 1
      /\ \A i \in 1 .. n + 1 : i = 1 \/ \E m \in 1 .. n : i = m + 1
  <2>1. \A i \in 1 .. n + 1 : i = 1 \/ (i - 1 \in 1 .. n /\ i = (i - 1) + 1)
    BY <1>1
  <2> QED BY <1>1, <2>1
<1>3. FramesOK(t, c)
  <2>1. \A i \in 1 .. n : t[i].client = c /\ (t[i].kind = "input" => t[i].keys # <<>> /\ Rises(t[i].keys))
    <3>1. \A m \in 1 .. n + 1 : s[m].client = c /\ (s[m].kind = "input" => s[m].keys # <<>> /\ Rises(s[m].keys))
      BY <1>1 DEF FramesOK
    <3> QED BY <1>1, <1>2, <3>1
  <2>2. \A i, j \in 1 .. n : i < j => Before(FrameKeys(t[i]), FrameKeys(t[j]))
    <3>1. \A i, j \in 1 .. n : i < j => i + 1 < j + 1
      BY <1>1
    <3> QED BY <1>1, <1>2, <3>1 DEF FramesOK
  <2> QED BY <1>1, <2>1, <2>2 DEF FramesOK
<1>4. \A k : k \in KeysOf(s) <=> \E i \in 1 .. n + 1 : k \in FrameKeys(s[i])
  BY <1>1 DEF KeysOf
<1>5. \A k : k \in KeysOf(t) <=> \E i \in 1 .. n : k \in FrameKeys(s[i + 1])
  BY <1>1 DEF KeysOf
<1>6. KeysOf(s) = FrameKeys(Head(s)) \cup KeysOf(t)
  <2>1. ASSUME NEW k, k \in KeysOf(s)
        PROVE  k \in FrameKeys(Head(s)) \cup KeysOf(t)
    <3>1. PICK i \in 1 .. n + 1 : k \in FrameKeys(s[i])
      BY <1>4, <2>1
    <3>2. CASE i = 1
      BY <1>1, <3>1, <3>2
    <3>3. ASSUME NEW m \in 1 .. n, i = m + 1
          PROVE  k \in KeysOf(t)
      BY <1>5, <3>1, <3>3
    <3> QED BY <1>2, <3>2, <3>3
  <2>2. ASSUME NEW k, k \in FrameKeys(Head(s)) \cup KeysOf(t)
        PROVE  k \in KeysOf(s)
    <3>1. CASE k \in FrameKeys(Head(s))
      BY <1>1, <1>2, <1>4, <3>1
    <3>2. CASE k \in KeysOf(t)
      BY <1>2, <1>4, <1>5, <3>2
    <3> QED BY <2>2, <3>1, <3>2
  <2> QED BY <2>1, <2>2
<1>7. Before(FrameKeys(Head(s)), KeysOf(t))
  <2>1. \A i \in 1 .. n : Before(FrameKeys(s[1]), FrameKeys(s[i + 1]))
    BY <1>1, <1>2 DEF FramesOK
  <2> QED BY <1>1, <1>5, <2>1 DEF Before
<1>8. Head(s).client = c /\ (Head(s).kind = "input" => Head(s).keys # <<>> /\ Rises(Head(s).keys))
  BY <1>1, <1>2 DEF FramesOK
<1> QED BY <1>1, <1>3, <1>6, <1>7, <1>8 DEF t

----------------------------------------------------------------------------
(* The sizes on record. *)
LEMMA RemovedIs ==
  ASSUME NEW S, NEW s \in Seq(S), NEW i \in DOMAIN s
  PROVE  /\ RemoveAt(s, i) \in Seq(S) /\ Len(s) \in Nat /\ Len(RemoveAt(s, i)) = Len(s) - 1
         /\ DOMAIN RemoveAt(s, i) = 1 .. Len(s) - 1 /\ DOMAIN s = 1 .. Len(s)
         /\ \A j \in 1 .. Len(s) - 1 : RemoveAt(s, i)[j] = IF j < i THEN s[j] ELSE s[j + 1]
<1> DEFINE n == Len(s)
           front == SubSeq(s, 1, i - 1)
           back == SubSeq(s, i + 1, n)
<1>1. n \in Nat /\ DOMAIN s = 1 .. n /\ i \in 1 .. n /\ \A j \in 1 .. n : s[j] \in S
  BY LenProperties, ElementOfSeq
<1>2. /\ front \in Seq(S) /\ Len(front) = i - 1
      /\ \A j \in 1 .. i - 1 : front[j] = s[j]
  <2>1. i - 1 \in Int /\ \A j \in 1 .. i - 1 : s[j] \in S
    BY <1>1
  <2>2. /\ front \in Seq(S) /\ Len(front) = IF 1 <= i - 1 THEN (i - 1) - 1 + 1 ELSE 0
        /\ \A j \in 1 .. (i - 1) - 1 + 1 : front[j] = s[1 + j - 1]
    BY <2>1, SubSeqProperties
  <2> QED BY <1>1, <2>2
<1>3. /\ back \in Seq(S) /\ Len(back) = n - i
      /\ \A j \in 1 .. n - i : back[j] = s[i + j]
  <2>1. i + 1 \in Int /\ n \in Int /\ \A j \in i + 1 .. n : s[j] \in S
    BY <1>1
  <2>2. /\ back \in Seq(S) /\ Len(back) = IF i + 1 <= n THEN n - (i + 1) + 1 ELSE 0
        /\ \A j \in 1 .. n - (i + 1) + 1 : back[j] = s[(i + 1) + j - 1]
    BY <2>1, SubSeqProperties
  <2> HIDE DEF back
  <2>3. Len(back) = n - i
    BY <1>1, <2>1, <2>2
  <2>4. ASSUME NEW j \in 1 .. n - i PROVE back[j] = s[i + j]
    <3>1. j \in 1 .. n - (i + 1) + 1 /\ (i + 1) + j - 1 = i + j
      BY <1>1, <2>1
    <3> QED BY <2>2, <3>1
  <2> QED BY <2>2, <2>3, <2>4
<1> HIDE DEF front, back, n
<1>4. /\ front \o back \in Seq(S) /\ Len(front \o back) = n - 1
      /\ \A j \in 1 .. n - 1 : (front \o back)[j] = IF j <= i - 1 THEN front[j] ELSE back[j - (i - 1)]
  <2>1. (i - 1) + (n - i) = n - 1
    BY <1>1
  <2>2. /\ front \o back \in Seq(S) /\ Len(front \o back) = Len(front) + Len(back)
        /\ \A j \in 1 .. Len(front) + Len(back) : (front \o back)[j] = IF j <= Len(front) THEN front[j] ELSE back[j - Len(front)]
    BY <1>2, <1>3, ConcatProperties
  <2> QED BY <1>2, <1>3, <2>1, <2>2
<1>5. ASSUME NEW j \in 1 .. n - 1
      PROVE  (front \o back)[j] = IF j < i THEN s[j] ELSE s[j + 1]
  <2>1. CASE j < i
    <3>1. j \in 1 .. i - 1
      BY <1>1, <2>1
    <3> QED BY <1>1, <1>2, <1>4, <2>1, <3>1
  <2>2. CASE ~ (j < i)
    <3>1. j - (i - 1) \in 1 .. n - i /\ i + (j - (i - 1)) = j + 1 /\ ~ (j <= i - 1)
      BY <1>1, <2>2
    <3>2. (front \o back)[j] = back[j - (i - 1)]
      BY <1>4, <3>1
    <3>3. back[j - (i - 1)] = s[i + (j - (i - 1))]
      BY <1>3, <3>1
    <3> QED BY <2>2, <3>1, <3>2, <3>3
  <2> QED BY <2>1, <2>2
<1>6. RemoveAt(s, i) = front \o back
  BY DEF RemoveAt, front, back, n
<1>7. DOMAIN (front \o back) = 1 .. n - 1
  BY <1>4, LenProperties
<1> QED BY <1>1, <1>4, <1>5, <1>6, <1>7 DEF n

\* The most recent viewer is on record with its size, and the others once each.
LEMMA RecordedIs ==
  ASSUME WireAssumption, NEW t \in Ttys, SizeOK(t), NEW c \in Clients, NEW shape \in Shapes
  PROVE  Recorded(t, c, shape) \in Ttys /\ SizeOK(Recorded(t, c, shape)) /\ Recorded(t, c, shape).shape = shape
<1>1. t.sizes \in Seq(SizeEntries) /\ OnceEach(t.sizes)
  BY DEF Ttys, SizeOK
<1>2. CASE ~ Named(c)
  <2>1. Recorded(t, c, shape) = [t EXCEPT !.shape = shape, !.owner = "unnamed"]
    BY <1>2 DEF Recorded
  <2> DEFINE u == [t EXCEPT !.shape = shape, !.owner = "unnamed"]
  <2>2. u \in Ttys /\ u.sizes = t.sizes /\ u.owner = "unnamed" /\ u.shape = shape
    BY DEF Ttys
  <2>3. SizeOK(u)
    BY <1>1, <2>2 DEF SizeOK
  <2> QED BY <2>1, <2>2, <2>3
<1>3. CASE Named(c)
  <2> DEFINE at == CHOOSE i \in OnRecord(t, c) : TRUE
             others == IF OnRecord(t, c) = {} THEN t.sizes ELSE RemoveAt(t.sizes, at)
             last == [viewer |-> c, shape |-> shape]
             all == Append(others, last)
             kept == IF Len(all) > MaxViewers THEN Tail(all) ELSE all
             n == Len(others)
  <2>1. Recorded(t, c, shape) = [t EXCEPT !.shape = shape, !.owner = c, !.sizes = kept]
    BY <1>3 DEF Recorded
  <2>2. /\ others \in Seq(SizeEntries) /\ OnceEach(others)
        /\ \A i \in DOMAIN others : others[i].viewer # c
    <3>1. CASE OnRecord(t, c) = {}
      BY <1>1, <3>1 DEF OnRecord
    <3>2. CASE OnRecord(t, c) # {}
      <4> DEFINE s == t.sizes
                 m == Len(s)
                 r == RemoveAt(s, at)
      <4>1. at \in OnRecord(t, c)
        BY <3>2
      <4>2. at \in DOMAIN s /\ s[at].viewer = c
        BY <4>1 DEF OnRecord
      <4> HIDE DEF at
      <4>3. /\ r \in Seq(SizeEntries) /\ m \in Nat
            /\ DOMAIN r = 1 .. m - 1 /\ DOMAIN s = 1 .. m
            /\ \A j \in 1 .. m - 1 : r[j] = IF j < at THEN s[j] ELSE s[j + 1]
        BY <1>1, <4>2, RemovedIs
      <4> HIDE DEF s, m, r
      <4>4. \A j \in 1 .. m - 1 : j \in 1 .. m /\ j + 1 \in 1 .. m
        BY <4>3
      <4>5. \A i, j \in 1 .. m : s[i].viewer = s[j].viewer => i = j
        BY <1>1, <4>3 DEF OnceEach, s
      <4>6. ASSUME NEW j \in 1 .. m - 1
            PROVE  \E i \in 1 .. m : i = (IF j < at THEN j ELSE j + 1) /\ r[j] = s[i] /\ i # at
        BY <4>2, <4>3, <4>4
      <4>7. \A j \in 1 .. m - 1 : r[j].viewer # c
        BY <4>2, <4>3, <4>5, <4>6
      <4>8. ASSUME NEW i \in 1 .. m - 1, NEW j \in 1 .. m - 1, r[i].viewer = r[j].viewer
            PROVE  i = j
        <5>1. (IF i < at THEN i ELSE i + 1) = (IF j < at THEN j ELSE j + 1)
          BY <4>5, <4>6, <4>8
        <5> QED BY <4>2, <4>3, <5>1
      <4>9. others = r
        BY <3>2 DEF r, s
      <4> QED BY <4>3, <4>7, <4>8, <4>9 DEF OnceEach
    <3> QED BY <3>1, <3>2
  <2> HIDE DEF others
  <2>3. last \in SizeEntries /\ last.viewer = c /\ last.shape = shape
    BY DEF SizeEntries
  <2> HIDE DEF last
  <2>4. /\ all \in Seq(SizeEntries) /\ n \in Nat /\ DOMAIN others = 1 .. n /\ DOMAIN all = 1 .. n + 1 /\ Len(all) = n + 1
        /\ \A i \in 1 .. n : all[i] = others[i]
        /\ all[n + 1] = last
    BY <2>2, <2>3
  <2> HIDE DEF all, n
  <2>5. \A i \in 1 .. n + 1 : i \in 1 .. n \/ i = n + 1
    BY <2>4
  <2>6. \A i, j \in 1 .. n + 1 : all[i].viewer = all[j].viewer => i = j
    BY <2>2, <2>3, <2>4, <2>5 DEF OnceEach
  <2>7. /\ kept \in Seq(SizeEntries) /\ OnceEach(kept)
        /\ \E i \in DOMAIN kept : kept[i] = last
    <3>1. CASE Len(all) > MaxViewers
      <4>1. n >= 1
        BY <2>4, <3>1 DEF WireAssumption
      <4>2. /\ kept \in Seq(SizeEntries) /\ DOMAIN kept = 1 .. n
            /\ \A i \in 1 .. n : kept[i] = all[i + 1]
        <5>1. all # <<>>
          BY <2>4, EmptySeq
        <5>2. Tail(all) \in Seq(SizeEntries) /\ Len(Tail(all)) = Len(all) - 1 /\ \A i \in 1 .. Len(Tail(all)) : Tail(all)[i] = all[i + 1]
          BY <2>4, <5>1, HeadTailProperties
        <5>3. DOMAIN Tail(all) = 1 .. Len(Tail(all)) /\ Len(Tail(all)) = n
          BY <2>4, <5>2, LenProperties
        <5> QED BY <3>1, <5>2, <5>3
      <4> HIDE DEF kept
      <4>3. \A i \in 1 .. n : i + 1 \in 1 .. n + 1
        BY <2>4
      <4>4. \A i, j \in 1 .. n : kept[i].viewer = kept[j].viewer => i + 1 = j + 1
        BY <2>6, <4>2, <4>3
      <4>5. n \in 1 .. n /\ kept[n] = last
        BY <2>4, <4>1, <4>2
      <4> QED BY <2>4, <4>2, <4>4, <4>5 DEF OnceEach
    <3>2. CASE ~ (Len(all) > MaxViewers)
      <4>1. n + 1 \in 1 .. n + 1
        BY <2>4
      <4> QED BY <2>4, <2>6, <3>2, <4>1 DEF OnceEach
    <3> QED BY <3>1, <3>2
  <2> HIDE DEF kept
  <2> DEFINE u == [t EXCEPT !.shape = shape, !.owner = c, !.sizes = kept]
  <2>8. u \in Ttys /\ u.sizes = kept /\ u.owner = c /\ u.shape = shape
    BY <2>7 DEF Ttys
  <2>9. SizeOK(u)
    <3>1. PICK i \in DOMAIN kept : kept[i] = last
      BY <2>7
    <3>2. i \in OnRecord(u, u.owner) /\ u.shape = u.sizes[i].shape
      BY <2>3, <2>8, <3>1 DEF OnRecord
    <3> QED BY <2>7, <2>8, <3>2 DEF SizeOK
  <2> QED BY <2>1, <2>8, <2>9
<1> QED BY <1>2, <1>3

----------------------------------------------------------------------------
(* What becomes of one client's keys. *)

\* One more is typed.
LEMMA TypedIs ==
  ASSUME NEW un \in KeySeqs, NEW fl \in KeySeqs, NEW ws \in Seq(Frames), NEW ld \in KeySeqs, NEW fg \in SUBSET Nat, NEW n \in Nat,
         NEW lk, NEW c, ClientOK(un, fl, ws, ld, fg, n, lk, c)
  PROVE  ClientOK(Append(un, n + 1), fl, ws, ld, fg, n + 1, lk, c)
<1> DEFINE U == ToSet(un)
           F == ToSet(fl)
           W == KeysOf(ws)
           L == ToSet(ld)
<1>1. U \subseteq Nat /\ F \subseteq Nat /\ L \subseteq Nat /\ W \subseteq Nat
  <2>1. \A i \in DOMAIN ws : ws[i] \in Frames
    BY LenProperties
  <2> QED BY <2>1, KeySetIs, FrameIs DEF KeysOf
<1>2. KeysOK(U, F, W, L, fg, n)
  BY DEF ClientOK
<1> DEFINE m == n + 1
<1>0. m \in Nat
  OBVIOUS
<1> HIDE DEF m
<1>3. ToSet(Append(un, m)) = U \cup {m}
  BY <1>0, AppendIs
<1> HIDE DEF U, F, W, L
<1>4. KeysOK(U \cup {m}, F, W, L, fg, m)
  <2>1. \A k \in U \cup F \cup W \cup L \cup fg : k \in Nat /\ k <= n
    BY <1>1, <1>2 DEF KeysOK
  <2>2. \A k \in U \cup F \cup W \cup L \cup fg : k < m /\ k <= m
    BY <2>1 DEF m
  <2>3. m \notin fg /\ m <= m
    BY <1>0, <2>2
  <2> QED BY <1>2, <2>2, <2>3 DEF KeysOK, Before
<1>5. Before(U, {m})
  <2>1. \A k \in U : k \in Nat /\ k <= n
    BY <1>1, <1>2 DEF KeysOK
  <2> QED BY <2>1 DEF Before, m
<1>6. Rises(Append(un, m))
  BY <1>0, <1>5, AppendIs DEF ClientOK, U
<1> QED BY <1>3, <1>4, <1>6 DEF ClientOK, U, F, W, L, m

\* The request is over; of one that failed the keys are forgone.
LEMMA OverIs ==
  ASSUME NEW un \in KeySeqs, NEW fl \in KeySeqs, NEW ws \in Seq(Frames), NEW ld \in KeySeqs, NEW fg \in SUBSET Nat, NEW n \in Nat,
         NEW lk, NEW c, ClientOK(un, fl, ws, ld, fg, n, lk, c), NEW failed \in SUBSET ToSet(fl)
  PROVE  ClientOK(un, <<>>, ws, ld, fg \cup failed, n, lk, c)
<1> DEFINE U == ToSet(un)
           F == ToSet(fl)
           W == KeysOf(ws)
           L == ToSet(ld)
<1>1. KeysOK(U, F, W, L, fg, n) /\ (F # {} => W = {}) /\ U \subseteq Nat /\ F \subseteq Nat
  BY KeySetIs DEF ClientOK
<1>2. failed \subseteq F
  OBVIOUS
<1> HIDE DEF U, F, W, L
<1>3. KeysOK(U, {}, W, L, fg \cup failed, n)
  <2>1. \A k \in F, l \in U : k < l /\ k \in Nat /\ l \in Nat
    BY <1>1 DEF KeysOK, Before
  <2>2. F \cap U = {}
    BY <2>1
  <2> QED BY <1>1, <1>2, <2>2 DEF KeysOK, Before
<1>4. LandedOK(ld, fg \cup failed)
  BY MoreForgone DEF ClientOK
<1> QED BY <1>3, <1>4, NothingRises DEF ClientOK, U, F, W, L

\* What is queued goes to the socket, or out in a request.
LEMMA GoesToSocket ==
  ASSUME NEW un \in KeySeqs, NEW ws \in Seq(Frames), NEW ld \in KeySeqs, NEW fg \in SUBSET Nat, NEW n \in Nat,
         NEW c \in Clients, un # <<>>, ClientOK(un, <<>>, ws, ld, fg, n, "up", c)
  PROVE  /\ ClientOK(<<>>, <<>>, Append(ws, Keyed(c, un)), ld, fg, n, "up", c)
         /\ Append(ws, Keyed(c, un)) \in Seq(Frames)
         /\ KeysOf(Append(ws, Keyed(c, un))) = KeysOf(ws) \cup ToSet(un)
<1> DEFINE f == Keyed(c, un)
           U == ToSet(un)
           W == KeysOf(ws)
           L == ToSet(ld)
<1>1. f \in Frames /\ f.client = c /\ f.kind = "input" /\ f.keys = un /\ FrameKeys(f) = U
  BY DEF Keyed, Frames, Inputs, FrameKeys
<1>2. KeysOK(U, {}, W, L, fg, n)
  BY NothingRises DEF ClientOK
<1>3. Before(W, U)
  BY <1>2 DEF KeysOK, Before
<1> HIDE DEF f, U, W, L
<1>4. /\ Append(ws, f) \in Seq(Frames) /\ FramesOK(Append(ws, f), c)
      /\ KeysOf(Append(ws, f)) = W \cup U
  <2>1. FramesOK(ws, c) /\ Rises(un)
    BY DEF ClientOK
  <2>2. (f.kind = "input" => f.keys # <<>> /\ Rises(f.keys)) /\ Before(KeysOf(ws), FrameKeys(f))
    BY <1>1, <1>3, <2>1 DEF W
  <2> QED BY <1>1, <2>1, <2>2, FrameAppended DEF W
<1>5. KeysOK({}, {}, W \cup U, L, fg, n)
  BY <1>2 DEF KeysOK, Before
<1> QED BY <1>4, <1>5, NothingRises DEF ClientOK, f, U, W, L

LEMMA GoesOut ==
  ASSUME NEW un \in KeySeqs, NEW ws \in Seq(Frames), NEW ld \in KeySeqs, NEW fg \in SUBSET Nat, NEW n \in Nat,
         NEW lk, NEW c, KeysOf(ws) = {}, ClientOK(un, <<>>, ws, ld, fg, n, lk, c)
  PROVE  ClientOK(<<>>, un, ws, ld, fg, n, lk, c) /\ Before(ToSet(ld) \ fg, ToSet(un))
<1> DEFINE U == ToSet(un)
           L == ToSet(ld)
<1>1. KeysOK(U, {}, {}, L, fg, n)
  BY NothingRises DEF ClientOK
<1> HIDE DEF U, L
<1>2. KeysOK({}, U, {}, L, fg, n) /\ Before(L \ fg, U)
  BY <1>1 DEF KeysOK, Before
<1> QED BY <1>2, NothingRises DEF ClientOK, U, L

\* Keys land: those of the request that is out, or of one that comes late.
LEMMA LandsIs ==
  ASSUME NEW un \in KeySeqs, NEW fl \in KeySeqs, NEW ws \in Seq(Frames), NEW ld \in KeySeqs, NEW fg \in SUBSET Nat, NEW n \in Nat,
         NEW lk, NEW c, ClientOK(un, fl, ws, ld, fg, n, lk, c), NEW ks \in KeySeqs, ks # <<>>, Rises(ks),
         \/ ks = fl /\ Before(ToSet(ld) \ fg, ToSet(ks))
         \/ ToSet(ks) \subseteq fg /\ ToSet(ks) \cap ToSet(ld) = {}
  PROVE  ClientOK(un, fl, ws, ld \o ks, fg, n, lk, c)
<1> DEFINE U == ToSet(un)
           F == ToSet(fl)
           W == KeysOf(ws)
           L == ToSet(ld)
           K == ToSet(ks)
<1>1. /\ KeysOK(U, F, W, L, fg, n) /\ K \subseteq Nat /\ L \subseteq Nat
      /\ ToSet(ld \o ks) = L \cup K
      /\ fl # <<>> => W = {}
      /\ (ks = fl /\ F = K /\ Before(L \ fg, K)) \/ (K \subseteq fg /\ K \cap L = {})
  BY KeySetIs, ConcatIs DEF ClientOK
<1> HIDE DEF U, F, W, L, K
<1>2. K \cap L = {}
  <2>1. CASE ks = fl /\ F = K /\ Before(L \ fg, K)
    <3>1. \A k \in K, l \in L : l \notin fg => l < k /\ k \in Nat /\ l \in Nat
      BY <1>1, <2>1 DEF Before
    <3>2. K \cap fg = {}
      BY <1>1, <2>1 DEF KeysOK
    <3>3. \A k \in K, l \in L : k # l
      BY <3>1, <3>2
    <3> QED BY <3>3
  <2> QED BY <1>1, <2>1
<1>3. KeysOK(U, F, W, L \cup K, fg, n)
  <2>1. CASE ks = fl /\ F = K
    BY <1>1, <2>1 DEF KeysOK, Before
  <2>2. CASE K \subseteq fg
    BY <1>1, <2>2 DEF KeysOK, Before
  <2> QED BY <1>1, <2>1, <2>2
<1>4. LandedOK(ld \o ks, fg)
  BY <1>1, <1>2, LandingIs DEF ClientOK, L, K
<1> QED BY <1>1, <1>3, <1>4 DEF ClientOK, U, F, W, L, K

\* The socket's first frame is handled: its keys land, or are forgone.
LEMMA FrameHandled ==
  ASSUME NEW un \in KeySeqs, NEW fl \in KeySeqs, NEW ws \in Seq(Frames), NEW ld \in KeySeqs, NEW fg \in SUBSET Nat, NEW n \in Nat,
         NEW lk, NEW c, ClientOK(un, fl, ws, ld, fg, n, lk, c), ws # <<>>
  PROVE  /\ Head(ws).kind = "input" =>
              /\ fl = <<>> /\ Head(ws).keys \in KeySeqs /\ Head(ws).keys # <<>>
              /\ ToSet(Head(ws).keys) \cap fg = {}
              /\ ClientOK(un, fl, Tail(ws), ld \o Head(ws).keys, fg, n, lk, c)
         /\ ClientOK(un, fl, Tail(ws), ld, fg \cup FrameKeys(Head(ws)), n, lk, c)
<1> DEFINE f == Head(ws)
           U == ToSet(un)
           F == ToSet(fl)
           W == KeysOf(Tail(ws))
           L == ToSet(ld)
           K == FrameKeys(f)
<1>1. /\ f \in Frames /\ Tail(ws) \in Seq(Frames) /\ FramesOK(Tail(ws), c)
      /\ f.kind = "input" => f.keys # <<>> /\ Rises(f.keys)
      /\ KeysOf(ws) = K \cup W /\ Before(K, W)
  BY FrameTaken DEF ClientOK
<1>2. f.kind = "input" => f.keys \in KeySeqs /\ K = ToSet(f.keys) /\ K # {}
  BY <1>1, FrameIs, KeySetIs
<1>3. K \subseteq Nat /\ U \subseteq Nat /\ L \subseteq Nat /\ W \subseteq Nat
  <2>1. \A i \in DOMAIN Tail(ws) : Tail(ws)[i] \in Frames
    BY <1>1, LenProperties
  <2> QED BY <1>1, <2>1, FrameIs, KeySetIs DEF KeysOf
<1>4. KeysOK(U, F, K \cup W, L, fg, n) /\ (fl # <<>> => K \cup W = {}) /\ lk = "up"
  BY <1>1 DEF ClientOK
<1> HIDE DEF U, F, W, L, K, f
<1>5. K \cap U = {} /\ K \cap W = {} /\ (\A k \in K : k \notin fg) /\ K \cap L = {} /\ Before(L \ fg, K)
  <2>1. \A k \in K, l \in U \cup W : k < l /\ k \in Nat /\ l \in Nat
    BY <1>1, <1>3, <1>4 DEF KeysOK, Before
  <2>2. \A k \in K, l \in L \ fg : l < k /\ k \in Nat /\ l \in Nat
    BY <1>3, <1>4 DEF KeysOK, Before
  <2>3. (\A k \in K : k \notin fg) /\ Before(L \ fg, K)
    BY <1>4 DEF KeysOK, Before
  <2>4. \A k \in K : k \notin U /\ k \notin W /\ k \notin L
    BY <2>1, <2>2, <2>3
  <2> QED BY <2>3, <2>4
<1>6. KeysOK(U, F, W, L, fg \cup K, n) /\ LandedOK(ld, fg \cup K)
  <2>1. F \cap K = {}
    <3>1. CASE fl = <<>>
      BY <3>1, NothingRises DEF F
    <3> QED BY <1>4, <3>1
  <2> QED BY <1>4, <1>5, <2>1, MoreForgone DEF KeysOK, Before, ClientOK
<1>7. ASSUME f.kind = "input"
      PROVE  /\ fl = <<>> /\ f.keys \in KeySeqs /\ f.keys # <<>> /\ ToSet(f.keys) \cap fg = {}
             /\ ClientOK(un, fl, Tail(ws), ld \o f.keys, fg, n, lk, c)
  <2>1. fl = <<>> /\ f.keys \in KeySeqs /\ K = ToSet(f.keys) /\ f.keys # <<>> /\ Rises(f.keys)
    BY <1>1, <1>2, <1>4, <1>7
  <2>2. ToSet(ld \o f.keys) = L \cup K
    BY <2>1, ConcatIs DEF L
  <2>3. LandedOK(ld \o f.keys, fg)
    <3> DEFINE ks == f.keys
    <3>1. ks \in KeySeqs /\ Rises(ks) /\ L \cap ToSet(ks) = {} /\ Before(L \ fg, ToSet(ks)) /\ LandedOK(ld, fg)
      BY <1>5, <2>1 DEF ClientOK
    <3> HIDE DEF ks
    <3>2. LandedOK(ld \o ks, fg)
      BY <3>1, LandingIs DEF L
    <3> QED BY <3>2 DEF ks
  <2>4. KeysOK(U, F, W, L \cup K, fg, n)
    BY <1>1, <1>4 DEF KeysOK, Before
  <2>5. ToSet(f.keys) \cap fg = {}
    BY <1>5, <2>1
  <2> QED BY <1>1, <1>4, <2>1, <2>2, <2>3, <2>4, <2>5 DEF ClientOK, U, F, W, L
<1>8. ClientOK(un, fl, Tail(ws), ld, fg \cup K, n, lk, c)
  BY <1>1, <1>4, <1>6 DEF ClientOK, U, F, W, L
<1> QED BY <1>7, <1>8 DEF f, K

\* The socket dies with what it carried.
LEMMA SocketLost ==
  ASSUME NEW un \in KeySeqs, NEW fl \in KeySeqs, NEW ws \in Seq(Frames), NEW ld \in KeySeqs, NEW fg \in SUBSET Nat, NEW n \in Nat,
         NEW lk, NEW c, ClientOK(un, fl, ws, ld, fg, n, lk, c), NEW now
  PROVE  ClientOK(un, fl, <<>>, ld, fg \cup KeysOf(ws), n, now, c)
<1> DEFINE U == ToSet(un)
           F == ToSet(fl)
           W == KeysOf(ws)
           L == ToSet(ld)
<1>1. KeysOK(U, F, W, L, fg, n) /\ (F # {} => W = {}) /\ U \subseteq Nat
  BY KeySetIs DEF ClientOK
<1>2. W \subseteq Nat
  <2>1. \A i \in DOMAIN ws : ws[i] \in Frames
    BY LenProperties
  <2> QED BY <2>1, FrameIs DEF KeysOf
<1> HIDE DEF U, F, W, L
<1>3. KeysOK(U, F, {}, L, fg \cup W, n)
  <2>1. \A k \in W, l \in U : k < l /\ k \in Nat /\ l \in Nat
    BY <1>1, <1>2 DEF KeysOK, Before
  <2>2. W \cap U = {}
    BY <2>1
  <2> QED BY <1>1, <2>2 DEF KeysOK, Before
<1>4. LandedOK(ld, fg \cup W)
  BY MoreForgone DEF ClientOK
<1> QED BY <1>3, <1>4, NothingRises DEF ClientOK, U, F, W, L
----------------------------------------------------------------------------
(* The requests of one client. *)
AskPosts == [request : Inputs, number : Nat, state : {"asked", "ok", "refused", "late"}]

LEMMA AskIs ==
  ASSUME NEW ps \in SUBSET Posts, NEW c
  PROVE  /\ AsksOf(ps, c) \in SUBSET AskPosts /\ AsksOf(ps, c) \subseteq ps
         /\ \A p \in ps : p \notin AsksOf(ps, c) => p.request.kind = "resize" \/ p.request.client # c
<1>1. ASSUME NEW p \in ps
      PROVE  /\ p \in Posts
             /\ p.request.kind = "input" => p \in AskPosts
             /\ p.request.kind # "input" => p.request.kind = "resize"
  <2>1. p \in Posts /\ p.request \in Inputs \cup Resizes
    BY DEF Posts
  <2>2. CASE p.request \in Inputs
    BY <2>1, <2>2 DEF Posts, AskPosts, Inputs
  <2>3. CASE p.request \in Resizes
    BY <2>1, <2>3 DEF Resizes
  <2> QED BY <2>1, <2>2, <2>3
<1> QED BY <1>1 DEF AsksOf

LEMMA AskTyped ==
  ASSUME NEW p \in AskPosts
  PROVE  /\ p.request.keys \in KeySeqs /\ p.request.kind = "input" /\ p.request.client \in Clients
         /\ p.state \in {"asked", "ok", "refused", "late"}
         /\ ToSet(p.request.keys) \subseteq Nat /\ (p.request.keys # <<>> => ToSet(p.request.keys) # {})
         /\ p.request \in Inputs /\ p \in Posts
<1>1. p.request \in Inputs /\ p.state \in {"asked", "ok", "refused", "late"} /\ p \in Posts
  BY DEF AskPosts, Posts
<1>2. p.request.keys \in KeySeqs /\ p.request.kind = "input" /\ p.request.client \in Clients
  BY <1>1 DEF Inputs
<1> QED BY <1>1, <1>2, KeySetIs

LEMMA AskChanged ==
  ASSUME NEW p \in AskPosts, NEW st \in {"asked", "ok", "refused", "late"}
  PROVE  /\ [p EXCEPT !.state = st] \in AskPosts
         /\ [p EXCEPT !.state = st].request = p.request /\ [p EXCEPT !.state = st].state = st
BY DEF AskPosts

LEMMA AskTaken ==
  ASSUME NEW ps, NEW p, NEW c
  PROVE  AsksOf(ps \ {p}, c) = AsksOf(ps, c) \ {p}
BY DEF AsksOf

LEMMA AskAdded ==
  ASSUME NEW ps, NEW p, NEW c
  PROVE  /\ p.request.kind = "input" /\ p.request.client = c => AsksOf(ps \cup {p}, c) = AsksOf(ps, c) \cup {p}
         /\ p.request.kind # "input" \/ p.request.client # c => AsksOf(ps \cup {p}, c) = AsksOf(ps, c)
BY DEF AsksOf

LEMMA AskOther ==
  ASSUME NEW ps, NEW p, NEW c, p.request.kind # "input" \/ p.request.client # c
  PROVE  AsksOf(ps \ {p}, c) = AsksOf(ps, c)
BY DEF AsksOf

\* With nothing out every request there is comes late.
LEMMA AllLate ==
  ASSUME NEW A \in SUBSET AskPosts, NEW there, NEW gone, AwaitOK(A, <<>>, there, gone)
  PROVE  \A p \in A : p.state = "late"
BY DEF AwaitOK, PostOK

\* Requests that come late do not depend on what is out; more may be forgone.
LEMMA LateKeep ==
  ASSUME NEW A \in SUBSET AskPosts, NEW out, NEW there, NEW gone, AwaitOK(A, out, there, gone),
         NEW B \in SUBSET A, \A p \in B : p.state = "late", NEW more, NEW next
  PROVE  AwaitOK(B, next, there, gone \cup more)
<1>1. \A p \in B : PostOK(p, next, there, gone \cup more)
  BY DEF AwaitOK, PostOK
<1>2. \A p, q \in B : p # q => PairOK(p, q)
  BY DEF AwaitOK
<1> QED BY <1>1, <1>2 DEF AwaitOK

LEMMA MoreGone ==
  ASSUME NEW A \in SUBSET AskPosts, NEW out, NEW there, NEW gone, AwaitOK(A, out, there, gone), NEW more
  PROVE  AwaitOK(A, out, there, gone \cup more)
<1>1. \A p \in A : PostOK(p, out, there, gone \cup more)
  BY DEF AwaitOK, PostOK, Before
<1> QED BY <1>1 DEF AwaitOK

\* Of one waited for: the others come late.
LEMMA OthersLate ==
  ASSUME NEW A \in SUBSET AskPosts, NEW out, NEW there, NEW gone, AwaitOK(A, out, there, gone), NEW p \in A, p.state # "late"
  PROVE  /\ \A q \in A \ {p} : q.state = "late"
         /\ p.request.keys = out /\ out # <<>> /\ Rises(out)
         /\ p.state = "asked" => Before(there \ gone, ToSet(out))
         /\ p.state = "ok" => ToSet(out) \subseteq there
<1>1. PostOK(p, out, there, gone)
  BY DEF AwaitOK
<1>2. \A q \in A \ {p} : PairOK(p, q)
  BY DEF AwaitOK
<1> QED BY <1>1, <1>2 DEF PostOK, PairOK

\* It is given up and comes late.
LEMMA BecomesLate ==
  ASSUME NEW A \in SUBSET AskPosts, NEW out, NEW there, NEW gone, AwaitOK(A, out, there, gone), NEW p \in A, p.state = "asked",
         ToSet(out) \cap gone = {}, there \subseteq Nat, NEW next
  PROVE  AwaitOK((A \ {p}) \cup {[p EXCEPT !.state = "late"]}, next, there, gone \cup ToSet(out))
<1> DEFINE r == [p EXCEPT !.state = "late"]
           B == A \ {p}
           K == ToSet(out)
<1>1. /\ \A q \in B : q.state = "late"
      /\ p.request.keys = out /\ out # <<>> /\ Rises(out) /\ Before(there \ gone, K)
  <2>1. p.state # "late"
    OBVIOUS
  <2> QED BY <2>1 DEF AwaitOK, PostOK, PairOK
<1>2. r.request.keys = out /\ r.state = "late" /\ r \in AskPosts
  BY <1>1, AskChanged
<1>3. K \cap there = {}
  <2>1. K \subseteq Nat
    BY <1>1, AskTyped
  <2>2. \A k \in K, l \in there : l \notin gone => l < k /\ l \in Nat /\ k \in Nat
    BY <1>1, <2>1 DEF Before
  <2>3. \A k \in K, l \in there : k # l
    BY <2>2
  <2> QED BY <2>3
<1> HIDE DEF r
<1>4. \A q \in B : PostOK(q, next, there, gone \cup K) /\ ToSet(q.request.keys) \subseteq gone
  BY <1>1 DEF AwaitOK, PostOK
<1>5. PostOK(r, next, there, gone \cup K)
  BY <1>1, <1>2, <1>3 DEF PostOK
<1>6. \A q \in B : PairOK(q, r) /\ PairOK(r, q)
  BY <1>1, <1>2, <1>4 DEF PairOK
<1>7. \A q, o \in B : q # o => PairOK(q, o)
  BY DEF AwaitOK
<1> QED BY <1>4, <1>5, <1>6, <1>7 DEF AwaitOK, r

\* A request goes out when no other is waited for.
LEMMA GoesOutAsked ==
  ASSUME NEW A \in SUBSET AskPosts, NEW any, NEW there, NEW gone, AwaitOK(A, any, there, gone), \A q \in A : q.state = "late",
         NEW p \in AskPosts, p.state = "asked", p.request.keys # <<>>, Rises(p.request.keys),
         Before(there \ gone, ToSet(p.request.keys))
  PROVE  AwaitOK(A \cup {p}, p.request.keys, there, gone)
<1>1. \A q \in A : PostOK(q, p.request.keys, there, gone)
  BY DEF AwaitOK, PostOK
<1>2. PostOK(p, p.request.keys, there, gone)
  BY DEF PostOK
<1>3. \A q \in A : PairOK(p, q) /\ PairOK(q, p)
  BY DEF PairOK
<1>4. \A q, o \in A : q # o => PairOK(q, o)
  BY DEF AwaitOK
<1> QED BY <1>1, <1>2, <1>3, <1>4 DEF AwaitOK

\* The one waited for is handled, taken or refused.
LEMMA AskedTaken ==
  ASSUME NEW A \in SUBSET AskPosts, NEW out, NEW there, NEW gone, AwaitOK(A, out, there, gone), NEW p \in A, p.state = "asked",
         ToSet(out) \cap gone = {}
  PROVE  AwaitOK((A \ {p}) \cup {[p EXCEPT !.state = "ok"]}, out, there \cup ToSet(out), gone)
<1> DEFINE r == [p EXCEPT !.state = "ok"]
           B == A \ {p}
           K == ToSet(out)
<1>1. (\A q \in B : q.state = "late") /\ p.request.keys = out /\ out # <<>> /\ Rises(out)
  <2>1. p.state # "late"
    OBVIOUS
  <2> QED BY <2>1 DEF AwaitOK, PostOK, PairOK
<1>2. r.request.keys = out /\ r.state = "ok"
  BY <1>1, AskChanged
<1> HIDE DEF r
<1>3. \A q \in B : PostOK(q, out, there \cup K, gone)
  BY <1>1 DEF AwaitOK, PostOK
<1>4. PostOK(r, out, there \cup K, gone)
  BY <1>1, <1>2 DEF PostOK
<1>5. \A q \in B : PairOK(q, r) /\ PairOK(r, q)
  BY <1>1, <1>2 DEF PairOK
<1>6. \A q, o \in B : q # o => PairOK(q, o)
  BY DEF AwaitOK
<1> QED BY <1>3, <1>4, <1>5, <1>6 DEF AwaitOK, r

LEMMA AskedRefused ==
  ASSUME NEW A \in SUBSET AskPosts, NEW out, NEW there, NEW gone, AwaitOK(A, out, there, gone), NEW p \in A, p.state = "asked"
  PROVE  AwaitOK((A \ {p}) \cup {[p EXCEPT !.state = "refused"]}, out, there, gone)
<1> DEFINE r == [p EXCEPT !.state = "refused"]
           B == A \ {p}
<1>1. (\A q \in B : q.state = "late") /\ p.request.keys = out /\ out # <<>> /\ Rises(out)
  <2>1. p.state # "late"
    OBVIOUS
  <2> QED BY <2>1 DEF AwaitOK, PostOK, PairOK
<1>2. r.request.keys = out /\ r.state = "refused"
  BY <1>1, AskChanged
<1> HIDE DEF r
<1>3. \A q \in B : PostOK(q, out, there, gone)
  BY DEF AwaitOK
<1>4. PostOK(r, out, there, gone)
  BY <1>1, <1>2 DEF PostOK
<1>5. \A q \in B : PairOK(q, r) /\ PairOK(r, q)
  BY <1>1, <1>2 DEF PairOK
<1>6. \A q, o \in B : q # o => PairOK(q, o)
  BY DEF AwaitOK
<1> QED BY <1>3, <1>4, <1>5, <1>6 DEF AwaitOK, r

\* One that comes late is handled.
LEMMA LateHandled ==
  ASSUME NEW A \in SUBSET AskPosts, NEW out, NEW there, NEW gone, AwaitOK(A, out, there, gone), NEW p \in A, p.state = "late"
  PROVE  /\ AwaitOK(A \ {p}, out, there, gone)
         /\ AwaitOK(A \ {p}, out, there \cup ToSet(p.request.keys), gone)
<1> DEFINE B == A \ {p}
           K == ToSet(p.request.keys)
<1>1. K \subseteq gone
  BY DEF AwaitOK, PostOK
<1>2. \A q \in B : q.state = "late" => ToSet(q.request.keys) \cap K = {}
  BY DEF AwaitOK, PairOK
<1> HIDE DEF K
<1>3. \A q \in B : PostOK(q, out, there, gone) /\ PostOK(q, out, there \cup K, gone)
  BY <1>1, <1>2 DEF AwaitOK, PostOK, Before
<1>4. \A q, o \in B : q # o => PairOK(q, o)
  BY DEF AwaitOK
<1> QED BY <1>3, <1>4 DEF AwaitOK, K

\* Keys land off the socket while every request there is comes late.
LEMMA LandsBesideLate ==
  ASSUME NEW A \in SUBSET AskPosts, NEW out, NEW there, NEW gone, AwaitOK(A, out, there, gone), \A q \in A : q.state = "late",
         NEW K, K \cap gone = {}
  PROVE  AwaitOK(A, out, there \cup K, gone)
<1>1. \A q \in A : PostOK(q, out, there \cup K, gone)
  BY DEF AwaitOK, PostOK
<1> QED BY <1>1 DEF AwaitOK
----------------------------------------------------------------------------
(* What the environment does with a request. *)
LEMMA Fed ==
  ASSUME WireAssumption, WireTypeOK, SizeOK(tty), NEW r \in Inputs, NEW takes \in BOOLEAN, Feed(r, takes)
  PROVE  /\ tty' \in Ttys /\ SizeOK(tty') /\ KeysLandAtTheirSize
         /\ landed' = landed \/ landed' = [landed EXCEPT ![r.client] = @ \o r.keys]
         /\ ~ tty.alive => landed' = landed
<1> DEFINE c == r.client
           owed == Owed(tty, c)
           refused == ~ tty.alive \/ (owed # {} /\ ~ takes)
<1>1. c \in Clients /\ r.keys \in KeySeqs /\ tty \in Ttys /\ landed \in [Clients -> KeySeqs] /\ tty.sizes \in Seq(SizeEntries)
  BY DEF Inputs, WireTypeOK, Ttys
<1>2. owed \subseteq Shapes
  <2>1. \A i \in DOMAIN tty.sizes : tty.sizes[i] \in SizeEntries
    BY <1>1, LenProperties
  <2>2. \A i \in OnRecord(tty, c) : tty.sizes[i].shape \in Shapes
    BY <2>1 DEF OnRecord, SizeEntries
  <2> QED BY <2>2 DEF Owed
<1>3. \A i, j \in OnRecord(tty, c) : i = j
  BY DEF OnRecord, SizeOK, OnceEach
<1>4. CASE refused
  <2>1. tty' = tty /\ landed' = landed
    BY <1>4 DEF Feed
  <2> QED BY <1>1, <2>1 DEF KeysLandAtTheirSize
<1>5. CASE ~ refused
  <2>1. /\ tty' = IF owed = {} THEN tty ELSE Recorded(tty, c, CHOOSE s \in owed : TRUE)
        /\ landed' = [landed EXCEPT ![c] = @ \o r.keys] /\ tty.alive
    BY <1>5 DEF Feed
  <2>2. \A d \in Clients : d # c => landed'[d] = landed[d]
    BY <1>1, <2>1
  <2>3. CASE owed = {}
    <3>1. tty' = tty
      BY <2>1, <2>3
    <3>2. Named(c) => OnRecord(tty, c) = {} \/ tty.owner = c
      BY <2>3 DEF Owed
    <3>3. tty.owner = c => \A i \in OnRecord(tty, c) : tty.shape = tty.sizes[i].shape
      <4> SUFFICES ASSUME tty.owner = c, NEW i \in OnRecord(tty, c)
                   PROVE  tty.shape = tty.sizes[i].shape
        OBVIOUS
      <4>1. c # "unnamed"
        BY <1>1 DEF WireAssumption
      <4>2. PICK j \in OnRecord(tty, c) : tty.shape = tty.sizes[j].shape
        BY <4>1 DEF SizeOK
      <4> QED BY <1>3, <4>2
    <3>4. KeysLandAtTheirSize
      BY <2>2, <3>1, <3>2, <3>3 DEF KeysLandAtTheirSize
    <3> QED BY <1>1, <2>1, <3>1, <3>4
  <2>4. CASE owed # {}
    <3> DEFINE s == CHOOSE x \in owed : TRUE
    <3>1. s \in owed /\ s \in Shapes
      BY <1>2, <2>4
    <3>2. tty' = Recorded(tty, c, s)
      BY <2>1, <2>4
    <3> HIDE DEF s
    <3>3. tty' \in Ttys /\ SizeOK(tty') /\ tty'.shape = s
      <4> DEFINE cc == c
      <4>1. cc \in Clients /\ tty' = Recorded(tty, cc, s)
        BY <1>1, <3>2
      <4> HIDE DEF cc
      <4> QED BY <1>1, <3>1, <4>1, RecordedIs
    <3>4. \A i \in OnRecord(tty, c) : tty.sizes[i].shape = s
      BY <1>3, <3>1 DEF Owed
    <3>5. KeysLandAtTheirSize
      BY <2>2, <3>3, <3>4 DEF KeysLandAtTheirSize
    <3> QED BY <1>1, <2>1, <3>3, <3>5
  <2> QED BY <2>3, <2>4
<1> QED BY <1>4, <1>5

LEMMA Reshaped ==
  ASSUME WireAssumption, WireTypeOK, SizeOK(tty), NEW r \in Resizes, NEW takes \in BOOLEAN, Reshape(r, takes)
  PROVE  tty' \in Ttys /\ SizeOK(tty') /\ KeysLandAtTheirSize /\ landed' = landed
<1> DEFINE c == r.client
           s == r.shape
<1>1. c \in Clients /\ s \in Shapes /\ tty \in Ttys
  BY DEF Resizes, WireTypeOK
<1>2. (tty' = tty \/ tty' = Recorded(tty, c, s)) /\ landed' = landed
  BY DEF Reshape
<1> HIDE DEF c, s
<1>3. tty' \in Ttys /\ SizeOK(tty')
  BY <1>1, <1>2, RecordedIs
<1> QED BY <1>2, <1>3 DEF KeysLandAtTheirSize

----------------------------------------------------------------------------
(* A client's sender goes on. *)
LEMMA OneMoves ==
  ASSUME WireInv, NEW c \in Clients, WireTypeOK', SizeOK(tty'),
         ClientOK(unsent'[c], flight'[c], wire'[c], landed'[c], forgone'[c], typed'[c], link'[c], c),
         AwaitOK(AsksOf(posts', c), flight'[c], ToSet(landed'[c]), forgone'[c]),
         KeptOK(unsent'[c], flight'[c], wire'[c], ToSet(landed'[c]), forgone'[c], typed'[c], owned'[c], stay'[c]),
         \A d \in Clients \ {c} :
           /\ unsent'[d] = unsent[d] /\ flight'[d] = flight[d] /\ wire'[d] = wire[d] /\ landed'[d] = landed[d]
           /\ forgone'[d] = forgone[d] /\ typed'[d] = typed[d] /\ link'[d] = link[d] /\ owned'[d] = owned[d]
           /\ stay'[d] = stay[d] /\ AsksOf(posts', d) = AsksOf(posts, d)
  PROVE  WireInv'
<1>1. PerClient(c)'
  BY DEF PerClient
<1>2. ASSUME NEW d \in Clients \ {c}
      PROVE  PerClient(d)'
  <2>1. PerClient(d)
    BY DEF WireInv
  <2> QED BY <2>1 DEF PerClient
<1> QED BY <1>1, <1>2 DEF WireInv

Sends(c, un, rest) ==
  \/ un = <<>> /\ posts' = rest /\ wire' = wire /\ flight' = [flight EXCEPT ![c] = <<>>]
  \/ /\ un # <<>> /\ link[c] = "up" /\ wire' = [wire EXCEPT ![c] = Append(@, Keyed(c, un))]
     /\ posts' = rest /\ flight' = [flight EXCEPT ![c] = <<>>]
  \/ /\ un # <<>> /\ link[c] # "up" /\ posts' = rest \cup {Posted(Keyed(c, un), Head(un))}
     /\ flight' = [flight EXCEPT ![c] = un] /\ wire' = wire

MaySend(c, un, gone, n, rest) ==
  /\ un \in KeySeqs /\ gone \in SUBSET Nat /\ n \in Nat /\ rest \in SUBSET Posts
  /\ ClientOK(un, <<>>, wire[c], landed[c], gone, n, link[c], c)
  /\ AwaitOK(AsksOf(rest, c), <<>>, ToSet(landed[c]), gone)
  /\ \A p \in AsksOf(rest, c) : p.state = "late"

Sent(c, un, gone, n, rest) ==
  /\ unsent' \in [Clients -> KeySeqs] /\ flight' \in [Clients -> KeySeqs]
  /\ wire' \in [Clients -> Seq(Frames)] /\ posts' \subseteq Posts
  /\ ClientOK(unsent'[c], flight'[c], wire'[c], landed[c], gone, n, link[c], c)
  /\ AwaitOK(AsksOf(posts', c), flight'[c], ToSet(landed[c]), gone)
  /\ KeysOf(wire'[c]) \cup ToSet(flight'[c]) = KeysOf(wire[c]) \cup ToSet(un)
  /\ unsent'[c] = <<>>
  /\ \A d \in Clients \ {c} : /\ unsent'[d] = unsent[d] /\ flight'[d] = flight[d] /\ wire'[d] = wire[d]
                              /\ AsksOf(posts', d) = AsksOf(rest, d)

LEMMA SendsOn ==
  ASSUME WireTypeOK, NEW c \in Clients, NEW un, NEW gone, NEW n, NEW rest, MaySend(c, un, gone, n, rest),
         unsent' = [unsent EXCEPT ![c] = <<>>], Sends(c, un, rest)
  PROVE  Sent(c, un, gone, n, rest)
<1>0. /\ un \in KeySeqs /\ gone \in SUBSET Nat /\ n \in Nat /\ rest \in SUBSET Posts
      /\ ClientOK(un, <<>>, wire[c], landed[c], gone, n, link[c], c)
      /\ AwaitOK(AsksOf(rest, c), <<>>, ToSet(landed[c]), gone)
      /\ \A p \in AsksOf(rest, c) : p.state = "late"
  BY DEF MaySend
<1>1. /\ unsent \in [Clients -> KeySeqs] /\ flight \in [Clients -> KeySeqs] /\ wire \in [Clients -> Seq(Frames)]
      /\ landed \in [Clients -> KeySeqs] /\ wire[c] \in Seq(Frames) /\ landed[c] \in KeySeqs
  BY DEF WireTypeOK, Frames
<1>2. <<>> \in KeySeqs /\ ToSet(<<>>) = {}
  BY NothingRises
<1>3. /\ unsent' \in [Clients -> KeySeqs] /\ unsent'[c] = <<>>
      /\ \A d \in Clients \ {c} : unsent'[d] = unsent[d]
  BY <1>1, <1>2
<1>4. AsksOf(rest, c) \in SUBSET AskPosts
  BY <1>0, AskIs
<1>5. CASE un = <<>> /\ posts' = rest /\ wire' = wire /\ flight' = [flight EXCEPT ![c] = <<>>]
  <2>1. /\ flight' \in [Clients -> KeySeqs] /\ flight'[c] = <<>> /\ wire'[c] = wire[c] /\ posts' = rest
        /\ \A d \in Clients \ {c} : flight'[d] = flight[d]
    BY <1>1, <1>2, <1>5
  <2> QED BY <1>0, <1>1, <1>2, <1>3, <1>5, <2>1 DEF Sent
<1>6. CASE /\ un # <<>> /\ link[c] = "up" /\ wire' = [wire EXCEPT ![c] = Append(@, Keyed(c, un))]
           /\ posts' = rest /\ flight' = [flight EXCEPT ![c] = <<>>]
  <2> DEFINE ws == Append(wire[c], Keyed(c, un))
  <2>1. /\ ClientOK(<<>>, <<>>, ws, landed[c], gone, n, "up", c) /\ ws \in Seq(Frames)
        /\ KeysOf(ws) = KeysOf(wire[c]) \cup ToSet(un)
    <3> DEFINE w == wire[c]
               l == landed[c]
    <3>1. w \in Seq(Frames) /\ l \in KeySeqs /\ ClientOK(un, <<>>, w, l, gone, n, "up", c) /\ un # <<>>
      BY <1>0, <1>1, <1>6
    <3> HIDE DEF w, l
    <3>2. /\ ClientOK(<<>>, <<>>, Append(w, Keyed(c, un)), l, gone, n, "up", c) /\ Append(w, Keyed(c, un)) \in Seq(Frames)
          /\ KeysOf(Append(w, Keyed(c, un))) = KeysOf(w) \cup ToSet(un)
      BY <1>0, <3>1, GoesToSocket
    <3> QED BY <3>2 DEF w, l
  <2> HIDE DEF ws
  <2>2. wire' = [wire EXCEPT ![c] = ws]
    BY <1>6 DEF ws
  <2>3. /\ flight' \in [Clients -> KeySeqs] /\ flight'[c] = <<>> /\ wire'[c] = ws /\ posts' = rest
        /\ wire' \in [Clients -> Seq(Frames)]
        /\ \A d \in Clients \ {c} : flight'[d] = flight[d] /\ wire'[d] = wire[d]
    BY <1>1, <1>2, <1>6, <2>1, <2>2
  <2> QED BY <1>0, <1>2, <1>3, <1>6, <2>1, <2>3 DEF Sent
<1>7. CASE /\ un # <<>> /\ link[c] # "up" /\ posts' = rest \cup {Posted(Keyed(c, un), Head(un))}
           /\ flight' = [flight EXCEPT ![c] = un] /\ wire' = wire
  <2> DEFINE p == Posted(Keyed(c, un), Head(un))
             l == landed[c]
  <2>1. flight' \in [Clients -> KeySeqs] /\ flight'[c] = un /\ \A d \in Clients \ {c} : flight'[d] = flight[d]
    BY <1>0, <1>1, <1>7
  <2>2. ClientOK(<<>>, un, wire[c], l, gone, n, link[c], c) /\ Before(ToSet(l) \ gone, ToSet(un)) /\ Rises(un)
    <3> DEFINE w == wire[c]
               lk == link[c]
    <3>1. w \in Seq(Frames) /\ l \in KeySeqs /\ ClientOK(un, <<>>, w, l, gone, n, lk, c) /\ lk # "up"
      BY <1>0, <1>1, <1>7
    <3> HIDE DEF w, l, lk
    <3>2. w = <<>> /\ Rises(un)
      BY <3>1 DEF ClientOK
    <3>3. KeysOf(w) = {}
      BY <3>2, NothingRises
    <3>4. ClientOK(<<>>, un, w, l, gone, n, lk, c) /\ Before(ToSet(l) \ gone, ToSet(un))
      BY <1>0, <3>1, <3>3, GoesOut
    <3> QED BY <3>2, <3>4 DEF w, lk
  <2>3. Head(un) \in Nat
    BY <1>0, <1>7, HeadTailProperties DEF KeySeqs
  <2>4. /\ p \in AskPosts /\ p.state = "asked" /\ p.request.keys = un /\ p.request.kind = "input" /\ p.request.client = c
        /\ p \in Posts
    BY <1>0, <2>3 DEF Posted, Keyed, AskPosts, Posts, Inputs
  <2> HIDE DEF p
  <2>5. AwaitOK(AsksOf(rest, c) \cup {p}, un, ToSet(l), gone)
    <3>1. Before(ToSet(l) \ gone, ToSet(p.request.keys)) /\ p.request.keys # <<>> /\ Rises(p.request.keys)
      BY <1>7, <2>2, <2>4
    <3>2. AwaitOK(AsksOf(rest, c) \cup {p}, p.request.keys, ToSet(l), gone)
      BY <1>0, <1>4, <2>4, <3>1, GoesOutAsked
    <3> QED BY <2>4, <3>2
  <2>6. posts' = rest \cup {p}
    BY <1>7 DEF p
  <2>7. AsksOf(posts', c) = AsksOf(rest, c) \cup {p} /\ \A d \in Clients \ {c} : AsksOf(posts', d) = AsksOf(rest, d)
    <3>1. AsksOf(posts', c) = AsksOf(rest, c) \cup {p}
      BY <2>4, <2>6 DEF AsksOf
    <3>2. ASSUME NEW d \in Clients \ {c}
          PROVE  AsksOf(posts', d) = AsksOf(rest, d)
      BY <2>4, <2>6 DEF AsksOf
    <3> QED BY <3>1, <3>2
  <2>8. posts' \subseteq Posts
    BY <1>0, <2>4, <2>6
  <2> QED BY <1>0, <1>1, <1>2, <1>3, <1>7, <2>1, <2>2, <2>5, <2>7, <2>8 DEF Sent
<1> QED BY <1>5, <1>6, <1>7 DEF Sends
----------------------------------------------------------------------------
(* Every step keeps the invariant. *)
LEMMA OfClient ==
  ASSUME WireInv, NEW c \in Clients
  PROVE  /\ unsent[c] \in KeySeqs /\ flight[c] \in KeySeqs /\ wire[c] \in Seq(Frames) /\ landed[c] \in KeySeqs
         /\ forgone[c] \in SUBSET Nat /\ typed[c] \in Nat
         /\ ToSet(unsent[c]) \subseteq Nat /\ ToSet(flight[c]) \subseteq Nat /\ ToSet(landed[c]) \subseteq Nat
         /\ ClientOK(unsent[c], flight[c], wire[c], landed[c], forgone[c], typed[c], link[c], c)
         /\ AwaitOK(AsksOf(posts, c), flight[c], ToSet(landed[c]), forgone[c])
         /\ KeptOK(unsent[c], flight[c], wire[c], ToSet(landed[c]), forgone[c], typed[c], owned[c], stay[c])
         /\ AsksOf(posts, c) \in SUBSET AskPosts
         /\ (ToSet(unsent[c]) \cup ToSet(flight[c]) \cup KeysOf(wire[c])) \cap forgone[c] = {}
<1>1. /\ unsent[c] \in KeySeqs /\ flight[c] \in KeySeqs /\ wire[c] \in Seq(Frames) /\ landed[c] \in KeySeqs
      /\ forgone[c] \in SUBSET Nat /\ typed[c] \in Nat /\ posts \in SUBSET Posts
  BY DEF WireInv, WireTypeOK, Frames
<1>2. ToSet(unsent[c]) \subseteq Nat /\ ToSet(flight[c]) \subseteq Nat /\ ToSet(landed[c]) \subseteq Nat
  BY <1>1, KeySetIs
<1>3. PerClient(c)
  BY DEF WireInv
<1>4. AsksOf(posts, c) \in SUBSET AskPosts
  BY <1>1, AskIs
<1>5. KeysOK(ToSet(unsent[c]), ToSet(flight[c]), KeysOf(wire[c]), ToSet(landed[c]), forgone[c], typed[c])
  BY <1>3 DEF PerClient, ClientOK
<1> QED BY <1>1, <1>2, <1>3, <1>4, <1>5 DEF PerClient, KeysOK

LEMMA TypeKeyKeeps ==
  ASSUME WireInv, NEW c \in Clients, TypeKey(c)
  PROVE  WireInv' /\ KeysLandAtTheirSize
<1> DEFINE n == typed[c] + 1
           un == unsent[c]
           fl == flight[c]
           ws == wire[c]
           ld == landed[c]
           fg == forgone[c]
           keys == Append(un, n)
<1>1. /\ un \in KeySeqs /\ fl \in KeySeqs /\ ws \in Seq(Frames) /\ ld \in KeySeqs /\ fg \in SUBSET Nat
      /\ typed[c] \in Nat /\ n \in Nat
      /\ ClientOK(un, fl, ws, ld, fg, typed[c], link[c], c) /\ AwaitOK(AsksOf(posts, c), fl, ToSet(ld), fg)
      /\ KeptOK(un, fl, ws, ToSet(ld), fg, typed[c], owned[c], stay[c])
      /\ AsksOf(posts, c) \in SUBSET AskPosts /\ WireTypeOK
  BY OfClient DEF WireInv
<1>2. /\ stay[c] = "attached" /\ typed' = [typed EXCEPT ![c] = n]
      /\ IF fl = <<>> THEN Drain(c, keys) ELSE unsent' = [unsent EXCEPT ![c] = keys] /\ UNCHANGED <<flight, wire, posts>>
      /\ UNCHANGED <<stay, link, forgone, owned, tty, landed, wireFaults>>
  BY DEF TypeKey
<1>3. ClientOK(keys, fl, ws, ld, fg, n, link[c], c)
  <2> DEFINE m == typed[c]
             lk == link[c]
  <2>1. m \in Nat /\ ClientOK(un, fl, ws, ld, fg, m, lk, c)
    BY <1>1
  <2> HIDE DEF m, un, fl, ws, ld, fg, lk
  <2>2. ClientOK(Append(un, m + 1), fl, ws, ld, fg, m + 1, lk, c)
    BY <1>1, <2>1, TypedIs
  <2> QED BY <2>2 DEF m, un, fl, ws, ld, fg, lk
<1>4. keys \in KeySeqs /\ keys # <<>> /\ ToSet(keys) = ToSet(un) \cup {n}
  <2> HIDE DEF n, un
  <2> QED BY <1>1, AppendIs
<1>5. owned[c] = "nothing" /\ 1 .. n \subseteq ToSet(ld) \cup fg \cup KeysOf(ws) \cup ToSet(fl) \cup ToSet(keys)
  <2>1. 1 .. typed[c] \subseteq ToSet(ld) \cup fg \cup KeysOf(ws) \cup ToSet(fl) \cup ToSet(un) /\ owned[c] = "nothing"
    BY <1>1, <1>2 DEF KeptOK
  <2>2. \A k \in 1 .. n : k \in 1 .. typed[c] \/ k = n
    BY <1>1
  <2> QED BY <1>4, <2>1, <2>2
<1>6. /\ typed' \in [Clients -> Nat] /\ typed'[c] = n /\ (\A d \in Clients \ {c} : typed'[d] = typed[d])
      /\ SizeOK(tty') /\ KeysLandAtTheirSize
  BY <1>1, <1>2 DEF WireInv, WireTypeOK, KeysLandAtTheirSize
<1>7. CASE fl = <<>>
  <2>1. unsent' = [unsent EXCEPT ![c] = <<>>] /\ Sends(c, keys, posts)
    BY <1>2, <1>4, <1>7 DEF Drain, Sends
  <2>2. posts \in SUBSET Posts /\ \A p \in AsksOf(posts, c) : p.state = "late"
    BY <1>1, <1>7, AllLate DEF WireTypeOK
  <2> HIDE DEF keys, n, fl
  <2>3. ClientOK(keys, <<>>, wire[c], landed[c], forgone[c], n, link[c], c) /\ AwaitOK(AsksOf(posts, c), fl, ToSet(landed[c]), forgone[c])
    BY <1>1, <1>3, <1>7
  <2>4. Sent(c, keys, forgone[c], n, posts)
    <3> DEFINE g == forgone[c]
    <3>1. MaySend(c, keys, g, n, posts)
      BY <1>1, <1>4, <1>7, <2>2, <2>3 DEF MaySend
    <3> HIDE DEF g
    <3>2. Sent(c, keys, g, n, posts)
      BY <1>1, <2>1, <3>1, SendsOn
    <3> QED BY <3>2 DEF g
  <2>5. WireTypeOK'
    BY <1>1, <1>2, <1>6, <2>4 DEF WireTypeOK, Frames, Sent
  <2>6. ToSet(fl) = {}
    BY <1>7, NothingRises
  <2>7. KeptOK(unsent'[c], flight'[c], wire'[c], ToSet(landed[c]), forgone[c], n, owned[c], stay[c])
    BY <1>5, <2>4, <2>6 DEF KeptOK, Sent
  <2> QED BY <1>2, <1>6, <2>4, <2>5, <2>7, OneMoves DEF Sent
<1>8. CASE fl # <<>>
  <2>1. unsent' = [unsent EXCEPT ![c] = keys] /\ UNCHANGED <<flight, wire, posts>>
    BY <1>2, <1>8
  <2>2. unsent' \in [Clients -> KeySeqs] /\ unsent'[c] = keys /\ \A d \in Clients \ {c} : unsent'[d] = unsent[d]
    BY <1>1, <1>4, <2>1 DEF WireTypeOK
  <2> HIDE DEF keys, n
  <2>3. WireTypeOK'
    BY <1>1, <1>2, <1>6, <2>1, <2>2 DEF WireTypeOK
  <2>4. KeptOK(keys, flight[c], wire[c], ToSet(landed[c]), forgone[c], n, owned[c], stay[c])
    BY <1>2, <1>5 DEF KeptOK
  <2> QED BY <1>1, <1>2, <1>3, <1>6, <2>1, <2>2, <2>3, <2>4, OneMoves
<1> QED BY <1>7, <1>8

LEMMA GoesOn ==
  ASSUME WireInv, NEW c \in Clients, NEW p \in InFlight(c), stay[c] # "left", NEW failed \in BOOLEAN, failed \/ p.state = "ok",
         NEW rest, rest = posts \ {p} \/ (p.state = "asked" /\ failed /\ rest = (posts \ {p}) \cup {[p EXCEPT !.state = "late"]}),
         SendOn(c, failed, rest), UNCHANGED <<stay, typed, link, owned, tty, landed>>
  PROVE  WireInv' /\ KeysLandAtTheirSize
<1> DEFINE un == unsent[c]
           fl == flight[c]
           ws == wire[c]
           ld == landed[c]
           fg == forgone[c]
           lost == IF failed THEN ToSet(fl) ELSE {}
           gone == fg \cup lost
           A == AsksOf(posts, c)
<1>1. /\ un \in KeySeqs /\ fl \in KeySeqs /\ ws \in Seq(Frames) /\ ld \in KeySeqs /\ fg \in SUBSET Nat
      /\ typed[c] \in Nat /\ ToSet(fl) \subseteq Nat /\ ToSet(ld) \subseteq Nat
      /\ ClientOK(un, fl, ws, ld, fg, typed[c], link[c], c) /\ AwaitOK(A, fl, ToSet(ld), fg)
      /\ KeptOK(un, fl, ws, ToSet(ld), fg, typed[c], owned[c], stay[c])
      /\ A \in SUBSET AskPosts /\ WireTypeOK /\ posts \in SUBSET Posts
      /\ ToSet(fl) \cap fg = {}
  BY OfClient DEF WireInv, WireTypeOK
<1>2. p \in A /\ p.state # "late" /\ p \in AskPosts /\ p.request.kind = "input" /\ p.request.client = c /\ p \in posts
  BY <1>1 DEF InFlight, AsksOf
<1>3. /\ \A q \in A \ {p} : q.state = "late"
      /\ p.request.keys = fl
      /\ p.state = "ok" => ToSet(fl) \subseteq ToSet(ld)
  BY <1>1, <1>2 DEF AwaitOK, PostOK, PairOK
<1>4. gone \in SUBSET Nat /\ lost \in SUBSET ToSet(fl) /\ (ToSet(fl) \subseteq gone \/ ToSet(fl) \subseteq ToSet(ld))
  BY <1>1, <1>3
<1>5. ClientOK(un, <<>>, ws, ld, gone, typed[c], link[c], c)
  <2> DEFINE m == typed[c]
             lk == link[c]
  <2>1. m \in Nat /\ ClientOK(un, fl, ws, ld, fg, m, lk, c)
    BY <1>1
  <2> HIDE DEF m, un, fl, ws, ld, fg, lk, lost
  <2>2. ClientOK(un, <<>>, ws, ld, fg \cup lost, m, lk, c)
    BY <1>1, <1>4, <2>1, OverIs
  <2> QED BY <2>2 DEF m, lk
<1> DEFINE r == [p EXCEPT !.state = "late"]
<1>6. r \in AskPosts /\ r.state = "late" /\ r.request = p.request /\ r \in Posts
  BY <1>2, AskChanged, AskTyped
<1>7. /\ rest \in SUBSET Posts
      /\ AwaitOK(AsksOf(rest, c), <<>>, ToSet(ld), gone)
      /\ \A q \in AsksOf(rest, c) : q.state = "late"
      /\ \A d \in Clients \ {c} : AsksOf(rest, d) = AsksOf(posts, d)
  <2>1. CASE rest = posts \ {p}
    <3>1. AsksOf(rest, c) = A \ {p} /\ \A d \in Clients \ {c} : AsksOf(rest, d) = AsksOf(posts, d)
      BY <1>2, <2>1 DEF AsksOf
    <3>2. AwaitOK(A \ {p}, <<>>, ToSet(ld), gone)
      <4> HIDE DEF fl, ld, fg, lost, A
      <4> QED BY <1>1, <1>3, LateKeep
    <3> QED BY <1>1, <1>3, <2>1, <3>1, <3>2
  <2>2. CASE p.state = "asked" /\ failed /\ rest = (posts \ {p}) \cup {r}
    <3> HIDE DEF r
    <3>1. AsksOf(rest, c) = (A \ {p}) \cup {r}
      BY <1>2, <1>6, <2>2 DEF AsksOf
    <3>2. \A d \in Clients \ {c} : AsksOf(rest, d) = AsksOf(posts, d)
      BY <1>2, <1>6, <2>2 DEF AsksOf
    <3>3. AwaitOK((A \ {p}) \cup {r}, <<>>, ToSet(ld), fg \cup ToSet(fl))
      <4> DEFINE L == ToSet(ld)
      <4>1. L \subseteq Nat /\ AwaitOK(A, fl, L, fg)
        BY <1>1
      <4> HIDE DEF fl, L, fg, A
      <4>2. AwaitOK((A \ {p}) \cup {[p EXCEPT !.state = "late"]}, <<>>, L, fg \cup ToSet(fl))
        BY <1>1, <1>2, <2>2, <4>1, BecomesLate
      <4> QED BY <4>2 DEF L, r
    <3>4. gone = fg \cup ToSet(fl)
      BY <2>2
    <3> QED BY <1>1, <1>3, <1>6, <2>2, <3>1, <3>2, <3>3, <3>4
  <2> QED BY <2>1, <2>2
<1>8. unsent' = [unsent EXCEPT ![c] = <<>>] /\ Sends(c, un, rest)
  BY DEF SendOn, Sends
<1>9. /\ forgone' \in [Clients -> SUBSET Nat] /\ forgone'[c] = gone
      /\ \A d \in Clients \ {c} : forgone'[d] = forgone[d]
  BY <1>1, <1>4 DEF SendOn, WireTypeOK
<1> HIDE DEF gone, lost
<1>10. Sent(c, un, gone, typed[c], rest)
  <2> DEFINE m == typed[c]
  <2>1. MaySend(c, un, gone, m, rest)
    BY <1>1, <1>4, <1>5, <1>7 DEF MaySend
  <2> HIDE DEF m, un
  <2>2. Sent(c, un, gone, m, rest)
    BY <1>1, <1>8, <2>1, SendsOn
  <2> QED BY <2>2 DEF m
<1>11. WireTypeOK'
  BY <1>1, <1>9, <1>10 DEF WireTypeOK, Frames, Sent
<1>12. KeptOK(unsent'[c], flight'[c], wire'[c], ToSet(landed[c]), gone, typed[c], owned[c], stay[c])
  <2>1. 1 .. typed[c] \subseteq ToSet(ld) \cup fg \cup KeysOf(ws) \cup ToSet(fl) \cup ToSet(un) /\ owned[c] = "nothing"
    BY <1>1 DEF KeptOK
  <2>2. fg \subseteq gone
    BY DEF gone
  <2>3. 1 .. typed[c] \subseteq ToSet(ld) \cup gone \cup (KeysOf(wire'[c]) \cup ToSet(flight'[c]))
    BY <1>4, <1>10, <2>1, <2>2 DEF Sent
  <2>4. 1 .. typed[c] \subseteq ToSet(landed[c]) \cup gone \cup KeysOf(wire'[c]) \cup ToSet(flight'[c]) \cup ToSet(unsent'[c])
    BY <2>3
  <2> QED BY <1>10, <2>1, <2>4 DEF KeptOK, Sent
<1>13. SizeOK(tty') /\ KeysLandAtTheirSize
  BY DEF WireInv, KeysLandAtTheirSize
<1> QED BY <1>7, <1>9, <1>10, <1>11, <1>12, <1>13, OneMoves DEF Sent
LEMMA PostAnsweredKeeps ==
  ASSUME WireInv, NEW c \in Clients, PostAnswered(c)
  PROVE  WireInv' /\ KeysLandAtTheirSize
<1> PICK p \in InFlight(c) :
      /\ stay[c] # "left" /\ p.state \in {"ok", "refused"}
      /\ SendOn(c, p.state = "refused", posts \ {p})
      /\ UNCHANGED <<stay, typed, link, owned, tty, landed, wireFaults>>
  BY DEF PostAnswered
<1> DEFINE failed == p.state = "refused"
           rest == posts \ {p}
<1>1. failed \in BOOLEAN /\ (failed \/ p.state = "ok") /\ SendOn(c, failed, rest) /\ rest = posts \ {p}
      /\ stay[c] # "left" /\ UNCHANGED <<stay, typed, link, owned, tty, landed>>
  OBVIOUS
<1> HIDE DEF failed, rest
<1> QED BY <1>1, GoesOn

LEMMA PostGivenUpKeeps ==
  ASSUME WireInv, NEW c \in Clients, PostGivenUp(c)
  PROVE  WireInv' /\ KeysLandAtTheirSize
<1> PICK p \in InFlight(c), arrives \in BOOLEAN :
      SendOn(c, TRUE, (posts \ {p}) \cup (IF p.state = "asked" /\ arrives THEN {[p EXCEPT !.state = "late"]} ELSE {}))
  BY DEF PostGivenUp
<1> DEFINE rest == (posts \ {p}) \cup (IF p.state = "asked" /\ arrives THEN {[p EXCEPT !.state = "late"]} ELSE {})
           failed == TRUE
<1>1. /\ failed \in BOOLEAN /\ (failed \/ p.state = "ok") /\ SendOn(c, failed, rest)
      /\ rest = posts \ {p} \/ (p.state = "asked" /\ failed /\ rest = (posts \ {p}) \cup {[p EXCEPT !.state = "late"]})
      /\ stay[c] # "left" /\ UNCHANGED <<stay, typed, link, owned, tty, landed>>
  BY DEF PostGivenUp
<1> HIDE DEF failed, rest
<1> QED BY <1>1, GoesOn

LEMMA ConnectKeeps ==
  ASSUME WireInv, NEW c \in Clients, Connect(c)
  PROVE  WireInv' /\ KeysLandAtTheirSize
<1>1. /\ ClientOK(unsent[c], flight[c], wire[c], landed[c], forgone[c], typed[c], link[c], c)
      /\ AwaitOK(AsksOf(posts, c), flight[c], ToSet(landed[c]), forgone[c])
      /\ KeptOK(unsent[c], flight[c], wire[c], ToSet(landed[c]), forgone[c], typed[c], owned[c], stay[c])
      /\ WireTypeOK /\ SizeOK(tty)
  BY OfClient DEF WireInv
<1>2. link' = [link EXCEPT ![c] = "up"] /\ UNCHANGED <<stay, typed, unsent, flight, forgone, owned, wire, posts, tty, landed>>
  BY DEF Connect, clientVars
<1>3. link' \in [Clients -> {"none", "up", "dead"}] /\ link'[c] = "up" /\ \A d \in Clients \ {c} : link'[d] = link[d]
  BY <1>1, <1>2 DEF WireTypeOK
<1>4. WireTypeOK' /\ SizeOK(tty') /\ KeysLandAtTheirSize
  BY <1>1, <1>2, <1>3 DEF WireTypeOK, KeysLandAtTheirSize
<1>5. ClientOK(unsent[c], flight[c], wire[c], landed[c], forgone[c], typed[c], "up", c)
  BY <1>1 DEF ClientOK
<1> QED BY <1>1, <1>2, <1>3, <1>4, <1>5, OneMoves

LEMMA SocketDiesKeeps ==
  ASSUME WireInv, NEW c \in Clients, SocketDies(c)
  PROVE  WireInv' /\ KeysLandAtTheirSize
<1> DEFINE lost == KeysOf(wire[c])
           gone == forgone[c] \cup lost
           none == <<>>
<1>1. /\ unsent[c] \in KeySeqs /\ flight[c] \in KeySeqs /\ wire[c] \in Seq(Frames) /\ landed[c] \in KeySeqs
      /\ forgone[c] \in SUBSET Nat /\ typed[c] \in Nat
      /\ ClientOK(unsent[c], flight[c], wire[c], landed[c], forgone[c], typed[c], link[c], c)
      /\ AwaitOK(AsksOf(posts, c), flight[c], ToSet(landed[c]), forgone[c])
      /\ KeptOK(unsent[c], flight[c], wire[c], ToSet(landed[c]), forgone[c], typed[c], owned[c], stay[c])
      /\ WireTypeOK /\ SizeOK(tty) /\ AsksOf(posts, c) \in SUBSET AskPosts
  BY OfClient DEF WireInv
<1>2. /\ link' = [link EXCEPT ![c] = "dead"] /\ wire' = [wire EXCEPT ![c] = none]
      /\ forgone' = [forgone EXCEPT ![c] = gone]
      /\ UNCHANGED <<stay, typed, unsent, flight, owned, posts, tty, landed>>
  BY DEF SocketDies, KeysOf
<1>3. lost \subseteq Nat
  <2>1. \A i \in DOMAIN wire[c] : wire[c][i] \in Frames
    BY <1>1, LenProperties
  <2> QED BY <2>1, FrameIs DEF KeysOf
<1>4. none \in Seq(Frames) /\ KeysOf(none) = {}
  BY NothingRises
<1> HIDE DEF none, lost
<1>5. /\ link' \in [Clients -> {"none", "up", "dead"}] /\ link'[c] = "dead"
      /\ wire' \in [Clients -> Seq(Frames)] /\ wire'[c] = none
      /\ forgone' \in [Clients -> SUBSET Nat] /\ forgone'[c] = gone
      /\ \A d \in Clients \ {c} : link'[d] = link[d] /\ wire'[d] = wire[d] /\ forgone'[d] = forgone[d]
  BY <1>1, <1>2, <1>3, <1>4 DEF WireTypeOK, Frames
<1>6. WireTypeOK' /\ SizeOK(tty') /\ KeysLandAtTheirSize
  BY <1>1, <1>2, <1>5 DEF WireTypeOK, KeysLandAtTheirSize, Frames
<1>7. ClientOK(unsent[c], flight[c], none, landed[c], gone, typed[c], "dead", c)
  <2> DEFINE un == unsent[c]
             fl == flight[c]
             ws == wire[c]
             ld == landed[c]
             fg == forgone[c]
             m == typed[c]
             lk == link[c]
  <2>1. /\ un \in KeySeqs /\ fl \in KeySeqs /\ ws \in Seq(Frames) /\ ld \in KeySeqs /\ fg \in SUBSET Nat /\ m \in Nat
        /\ ClientOK(un, fl, ws, ld, fg, m, lk, c)
    BY <1>1
  <2> HIDE DEF un, fl, ws, ld, fg, m, lk
  <2>2. ClientOK(un, fl, <<>>, ld, fg \cup KeysOf(ws), m, "dead", c)
    BY <2>1, SocketLost
  <2> QED BY <2>2 DEF un, fl, ws, ld, fg, m, none, lost
<1>8. AwaitOK(AsksOf(posts, c), flight[c], ToSet(landed[c]), gone)
  <2> DEFINE A == AsksOf(posts, c)
             fl == flight[c]
             L == ToSet(landed[c])
             fg == forgone[c]
  <2>1. A \in SUBSET AskPosts /\ AwaitOK(A, fl, L, fg)
    BY <1>1
  <2> HIDE DEF A, fl, L, fg
  <2>2. AwaitOK(A, fl, L, fg \cup lost)
    BY <2>1, MoreGone
  <2> QED BY <2>2 DEF A, fl, L, fg
<1>9. KeptOK(unsent[c], flight[c], none, ToSet(landed[c]), gone, typed[c], owned[c], stay[c])
  BY <1>1, <1>4 DEF KeptOK, lost
<1> QED BY <1>2, <1>5, <1>6, <1>7, <1>8, <1>9, OneMoves

LEMMA ScreenChangesKeeps ==
  ASSUME WireInv, NEW c \in Clients, ScreenChanges(c)
  PROVE  WireInv' /\ KeysLandAtTheirSize
<1>1. /\ unsent[c] \in KeySeqs /\ flight[c] \in KeySeqs /\ wire[c] \in Seq(Frames) /\ landed[c] \in KeySeqs
      /\ ClientOK(unsent[c], flight[c], wire[c], landed[c], forgone[c], typed[c], link[c], c)
      /\ AwaitOK(AsksOf(posts, c), flight[c], ToSet(landed[c]), forgone[c])
      /\ KeptOK(unsent[c], flight[c], wire[c], ToSet(landed[c]), forgone[c], typed[c], owned[c], stay[c])
      /\ WireTypeOK /\ SizeOK(tty)
  BY OfClient DEF WireInv
<1> PICK shape \in Shapes :
      /\ tty' = [tty EXCEPT !.reshapes = @ + 1]
      /\ IF link[c] = "up" THEN wire' = [wire EXCEPT ![c] = Append(@, Shaped(c, shape))] /\ UNCHANGED posts
         ELSE posts' = posts \cup {Posted(Shaped(c, shape), tty.reshapes)} /\ UNCHANGED wire
  BY DEF ScreenChanges
<1>2. UNCHANGED <<stay, typed, unsent, flight, link, forgone, owned, landed>>
  BY DEF ScreenChanges
<1>3. tty' \in Ttys /\ SizeOK(tty') /\ KeysLandAtTheirSize /\ tty.reshapes \in Nat
  <2>1. tty \in Ttys
    BY <1>1 DEF WireTypeOK
  <2>2. tty' \in Ttys /\ tty'.sizes = tty.sizes /\ tty'.owner = tty.owner /\ tty'.shape = tty.shape /\ tty.reshapes \in Nat
    BY <2>1 DEF Ttys
  <2>3. OnRecord(tty', tty'.owner) = OnRecord(tty, tty.owner)
    BY <2>2 DEF OnRecord
  <2>4. SizeOK(tty')
    BY <1>1, <2>2, <2>3 DEF SizeOK
  <2> QED BY <1>2, <2>2, <2>4 DEF KeysLandAtTheirSize
<1> DEFINE f == Shaped(c, shape)
<1>4. f \in Frames /\ f.client = c /\ f.kind = "resize" /\ FrameKeys(f) = {}
  BY DEF Shaped, Frames, Resizes, FrameKeys
<1>5. CASE link[c] = "up"
  <2> DEFINE ws == Append(wire[c], f)
  <2>1. ws \in Seq(Frames) /\ FramesOK(ws, c) /\ KeysOf(ws) = KeysOf(wire[c])
    <3> DEFINE w == wire[c]
    <3>1. w \in Seq(Frames) /\ FramesOK(w, c) /\ (f.kind = "input" => f.keys # <<>> /\ Rises(f.keys)) /\ Before(KeysOf(w), FrameKeys(f))
      BY <1>1, <1>4 DEF ClientOK, Before
    <3> HIDE DEF w, f
    <3>2. Append(w, f) \in Seq(Frames) /\ FramesOK(Append(w, f), c) /\ KeysOf(Append(w, f)) = KeysOf(w) \cup FrameKeys(f)
      BY <1>4, <3>1, FrameAppended
    <3> QED BY <1>4, <3>2 DEF w
  <2>2. wire' = [wire EXCEPT ![c] = ws] /\ posts' = posts
    BY <1>5
  <2> HIDE DEF ws
  <2>3. wire' \in [Clients -> Seq(Frames)] /\ wire'[c] = ws /\ \A d \in Clients \ {c} : wire'[d] = wire[d]
    BY <1>1, <2>1, <2>2 DEF WireTypeOK, Frames
  <2>4. WireTypeOK'
    BY <1>1, <1>2, <1>3, <2>2, <2>3 DEF WireTypeOK, Frames
  <2>5. ClientOK(unsent[c], flight[c], ws, landed[c], forgone[c], typed[c], link[c], c)
    BY <1>1, <1>5, <2>1 DEF ClientOK
  <2>6. KeptOK(unsent[c], flight[c], ws, ToSet(landed[c]), forgone[c], typed[c], owned[c], stay[c])
    BY <1>1, <2>1 DEF KeptOK
  <2> QED BY <1>1, <1>2, <1>3, <2>2, <2>3, <2>4, <2>5, <2>6, OneMoves
<1>6. CASE link[c] # "up"
  <2> DEFINE p == Posted(f, tty.reshapes)
  <2>1. p \in Posts /\ p.request.kind = "resize"
    BY <1>3, <1>4 DEF Posted, Posts, Frames
  <2>2. posts' = posts \cup {p} /\ wire' = wire
    BY <1>6
  <2> HIDE DEF p
  <2>3. \A d \in Clients : AsksOf(posts', d) = AsksOf(posts, d)
    BY <2>1, <2>2 DEF AsksOf
  <2>4. WireTypeOK'
    BY <1>1, <1>2, <1>3, <2>1, <2>2 DEF WireTypeOK
  <2> QED BY <1>1, <1>2, <1>3, <2>2, <2>3, <2>4, OneMoves
<1> QED BY <1>5, <1>6

LEMMA DetachKeeps ==
  ASSUME WireInv, NEW c \in Clients, Detach(c) \/ DetachEnds(c)
  PROVE  WireInv' /\ KeysLandAtTheirSize
<1>1. /\ ClientOK(unsent[c], flight[c], wire[c], landed[c], forgone[c], typed[c], link[c], c)
      /\ AwaitOK(AsksOf(posts, c), flight[c], ToSet(landed[c]), forgone[c])
      /\ KeptOK(unsent[c], flight[c], wire[c], ToSet(landed[c]), forgone[c], typed[c], owned[c], stay[c])
      /\ WireTypeOK /\ SizeOK(tty)
  BY OfClient DEF WireInv
<1>2. UNCHANGED <<typed, unsent, flight, link, wire, posts, forgone, tty, landed>>
  BY DEF Detach, DetachEnds, Leaves
<1>3. SizeOK(tty') /\ KeysLandAtTheirSize
  BY <1>1, <1>2 DEF KeysLandAtTheirSize
<1>4. CASE Detach(c)
  <2>1. stay[c] = "attached" /\ stay' = [stay EXCEPT ![c] = "detaching"] /\ owned' = owned
    BY <1>4 DEF Detach
  <2>2. WireTypeOK' /\ stay'[c] = "detaching" /\ \A d \in Clients \ {c} : stay'[d] = stay[d]
    BY <1>1, <1>2, <2>1 DEF WireTypeOK
  <2>3. KeptOK(unsent[c], flight[c], wire[c], ToSet(landed[c]), forgone[c], typed[c], owned[c], "detaching")
    BY <1>1, <2>1 DEF KeptOK
  <2> QED BY <1>1, <1>2, <1>3, <2>1, <2>2, <2>3, OneMoves
<1>5. CASE DetachEnds(c)
  <2> DEFINE said == IF Busy(c) THEN "unsent" ELSE "sent"
  <2>1. stay' = [stay EXCEPT ![c] = "left"] /\ owned' = [owned EXCEPT ![c] = said]
    BY <1>5 DEF DetachEnds, Leaves
  <2>2. said \in {"unsent", "sent"} /\ (said = "sent" => flight[c] = <<>> /\ unsent[c] = <<>>)
    BY DEF Busy
  <2> HIDE DEF said
  <2>3. /\ WireTypeOK' /\ stay'[c] = "left" /\ owned'[c] = said
        /\ \A d \in Clients \ {c} : stay'[d] = stay[d] /\ owned'[d] = owned[d]
    BY <1>1, <1>2, <2>1, <2>2 DEF WireTypeOK
  <2>4. KeptOK(unsent[c], flight[c], wire[c], ToSet(landed[c]), forgone[c], typed[c], said, "left")
    BY <1>1, <2>2 DEF KeptOK
  <2> QED BY <1>1, <1>2, <1>3, <2>1, <2>3, <2>4, OneMoves
<1> QED BY <1>4, <1>5

LEMMA ProcessEndsKeeps ==
  ASSUME WireInv, ProcessEnds
  PROVE  WireInv' /\ KeysLandAtTheirSize
<1>1. UNCHANGED <<stay, typed, unsent, flight, forgone, owned, link, wire, posts, landed>> /\ tty' = [tty EXCEPT !.alive = FALSE]
  BY DEF ProcessEnds, clientVars
<1>2. tty \in Ttys /\ SizeOK(tty) /\ WireTypeOK
  BY DEF WireInv, WireTypeOK
<1>3. tty' \in Ttys /\ tty'.sizes = tty.sizes /\ tty'.owner = tty.owner /\ tty'.shape = tty.shape
  BY <1>1, <1>2 DEF Ttys
<1>4. SizeOK(tty')
  <2>1. OnRecord(tty', tty'.owner) = OnRecord(tty, tty.owner)
    BY <1>3 DEF OnRecord
  <2> QED BY <1>2, <1>3, <2>1 DEF SizeOK
<1>5. WireTypeOK' /\ KeysLandAtTheirSize
  BY <1>1, <1>2, <1>3 DEF WireTypeOK, KeysLandAtTheirSize
<1>6. ASSUME NEW d \in Clients
      PROVE  PerClient(d)'
  <2>1. PerClient(d)
    BY DEF WireInv
  <2> QED BY <1>1, <2>1 DEF PerClient
<1> QED BY <1>4, <1>5, <1>6 DEF WireInv
LEMMA LandsLonger ==
  ASSUME NEW s \in KeySeqs, NEW t \in KeySeqs, t # <<>>
  PROVE  s \o t # s
<1>1. Len(s \o t) = Len(s) + Len(t) /\ Len(s) \in Nat /\ Len(t) \in Nat
  BY ConcatIs
<1>2. Len(t) # 0
  BY EmptySeq DEF KeySeqs
<1> QED BY <1>1, <1>2

LEMMA HandleFrameKeeps ==
  ASSUME WireAssumption, WireInv, NEW c \in Clients, HandleFrame(c)
  PROVE  WireInv' /\ KeysLandAtTheirSize
<1> DEFINE un == unsent[c]
           fl == flight[c]
           ws == wire[c]
           ld == landed[c]
           fg == forgone[c]
           f == Head(ws)
           rest == Tail(ws)
           K == FrameKeys(f)
<1>1. /\ un \in KeySeqs /\ fl \in KeySeqs /\ ws \in Seq(Frames) /\ ld \in KeySeqs /\ fg \in SUBSET Nat
      /\ typed[c] \in Nat /\ AsksOf(posts, c) \in SUBSET AskPosts
      /\ ClientOK(un, fl, ws, ld, fg, typed[c], link[c], c)
      /\ AwaitOK(AsksOf(posts, c), fl, ToSet(ld), fg)
      /\ KeptOK(un, fl, ws, ToSet(ld), fg, typed[c], owned[c], stay[c])
      /\ WireTypeOK /\ SizeOK(tty)
  BY OfClient DEF WireInv
<1> PICK takes \in Allowed :
      /\ ws # <<>> /\ Handle(f, takes) /\ wire' = [wire EXCEPT ![c] = rest]
      /\ forgone' = IF Took(f) THEN forgone ELSE [forgone EXCEPT ![c] = @ \cup K]
      /\ IF tty.alive \/ stay[c] = "left" THEN UNCHANGED <<stay, typed, unsent, flight, owned>> ELSE Leaves(c, "gone")
      /\ UNCHANGED <<link, posts>>
  BY DEF HandleFrame
<1>2. takes \in BOOLEAN
  BY DEF Allowed
<1>3. /\ f \in Frames /\ rest \in Seq(Frames) /\ f.client = c
      /\ KeysOf(ws) = K \cup KeysOf(rest) /\ K \subseteq Nat
      /\ f.kind = "input" => f \in Inputs /\ f.keys \in KeySeqs /\ K = ToSet(f.keys)
      /\ f.kind # "input" => f \in Resizes /\ K = {}
  <2>1. /\ f \in Frames /\ rest \in Seq(Frames) /\ f.client = c /\ KeysOf(ws) = K \cup KeysOf(rest)
    BY <1>1, FrameTaken DEF ClientOK
  <2>2. (f.kind = "input" => f \in Inputs) /\ (f.kind # "input" => f \in Resizes)
    BY <2>1 DEF Frames, Inputs, Resizes
  <2> QED BY <2>1, <2>2, FrameIs
<1>4. /\ f.kind = "input" =>
           /\ fl = <<>> /\ f.keys \in KeySeqs /\ f.keys # <<>> /\ ToSet(f.keys) \cap fg = {}
           /\ ClientOK(un, fl, rest, ld \o f.keys, fg, typed[c], link[c], c)
      /\ ClientOK(un, fl, rest, ld, fg \cup K, typed[c], link[c], c)
  <2> DEFINE m == typed[c]
             lk == link[c]
  <2>1. m \in Nat /\ ClientOK(un, fl, ws, ld, fg, m, lk, c) /\ ws # <<>>
    BY <1>1
  <2> HIDE DEF m, lk, un, fl, ws, ld, fg
  <2>2. /\ Head(ws).kind = "input" =>
             /\ fl = <<>> /\ Head(ws).keys \in KeySeqs /\ Head(ws).keys # <<>>
             /\ ToSet(Head(ws).keys) \cap fg = {}
             /\ ClientOK(un, fl, Tail(ws), ld \o Head(ws).keys, fg, m, lk, c)
        /\ ClientOK(un, fl, Tail(ws), ld, fg \cup FrameKeys(Head(ws)), m, lk, c)
    BY <1>1, <2>1, FrameHandled
  <2> QED BY <2>2 DEF m, lk
<1>5. /\ wire' \in [Clients -> Seq(Frames)] /\ wire'[c] = rest /\ \A d \in Clients \ {c} : wire'[d] = wire[d]
  BY <1>1, <1>3 DEF WireTypeOK, Frames
<1>6. /\ stay' \in [Clients -> {"attached", "detaching", "left"}] /\ owned' \in [Clients -> {"nothing", "sent", "unsent", "gone"}]
      /\ (stay'[c] = stay[c] /\ owned'[c] = owned[c]) \/ (stay'[c] = "left" /\ owned'[c] = "gone")
      /\ \A d \in Clients \ {c} : stay'[d] = stay[d] /\ owned'[d] = owned[d]
      /\ UNCHANGED <<typed, unsent, flight, link, posts>>
  BY <1>1 DEF WireTypeOK, Leaves
<1>7. /\ tty' \in Ttys /\ SizeOK(tty') /\ KeysLandAtTheirSize
      /\ landed' = landed \/ (f.kind = "input" /\ landed' = [landed EXCEPT ![c] = @ \o f.keys])
      /\ landed' = landed => \A d \in Clients : forgone'[d] = IF d = c THEN fg \cup K ELSE forgone[d]
      /\ landed' # landed => forgone' = forgone
  <2>1. CASE f.kind = "input"
    <3>1. Feed(f, takes) /\ f \in Inputs
      BY <1>3, <2>1 DEF Handle
    <3>2. /\ tty' \in Ttys /\ SizeOK(tty') /\ KeysLandAtTheirSize
          /\ landed' = landed \/ landed' = [landed EXCEPT ![f.client] = @ \o f.keys]
      <4> HIDE DEF f
      <4> QED BY <1>1, <1>2, <3>1, Fed
    <3>3. landed' = [landed EXCEPT ![c] = @ \o f.keys] => landed'[c] # landed[c]
      <4>1. ld \o f.keys # ld
        <5> DEFINE ks == f.keys
        <5>1. ks \in KeySeqs /\ ks # <<>>
          BY <1>4, <2>1
        <5> HIDE DEF ks, ld
        <5>2. ld \o ks # ld
          BY <1>1, <5>1, LandsLonger
        <5> QED BY <5>2 DEF ks
      <4> QED BY <1>1, <4>1 DEF WireTypeOK
    <3>4. Took(f) <=> landed'[c] # landed[c]
      BY <1>3, <2>1 DEF Took
    <3> QED BY <1>1, <1>3, <2>1, <3>2, <3>3, <3>4 DEF WireTypeOK
  <2>2. CASE f.kind # "input"
    <3>1. Reshape(f, takes) /\ f \in Resizes
      BY <1>3, <2>2 DEF Handle
    <3>2. tty' \in Ttys /\ SizeOK(tty') /\ KeysLandAtTheirSize /\ landed' = landed
      <4> HIDE DEF f
      <4> QED BY <1>1, <1>2, <3>1, Reshaped
    <3>3. fg \cup K = fg
      BY <1>3, <2>2
    <3> QED BY <1>1, <3>2, <3>3 DEF WireTypeOK
  <2> QED BY <2>1, <2>2
<1> HIDE DEF K, f, rest
<1>8. CASE landed' = landed
  <2>1. /\ forgone'[c] = fg \cup K /\ \A d \in Clients \ {c} : forgone'[d] = forgone[d]
    BY <1>7, <1>8
  <2>2. forgone' \in [Clients -> SUBSET Nat]
    BY <1>1, <1>3 DEF WireTypeOK
  <2>3. WireTypeOK'
    BY <1>1, <1>5, <1>6, <1>7, <1>8, <2>2 DEF WireTypeOK, Frames
  <2>4. AwaitOK(AsksOf(posts, c), fl, ToSet(ld), fg \cup K)
    <3> DEFINE A == AsksOf(posts, c)
               L == ToSet(ld)
    <3>1. A \in SUBSET AskPosts /\ AwaitOK(A, fl, L, fg)
      BY <1>1
    <3> HIDE DEF A, fl, L, fg
    <3>2. AwaitOK(A, fl, L, fg \cup K)
      BY <3>1, MoreGone
    <3> QED BY <3>2 DEF A, L
  <2>5. KeptOK(un, fl, rest, ToSet(ld), fg \cup K, typed[c], owned'[c], stay'[c])
    BY <1>1, <1>3, <1>6 DEF KeptOK
  <2>6. /\ ClientOK(unsent'[c], flight'[c], wire'[c], landed'[c], forgone'[c], typed'[c], link'[c], c)
        /\ AwaitOK(AsksOf(posts', c), flight'[c], ToSet(landed'[c]), forgone'[c])
        /\ KeptOK(unsent'[c], flight'[c], wire'[c], ToSet(landed'[c]), forgone'[c], typed'[c], owned'[c], stay'[c])
    BY <1>4, <1>5, <1>6, <1>8, <2>1, <2>4, <2>5
  <2>7. \A d \in Clients \ {c} :
          /\ unsent'[d] = unsent[d] /\ flight'[d] = flight[d] /\ wire'[d] = wire[d] /\ landed'[d] = landed[d]
          /\ forgone'[d] = forgone[d] /\ typed'[d] = typed[d] /\ link'[d] = link[d] /\ owned'[d] = owned[d]
          /\ stay'[d] = stay[d] /\ AsksOf(posts', d) = AsksOf(posts, d)
    BY <1>5, <1>6, <1>8, <2>1
  <2> QED BY <1>7, <2>3, <2>6, <2>7, OneMoves
<1>9. CASE landed' # landed
  <2> DEFINE ks == f.keys
  <2>1. f.kind = "input" /\ landed' = [landed EXCEPT ![c] = @ \o ks] /\ forgone' = forgone
    BY <1>7, <1>9
  <2>2. /\ fl = <<>> /\ ks \in KeySeqs /\ ToSet(ks) \cap fg = {} /\ K = ToSet(ks)
        /\ ClientOK(un, fl, rest, ld \o ks, fg, typed[c], link[c], c)
    BY <1>3, <1>4, <2>1
  <2> HIDE DEF ks
  <2>3. ld \o ks \in KeySeqs /\ ToSet(ld \o ks) = ToSet(ld) \cup K
    <3> HIDE DEF ld
    <3> QED BY <1>1, <2>2, ConcatIs
  <2>4. /\ landed' \in [Clients -> KeySeqs] /\ landed'[c] = ld \o ks /\ \A d \in Clients \ {c} : landed'[d] = landed[d]
    BY <1>1, <2>1, <2>3 DEF WireTypeOK
  <2>5. WireTypeOK'
    BY <1>1, <1>5, <1>6, <1>7, <2>1, <2>4 DEF WireTypeOK, Frames
  <2>6. AwaitOK(AsksOf(posts, c), fl, ToSet(ld) \cup K, fg)
    <3> DEFINE A == AsksOf(posts, c)
               L == ToSet(ld)
    <3>1. A \in SUBSET AskPosts /\ AwaitOK(A, fl, L, fg) /\ AwaitOK(A, <<>>, L, fg) /\ K \cap fg = {}
      BY <1>1, <2>2
    <3> HIDE DEF A, fl, L, fg
    <3>2. \A q \in A : q.state = "late"
      BY <3>1, AllLate
    <3>3. AwaitOK(A, fl, L \cup K, fg)
      BY <3>1, <3>2, LandsBesideLate
    <3> QED BY <3>3 DEF A, L
  <2>7. KeptOK(un, fl, rest, ToSet(ld) \cup K, fg, typed[c], owned'[c], stay'[c])
    BY <1>1, <1>3, <1>6 DEF KeptOK
  <2>8. /\ ClientOK(unsent'[c], flight'[c], wire'[c], landed'[c], forgone'[c], typed'[c], link'[c], c)
        /\ AwaitOK(AsksOf(posts', c), flight'[c], ToSet(landed'[c]), forgone'[c])
        /\ KeptOK(unsent'[c], flight'[c], wire'[c], ToSet(landed'[c]), forgone'[c], typed'[c], owned'[c], stay'[c])
    BY <1>5, <1>6, <2>1, <2>2, <2>3, <2>4, <2>6, <2>7
  <2>9. \A d \in Clients \ {c} :
          /\ unsent'[d] = unsent[d] /\ flight'[d] = flight[d] /\ wire'[d] = wire[d] /\ landed'[d] = landed[d]
          /\ forgone'[d] = forgone[d] /\ typed'[d] = typed[d] /\ link'[d] = link[d] /\ owned'[d] = owned[d]
          /\ stay'[d] = stay[d] /\ AsksOf(posts', d) = AsksOf(posts, d)
    BY <1>5, <1>6, <2>1, <2>4
  <2> QED BY <1>7, <2>5, <2>8, <2>9, OneMoves
<1> QED BY <1>8, <1>9

\* What a request leaves of those there are, as it is taken or refused.
Left(A, p, st) == (A \ {p}) \cup (IF p.state = "late" THEN {} ELSE {[p EXCEPT !.state = st]})

LEMMA PostTaken ==
  ASSUME NEW A \in SUBSET AskPosts, NEW out, NEW there, NEW gone, AwaitOK(A, out, there, gone),
         NEW p, p \in A, p.state \in {"asked", "late"}, ToSet(out) \cap gone = {}
  PROVE  /\ AwaitOK(Left(A, p, "ok"), out, there \cup ToSet(p.request.keys), gone)
         /\ AwaitOK(Left(A, p, "refused"), out, there, gone)
<1>1. CASE p.state = "late"
  <2>1. Left(A, p, "ok") = A \ {p} /\ Left(A, p, "refused") = A \ {p}
    BY <1>1 DEF Left
  <2> QED BY <1>1, <2>1, LateHandled
<1>2. CASE p.state = "asked"
  <2>1. /\ Left(A, p, "ok") = (A \ {p}) \cup {[p EXCEPT !.state = "ok"]}
        /\ Left(A, p, "refused") = (A \ {p}) \cup {[p EXCEPT !.state = "refused"]}
    BY <1>2 DEF Left
  <2>2. p.request.keys = out
    BY <1>2 DEF AwaitOK, PostOK
  <2> QED BY <1>2, <2>1, <2>2, AskedTaken, AskedRefused
<1> QED BY <1>1, <1>2

LEMMA HandlePostKeeps ==
  ASSUME WireAssumption, WireInv, HandlePost
  PROVE  WireInv' /\ KeysLandAtTheirSize
<1> PICK p \in posts, takes \in Allowed :
      /\ p.state \in {"asked", "late"} /\ Handle(p.request, takes)
      /\ posts' = (posts \ {p}) \cup
           (IF p.state = "late" \/ p.request.kind = "resize" THEN {}
            ELSE {[p EXCEPT !.state = IF Took(p.request) THEN "ok" ELSE "refused"]})
  BY DEF HandlePost
<1>1. /\ UNCHANGED <<stay, typed, unsent, flight, forgone, owned, link, wire>>
      /\ takes \in BOOLEAN /\ WireTypeOK /\ SizeOK(tty) /\ posts \in SUBSET Posts /\ p \in Posts
  BY DEF HandlePost, clientVars, Allowed, WireInv, WireTypeOK
<1> DEFINE r == p.request
<1>2. /\ r.kind = "input" => r \in Inputs /\ p \in AskPosts
      /\ r.kind # "input" => r \in Resizes /\ r.kind = "resize"
  <2>1. r \in Inputs \cup Resizes /\ p \in Posts
    BY <1>1 DEF Posts
  <2>2. CASE r \in Inputs
    BY <2>1, <2>2 DEF Posts, AskPosts, Inputs
  <2>3. CASE r \in Resizes
    BY <2>1, <2>3 DEF Resizes
  <2> QED BY <2>1, <2>2, <2>3
<1>3. CASE r.kind # "input"
  <2>1. posts' = posts \ {p} /\ Reshape(r, takes) /\ r \in Resizes
    BY <1>2, <1>3 DEF Handle
  <2>2. tty' \in Ttys /\ SizeOK(tty') /\ KeysLandAtTheirSize /\ landed' = landed
    <3> HIDE DEF r
    <3> QED BY <1>1, <2>1, Reshaped
  <2>3. WireTypeOK'
    BY <1>1, <2>1, <2>2 DEF WireTypeOK
  <2>4. ASSUME NEW d \in Clients
        PROVE  PerClient(d)'
    <3>1. AsksOf(posts', d) = AsksOf(posts, d)
      BY <1>3, <2>1 DEF AsksOf
    <3>2. PerClient(d)
      BY DEF WireInv
    <3> QED BY <1>1, <2>2, <3>1, <3>2 DEF PerClient
  <2> QED BY <2>2, <2>3, <2>4 DEF WireInv
<1>4. CASE r.kind = "input"
  <2> DEFINE c == r.client
             ks == r.keys
             un == unsent[c]
             fl == flight[c]
             ws == wire[c]
             ld == landed[c]
             fg == forgone[c]
             A == AsksOf(posts, c)
             L == ToSet(ld)
             K == ToSet(ks)
  <2>1. r \in Inputs /\ p \in AskPosts /\ c \in Clients /\ ks \in KeySeqs /\ Feed(r, takes) /\ p \in A
    BY <1>2, <1>4 DEF Handle, Inputs, AsksOf
  <2>2. /\ tty' \in Ttys /\ SizeOK(tty') /\ KeysLandAtTheirSize
        /\ landed' = landed \/ landed' = [landed EXCEPT ![c] = @ \o ks]
    <3> HIDE DEF r
    <3> QED BY <1>1, <2>1, Fed
  <2> HIDE DEF r, c
  <2>3. /\ un \in KeySeqs /\ fl \in KeySeqs /\ ws \in Seq(Frames) /\ ld \in KeySeqs /\ fg \in SUBSET Nat
        /\ typed[c] \in Nat /\ A \in SUBSET AskPosts
        /\ ClientOK(un, fl, ws, ld, fg, typed[c], link[c], c)
        /\ AwaitOK(A, fl, L, fg)
        /\ KeptOK(un, fl, ws, L, fg, typed[c], owned[c], stay[c])
        /\ ToSet(fl) \cap fg = {}
    BY <2>1, OfClient
  <2> DEFINE ok == [p EXCEPT !.state = "ok"]
             no == [p EXCEPT !.state = "refused"]
  <2>4. ok \in AskPosts /\ ok.request = r /\ no \in AskPosts /\ no.request = r /\ ok \in Posts /\ no \in Posts
    BY <2>1, AskChanged, AskTyped DEF r
  <2>5. Took(r) <=> landed'[c] # landed[c]
    BY <1>4 DEF Took, c
  <2>6. /\ PostOK(p, fl, L, fg) /\ ks # <<>> /\ Rises(ks)
        /\ p.state = "late" => K \subseteq fg /\ K \cap L = {}
        /\ p.state = "asked" => ks = fl /\ Before(L \ fg, K)
    BY <2>1, <2>3 DEF AwaitOK, PostOK, r
  <2>7. posts' = (posts \ {p}) \cup (IF p.state = "late" THEN {} ELSE {IF Took(r) THEN ok ELSE no})
    BY <1>4 DEF r
  <2>8. posts' \subseteq Posts
    BY <1>1, <2>4, <2>7
  <2>9. \A d \in Clients \ {c} : AsksOf(posts', d) = AsksOf(posts, d)
    <3> SUFFICES ASSUME NEW d \in Clients \ {c}
                 PROVE  AsksOf(posts', d) = AsksOf(posts, d)
      OBVIOUS
    <3>1. p.request.client = c /\ ok.request.client = c /\ no.request.client = c
      BY <2>4 DEF c, r
    <3> HIDE DEF ok, no
    <3> QED BY <2>7, <3>1 DEF AsksOf
  <2>10. AsksOf(posts', c) = (A \ {p}) \cup (IF p.state = "late" THEN {} ELSE {IF Took(r) THEN ok ELSE no})
    <3>1. ok.request.client = c /\ no.request.client = c /\ ok.request.kind = "input" /\ no.request.kind = "input"
      BY <1>4, <2>4 DEF c
    <3> HIDE DEF ok, no
    <3> QED BY <2>7, <3>1 DEF AsksOf
  <2>11. p.state \in {"asked", "late"}
    OBVIOUS
  <2>12. CASE landed' = landed
    <3>1. ~ Took(r)
      BY <2>5, <2>12
    <3>2. AwaitOK(AsksOf(posts', c), fl, L, fg)
      <4>1. AsksOf(posts', c) = Left(A, p, "refused")
        BY <2>10, <3>1 DEF Left
      <4>2. A \in SUBSET AskPosts /\ p \in A /\ AwaitOK(A, fl, L, fg) /\ ToSet(fl) \cap fg = {}
        BY <2>1, <2>3
      <4> HIDE DEF A, fl, L, fg
      <4> QED BY <2>11, <4>1, <4>2, PostTaken
    <3>3. WireTypeOK'
      BY <1>1, <2>2, <2>8, <2>12 DEF WireTypeOK
    <3> QED BY <1>1, <2>1, <2>2, <2>3, <2>9, <2>12, <3>2, <3>3, OneMoves
  <2>13. CASE landed' # landed
    <3>1. landed' = [landed EXCEPT ![c] = ld \o ks] /\ landed' \in [Clients -> KeySeqs]
          /\ landed'[c] = ld \o ks /\ \A d \in Clients \ {c} : landed'[d] = landed[d]
      <4>1. ld \o ks \in KeySeqs
        <5> HIDE DEF ld, ks
        <5> QED BY <2>1, <2>3, ConcatIs
      <4> QED BY <1>1, <2>1, <2>2, <2>13, <4>1 DEF WireTypeOK
    <3>2. Took(r)
      <4>1. ld \o ks # ld
        <5> HIDE DEF ld, ks
        <5> QED BY <2>1, <2>3, <2>6, LandsLonger
      <4> QED BY <2>5, <3>1, <4>1
    <3>3. ToSet(ld \o ks) = L \cup K
      <4> HIDE DEF ld, ks
      <4> QED BY <2>1, <2>3, ConcatIs
    <3>4. ClientOK(un, fl, ws, ld \o ks, fg, typed[c], link[c], c)
      <4> DEFINE m == typed[c]
                 lk == link[c]
      <4>1. m \in Nat /\ ClientOK(un, fl, ws, ld, fg, m, lk, c)
        BY <2>3
      <4>2. \/ ks = fl /\ Before(ToSet(ld) \ fg, ToSet(ks))
            \/ ToSet(ks) \subseteq fg /\ ToSet(ks) \cap ToSet(ld) = {}
        BY <2>6, <2>11
      <4> HIDE DEF m, lk, un, fl, ws, ld, fg, ks
      <4>3. ClientOK(un, fl, ws, ld \o ks, fg, m, lk, c)
        BY <2>1, <2>3, <2>6, <4>1, <4>2, LandsIs
      <4> QED BY <4>3 DEF m, lk
    <3>5. AwaitOK(AsksOf(posts', c), fl, L \cup K, fg)
      <4>1. AsksOf(posts', c) = Left(A, p, "ok") /\ K = ToSet(p.request.keys)
        BY <2>10, <3>2 DEF Left, r
      <4>2. A \in SUBSET AskPosts /\ p \in A /\ AwaitOK(A, fl, L, fg) /\ ToSet(fl) \cap fg = {}
        BY <2>1, <2>3
      <4> HIDE DEF A, fl, L, fg, K
      <4> QED BY <2>11, <4>1, <4>2, PostTaken
    <3>6. KeptOK(un, fl, ws, L \cup K, fg, typed[c], owned[c], stay[c])
      BY <2>3 DEF KeptOK
    <3>7. WireTypeOK'
      BY <1>1, <2>2, <2>8, <3>1 DEF WireTypeOK
    <3>8. /\ ClientOK(unsent'[c], flight'[c], wire'[c], landed'[c], forgone'[c], typed'[c], link'[c], c)
          /\ AwaitOK(AsksOf(posts', c), flight'[c], ToSet(landed'[c]), forgone'[c])
          /\ KeptOK(unsent'[c], flight'[c], wire'[c], ToSet(landed'[c]), forgone'[c], typed'[c], owned'[c], stay'[c])
      BY <1>1, <3>1, <3>3, <3>4, <3>5, <3>6
    <3>9. \A d \in Clients \ {c} :
            /\ unsent'[d] = unsent[d] /\ flight'[d] = flight[d] /\ wire'[d] = wire[d] /\ landed'[d] = landed[d]
            /\ forgone'[d] = forgone[d] /\ typed'[d] = typed[d] /\ link'[d] = link[d] /\ owned'[d] = owned[d]
            /\ stay'[d] = stay[d] /\ AsksOf(posts', d) = AsksOf(posts, d)
      BY <1>1, <2>9, <3>1
    <3> QED BY <2>1, <2>2, <3>7, <3>8, <3>9, OneMoves
  <2> QED BY <2>12, <2>13
<1> QED BY <1>3, <1>4

----------------------------------------------------------------------------
LEMMA WireStarts ==
  ASSUME WireAssumption, WireInit
  PROVE  WireInv
<1> PICK c0 \in Clients \ Nameless, s0 \in Shapes :
      tty = [alive |-> TRUE, shape |-> s0, owner |-> c0, sizes |-> <<[viewer |-> c0, shape |-> s0]>>, reshapes |-> 0]
  BY DEF WireInit
<1> DEFINE e == [viewer |-> c0, shape |-> s0]
<1>1. /\ <<e>> \in Seq(SizeEntries) /\ DOMAIN <<e>> = {1} /\ <<e>>[1] = e /\ e.viewer = c0 /\ e.shape = s0
  BY DEF SizeEntries
<1>2. tty \in Ttys /\ tty.sizes = <<e>> /\ tty.owner = c0 /\ tty.shape = s0
  BY <1>1 DEF Ttys
<1> HIDE DEF e
<1>3. SizeOK(tty)
  <2>1. 1 \in OnRecord(tty, tty.owner) /\ tty.shape = tty.sizes[1].shape
    BY <1>1, <1>2 DEF OnRecord
  <2> QED BY <1>1, <1>2, <2>1 DEF SizeOK, OnceEach
<1>4. <<>> \in KeySeqs /\ <<>> \in Seq(Frames)
  BY NothingRises
<1>5. WireTypeOK
  BY <1>2, <1>4 DEF WireInit, WireTypeOK, Frames
<1>6. ASSUME NEW c \in Clients
      PROVE  PerClient(c)
  <2>1. /\ unsent[c] = <<>> /\ flight[c] = <<>> /\ wire[c] = <<>> /\ landed[c] = <<>> /\ forgone[c] = {} /\ typed[c] = 0
        /\ owned[c] = "nothing" /\ posts = {}
    BY DEF WireInit
  <2>2. KeysOK({}, {}, {}, {}, {}, 0)
    BY DEF KeysOK, Before
  <2>3. ClientOK(<<>>, <<>>, <<>>, <<>>, {}, 0, link[c], c)
    BY <2>2, NothingRises DEF ClientOK
  <2>4. AsksOf({}, c) = {} /\ AwaitOK({}, <<>>, ToSet(<<>>), {})
    BY DEF AsksOf, AwaitOK
  <2>5. KeptOK(<<>>, <<>>, <<>>, ToSet(<<>>), {}, 0, "nothing", stay[c])
    BY DEF KeptOK
  <2> QED BY <2>1, <2>3, <2>4, <2>5 DEF PerClient
<1> QED BY <1>3, <1>5, <1>6 DEF WireInv

LEMMA WireStep ==
  ASSUME WireAssumption, WireInv, [WireNext]_wireVars
  PROVE  WireInv' /\ KeysLandAtTheirSize
<1>1. CASE UNCHANGED wireVars
  <2>1. /\ UNCHANGED <<stay, typed, unsent, flight, link, wire, posts, forgone, owned, tty, landed>>
    BY <1>1 DEF wireVars
  <2>2. ASSUME NEW d \in Clients
        PROVE  PerClient(d)'
    <3>1. PerClient(d)
      BY DEF WireInv
    <3> QED BY <2>1, <3>1 DEF PerClient
  <2>3. WireTypeOK' /\ SizeOK(tty)' /\ KeysLandAtTheirSize
    BY <2>1 DEF WireInv, WireTypeOK, KeysLandAtTheirSize
  <2> QED BY <2>2, <2>3 DEF WireInv
<1>2. ASSUME NEW c \in Clients, TypeKey(c) \/ PostAnswered(c) \/ PostGivenUp(c)
      PROVE  WireInv' /\ KeysLandAtTheirSize
  BY <1>2, TypeKeyKeeps, PostAnsweredKeeps, PostGivenUpKeeps
<1>3. ASSUME NEW c \in Clients, Connect(c) \/ SocketDies(c) \/ HandleFrame(c)
      PROVE  WireInv' /\ KeysLandAtTheirSize
  BY <1>3, ConnectKeeps, SocketDiesKeeps, HandleFrameKeeps
<1>4. ASSUME NEW c \in Clients, ScreenChanges(c) \/ Detach(c) \/ DetachEnds(c)
      PROVE  WireInv' /\ KeysLandAtTheirSize
  BY <1>4, ScreenChangesKeeps, DetachKeeps
<1>5. CASE HandlePost \/ ProcessEnds
  BY <1>5, HandlePostKeeps, ProcessEndsKeeps
<1> QED BY <1>1, <1>2, <1>3, <1>4, <1>5 DEF WireNext

LEMMA OrderlyThen ==
  ASSUME WireInv
  PROVE  InputIsOrderly
<1>1. KeysInOrder
  BY OfClient DEF KeysInOrder, ClientOK, LandedOK
<1>2. OwnersSizeIsShown
  BY DEF OwnersSizeIsShown, WireInv, SizeOK
<1>3. ASSUME NEW c \in Clients, owned[c] = "sent", NEW k \in 1 .. typed[c]
      PROVE  \/ k \in ToSet(landed[c]) \cup forgone[c]
             \/ \E i \in DOMAIN wire[c] : k \in FrameKeys(wire[c][i])
  <2>1. k \in ToSet(landed[c]) \cup forgone[c] \cup KeysOf(wire[c])
    BY <1>3, OfClient, NothingRises DEF KeptOK
  <2> QED BY <2>1 DEF KeysOf
<1> QED BY <1>1, <1>2, <1>3 DEF InputIsOrderly, LeavingIsHonest

\* Keys typed at a terminal that several viewers share: each viewer's reach the
\* process in their order, once, and at that viewer's size; and a viewer that
\* leaves saying that all was sent leaves nothing behind, across the change from
\* HTTP to the socket and back (lib/input-sender.mjs, lib/terminal-size-owner.mjs).
THEOREM KeysHold ==
  ASSUME WireAssumption
  PROVE  WireSpec => KeysAtSize
<1>1. WireInit => WireInv
  BY WireStarts
<1>2. WireInv /\ [WireNext]_wireVars => WireInv'
  BY WireStep
<1>3. WireInv => InputIsOrderly
  BY OrderlyThen
<1>4. WireInv /\ [WireNext]_wireVars => [KeysLandAtTheirSize]_wireVars
  BY WireStep
<1> QED BY <1>1, <1>2, <1>3, <1>4, PTL DEF WireSpec, KeysAtSize

----------------------------------------------------------------------------
(***************************************************************************)
(* The panes of the workers in Herdr.                                      *)
(***************************************************************************)
Said == PaneWords \cup {"none", "idle"}
PaneOwners == PaneWorkers \cup {NoOne, "operator"}
HerdrPane == [of : PaneOwners, tells : (PaneWorkers \cup {NoOne}) \X Said, seq : Nat]
Entries == [of : PaneWorkers \cup {NoOne}, wanted : Said, waiting : Said]
Openings == [stage : {"none", "shell", "open", "close", "done", "left"}, pane : PaneIds \cup {0}, tries : {0, 1}]
Reports == [pane : PaneIds, of : PaneWorkers, says : Said, seq : Nat, fate : {"out", "heard", "missing", "failed"}]

PaneTypeOK ==
  /\ living \in [PaneWorkers -> {"off", "live", "gone"}]
  /\ word \in [PaneWorkers -> Said]
  /\ panes \in [PaneIds -> HerdrPane]
  /\ opening \in [PaneWorkers -> Openings]
  /\ told \in [PaneIds -> Entries]
  /\ flights \subseteq Reports
  /\ astray \subseteq PaneWorkers
  /\ reading \in [now : BOOLEAN, seen : [PaneWorkers -> Said], again : BOOLEAN]
  /\ seqs \in Nat

\* While an opener holds a pane's id, the pane is its worker's, unless it went
\* and the opener was not told.
HeldAreTheirs ==
  /\ \A w \in PaneWorkers : living[w] = "off" => opening[w].stage = "none"
  /\ \A w \in PaneWorkers : opening[w].stage \in {"shell", "open", "close"} => opening[w].pane \in PaneIds
  /\ \A w \in PaneWorkers, p \in PaneIds : HoldsPane(w, p) => panes[p].of = w \/ w \in astray

\* The reporter's entry is of an open pane.
EntriesAreOpen ==
  \A p \in PaneIds : told[p].of # NoOne => opening[told[p].of].stage = "open" /\ opening[told[p].of].pane = p

\* Stamps already given are behind the clock.
StampsAreBehind ==
  /\ \A f \in flights : f.seq < seqs
  /\ \A p \in PaneIds : panes[p].seq < seqs

\* What another's reports under way would say is older than the claim.
OthersAreOlder ==
  \A p \in PaneIds : told[p].of # NoOne /\ panes[p].of = told[p].of =>
    \A f \in flights : f.pane = p /\ f.of # told[p].of => f.seq < panes[p].seq

PaneInv == PaneTypeOK /\ HeldAreTheirs /\ EntriesAreOpen /\ StampsAreBehind /\ OthersAreOlder /\ ClaimedTellsItsOwn

PanePromise == ReportsGoHome /\ UsesItsOwn

LEMMA PanesBegin ==
  ASSUME PaneAssumption, PanesInit
  PROVE  PaneInv
<1>1. NoPane \in HerdrPane /\ NoPane.of = NoOne /\ NoPane.seq = 0
  BY DEF NoPane, HerdrPane, PaneOwners, Said
<1>2. NoEntry \in Entries /\ NoEntry.of = NoOne /\ NotOpening \in Openings /\ NotOpening.stage = "none"
  BY DEF NoEntry, Entries, Said, NotOpening, Openings
<1>3. NoReading \in [now : BOOLEAN, seen : [PaneWorkers -> Said], again : BOOLEAN]
  BY DEF NoReading, Said
<1>4. word \in [PaneWorkers -> Said]
  <2>1. (CHOOSE x \in PaneWords : TRUE) \in PaneWords
    BY DEF PaneAssumption
  <2> QED BY <2>1 DEF PanesInit, Said
<1>5. PaneTypeOK
  BY <1>1, <1>2, <1>3, <1>4 DEF PanesInit, PaneTypeOK
<1>6. HeldAreTheirs /\ EntriesAreOpen /\ StampsAreBehind /\ OthersAreOlder /\ ClaimedTellsItsOwn
  BY <1>1, <1>2 DEF PanesInit, HeldAreTheirs, HoldsPane, EntriesAreOpen, StampsAreBehind, OthersAreOlder, ClaimedTellsItsOwn
<1> QED BY <1>5, <1>6 DEF PaneInv

LEMMA NonesAre ==
         /\ NoPane \in HerdrPane /\ NoPane.of = NoOne /\ NoPane.seq = 0
         /\ NoEntry \in Entries /\ NoEntry.of = NoOne
         /\ NotOpening \in Openings /\ NotOpening.stage = "none"
         /\ NoReading \in [now : BOOLEAN, seen : [PaneWorkers -> Said], again : BOOLEAN]
BY DEF NoPane, HerdrPane, PaneOwners, Said, NoEntry, Entries, NotOpening, Openings, NoReading

LEMMA AskedIs ==
  ASSUME PaneTypeOK
  PROVE  AskedToRead(reading) \in [now : BOOLEAN, seen : [PaneWorkers -> Said], again : BOOLEAN]
BY DEF PaneTypeOK, AskedToRead

\* What the highest stamp does to a pane.
LEMMA HeardIs ==
  ASSUME NEW r \in HerdrPane, NEW says \in (PaneWorkers \cup {NoOne}) \X Said, NEW seq \in Nat
  PROVE  /\ Heard(r, says, seq) \in HerdrPane /\ Heard(r, says, seq).of = r.of
         /\ Heard(r, says, seq).seq >= r.seq
         /\ seq >= r.seq => Heard(r, says, seq).tells = says /\ Heard(r, says, seq).seq = seq
         /\ seq < r.seq => Heard(r, says, seq) = r
<1>1. r.seq \in Nat
  BY DEF HerdrPane
<1>2. CASE seq >= r.seq
  <2>1. Heard(r, says, seq) = [r EXCEPT !.tells = says, !.seq = seq]
    BY <1>2 DEF Heard
  <2> DEFINE A == (PaneWorkers \cup {NoOne}) \X Said
  <2>2. r \in [of : PaneOwners, tells : A, seq : Nat] /\ says \in A
    BY DEF HerdrPane
  <2> HIDE DEF A
  <2>3. /\ [r EXCEPT !.tells = says, !.seq = seq] \in [of : PaneOwners, tells : A, seq : Nat]
        /\ [r EXCEPT !.tells = says, !.seq = seq].of = r.of
        /\ [r EXCEPT !.tells = says, !.seq = seq].tells = says
        /\ [r EXCEPT !.tells = says, !.seq = seq].seq = seq
    BY <2>2
  <2>4. Heard(r, says, seq) \in HerdrPane
    BY <2>1, <2>3 DEF A, HerdrPane
  <2> QED BY <1>1, <1>2, <2>1, <2>3, <2>4
<1>3. CASE ~ (seq >= r.seq)
  BY <1>1, <1>3 DEF Heard
<1> QED BY <1>1, <1>2, <1>3

----------------------------------------------------------------------------
LEMMA StartsAPane ==
  ASSUME PaneAssumption, PaneInv, NEW w \in PaneWorkers, WorkerStarts(w)
  PROVE  PaneInv' /\ PanePromise
<1>1. /\ living[w] = "off" /\ living' = [living EXCEPT ![w] = "live"]
      /\ UNCHANGED <<word, told, flights, reading, seqs, astray>>
  BY DEF WorkerStarts
<1>2. living' \in [PaneWorkers -> {"off", "live", "gone"}]
  BY <1>1 DEF PaneInv, PaneTypeOK
<1>3. ReportsGoHome
  BY <1>1 DEF ReportsGoHome
<1>4. ASSUME NEW p \in PaneIds, Free(p), panes' = [panes EXCEPT ![p] = [NoPane EXCEPT !.of = w]],
             opening' = [opening EXCEPT ![w] = [stage |-> "shell", pane |-> p, tries |-> 0]]
      PROVE  PaneInv' /\ PanePromise
  <2> DEFINE new == [NoPane EXCEPT !.of = w]
  <2>1. panes[p].of = NoOne /\ opening[w].stage = "none"
    BY <1>1, <1>4 DEF Free, PaneInv, HeldAreTheirs
  <2>2. new \in HerdrPane /\ new.of = w /\ new.seq = 0
    BY NonesAre DEF HerdrPane, PaneOwners, NoPane, Said
  <2>3. /\ panes' \in [PaneIds -> HerdrPane] /\ panes'[p] = new
        /\ \A q \in PaneIds : q # p => panes'[q] = panes[q]
    BY <1>4, <2>2 DEF PaneInv, PaneTypeOK
  <2> HIDE DEF new
  <2>4. /\ opening' \in [PaneWorkers -> Openings] /\ opening'[w].stage = "shell" /\ opening'[w].pane = p
        /\ \A v \in PaneWorkers : v # w => opening'[v] = opening[v]
    BY <1>4 DEF PaneInv, PaneTypeOK, Openings
  <2>5. PaneTypeOK'
    BY <1>1, <1>2, <2>3, <2>4 DEF PaneInv, PaneTypeOK
  <2>6. HeldAreTheirs'
    <3>1. \A v \in PaneWorkers : opening'[v].stage \in {"shell", "open", "close"} => opening'[v].pane \in PaneIds
      BY <2>4 DEF PaneInv, HeldAreTheirs
    <3>2. \A v \in PaneWorkers, q \in PaneIds : HoldsPane(v, q)' <=> IF v = w THEN q = p ELSE HoldsPane(v, q)
      BY <2>4 DEF HoldsPane
    <3>3. \A v \in PaneWorkers, q \in PaneIds : HoldsPane(v, q)' => panes'[q].of = v \/ v \in astray'
      <4> SUFFICES ASSUME NEW v \in PaneWorkers, NEW q \in PaneIds, HoldsPane(v, q)', v \notin astray
                   PROVE  panes'[q].of = v
        BY <1>1
      <4>1. CASE v = w
        BY <2>2, <2>3, <3>2, <4>1
      <4>2. CASE v # w
        <5>1. panes[q].of = v /\ v # NoOne
          BY <3>2, <4>2 DEF PaneInv, HeldAreTheirs, PaneAssumption
        <5> QED BY <2>1, <2>3, <5>1
      <4> QED BY <4>1, <4>2
    <3>4. \A v \in PaneWorkers : living'[v] = "off" => opening'[v].stage = "none"
      BY <1>1, <1>2, <2>4 DEF PaneInv, PaneTypeOK, HeldAreTheirs
    <3> QED BY <3>1, <3>3, <3>4 DEF HeldAreTheirs
  <2>7. \A q \in PaneIds : told[q].of # NoOne => told[q].of \in PaneWorkers \ {w}
    BY <2>1 DEF PaneInv, PaneTypeOK, Entries, EntriesAreOpen
  <2>8. EntriesAreOpen'
    BY <1>1, <2>4, <2>7 DEF PaneInv, EntriesAreOpen
  <2>9. StampsAreBehind'
    <3>1. panes[p].seq \in Nat /\ panes[p].seq < seqs /\ seqs \in Nat
      BY DEF PaneInv, PaneTypeOK, StampsAreBehind, HerdrPane
    <3>2. 0 < seqs
      BY <3>1
    <3> QED BY <1>1, <2>2, <2>3, <3>2 DEF PaneInv, StampsAreBehind
  <2>10. OthersAreOlder' /\ ClaimedTellsItsOwn'
    <3>1. \A q \in PaneIds : told'[q].of # NoOne /\ panes'[q].of = told'[q].of => panes'[q] = panes[q]
      BY <1>1, <2>2, <2>3, <2>7
    <3> QED BY <1>1, <3>1 DEF PaneInv, OthersAreOlder, ClaimedTellsItsOwn
  <2>11. UsesItsOwn
    BY <2>1, <2>4 DEF UsesItsOwn, IsUsed
  <2> QED BY <1>3, <2>5, <2>6, <2>8, <2>9, <2>10, <2>11 DEF PaneInv, PanePromise
<1>5. CASE opening' = [opening EXCEPT ![w].stage = "done"] /\ UNCHANGED panes
  <2>1. opening[w].stage = "none"
    BY <1>1 DEF PaneInv, HeldAreTheirs
  <2>2. /\ opening' \in [PaneWorkers -> Openings] /\ opening'[w].stage = "done"
        /\ \A v \in PaneWorkers : v # w => opening'[v] = opening[v]
    BY <1>5 DEF PaneInv, PaneTypeOK, Openings
  <2>3. PaneTypeOK'
    BY <1>1, <1>2, <1>5, <2>2 DEF PaneInv, PaneTypeOK
  <2>4. HeldAreTheirs'
    BY <1>1, <1>2, <1>5, <2>2 DEF PaneInv, PaneTypeOK, HeldAreTheirs, HoldsPane
  <2>5. EntriesAreOpen'
    <3>1. \A q \in PaneIds : told[q].of # NoOne => told[q].of \in PaneWorkers
      BY DEF PaneInv, PaneTypeOK, Entries
    <3> QED BY <1>1, <2>1, <2>2, <3>1 DEF PaneInv, EntriesAreOpen
  <2>6. StampsAreBehind' /\ OthersAreOlder' /\ ClaimedTellsItsOwn'
    BY <1>1, <1>5 DEF PaneInv, StampsAreBehind, OthersAreOlder, ClaimedTellsItsOwn
  <2>7. UsesItsOwn
    BY <2>1, <2>2 DEF UsesItsOwn, IsUsed
  <2> QED BY <1>3, <2>3, <2>4, <2>5, <2>6, <2>7 DEF PaneInv, PanePromise
<1> QED BY <1>4, <1>5 DEF WorkerStarts

----------------------------------------------------------------------------
(* An opener that holds a pane moves on, and holds it still. *)
LEMMA StageMoves ==
  ASSUME PaneInv, NEW w \in PaneWorkers, NEW s \in {"open", "close"}, opening[w].stage \in {"shell", "open"},
         opening' = [opening EXCEPT ![w].stage = s],
         UNCHANGED living \/ living' = [living EXCEPT ![w] = "gone"],
         \A q \in PaneIds : panes'[q].of = panes[q].of, UNCHANGED astray
  PROVE  /\ opening' \in [PaneWorkers -> Openings]
         /\ opening'[w].stage = s /\ opening'[w].pane = opening[w].pane
         /\ \A v \in PaneWorkers : v # w => opening'[v] = opening[v]
         /\ HeldAreTheirs' /\ UsesItsOwn
<1>1. /\ opening' \in [PaneWorkers -> Openings]
      /\ opening'[w].stage = s /\ opening'[w].pane = opening[w].pane
      /\ \A v \in PaneWorkers : v # w => opening'[v] = opening[v]
  BY DEF PaneInv, PaneTypeOK, Openings
<1>2. \A v \in PaneWorkers : living'[v] = "off" => opening'[v].stage = "none"
  <2>1. living[w] # "off"
    BY DEF PaneInv, HeldAreTheirs
  <2>2. living \in [PaneWorkers -> {"off", "live", "gone"}]
    BY DEF PaneInv, PaneTypeOK
  <2>3. living'[w] # "off" /\ \A v \in PaneWorkers : v # w => living'[v] = living[v]
    BY <2>1, <2>2
  <2> QED BY <1>1, <2>3 DEF PaneInv, HeldAreTheirs
<1>3. \A v \in PaneWorkers, q \in PaneIds : HoldsPane(v, q)' <=> HoldsPane(v, q)
  BY <1>1 DEF HoldsPane
<1>4. \A v \in PaneWorkers : opening'[v].stage \in {"shell", "open", "close"} => opening'[v].pane \in PaneIds
  BY <1>1 DEF PaneInv, HeldAreTheirs
<1>5. \A v \in PaneWorkers, q \in PaneIds : HoldsPane(v, q)' => panes'[q].of = v \/ v \in astray'
  BY <1>3 DEF PaneInv, HeldAreTheirs
<1>6. HeldAreTheirs'
  BY <1>2, <1>4, <1>5 DEF HeldAreTheirs
<1>7. UsesItsOwn
  <2> SUFFICES ASSUME NEW v \in PaneWorkers, IsUsed(v)
               PROVE  panes[opening[v].pane].of = v \/ v \in astray
    BY DEF UsesItsOwn
  <2>1. opening[v].stage \in {"shell", "close"} /\ opening[v].pane \in PaneIds
    BY DEF IsUsed, PaneInv, HeldAreTheirs
  <2> QED BY <2>1 DEF PaneInv, HeldAreTheirs, HoldsPane
<1> QED BY <1>1, <1>6, <1>7

\* A worker whose shell is awaited has no entry.
LEMMA ShellIs ==
  ASSUME PaneInv, NEW w \in PaneWorkers, opening[w].stage = "shell"
  PROVE  /\ opening[w].pane \in PaneIds
         /\ \A q \in PaneIds : told[q].of # NoOne => told[q].of \in PaneWorkers \ {w}
BY DEF PaneInv, PaneTypeOK, Entries, HeldAreTheirs, EntriesAreOpen

\* The shell is there and the pane is not claimed, or it is not there.
LEMMA GoesUnclaimed ==
  ASSUME PaneInv, NEW w \in PaneWorkers, opening[w].stage = "shell",
         opening' = ToClose(w) \/ opening' = [opening EXCEPT ![w].stage = "open"],
         told' = told \/ told' = Forgot(told, opening[w].pane),
         UNCHANGED <<living, word, panes, flights, reading, seqs, astray>>
  PROVE  PaneInv' /\ PanePromise
<1>1. PICK s \in {"open", "close"} : opening' = [opening EXCEPT ![w].stage = s]
  BY DEF ToClose
<1>2. /\ opening' \in [PaneWorkers -> Openings]
      /\ opening'[w].stage = s /\ opening'[w].pane = opening[w].pane
      /\ \A v \in PaneWorkers : v # w => opening'[v] = opening[v]
      /\ HeldAreTheirs' /\ UsesItsOwn
  BY <1>1, StageMoves
<1>3. /\ told' \in [PaneIds -> Entries]
      /\ \A q \in PaneIds : told'[q].of \in {told[q].of, NoOne}
  BY ShellIs, NonesAre DEF PaneInv, PaneTypeOK, Forgot
<1>4. PaneTypeOK'
  BY <1>2, <1>3 DEF PaneInv, PaneTypeOK
<1>5. EntriesAreOpen'
  BY <1>2, <1>3, ShellIs DEF PaneInv, EntriesAreOpen
<1>6. StampsAreBehind' /\ OthersAreOlder' /\ ClaimedTellsItsOwn'
  BY <1>3 DEF PaneInv, StampsAreBehind, OthersAreOlder, ClaimedTellsItsOwn
<1>7. ReportsGoHome
  BY DEF ReportsGoHome
<1> QED BY <1>2, <1>4, <1>5, <1>6, <1>7 DEF PaneInv, PanePromise

\* The claim: the pane tells its worker's word, by the highest stamp of all.
LEMMA ClaimsAPane ==
  ASSUME PaneAssumption, PaneInv, NEW w \in PaneWorkers, opening[w].stage = "shell", panes[opening[w].pane].of # NoOne,
         Announced(w, opening[w].pane), UNCHANGED <<living, word, flights, astray>>,
         opening' = IF HeardGone(w) THEN ToClose(w) ELSE [opening EXCEPT ![w].stage = "open"]
  PROVE  PaneInv' /\ PanePromise
<1> DEFINE p == opening[w].pane
           s == IF HeardGone(w) THEN "close" ELSE "open"
           says == <<w, "idle">>
<1>1. /\ p \in PaneIds
      /\ \A q \in PaneIds : told[q].of # NoOne => told[q].of \in PaneWorkers \ {w}
  BY ShellIs
<1>2. /\ panes' = [panes EXCEPT ![p] = Heard(panes[p], says, seqs)] /\ seqs' = seqs + 1
      /\ told' = IF HeardGone(w) THEN [told EXCEPT ![p] = NoEntry] ELSE [told EXCEPT ![p] = [NoEntry EXCEPT !.of = w]]
      /\ reading' = AskedToRead(reading)
  BY DEF Announced, ClaimSeq, Forgot
<1>3. panes[p] \in HerdrPane /\ seqs \in Nat /\ panes[p].seq < seqs /\ panes[p].seq \in Nat /\ says \in (PaneWorkers \cup {NoOne}) \X Said
  BY <1>1 DEF PaneInv, PaneTypeOK, StampsAreBehind, HerdrPane, Said
<1> DEFINE heard == Heard(panes[p], says, seqs)
<1> HIDE DEF says
<1>4. heard \in HerdrPane /\ heard.of = panes[p].of /\ heard.tells = says /\ heard.seq = seqs
  BY <1>1, <1>3, HeardIs
<1> HIDE DEF heard
<1>5. /\ panes' \in [PaneIds -> HerdrPane] /\ panes'[p] = heard
      /\ \A q \in PaneIds : q # p => panes'[q] = panes[q]
  BY <1>1, <1>2, <1>4 DEF PaneInv, PaneTypeOK, heard
<1>6. \A q \in PaneIds : panes'[q].of = panes[q].of
  BY <1>1, <1>4, <1>5
<1>7. s \in {"open", "close"} /\ opening' = [opening EXCEPT ![w].stage = s]
  BY DEF ToClose
<1>8. /\ opening' \in [PaneWorkers -> Openings]
      /\ opening'[w].stage = s /\ opening'[w].pane = p
      /\ \A v \in PaneWorkers : v # w => opening'[v] = opening[v]
      /\ HeldAreTheirs' /\ UsesItsOwn
  <2> HIDE DEF s
  <2> QED BY <1>6, <1>7, StageMoves
<1>9. [NoEntry EXCEPT !.of = w] \in Entries /\ [NoEntry EXCEPT !.of = w].of = w /\ w # NoOne
  BY DEF NoEntry, Entries, Said, PaneAssumption
<1>10. /\ told' \in [PaneIds -> Entries]
       /\ told'[p].of = IF HeardGone(w) THEN NoOne ELSE w
       /\ \A q \in PaneIds : q # p => told'[q] = told[q]
  BY <1>1, <1>2, <1>9, NonesAre DEF PaneInv, PaneTypeOK
<1>11. PaneTypeOK'
  BY <1>2, <1>3, <1>5, <1>8, <1>10, AskedIs DEF PaneInv, PaneTypeOK
<1>12. EntriesAreOpen'
  <2>1. \A q \in PaneIds : told'[q].of # NoOne =>
          \/ q = p /\ told'[q].of = w /\ s = "open"
          \/ told'[q] = told[q] /\ told[q].of \in PaneWorkers \ {w}
    BY <1>1, <1>10
  <2> HIDE DEF s
  <2> QED BY <1>8, <2>1 DEF PaneInv, EntriesAreOpen
<1>13. StampsAreBehind'
  <2>1. \A f \in flights : f.seq \in Nat /\ f.seq < seqs + 1
    BY <1>3 DEF PaneInv, PaneTypeOK, StampsAreBehind, Reports
  <2>2. \A q \in PaneIds : panes[q].seq \in Nat /\ panes[q].seq < seqs + 1
    BY <1>3 DEF PaneInv, PaneTypeOK, StampsAreBehind, HerdrPane
  <2> QED BY <1>2, <1>3, <1>4, <1>5, <2>1, <2>2 DEF StampsAreBehind
<1>14. OthersAreOlder'
  <2>1. \A f \in flights : f.seq < seqs
    BY DEF PaneInv, StampsAreBehind
  <2> QED BY <1>4, <1>5, <1>10, <2>1 DEF PaneInv, OthersAreOlder
<1>15. ClaimedTellsItsOwn'
  BY <1>4, <1>5, <1>10 DEF PaneInv, ClaimedTellsItsOwn, says
<1>16. ReportsGoHome
  BY DEF ReportsGoHome
<1> QED BY <1>8, <1>11, <1>12, <1>13, <1>14, <1>15, <1>16 DEF PaneInv, PanePromise

LEMMA ReadyStep ==
  ASSUME PaneAssumption, PaneInv, NEW w \in PaneWorkers, PaneIsReady(w)
  PROVE  PaneInv' /\ PanePromise
<1>1. opening[w].stage = "shell" /\ UNCHANGED <<living, word, flights, astray>>
  BY DEF PaneIsReady
<1>2. CASE /\ panes[opening[w].pane].of # NoOne /\ Announced(w, opening[w].pane)
           /\ opening' = IF HeardGone(w) THEN ToClose(w) ELSE [opening EXCEPT ![w].stage = "open"]
  BY <1>1, <1>2, ClaimsAPane
<1>3. CASE /\ UNCHANGED <<panes, told, reading, seqs>>
           /\ opening' = IF HeardGone(w) THEN ToClose(w) ELSE [opening EXCEPT ![w].stage = "open"]
  BY <1>1, <1>3, GoesUnclaimed
<1>4. CASE opening' = ToClose(w) /\ told' = Forgot(told, opening[w].pane) /\ UNCHANGED <<panes, reading, seqs>>
  BY <1>1, <1>4, GoesUnclaimed
<1> QED BY <1>2, <1>3, <1>4 DEF PaneIsReady

\* A worker's end: the reporter forgets its pane before the close is queued.
LEMMA EndsAWorker ==
  ASSUME PaneAssumption, PaneInv, NEW w \in PaneWorkers, WorkerEnds(w)
  PROVE  PaneInv' /\ PanePromise
<1>1. /\ living[w] = "live" /\ living' = [living EXCEPT ![w] = "gone"] /\ UNCHANGED <<word, panes, flights, reading, seqs, astray>>
      /\ living' \in [PaneWorkers -> {"off", "live", "gone"}]
  BY DEF WorkerEnds, PaneInv, PaneTypeOK
<1>2. ReportsGoHome
  BY <1>1 DEF ReportsGoHome
<1>3. CASE opening[w].stage = "open"
  <2> DEFINE p == opening[w].pane
  <2>1. p \in PaneIds /\ HoldsPane(w, p)
    BY <1>3 DEF PaneInv, HeldAreTheirs, HoldsPane
  <2>2. opening' = [opening EXCEPT ![w].stage = "close"] /\ told' = [told EXCEPT ![p] = NoEntry]
    BY <1>3 DEF WorkerEnds, ToClose, Forgot
  <2>3. /\ opening' \in [PaneWorkers -> Openings]
        /\ opening'[w].stage = "close" /\ opening'[w].pane = p
        /\ \A v \in PaneWorkers : v # w => opening'[v] = opening[v]
        /\ HeldAreTheirs' /\ UsesItsOwn
    BY <1>1, <1>3, <2>2, StageMoves
  <2>4. /\ told' \in [PaneIds -> Entries] /\ told'[p].of = NoOne
        /\ \A q \in PaneIds : q # p => told'[q] = told[q]
    BY <2>1, <2>2, NonesAre DEF PaneInv, PaneTypeOK
  <2>5. PaneTypeOK'
    BY <1>1, <2>3, <2>4 DEF PaneInv, PaneTypeOK
  <2>6. \A q \in PaneIds : told'[q].of # NoOne => told'[q] = told[q] /\ told[q].of # w /\ told[q].of \in PaneWorkers
    BY <2>4 DEF PaneInv, PaneTypeOK, EntriesAreOpen, Entries
  <2>7. EntriesAreOpen'
    BY <2>3, <2>6 DEF PaneInv, EntriesAreOpen
  <2>8. StampsAreBehind' /\ OthersAreOlder' /\ ClaimedTellsItsOwn'
    BY <1>1, <2>4 DEF PaneInv, StampsAreBehind, OthersAreOlder, ClaimedTellsItsOwn
  <2> QED BY <1>2, <2>3, <2>5, <2>7, <2>8 DEF PaneInv, PanePromise
<1>4. CASE opening[w].stage # "open"
  <2>1. UNCHANGED <<opening, told>>
    BY <1>4 DEF WorkerEnds
  <2>2. HeldAreTheirs'
    BY <1>1, <2>1 DEF PaneInv, PaneTypeOK, HeldAreTheirs, HoldsPane
  <2>3. PaneTypeOK' /\ EntriesAreOpen' /\ StampsAreBehind' /\ OthersAreOlder' /\ ClaimedTellsItsOwn'
    BY <1>1, <2>1 DEF PaneInv, PaneTypeOK, EntriesAreOpen, StampsAreBehind, OthersAreOlder, ClaimedTellsItsOwn
  <2>4. UsesItsOwn
    BY <2>1 DEF UsesItsOwn, IsUsed
  <2> QED BY <1>2, <2>2, <2>3, <2>4 DEF PaneInv, PanePromise
<1> QED BY <1>3, <1>4

\* A pane goes: of those that hold its id, whoever was not told is astray.
LEMMA GoesAway ==
  ASSUME PaneInv, NEW p \in PaneIds, NEW knowing \in SUBSET PaneWorkers, PaneGoes(p, knowing)
  PROVE  /\ panes' \in [PaneIds -> HerdrPane] /\ panes'[p] = NoPane
         /\ \A q \in PaneIds : q # p => panes'[q] = panes[q]
         /\ astray' \subseteq PaneWorkers
         /\ \A v \in PaneWorkers, q \in PaneIds : HoldsPane(v, q) /\ v \notin knowing => panes'[q].of = v \/ v \in astray'
         /\ \A v \in PaneWorkers, q \in PaneIds : HoldsPane(v, q) /\ q # p => panes'[q].of = v \/ v \in astray'
<1>1. /\ panes' = [panes EXCEPT ![p] = NoPane]
      /\ astray' = astray \cup {v \in PaneWorkers \ knowing : HoldsPane(v, p)}
  BY DEF PaneGoes
<1>2. /\ panes' \in [PaneIds -> HerdrPane] /\ panes'[p] = NoPane
      /\ \A q \in PaneIds : q # p => panes'[q] = panes[q]
  BY <1>1, NonesAre DEF PaneInv, PaneTypeOK
<1>3. astray' \subseteq PaneWorkers
  BY <1>1 DEF PaneInv, PaneTypeOK
<1>4. \A v \in PaneWorkers, q \in PaneIds : HoldsPane(v, q) /\ q # p => panes'[q].of = v \/ v \in astray'
  BY <1>1, <1>2 DEF PaneInv, HeldAreTheirs
<1>5. \A v \in PaneWorkers : HoldsPane(v, p) /\ v \notin knowing => v \in astray'
  BY <1>1
<1> QED BY <1>2, <1>3, <1>4, <1>5

\* The close: the pane is the worker's, or the worker is astray.
LEMMA CloseStep ==
  ASSUME PaneAssumption, PaneInv, NEW w \in PaneWorkers, Closes(w)
  PROVE  PaneInv' /\ PanePromise
<1> DEFINE p == opening[w].pane
<1>1. /\ opening[w].stage = "close" /\ UNCHANGED <<living, word, told, flights, reading, seqs>>
      /\ p \in PaneIds /\ HoldsPane(w, p) /\ living[w] # "off"
  BY DEF Closes, PaneInv, HeldAreTheirs, HoldsPane
<1>2. ReportsGoHome
  BY <1>1 DEF ReportsGoHome
<1>3. /\ opening' \in [PaneWorkers -> Openings]
      /\ opening'[w].stage \in {"close", "done", "left"}
      /\ opening'[w].stage = "close" => opening'[w].pane = p
      /\ \A v \in PaneWorkers : v # w => opening'[v] = opening[v]
  <2>1. opening \in [PaneWorkers -> Openings] /\ opening[w] \in Openings
    BY DEF PaneInv, PaneTypeOK
  <2>2. CASE opening' = [opening EXCEPT ![w] = [NotOpening EXCEPT !.stage = "done"]] \/ opening' = [opening EXCEPT ![w] = [NotOpening EXCEPT !.stage = "left"]]
    <3>1. /\ [NotOpening EXCEPT !.stage = "done"] \in Openings /\ [NotOpening EXCEPT !.stage = "done"].stage = "done"
          /\ [NotOpening EXCEPT !.stage = "left"] \in Openings /\ [NotOpening EXCEPT !.stage = "left"].stage = "left"
      BY DEF NotOpening, Openings
    <3> QED BY <2>1, <2>2, <3>1
  <2>3. CASE opening' = [opening EXCEPT ![w].tries = 1]
    BY <1>1, <2>1, <2>3 DEF Openings
  <2> QED BY <2>2, <2>3 DEF Closes
<1>4. \A v \in PaneWorkers, q \in PaneIds : HoldsPane(v, q)' => HoldsPane(v, q)
  BY <1>1, <1>3 DEF HoldsPane
<1>5. UsesItsOwn
  <2> SUFFICES ASSUME NEW v \in PaneWorkers, IsUsed(v)
               PROVE  panes[opening[v].pane].of = v \/ v \in astray
    BY DEF UsesItsOwn
  <2>1. opening[v].stage \in {"shell", "close"} /\ opening[v].pane \in PaneIds
    BY DEF IsUsed, PaneInv, HeldAreTheirs
  <2> QED BY <2>1 DEF PaneInv, HeldAreTheirs, HoldsPane
<1>6. /\ panes' \in [PaneIds -> HerdrPane] /\ astray' \subseteq PaneWorkers
      /\ panes'[p] \in {panes[p], NoPane}
      /\ \A q \in PaneIds : q # p => panes'[q] = panes[q]
      /\ \A v \in PaneWorkers, q \in PaneIds : HoldsPane(v, q)' => panes'[q].of = v \/ v \in astray'
  <2>1. CASE PaneGoes(p, {w}) /\ opening' = [opening EXCEPT ![w] = [NotOpening EXCEPT !.stage = "done"]]
    <3>1. \A q \in PaneIds : ~ HoldsPane(w, q)'
      <4>1. [NotOpening EXCEPT !.stage = "done"].stage = "done"
        BY DEF NotOpening
      <4>2. opening'[w].stage = "done"
        BY <2>1, <4>1 DEF PaneInv, PaneTypeOK
      <4> QED BY <4>2 DEF HoldsPane
    <3>2. \A v \in PaneWorkers, q \in PaneIds : HoldsPane(v, q)' => HoldsPane(v, q) /\ v \notin {w}
      BY <1>4, <3>1
    <3> QED BY <1>1, <2>1, <3>2, GoesAway
  <2>2. CASE PaneGoes(p, {})
    BY <1>1, <1>4, <2>2, GoesAway
  <2>3. CASE UNCHANGED <<panes, astray>>
    BY <1>1, <1>4, <2>3 DEF PaneInv, PaneTypeOK, HeldAreTheirs
  <2> QED BY <2>1, <2>2, <2>3 DEF Closes
<1>7. PaneTypeOK'
  BY <1>1, <1>3, <1>6 DEF PaneInv, PaneTypeOK
<1>8. HeldAreTheirs'
  <2>1. \A v \in PaneWorkers : living'[v] = "off" => opening'[v].stage = "none"
    BY <1>1, <1>3 DEF PaneInv, HeldAreTheirs
  <2>2. \A v \in PaneWorkers : opening'[v].stage \in {"shell", "open", "close"} => opening'[v].pane \in PaneIds
    BY <1>1, <1>3 DEF PaneInv, HeldAreTheirs
  <2> QED BY <1>6, <2>1, <2>2 DEF HeldAreTheirs
<1>9. \A q \in PaneIds : told[q].of # NoOne => told[q].of \in PaneWorkers \ {w}
  BY <1>1 DEF PaneInv, PaneTypeOK, Entries, EntriesAreOpen
<1>10. EntriesAreOpen'
  BY <1>1, <1>3, <1>9 DEF PaneInv, EntriesAreOpen
<1>11. StampsAreBehind'
  <2>1. panes[p].seq \in Nat /\ panes[p].seq < seqs /\ seqs \in Nat
    BY <1>1 DEF PaneInv, PaneTypeOK, StampsAreBehind, HerdrPane
  <2>2. panes'[p].seq < seqs
    BY <1>6, <2>1, NonesAre
  <2> QED BY <1>1, <1>6, <2>2 DEF PaneInv, StampsAreBehind
<1>12. OthersAreOlder' /\ ClaimedTellsItsOwn'
  <2>1. \A q \in PaneIds : told[q].of # NoOne /\ panes'[q].of = told[q].of => panes'[q] = panes[q]
    BY <1>6, NonesAre
  <2> QED BY <1>1, <2>1 DEF PaneInv, OthersAreOlder, ClaimedTellsItsOwn
<1> QED BY <1>2, <1>5, <1>7, <1>8, <1>10, <1>11, <1>12 DEF PaneInv, PanePromise

\* A word changes, a reading is asked for, or nothing happens.
LEMMA WordStep ==
  ASSUME PaneInv, word' \in [PaneWorkers -> Said], reading' \in [now : BOOLEAN, seen : [PaneWorkers -> Said], again : BOOLEAN],
         UNCHANGED <<living, panes, opening, told, flights, seqs, astray>>
  PROVE  PaneInv' /\ PanePromise
<1>1. PaneTypeOK' /\ HeldAreTheirs' /\ EntriesAreOpen'
  BY DEF PaneInv, PaneTypeOK, HeldAreTheirs, HoldsPane, EntriesAreOpen
<1>2. StampsAreBehind' /\ OthersAreOlder' /\ ClaimedTellsItsOwn'
  BY DEF PaneInv, StampsAreBehind, OthersAreOlder, ClaimedTellsItsOwn
<1>3. PanePromise
  BY DEF PanePromise, ReportsGoHome, UsesItsOwn, IsUsed
<1> QED BY <1>1, <1>2, <1>3 DEF PaneInv

\* How many stamps a set of panes takes, and the one of each.
LEMMA StampsAre ==
  ASSUME PaneAssumption, PaneTypeOK, NEW ps \in SUBSET PaneIds
  PROVE  /\ Cardinality(ps) \in Nat
         /\ \A p \in ps : Stamp(ps, p) \in Nat /\ seqs <= Stamp(ps, p) /\ Stamp(ps, p) < seqs + Cardinality(ps)
<1>1. IsFiniteSet(ps) /\ Cardinality(ps) \in Nat /\ ps \subseteq Nat /\ seqs \in Nat
  BY FS_Subset, FS_CardinalityType DEF PaneAssumption, PaneTypeOK
<1>2. ASSUME NEW p \in ps
      PROVE  Stamp(ps, p) \in Nat /\ seqs <= Stamp(ps, p) /\ Stamp(ps, p) < seqs + Cardinality(ps)
  <2> DEFINE low == {q \in ps : q < p}
  <2>1. low \subseteq ps /\ low # ps
    BY <1>1
  <2>2. IsFiniteSet(low) /\ Cardinality(low) \in Nat /\ Cardinality(low) < Cardinality(ps)
    <3> HIDE DEF low
    <3>1. IsFiniteSet(low) /\ Cardinality(low) \in Nat
      BY <1>1, <2>1, FS_Subset, FS_CardinalityType
    <3>2. Cardinality(low) <= Cardinality(ps) /\ (Cardinality(low) = Cardinality(ps) => low = ps)
      BY <1>1, <2>1, FS_Subset
    <3> QED BY <1>1, <2>1, <3>1, <3>2
  <2>3. Stamp(ps, p) = seqs + Cardinality(low)
    BY DEF Stamp
  <2> HIDE DEF low
  <2> QED BY <1>1, <2>2, <2>3
<1> QED BY <1>1, <1>2

\* Reports and entries change, and the panes do not: every new report is the
\* entry's, with a new stamp.
LEMMA TellingKeeps ==
  ASSUME PaneAssumption, PaneInv, UNCHANGED <<living, word, panes, opening, astray>>,
         reading' \in [now : BOOLEAN, seen : [PaneWorkers -> Said], again : BOOLEAN],
         told' \in [PaneIds -> Entries], flights' \subseteq Reports, seqs' \in Nat, seqs <= seqs',
         \A q \in PaneIds : told'[q].of \in {told[q].of, NoOne},
         \A f \in flights' : \/ f \in flights
                             \/ f.of = told[f.pane].of /\ f.seq < seqs'
  PROVE  PaneInv' /\ PanePromise
<1>1. PaneTypeOK' /\ HeldAreTheirs'
  BY DEF PaneInv, PaneTypeOK, HeldAreTheirs, HoldsPane
<1>2. EntriesAreOpen' /\ ClaimedTellsItsOwn'
  BY DEF PaneInv, EntriesAreOpen, ClaimedTellsItsOwn
<1>3. StampsAreBehind'
  <2>1. seqs \in Nat /\ \A q \in PaneIds : panes[q].seq \in Nat /\ panes[q].seq < seqs
    BY DEF PaneInv, PaneTypeOK, StampsAreBehind, HerdrPane
  <2>2. \A f \in flights : f.seq \in Nat /\ f.seq < seqs
    BY DEF PaneInv, PaneTypeOK, StampsAreBehind, Reports
  <2>3. \A f \in flights' : f.seq < seqs'
    BY <2>1, <2>2
  <2>4. \A q \in PaneIds : panes'[q].seq < seqs'
    BY <2>1
  <2> QED BY <2>3, <2>4 DEF StampsAreBehind
<1>4. OthersAreOlder'
  BY DEF PaneInv, OthersAreOlder
<1>5. ReportsGoHome
  <2> SUFFICES ASSUME NEW f \in flights' \ flights
               PROVE  panes[f.pane].of = f.of \/ f.of \in astray
    BY DEF ReportsGoHome
  <2>1. f.pane \in PaneIds /\ f.of \in PaneWorkers /\ f.of = told[f.pane].of
    BY DEF Reports
  <2>2. told[f.pane].of # NoOne
    BY <2>1 DEF PaneAssumption
  <2>3. HoldsPane(f.of, f.pane)
    BY <2>1, <2>2 DEF PaneInv, EntriesAreOpen, HoldsPane
  <2> QED BY <2>1, <2>3 DEF PaneInv, HeldAreTheirs
<1>6. UsesItsOwn
  BY DEF UsesItsOwn, IsUsed
<1> QED BY <1>1, <1>2, <1>3, <1>4, <1>5, <1>6 DEF PaneInv, PanePromise

LEMMA ReadingStep ==
  ASSUME PaneAssumption, PaneInv, ReadingEnds
  PROVE  PaneInv' /\ PanePromise
<1>1. /\ UNCHANGED <<living, word, panes, opening, astray>>
      /\ reading' \in [now : BOOLEAN, seen : [PaneWorkers -> Said], again : BOOLEAN]
  BY NonesAre DEF ReadingEnds, PaneInv, PaneTypeOK
<1>2. CASE UNCHANGED <<told, flights, seqs>>
  BY <1>1, <1>2, WordStep DEF PaneInv, PaneTypeOK
<1> DEFINE ps == ToTell(reading.seen)
           says(p) == reading.seen[told[p].of]
           free == {p \in ps : ~ Sending(told[p].of, flights)}
<1>3. CASE /\ flights' = flights \cup {Report(p, told[p].of, says(p), Stamp(free, p)) : p \in free}
           /\ seqs' = seqs + Cardinality(free)
           /\ told' = [p \in PaneIds |-> IF p \notin ps THEN told[p]
                         ELSE [told[p] EXCEPT !.wanted = says(p), !.waiting = IF p \in free THEN @ ELSE says(p)]]
  <2>1. /\ ps \subseteq PaneIds /\ free \subseteq ps
        /\ \A p \in ps : told[p].of # NoOne
    BY DEF ToTell
  <2>2. \A p \in ps : told[p].of \in PaneWorkers /\ says(p) \in Said
    BY <2>1 DEF PaneInv, PaneTypeOK, Entries
  <2>3. /\ told' \in [PaneIds -> Entries]
        /\ \A q \in PaneIds : told'[q].of = told[q].of
    <3>1. ASSUME NEW q \in PaneIds
          PROVE  told'[q] \in Entries /\ told'[q].of = told[q].of
      <4>1. told[q] \in Entries
        BY DEF PaneInv, PaneTypeOK
      <4>2. CASE q \notin ps
        BY <1>3, <4>1, <4>2
      <4>3. CASE q \in ps
        <5>1. told'[q] = [told[q] EXCEPT !.wanted = says(q), !.waiting = IF q \in free THEN told[q].waiting ELSE says(q)]
          BY <1>3, <4>3
        <5> HIDE DEF ps, free, says
        <5>2. says(q) \in Said
          BY <2>2, <4>3
        <5> QED BY <4>1, <5>1, <5>2 DEF Entries
      <4> QED BY <4>2, <4>3
    <3>2. told' = [q \in PaneIds |-> told'[q]]
      BY <1>3
    <3> QED BY <3>1, <3>2
  <2> HIDE DEF ps, free, says
  <2>4. free \subseteq PaneIds /\ seqs \in Nat
    BY <2>1 DEF PaneInv, PaneTypeOK
  <2>5. /\ Cardinality(free) \in Nat
        /\ \A p \in free : Stamp(free, p) \in Nat /\ seqs <= Stamp(free, p) /\ Stamp(free, p) < seqs + Cardinality(free)
    BY <2>4, StampsAre DEF PaneInv
  <2>6. ASSUME NEW f \in flights', f \notin flights
        PROVE  f \in Reports /\ f.of = told[f.pane].of /\ f.seq < seqs'
    <3>1. PICK p \in free : f = Report(p, told[p].of, says(p), Stamp(free, p))
      BY <1>3, <2>6
    <3>2. p \in PaneIds /\ told[p].of \in PaneWorkers /\ says(p) \in Said /\ Stamp(free, p) \in Nat
      BY <2>1, <2>2, <2>4, <2>5
    <3> QED BY <1>3, <2>5, <3>1, <3>2 DEF Report, Reports
  <2>7. flights' \subseteq Reports
    BY <2>6 DEF PaneInv, PaneTypeOK
  <2>8. seqs' \in Nat /\ seqs <= seqs'
    <3> DEFINE n == Cardinality(free)
    <3>1. seqs' = seqs + n
      BY <1>3
    <3>2. n \in Nat
      BY <2>5
    <3> HIDE DEF n
    <3> QED BY <2>4, <3>1, <3>2
  <2> QED BY <1>1, <2>3, <2>6, <2>7, <2>8, TellingKeeps
<1> QED BY <1>2, <1>3 DEF ReadingEnds

\* A report arrives: one that is another's is behind the claim.
LEMMA LandingStep ==
  ASSUME PaneAssumption, PaneInv, Lands
  PROVE  PaneInv' /\ PanePromise
<1>1. UNCHANGED <<living, word, opening, told, reading, seqs, astray>>
  BY DEF Lands
<1>2. PICK f \in flights, fate \in {"missing", "failed", "heard"} :
        /\ f.fate = "out" /\ flights' = (flights \ {f}) \cup {[f EXCEPT !.fate = fate]}
        /\ panes' = IF fate = "heard" THEN [panes EXCEPT ![f.pane] = Heard(panes[f.pane], <<f.of, f.says>>, f.seq)] ELSE panes
  BY DEF Lands
<1> DEFINE g == [f EXCEPT !.fate = fate]
           p == f.pane
           heard == Heard(panes[p], <<f.of, f.says>>, f.seq)
           mine == <<f.of, f.says>>
<1>3. /\ f \in Reports /\ p \in PaneIds /\ f.of \in PaneWorkers /\ f.says \in Said /\ f.seq \in Nat
      /\ panes[p] \in HerdrPane /\ seqs \in Nat /\ f.seq < seqs
      /\ panes[p].seq \in Nat /\ panes[p].seq < seqs
  BY <1>2 DEF PaneInv, PaneTypeOK, StampsAreBehind, Reports, HerdrPane
<1>4. g \in Reports /\ g.pane = p /\ g.of = f.of /\ g.seq = f.seq /\ g.fate = fate /\ fate # "out"
  BY <1>2, <1>3 DEF Reports
<1>5. mine \in (PaneWorkers \cup {NoOne}) \X Said /\ mine[1] = f.of
  BY <1>3
<1> HIDE DEF g, mine
<1>6. /\ heard \in HerdrPane /\ heard.of = panes[p].of /\ heard.seq >= panes[p].seq
      /\ f.seq >= panes[p].seq => heard.tells = mine /\ heard.seq = f.seq
      /\ f.seq < panes[p].seq => heard = panes[p]
  <2>1. heard = Heard(panes[p], mine, f.seq)
    BY DEF mine
  <2> DEFINE r == panes[p]
             seq == f.seq
  <2>2. r \in HerdrPane /\ seq \in Nat
    BY <1>3
  <2> HIDE DEF heard, r, seq
  <2>3. /\ Heard(r, mine, seq) \in HerdrPane /\ Heard(r, mine, seq).of = r.of
        /\ Heard(r, mine, seq).seq >= r.seq
        /\ seq >= r.seq => Heard(r, mine, seq).tells = mine /\ Heard(r, mine, seq).seq = seq
        /\ seq < r.seq => Heard(r, mine, seq) = r
    BY <1>5, <2>2, HeardIs
  <2> QED BY <2>1, <2>3 DEF r, seq
<1> HIDE DEF heard
<1>7. heard.seq \in Nat /\ heard.seq < seqs
  <2>1. heard.seq \in Nat
    BY <1>6 DEF HerdrPane
  <2> QED BY <1>3, <1>6, <2>1
<1>8. /\ panes' \in [PaneIds -> HerdrPane]
      /\ panes'[p] \in {panes[p], heard}
      /\ \A q \in PaneIds : q # p => panes'[q] = panes[q]
  <2>1. panes \in [PaneIds -> HerdrPane]
    BY DEF PaneInv, PaneTypeOK
  <2>2. panes' = panes \/ panes' = [panes EXCEPT ![p] = heard]
    BY <1>2 DEF heard
  <2> QED BY <1>3, <1>6, <2>1, <2>2
<1>9. \A q \in PaneIds : panes'[q].of = panes[q].of /\ panes'[q].seq >= panes[q].seq /\ panes'[q].seq \in Nat /\ panes[q].seq \in Nat
  <2>1. \A q \in PaneIds : panes[q].seq \in Nat
    BY DEF PaneInv, PaneTypeOK, HerdrPane
  <2> QED BY <1>3, <1>6, <1>7, <1>8, <2>1
<1>10. \A h \in flights' : h \in flights \/ h = g
  BY <1>2 DEF g
<1>11. PaneTypeOK'
  BY <1>1, <1>4, <1>8, <1>10 DEF PaneInv, PaneTypeOK
<1>12. HeldAreTheirs' /\ EntriesAreOpen'
  BY <1>1, <1>9 DEF PaneInv, HeldAreTheirs, HoldsPane, EntriesAreOpen
<1>13. StampsAreBehind'
  BY <1>1, <1>3, <1>4, <1>7, <1>8, <1>10 DEF PaneInv, StampsAreBehind
<1>14. OthersAreOlder'
  <2> SUFFICES ASSUME NEW q \in PaneIds, told[q].of # NoOne, panes[q].of = told[q].of, NEW h \in flights', h.pane = q, h.of # told[q].of
               PROVE  h.seq < panes'[q].seq
    BY <1>1, <1>9 DEF OthersAreOlder
  <2>1. PICK e \in flights : e.pane = h.pane /\ e.of = h.of /\ e.seq = h.seq /\ e.seq \in Nat
    BY <1>2, <1>3, <1>4, <1>10 DEF PaneInv, PaneTypeOK, Reports
  <2>2. e.seq < panes[q].seq
    BY <2>1 DEF PaneInv, OthersAreOlder
  <2> QED BY <1>9, <2>1, <2>2
<1>15. ClaimedTellsItsOwn'
  <2> SUFFICES ASSUME NEW q \in PaneIds, told[q].of # NoOne, panes[q].of = told[q].of
               PROVE  panes'[q].tells[1] = told[q].of
    BY <1>1, <1>9 DEF ClaimedTellsItsOwn
  <2>1. panes[q].tells[1] = told[q].of
    BY DEF PaneInv, ClaimedTellsItsOwn
  <2>2. CASE panes'[q] = panes[q]
    BY <2>1, <2>2
  <2>3. CASE panes'[q] # panes[q]
    <3>1. q = p /\ panes'[q] = heard
      BY <1>8, <2>3
    <3>2. heard.tells = mine /\ ~ (f.seq < panes[p].seq)
      BY <1>3, <1>6, <2>3, <3>1
    <3>3. f.of = told[q].of
      BY <1>2, <3>1, <3>2 DEF PaneInv, OthersAreOlder
    <3> QED BY <1>5, <3>1, <3>2, <3>3
  <2> QED BY <2>2, <2>3
<1>16. ReportsGoHome
  <2>1. \A h \in flights' \ flights : h.fate # "out"
    BY <1>4, <1>10
  <2> QED BY <2>1 DEF ReportsGoHome
<1>17. UsesItsOwn
  BY <1>1 DEF UsesItsOwn, IsUsed
<1> QED BY <1>11, <1>12, <1>13, <1>14, <1>15, <1>16, <1>17 DEF PaneInv, PanePromise

LEMMA AnsweredStep ==
  ASSUME PaneAssumption, PaneInv, ReportIsAnswered
  PROVE  PaneInv' /\ PanePromise
<1>1. PICK f \in flights :
       LET kept == [told EXCEPT ![f.pane] =
                      IF f.fate = "missing" THEN IF IsSame(f.pane, f.of) THEN NoEntry ELSE @
                      ELSE IF f.fate = "failed" /\ told[f.pane].of = f.of THEN Wanted(@) ELSE @]
           next == kept[f.pane].of = f.of /\ kept[f.pane].waiting # "none"
       IN /\ told' = IF next THEN [kept EXCEPT ![f.pane].waiting = "none"] ELSE kept
          /\ flights' = (flights \ {f})
                          \cup (IF next THEN {Report(f.pane, f.of, kept[f.pane].waiting, seqs)} ELSE {})
          /\ seqs' = IF next THEN seqs + 1 ELSE seqs
  BY DEF ReportIsAnswered
<1> DEFINE p == f.pane
           entry == IF f.fate = "missing" THEN IF IsSame(p, f.of) THEN NoEntry ELSE told[p]
                    ELSE IF f.fate = "failed" /\ told[p].of = f.of THEN Wanted(told[p]) ELSE told[p]
           next == entry.of = f.of /\ entry.waiting # "none"
           left == IF next THEN [entry EXCEPT !.waiting = "none"] ELSE entry
           more == Report(p, f.of, entry.waiting, seqs)
<1>2. /\ p \in PaneIds /\ f.of \in PaneWorkers /\ told \in [PaneIds -> Entries] /\ told[p] \in Entries /\ seqs \in Nat
      /\ UNCHANGED <<living, word, panes, opening, reading, astray>>
  BY DEF ReportIsAnswered, PaneInv, PaneTypeOK, Reports
<1>3. entry \in Entries /\ entry.of \in {told[p].of, NoOne}
  <2>1. Wanted(told[p]) \in Entries /\ Wanted(told[p]).of = told[p].of
    BY <1>2 DEF Wanted, Entries, Said
  <2> QED BY <1>2, <2>1, NonesAre
<1>4. /\ told' = [told EXCEPT ![p] = left]
      /\ flights' = (flights \ {f}) \cup (IF next THEN {more} ELSE {})
      /\ seqs' = IF next THEN seqs + 1 ELSE seqs
  <2> DEFINE kept == [told EXCEPT ![p] = entry]
  <2>1. kept[p] = entry /\ [kept EXCEPT ![p].waiting = "none"] = [told EXCEPT ![p] = [entry EXCEPT !.waiting = "none"]]
    <3> HIDE DEF entry
    <3> QED BY <1>2
  <2> DEFINE goes == kept[p].of = f.of /\ kept[p].waiting # "none"
  <2>2. /\ told' = IF goes THEN [kept EXCEPT ![p].waiting = "none"] ELSE kept
        /\ flights' = (flights \ {f}) \cup (IF goes THEN {Report(p, f.of, kept[p].waiting, seqs)} ELSE {})
        /\ seqs' = IF goes THEN seqs + 1 ELSE seqs
    BY <1>1
  <2> HIDE DEF entry
  <2>3. goes = next /\ kept[p].waiting = entry.waiting
    BY <2>1
  <2> HIDE DEF goes, next
  <2>4. told' = [told EXCEPT ![p] = left]
    <3>1. CASE next
      BY <2>1, <2>2, <2>3, <3>1
    <3>2. CASE ~ next
      BY <2>2, <2>3, <3>2
    <3> QED BY <3>1, <3>2
  <2>5. flights' = (flights \ {f}) \cup (IF next THEN {more} ELSE {})
    BY <2>2, <2>3
  <2>6. seqs' = IF next THEN seqs + 1 ELSE seqs
    BY <2>2, <2>3
  <2> QED BY <2>4, <2>5, <2>6
<1> HIDE DEF entry
<1>5. left \in Entries /\ left.of = entry.of
  BY <1>3 DEF Entries, Said
<1>6. more \in Reports /\ more.pane = p /\ more.of = f.of /\ more.seq = seqs
  BY <1>2, <1>3 DEF Report, Reports, Entries
<1>7. next => f.of = told[p].of
  BY <1>2, <1>3 DEF PaneAssumption
<1> HIDE DEF left, more, next
<1>8. /\ told' \in [PaneIds -> Entries]
      /\ \A q \in PaneIds : told'[q].of \in {told[q].of, NoOne}
  BY <1>2, <1>3, <1>4, <1>5
<1>9. seqs' \in Nat /\ seqs <= seqs' /\ (next => seqs < seqs')
  BY <1>2, <1>4
<1>10. \A h \in flights' : h \in flights \/ (next /\ h = more)
  BY <1>4
<1>11. \A h \in flights' : h \in flights \/ (h.of = told[h.pane].of /\ h.seq < seqs')
  BY <1>6, <1>7, <1>9, <1>10
<1>12. flights' \subseteq Reports
  BY <1>6, <1>10 DEF PaneInv, PaneTypeOK
<1>13. reading' \in [now : BOOLEAN, seen : [PaneWorkers -> Said], again : BOOLEAN]
  BY <1>2 DEF PaneInv, PaneTypeOK
<1> QED BY <1>2, <1>8, <1>9, <1>11, <1>12, <1>13, TellingKeeps

LEMMA MeddlingStep ==
  ASSUME PaneAssumption, PaneInv, Meddles
  PROVE  PaneInv' /\ PanePromise
<1>1. UNCHANGED <<living, word, opening, told, flights, reading, seqs>>
  BY DEF Meddles
<1>2. PICK p \in PaneIds :
        \/ PaneGoes(p, {})
        \/ /\ Free(p) /\ panes' = [panes EXCEPT ![p] = [NoPane EXCEPT !.of = "operator"]]
           /\ UNCHANGED astray
  BY DEF Meddles
<1>3. /\ panes' \in [PaneIds -> HerdrPane] /\ panes'[p].seq = 0 /\ panes'[p].of \in {NoOne, "operator"}
      /\ \A q \in PaneIds : q # p => panes'[q] = panes[q]
      /\ astray' \subseteq PaneWorkers
      /\ \A v \in PaneWorkers, q \in PaneIds : HoldsPane(v, q) => panes'[q].of = v \/ v \in astray'
  <2>1. CASE PaneGoes(p, {})
    BY <2>1, GoesAway, NonesAre
  <2>2. CASE /\ Free(p) /\ panes' = [panes EXCEPT ![p] = [NoPane EXCEPT !.of = "operator"]]
             /\ UNCHANGED astray
    <3> DEFINE new == [NoPane EXCEPT !.of = "operator"]
    <3>1. new \in HerdrPane /\ new.of = "operator" /\ new.seq = 0
      BY DEF NoPane, HerdrPane, PaneOwners, Said
    <3> HIDE DEF new
    <3>2. /\ panes' \in [PaneIds -> HerdrPane] /\ panes'[p] = new
          /\ \A q \in PaneIds : q # p => panes'[q] = panes[q]
      BY <2>2, <3>1 DEF PaneInv, PaneTypeOK, new
    <3>3. \A v \in PaneWorkers, q \in PaneIds : HoldsPane(v, q) => panes'[q].of = v \/ v \in astray'
      <4> SUFFICES ASSUME NEW v \in PaneWorkers, NEW q \in PaneIds, HoldsPane(v, q), v \notin astray
                   PROVE  panes'[q].of = v
        BY <2>2
      <4>1. panes[q].of = v /\ v # NoOne /\ panes[p].of = NoOne
        BY <2>2 DEF PaneInv, HeldAreTheirs, PaneAssumption, Free
      <4> QED BY <3>2, <4>1
    <3> QED BY <2>2, <3>1, <3>2, <3>3 DEF PaneInv, PaneTypeOK
  <2> QED BY <1>2, <2>1, <2>2
<1>4. PaneTypeOK'
  BY <1>1, <1>3 DEF PaneInv, PaneTypeOK
<1>5. HeldAreTheirs'
  BY <1>1, <1>3 DEF PaneInv, HeldAreTheirs, HoldsPane
<1>6. EntriesAreOpen'
  BY <1>1 DEF PaneInv, EntriesAreOpen
<1>7. StampsAreBehind'
  <2>1. panes[p].seq \in Nat /\ panes[p].seq < seqs /\ seqs \in Nat
    BY <1>1 DEF PaneInv, PaneTypeOK, StampsAreBehind, HerdrPane
  <2>2. 0 < seqs
    BY <2>1
  <2> QED BY <1>1, <1>3, <2>2 DEF PaneInv, StampsAreBehind
<1>8. OthersAreOlder' /\ ClaimedTellsItsOwn'
  <2>1. \A q \in PaneIds : told[q].of # NoOne => told[q].of \in PaneWorkers
    BY DEF PaneInv, PaneTypeOK, Entries
  <2>2. \A q \in PaneIds : told[q].of # NoOne /\ panes'[q].of = told[q].of => panes'[q] = panes[q]
    BY <1>3, <2>1 DEF PaneAssumption
  <2> QED BY <1>1, <2>2 DEF PaneInv, OthersAreOlder, ClaimedTellsItsOwn
<1>9. PanePromise
  BY <1>1 DEF PanePromise, ReportsGoHome, UsesItsOwn, IsUsed
<1> QED BY <1>4, <1>5, <1>6, <1>7, <1>8, <1>9 DEF PaneInv

LEMMA PanesMove ==
  ASSUME PaneAssumption, PaneInv, [PanesNext]_paneVars
  PROVE  PaneInv' /\ PanePromise
<1>1. PaneTypeOK
  BY DEF PaneInv
<1>2. ASSUME NEW w \in PaneWorkers, WordChanges(w)
      PROVE  PaneInv' /\ PanePromise
  <2>1. word' \in [PaneWorkers -> Said]
    BY <1>1, <1>2 DEF WordChanges, PaneTypeOK, Said
  <2> QED BY <1>1, <1>2, <2>1, WordStep DEF WordChanges, PaneTypeOK
<1>3. CASE TellTick
  BY <1>1, <1>3, AskedIs, WordStep DEF TellTick, PaneTypeOK
<1>4. CASE UNCHANGED paneVars
  BY <1>1, <1>4, WordStep DEF paneVars, PaneTypeOK
<1>5. CASE ReadingEnds \/ Lands \/ ReportIsAnswered \/ Meddles
  BY <1>5, ReadingStep, LandingStep, AnsweredStep, MeddlingStep
<1>6. ASSUME NEW w \in PaneWorkers, WorkerStarts(w) \/ PaneIsReady(w) \/ WorkerEnds(w) \/ Closes(w)
      PROVE  PaneInv' /\ PanePromise
  BY <1>6, StartsAPane, ReadyStep, EndsAWorker, CloseStep
<1> QED BY <1>2, <1>3, <1>4, <1>5, <1>6 DEF PanesNext

(***************************************************************************)
(* A claimed pane tells its own worker's word whatever reports are still   *)
(* under way to its id.  No report is begun to a pane opened for another,  *)
(* and none is typed at or closed, unless the worker's own pane went       *)
(* without its opener being told, by the operator or by a close that was   *)
(* not answered (herdr-pane-opener.mjs, herdr-pane-reporter.mjs).          *)
(***************************************************************************)
THEOREM PanesStayTheirs ==
  ASSUME PaneAssumption
  PROVE  PanesSpec => PanesAreTheirs
<1>1. PanesInit => PaneInv
  BY PanesBegin
<1>2. PaneInv /\ [PanesNext]_paneVars => PaneInv' /\ (ClaimedTellsItsOwn' /\ ReportsGoHome /\ UsesItsOwn)
  <2> SUFFICES ASSUME PaneInv, [PanesNext]_paneVars
               PROVE  PaneInv' /\ (ClaimedTellsItsOwn' /\ ReportsGoHome /\ UsesItsOwn)
    OBVIOUS
  <2>1. PaneInv' /\ PanePromise
    BY PanesMove
  <2> QED BY <2>1 DEF PaneInv, PanePromise
<1> QED BY <1>1, <1>2, PTL DEF PanesSpec, PanesAreTheirs

----------------------------------------------------------------------------
(***************************************************************************)
(* The gateways of the agents.                                             *)
(***************************************************************************)
GateRecords == [port : {0} \cup GatewayPorts, pid : {0} \cup GatewayPids, lifetime : 0 .. MaxLifetimes]
GateTasks == [stage : {"rest", "adopt", "probe", "end", "kill", "proof", "choose", "look"}, lifetime : 0 .. MaxLifetimes,
              record : GateRecords, others : SUBSET ({0} \cup GatewayPorts), entered : BOOLEAN, seen : BOOLEAN]
Launchers == [stage : {"none", "asks", "given", "started", "done"}, port : {0} \cup GatewayPorts, pid : {0} \cup GatewayPids]
Gateways == {NoProcess} \cup [agent : Agents, lifetime : 1 .. MaxLifetimes, port : GatewayPorts]

GateTypeOK ==
  /\ owner \in Owners
  /\ current \in [Agents -> 0 .. MaxLifetimes]
  /\ records \in [Agents -> GateRecords]
  /\ task \in [Owners -> [Agents -> GateTasks]]
  /\ launcher \in [Agents -> [1 .. MaxLifetimes -> Launchers]]
  /\ process \in [GatewayPids -> Gateways]

\* A pid is recorded with a port, and given ones are ports.
Fits(t) ==
  /\ t.stage # "rest" => t.lifetime # 0
  /\ t.record.pid # 0 => t.record.port # 0
  /\ t.stage \in {"kill", "proof"} => t.record.pid # 0
  /\ t.stage = "probe" => t.seen
  /\ t.stage \in {"adopt", "probe"} => t.record.lifetime = t.lifetime

TaskFields == \A e \in Owners, a \in Agents : Fits(task[e][a])

GateFields ==
  /\ \A a \in Agents : records[a].pid # 0 => records[a].port # 0
  /\ TaskFields
  /\ \A a \in Agents, l \in 1 .. MaxLifetimes :
       /\ launcher[a][l].stage \in {"given", "started"} => launcher[a][l].port # 0
       /\ launcher[a][l].stage = "started" => launcher[a][l].pid # 0

\* What a request that is still entered has read stands: nobody else may write.
ReadsStand ==
  \A e \in Owners, a \in Agents : task[e][a].entered =>
    /\ owner = e /\ task[e][a].stage # "rest"
    /\ task[e][a].stage \in {"adopt", "probe", "end", "kill", "proof"} => records[a] = task[e][a].record
    /\ task[e][a].stage \in {"choose", "look"} => records[a] = NoRecord
    /\ task[e][a].stage = "look" => \A b \in Agents : b # a => records[b].port \in task[e][a].others \cup {0}

\* One looks for a port at a time in an environment.
OneLooks == \A e \in Owners, a, b \in Agents : task[e][a].stage = "look" /\ task[e][b].stage = "look" => a = b

OnePerPort == \A p, q \in GatewayPids : process[p] # NoProcess /\ process[p].port = process[q].port => p = q

\* What answers to a recorded pid and port is the record's agent's, and so is
\* what a launcher started.
RecordsAreTrue ==
  /\ \A a \in Agents : records[a].pid # 0 /\ process[records[a].pid].port = records[a].port
       => process[records[a].pid].agent = a /\ process[records[a].pid].lifetime = records[a].lifetime
  /\ \A a \in Agents, l \in 1 .. MaxLifetimes :
       /\ launcher[a][l].stage = "started" /\ process[launcher[a][l].pid].port = launcher[a][l].port
            => process[launcher[a][l].pid].agent = a /\ process[launcher[a][l].pid].lifetime = l
       /\ launcher[a][l].stage \in {"given", "started"} /\ records[a].lifetime = l => records[a].pid = 0

GateInv == GateTypeOK /\ GateFields /\ ReadsStand /\ OneLooks /\ PortsAreApart /\ OnePerPort /\ RecordsAreTrue /\ HandsBackItsOwn

LEMMA NumbersApart ==
  ASSUME GatewaysAreNumbered
  PROVE  /\ 0 \notin GatewayPorts /\ 0 \notin GatewayPids
         /\ NoRecord \in GateRecords /\ NoRecord.pid = 0 /\ NoRecord.port = 0 /\ NoRecord.lifetime = 0
         /\ AtRest \in GateTasks /\ AtRest.stage = "rest" /\ ~ AtRest.entered /\ AtRest.record.pid = 0
         /\ NotLaunched \in Launchers /\ NotLaunched.stage = "none"
         /\ NoProcess.port = 0
         /\ MaxLifetimes \in Nat
<1>1. 0 \notin GatewayPorts /\ 0 \notin GatewayPids /\ MaxLifetimes \in Nat
  BY DEF GatewaysAreNumbered
<1>2. NoRecord \in GateRecords /\ NoRecord.pid = 0 /\ NoRecord.port = 0 /\ NoRecord.lifetime = 0
  BY <1>1 DEF NoRecord, GateRecords
<1>3. AtRest \in GateTasks /\ AtRest.stage = "rest" /\ ~ AtRest.entered /\ AtRest.record.pid = 0
  BY <1>1, <1>2 DEF AtRest, GateTasks
<1>4. NotLaunched \in Launchers /\ NotLaunched.stage = "none"
  BY DEF NotLaunched, Launchers
<1> QED BY <1>1, <1>2, <1>3, <1>4 DEF NoProcess

\* One entry of a table of tables.
LEMMA TwoDeep ==
  ASSUME NEW A, NEW B, NEW C, NEW f \in [A -> [B -> C]], NEW a \in A, NEW b \in B, NEW v \in C
  PROVE  /\ [f EXCEPT ![a][b] = v] \in [A -> [B -> C]]
         /\ [f EXCEPT ![a][b] = v][a][b] = v
         /\ \A x \in A, y \in B : <<x, y>> # <<a, b>> => [f EXCEPT ![a][b] = v][x][y] = f[x][y]
  OBVIOUS

LEMMA GateBegins ==
  ASSUME GatewaysAreNumbered, BookInit
  PROVE  GateInv
<1>1. GateTypeOK
  BY NumbersApart DEF BookInit, GateTypeOK, Gateways
<1>2. GateFields
  BY NumbersApart DEF BookInit, GateFields, TaskFields, Fits
<1>3. ReadsStand /\ OneLooks
  BY NumbersApart DEF BookInit, ReadsStand, OneLooks
<1>4. PortsAreApart /\ OnePerPort /\ RecordsAreTrue /\ HandsBackItsOwn
  BY NumbersApart DEF BookInit, PortsAreApart, OnePerPort, RecordsAreTrue, HandsBackItsOwn
<1> QED BY <1>1, <1>2, <1>3, <1>4 DEF GateInv

\* A gateway the OS confirms for a record it may believe.
LEMMA ConfirmedIs ==
  ASSUME GatewaysAreNumbered, NEW r \in GateRecords, Confirms(r)
  PROVE  r.pid \in GatewayPids /\ r.pid # 0 /\ process[r.pid] # NoProcess /\ process[r.pid].port = r.port
  BY NumbersApart DEF Confirms, GateRecords

\* Steps outside.
LEMMA LaunchesStep ==
  ASSUME GatewaysAreNumbered, GateInv, NEW a \in Agents,
         Launches(a) \/ \E l \in 1 .. MaxLifetimes : AsksAgain(a, l)
  PROVE  GateInv' /\ KnownIsNotForgotten
<1>1. /\ UNCHANGED <<owner, records, task, process, handed>>
      /\ current' \in [Agents -> 0 .. MaxLifetimes]
  <2>1. CASE Launches(a)
    <3>1. current[a] \in 0 .. MaxLifetimes /\ current[a] < MaxLifetimes /\ current' = [current EXCEPT ![a] = current[a] + 1]
      BY <2>1 DEF Launches, GateInv, GateTypeOK
    <3>2. current[a] + 1 \in 0 .. MaxLifetimes
      BY <3>1, NumbersApart
    <3> QED BY <2>1, <3>1, <3>2 DEF Launches, GateInv, GateTypeOK
  <2>2. CASE \E l \in 1 .. MaxLifetimes : AsksAgain(a, l)
    BY <2>2 DEF AsksAgain, GateInv, GateTypeOK
  <2> QED BY <2>1, <2>2
<1>2. PICK l \in 1 .. MaxLifetimes, asked \in Launchers :
        asked.stage = "asks" /\ launcher' = [launcher EXCEPT ![a][l] = asked]
  <2>1. CASE Launches(a)
    <3>1. current[a] \in 0 .. MaxLifetimes /\ current[a] < MaxLifetimes
      BY <2>1 DEF Launches, GateInv, GateTypeOK
    <3>2. current[a] + 1 \in 1 .. MaxLifetimes
      BY <3>1, NumbersApart
    <3> DEFINE was == launcher[a][current[a] + 1]
    <3>3. was \in Launchers
      BY <3>2 DEF GateInv, GateTypeOK
    <3>4. [was EXCEPT !.stage = "asks"] \in Launchers /\ [was EXCEPT !.stage = "asks"].stage = "asks"
      BY <3>3 DEF Launchers
    <3>5. launcher' = [launcher EXCEPT ![a][current[a] + 1] = [was EXCEPT !.stage = "asks"]]
      BY <2>1 DEF Launches
    <3> HIDE DEF was
    <3> QED BY <3>2, <3>4, <3>5
  <2>2. CASE \E l \in 1 .. MaxLifetimes : AsksAgain(a, l)
    <3>1. [NotLaunched EXCEPT !.stage = "asks"] \in Launchers /\ [NotLaunched EXCEPT !.stage = "asks"].stage = "asks"
      BY NumbersApart DEF Launchers
    <3> QED BY <2>2, <3>1 DEF AsksAgain
  <2> QED BY <2>1, <2>2
<1>3. launcher \in [Agents -> [1 .. MaxLifetimes -> Launchers]]
  BY DEF GateInv, GateTypeOK
<1>4. /\ launcher' \in [Agents -> [1 .. MaxLifetimes -> Launchers]]
      /\ \A b \in Agents, m \in 1 .. MaxLifetimes : launcher'[b][m] = launcher[b][m] \/ launcher'[b][m].stage = "asks"
  BY <1>2, <1>3, TwoDeep
<1>5. GateTypeOK'
  BY <1>1, <1>4 DEF GateInv, GateTypeOK
<1>6. GateFields'
  BY <1>1, <1>4 DEF GateInv, GateFields, TaskFields
<1>7. ReadsStand' /\ OneLooks' /\ PortsAreApart' /\ OnePerPort' /\ HandsBackItsOwn'
  BY <1>1 DEF GateInv, ReadsStand, OneLooks, PortsAreApart, OnePerPort, HandsBackItsOwn
<1>8. \A b \in Agents, m \in 1 .. MaxLifetimes :
        launcher'[b][m].stage \in {"given", "started"} => launcher'[b][m] = launcher[b][m]
  BY <1>4
<1>9. RecordsAreTrue'
  <2>1. \A b \in Agents : records'[b].pid # 0 /\ process'[records'[b].pid].port = records'[b].port
          => process'[records'[b].pid].agent = b /\ process'[records'[b].pid].lifetime = records'[b].lifetime
    BY <1>1 DEF GateInv, RecordsAreTrue
  <2>2. \A b \in Agents, m \in 1 .. MaxLifetimes :
          /\ launcher'[b][m].stage = "started" /\ process'[launcher'[b][m].pid].port = launcher'[b][m].port
               => process'[launcher'[b][m].pid].agent = b /\ process'[launcher'[b][m].pid].lifetime = m
          /\ launcher'[b][m].stage \in {"given", "started"} /\ records'[b].lifetime = m => records'[b].pid = 0
    BY <1>1, <1>8 DEF GateInv, RecordsAreTrue
  <2> QED BY <2>1, <2>2 DEF RecordsAreTrue
<1> QED BY <1>1, <1>5, <1>6, <1>7, <1>9 DEF GateInv, KnownIsNotForgotten

LEMMA RoleStep ==
  ASSUME GatewaysAreNumbered, GateInv, RoleMoves
  PROVE  GateInv' /\ KnownIsNotForgotten
<1>1. /\ UNCHANGED <<current, records, launcher, process, handed>>
      /\ owner' \in Owners /\ owner' # owner
      /\ task' = [task EXCEPT ![owner] = [a \in Agents |-> [task[owner][a] EXCEPT !.entered = FALSE]]]
  BY DEF RoleMoves
<1>2. task' \in [Owners -> [Agents -> GateTasks]]
  <2>1. task \in [Owners -> [Agents -> GateTasks]] /\ owner \in Owners
    BY DEF GateInv, GateTypeOK
  <2>2. \A r \in GateTasks : [r EXCEPT !.entered = FALSE] \in GateTasks
    BY DEF GateTasks
  <2>3. [a \in Agents |-> [task[owner][a] EXCEPT !.entered = FALSE]] \in [Agents -> GateTasks]
    BY <2>1, <2>2
  <2> QED BY <1>1, <2>1, <2>3
<1>3. \A e \in Owners, a \in Agents :
        /\ task'[e][a].stage = task[e][a].stage /\ task'[e][a].record = task[e][a].record /\ task'[e][a].lifetime = task[e][a].lifetime
        /\ task'[e][a].seen = task[e][a].seen
        /\ task'[e][a].entered => task[e][a].entered /\ e # owner
  BY <1>1 DEF GateInv, GateTypeOK, GateTasks
<1>4. \A e \in Owners, a \in Agents : ~ task'[e][a].entered
  BY <1>3 DEF GateInv, ReadsStand
<1>5. GateTypeOK'
  BY <1>1, <1>2 DEF GateInv, GateTypeOK
<1>6. GateFields'
  BY <1>1, <1>3 DEF GateInv, GateFields, TaskFields, Fits
<1>7. ReadsStand' /\ OneLooks' /\ PortsAreApart' /\ OnePerPort' /\ HandsBackItsOwn' /\ RecordsAreTrue'
  BY <1>1, <1>3, <1>4 DEF GateInv, ReadsStand, OneLooks, PortsAreApart, OnePerPort, HandsBackItsOwn, RecordsAreTrue
<1> QED BY <1>1, <1>5, <1>6, <1>7 DEF GateInv, KnownIsNotForgotten

LEMMA StartsStep ==
  ASSUME GatewaysAreNumbered, GateInv, NEW a \in Agents, NEW l \in 1 .. MaxLifetimes, StartsGateway(a, l)
  PROVE  GateInv' /\ KnownIsNotForgotten
<1> DEFINE port == launcher[a][l].port
<1>1. /\ UNCHANGED <<owner, current, records, task, handed>> /\ launcher[a][l].stage = "given"
      /\ port \in GatewayPorts /\ launcher[a][l] \in Launchers
      /\ \A q \in GatewayPids : process[q].port # port
  <2>1. launcher[a][l] \in Launchers
    BY DEF GateInv, GateTypeOK
  <2>2. launcher[a][l].stage = "given" /\ ~ Listening(port) /\ UNCHANGED <<owner, current, records, task, handed>>
    BY DEF StartsGateway
  <2>3. port \in {0} \cup GatewayPorts /\ port # 0
    BY <2>1, <2>2 DEF GateInv, GateFields, Launchers
  <2> QED BY <2>1, <2>2, <2>3 DEF Listening
<1>2. PICK p \in GatewayPids :
        /\ process[p] = NoProcess /\ ~ HadPort(p, port)
        /\ process' = [process EXCEPT ![p] = [agent |-> a, lifetime |-> l, port |-> port]]
        /\ launcher' = [launcher EXCEPT ![a][l].stage = "started", ![a][l].pid = p]
  BY DEF StartsGateway
<1>3. /\ process' \in [GatewayPids -> Gateways]
      /\ process'[p] = [agent |-> a, lifetime |-> l, port |-> port]
      /\ \A q \in GatewayPids : q # p => process'[q] = process[q]
  BY <1>1, <1>2 DEF GateInv, GateTypeOK, Gateways
<1>4. /\ launcher' \in [Agents -> [1 .. MaxLifetimes -> Launchers]]
      /\ launcher'[a][l] = [stage |-> "started", port |-> port, pid |-> p]
      /\ \A b \in Agents, m \in 1 .. MaxLifetimes : <<b, m>> # <<a, l>> => launcher'[b][m] = launcher[b][m]
  BY <1>1, <1>2 DEF GateInv, GateTypeOK, Launchers
<1> HIDE DEF port
<1>5. /\ \A b \in Agents : ~ (records[b].pid = p /\ records[b].port = port)
      /\ \A b \in Agents, m \in 1 .. MaxLifetimes :
           launcher[b][m].stage = "started" /\ launcher[b][m].pid = p => launcher[b][m].port # port
  <2>1. \A b \in Agents, m \in 1 .. MaxLifetimes : launcher[b][m] # [stage |-> "started", pid |-> p, port |-> port]
    BY <1>2 DEF HadPort
  <2>2. \A b \in Agents, m \in 1 .. MaxLifetimes : launcher[b][m] \in Launchers
    BY DEF GateInv, GateTypeOK
  <2>3. \A r \in Launchers : r.stage = "started" /\ r.pid = p /\ r.port = port => r = [stage |-> "started", pid |-> p, port |-> port]
    BY DEF Launchers
  <2> QED BY <1>2, <2>1, <2>2, <2>3 DEF HadPort
<1>6. GateTypeOK'
  BY <1>1, <1>3, <1>4 DEF GateInv, GateTypeOK
<1>7. GateFields'
  BY <1>1, <1>2, <1>4, NumbersApart DEF GateInv, GateFields, TaskFields
<1>8. ReadsStand' /\ OneLooks' /\ PortsAreApart' /\ HandsBackItsOwn'
  BY <1>1 DEF GateInv, ReadsStand, OneLooks, PortsAreApart, HandsBackItsOwn
<1>9. OnePerPort'
  BY <1>1, <1>2, <1>3, NumbersApart DEF GateInv, OnePerPort
<1>10. RecordsAreTrue'
  <2>1. ASSUME NEW b \in Agents, records[b].pid # 0, process'[records[b].pid].port = records[b].port
        PROVE  process'[records[b].pid].agent = b /\ process'[records[b].pid].lifetime = records[b].lifetime
    <3>1. records[b].pid \in GatewayPids
      BY <2>1 DEF GateInv, GateTypeOK, GateRecords
    <3>2. CASE records[b].pid = p
      BY <1>3, <1>5, <2>1, <3>2
    <3>3. CASE records[b].pid # p
      BY <1>3, <2>1, <3>1, <3>3 DEF GateInv, RecordsAreTrue
    <3> QED BY <3>2, <3>3
  <2>2. ASSUME NEW b \in Agents, NEW m \in 1 .. MaxLifetimes, launcher'[b][m].stage = "started",
               process'[launcher'[b][m].pid].port = launcher'[b][m].port
        PROVE  process'[launcher'[b][m].pid].agent = b /\ process'[launcher'[b][m].pid].lifetime = m
    <3>1. CASE <<b, m>> = <<a, l>>
      BY <1>3, <1>4, <3>1
    <3>2. CASE <<b, m>> # <<a, l>>
      <4>1. launcher'[b][m] = launcher[b][m] /\ launcher[b][m].pid \in GatewayPids
        BY <1>4, <2>2, <3>2 DEF GateInv, GateTypeOK, GateFields, Launchers
      <4>2. launcher[b][m].pid # p
        BY <1>3, <1>5, <2>2, <4>1
      <4> QED BY <1>3, <2>2, <4>1, <4>2 DEF GateInv, RecordsAreTrue
    <3> QED BY <3>1, <3>2
  <2>3. \A b \in Agents, m \in 1 .. MaxLifetimes :
          launcher'[b][m].stage \in {"given", "started"} /\ records[b].lifetime = m => records[b].pid = 0
    BY <1>1, <1>4 DEF GateInv, RecordsAreTrue
  <2> QED BY <1>1, <2>1, <2>2, <2>3 DEF RecordsAreTrue
<1> QED BY <1>1, <1>6, <1>7, <1>8, <1>9, <1>10 DEF GateInv, KnownIsNotForgotten

\* A gateway ends, by itself or by the kill.
LEMMA EndedKeeps ==
  ASSUME GatewaysAreNumbered, GateInv, NEW p \in GatewayPids, process' = [process EXCEPT ![p] = NoProcess],
         UNCHANGED <<records, launcher>>
  PROVE  process' \in [GatewayPids -> Gateways] /\ OnePerPort' /\ RecordsAreTrue'
<1>1. /\ process' \in [GatewayPids -> Gateways]
      /\ process'[p] = NoProcess
      /\ \A q \in GatewayPids : q # p => process'[q] = process[q]
  BY DEF GateInv, GateTypeOK, Gateways
<1>2. OnePerPort'
  <2> SUFFICES ASSUME NEW q \in GatewayPids, NEW r \in GatewayPids, process'[q] # NoProcess, process'[q].port = process'[r].port
               PROVE  q = r
    BY DEF OnePerPort
  <2>1. process'[q] = process[q] /\ process[q].port # 0
    BY <1>1, NumbersApart DEF GateInv, GateTypeOK, Gateways
  <2>2. process'[r] = process[r]
    BY <1>1, <2>1, NumbersApart
  <2> QED BY <2>1, <2>2 DEF GateInv, OnePerPort
<1>3. ASSUME NEW a \in Agents, records[a].pid # 0, process'[records[a].pid].port = records[a].port
      PROVE  process'[records[a].pid].agent = a /\ process'[records[a].pid].lifetime = records[a].lifetime
  <2>1. records[a].pid \in GatewayPids /\ records[a].port # 0
    BY <1>3 DEF GateInv, GateTypeOK, GateFields, GateRecords
  <2>2. records[a].pid # p
    BY <1>1, <1>3, <2>1, NumbersApart
  <2> QED BY <1>1, <1>3, <2>1, <2>2 DEF GateInv, RecordsAreTrue
<1>4. ASSUME NEW a \in Agents, NEW l \in 1 .. MaxLifetimes, launcher[a][l].stage = "started",
             process'[launcher[a][l].pid].port = launcher[a][l].port
      PROVE  process'[launcher[a][l].pid].agent = a /\ process'[launcher[a][l].pid].lifetime = l
  <2>1. launcher[a][l].pid \in GatewayPids /\ launcher[a][l].port # 0
    BY <1>4 DEF GateInv, GateTypeOK, GateFields, Launchers
  <2>2. launcher[a][l].pid # p
    BY <1>1, <1>4, <2>1, NumbersApart
  <2> QED BY <1>1, <1>4, <2>1, <2>2 DEF GateInv, RecordsAreTrue
<1>5. RecordsAreTrue'
  BY <1>3, <1>4 DEF GateInv, RecordsAreTrue
<1> QED BY <1>1, <1>2, <1>5

LEMMA EndsStep ==
  ASSUME GatewaysAreNumbered, GateInv, NEW p \in GatewayPids, GatewayEnds(p)
  PROVE  GateInv' /\ KnownIsNotForgotten
<1>1. UNCHANGED <<owner, current, records, task, launcher, handed>> /\ process' = [process EXCEPT ![p] = NoProcess]
  BY DEF GatewayEnds
<1>2. process' \in [GatewayPids -> Gateways] /\ OnePerPort' /\ RecordsAreTrue'
  BY <1>1, EndedKeeps
<1>3. GateTypeOK'
  BY <1>1, <1>2 DEF GateInv, GateTypeOK
<1>4. GateFields'
  BY <1>1 DEF GateInv, GateFields, TaskFields
<1>5. ReadsStand' /\ OneLooks'
  BY <1>1 DEF GateInv, ReadsStand, OneLooks
<1>6. PortsAreApart' /\ HandsBackItsOwn'
  BY <1>1 DEF GateInv, PortsAreApart, HandsBackItsOwn
<1> QED BY <1>1, <1>2, <1>3, <1>4, <1>5, <1>6 DEF GateInv, KnownIsNotForgotten

(***************************************************************************)
(* The route.                                                              *)
(***************************************************************************)
\* What the request of another is stands while one moves on.
LEMMA TaskSet ==
  ASSUME GateInv, NEW e \in Owners, NEW a \in Agents, NEW t \in GateTasks, Sets(e, a, t)
  PROVE  /\ task' \in [Owners -> [Agents -> GateTasks]] /\ task'[e][a] = t
         /\ \A d \in Owners, b \in Agents : <<d, b>> # <<e, a>> => task'[d][b] = task[d][b]
<1>1. task \in [Owners -> [Agents -> GateTasks]] /\ task' = [task EXCEPT ![e][a] = t]
  BY DEF GateInv, GateTypeOK, Sets
<1> QED BY <1>1, TwoDeep

\* A request of an agent that may act is the only one of the agent that may.
LEMMA OneActs ==
  ASSUME GateInv, NEW e \in Owners, NEW a \in Agents, owner = e
  PROVE  \A d \in Owners, b \in Agents : task[d][b].entered => d = e
  BY DEF GateInv, ReadsStand

\* The request moves and the book does not.
LEMMA TaskMoves ==
  ASSUME GatewaysAreNumbered, GateInv, NEW e \in Owners, NEW a \in Agents, NEW t \in GateTasks, Sets(e, a, t),
         UNCHANGED <<owner, current, records>>,
         Fits(t),
         t.entered => /\ owner = e /\ t.stage # "rest"
                      /\ t.stage \in {"adopt", "probe", "end", "kill", "proof"} => records[a] = t.record
                      /\ t.stage \in {"choose", "look"} => records[a] = NoRecord
                      /\ t.stage = "look" => \A b \in Agents : b # a => records[b].port \in t.others \cup {0},
         t.stage = "look" => ItsTurn(e)
  PROVE  /\ task' \in [Owners -> [Agents -> GateTasks]] /\ ReadsStand' /\ OneLooks'
         /\ TaskFields'
<1>1. /\ task' \in [Owners -> [Agents -> GateTasks]] /\ task'[e][a] = t
      /\ \A d \in Owners, b \in Agents : <<d, b>> # <<e, a>> => task'[d][b] = task[d][b]
  BY TaskSet
<1>2. ReadsStand'
  <2> SUFFICES ASSUME NEW d \in Owners, NEW b \in Agents, task'[d][b].entered
               PROVE  /\ owner = d /\ task'[d][b].stage # "rest"
                      /\ task'[d][b].stage \in {"adopt", "probe", "end", "kill", "proof"} => records[b] = task'[d][b].record
                      /\ task'[d][b].stage \in {"choose", "look"} => records[b] = NoRecord
                      /\ task'[d][b].stage = "look" => \A c \in Agents : c # b => records[c].port \in task'[d][b].others \cup {0}
    BY DEF ReadsStand
  <2>1. CASE <<d, b>> = <<e, a>>
    BY <1>1, <2>1
  <2>2. CASE <<d, b>> # <<e, a>>
    BY <1>1, <2>2 DEF GateInv, ReadsStand
  <2> QED BY <2>1, <2>2
<1>3. OneLooks'
  <2> SUFFICES ASSUME NEW d \in Owners, NEW b \in Agents, NEW c \in Agents, task'[d][b].stage = "look", task'[d][c].stage = "look"
               PROVE  b = c
    BY DEF OneLooks
  <2>1. CASE d # e \/ (b # a /\ c # a)
    BY <1>1, <2>1 DEF GateInv, OneLooks
  <2>2. CASE d = e /\ (b = a \/ c = a)
    BY <1>1, <2>2 DEF ItsTurn
  <2> QED BY <2>1, <2>2
<1> QED BY <1>1, <1>2, <1>3 DEF GateInv, GateFields, TaskFields

\* What it takes, beside the request, when the records and the gateways stay.
LEMMA RouteStays ==
  ASSUME GateInv, UNCHANGED <<owner, current, records, process>>, launcher' \in [Agents -> [1 .. MaxLifetimes -> Launchers]],
         \A b \in Agents, m \in 1 .. MaxLifetimes : launcher'[b][m] = launcher[b][m] \/ launcher'[b][m].stage \notin {"given", "started"},
         task' \in [Owners -> [Agents -> GateTasks]], ReadsStand', OneLooks', HandsBackItsOwn',
         TaskFields'
  PROVE  GateInv' /\ KnownIsNotForgotten
<1>1. GateTypeOK'
  BY DEF GateInv, GateTypeOK
<1>2. GateFields'
  <2>1. \A b \in Agents, m \in 1 .. MaxLifetimes :
          /\ launcher'[b][m].stage \in {"given", "started"} => launcher'[b][m].port # 0
          /\ launcher'[b][m].stage = "started" => launcher'[b][m].pid # 0
    BY DEF GateInv, GateFields
  <2>2. \A b \in Agents : records'[b].pid # 0 => records'[b].port # 0
    BY DEF GateInv, GateFields
  <2> QED BY <2>1, <2>2 DEF GateFields
<1>3. PortsAreApart' /\ OnePerPort'
  BY DEF GateInv, PortsAreApart, OnePerPort
<1>4. RecordsAreTrue'
  BY DEF GateInv, RecordsAreTrue
<1> QED BY <1>1, <1>2, <1>3, <1>4 DEF GateInv, KnownIsNotForgotten

LEMMA BeginsStep ==
  ASSUME GatewaysAreNumbered, GateInv, NEW e \in Owners, NEW a \in Agents, NEW l \in 1 .. MaxLifetimes, PrepareBegins(e, a, l)
  PROVE  GateInv' /\ KnownIsNotForgotten
<1> DEFINE stage == IF records[a] = NoRecord THEN "choose" ELSE IF records[a].lifetime = l THEN "adopt" ELSE "end"
           t == [stage |-> stage, lifetime |-> l, record |-> records[a], others |-> {}, entered |-> TRUE, seen |-> FALSE]
<1>1. Sets(e, a, t) /\ owner = e /\ UNCHANGED <<owner, current, records, launcher, process, handed>>
  BY DEF PrepareBegins, MayAct
<1>2. records[a] \in GateRecords /\ l # 0 /\ l \in 0 .. MaxLifetimes
  BY NumbersApart DEF GateInv, GateTypeOK
<1>3. /\ stage \in {"choose", "adopt", "end"}
      /\ stage = "choose" => records[a] = NoRecord
      /\ stage = "adopt" => records[a].lifetime = l
  OBVIOUS
<1> HIDE DEF stage
<1>4. t \in GateTasks
  BY <1>2, <1>3 DEF GateTasks
<1>5. Fits(t)
  BY <1>2, <1>3 DEF GateInv, GateFields, Fits
<1>6. /\ task' \in [Owners -> [Agents -> GateTasks]] /\ ReadsStand' /\ OneLooks'
      /\ TaskFields'
  BY <1>1, <1>2, <1>3, <1>4, <1>5, TaskMoves
<1> QED BY <1>1, <1>6, RouteStays DEF GateInv, GateTypeOK, HandsBackItsOwn

LEMMA RestIs ==
  ASSUME GatewaysAreNumbered, GateInv, NEW e \in Owners, NEW a \in Agents, Refuses(e, a), UNCHANGED <<owner, current, records>>
  PROVE  /\ task' \in [Owners -> [Agents -> GateTasks]] /\ ReadsStand' /\ OneLooks'
         /\ TaskFields'
<1>1. Sets(e, a, AtRest)
  BY DEF Sets, Refuses
<1> QED BY <1>1, NumbersApart, TaskMoves DEF Fits

\* A request in flight.
LEMMA TaskIs ==
  ASSUME GateInv, NEW e \in Owners, NEW a \in Agents, task[e][a].stage # "rest"
  PROVE  /\ task[e][a] \in GateTasks /\ Fits(task[e][a])
         /\ task[e][a].lifetime \in 1 .. MaxLifetimes /\ task[e][a].record \in GateRecords
         /\ task[e][a].entered /\ task[e][a].stage \in {"adopt", "probe", "end", "kill", "proof"}
              => owner = e /\ records[a] = task[e][a].record
<1>1. task[e][a] \in GateTasks /\ Fits(task[e][a])
  BY DEF GateInv, GateTypeOK, GateFields, TaskFields
<1>2. task[e][a].lifetime \in 1 .. MaxLifetimes /\ task[e][a].record \in GateRecords
  BY <1>1 DEF GateTasks, Fits
<1> QED BY <1>1, <1>2 DEF GateInv, ReadsStand

\* It moves on to the next of its awaits on the record it read.
LEMMA ReadOn ==
  ASSUME GatewaysAreNumbered, GateInv, NEW e \in Owners, NEW a \in Agents, NEW u \in GateTasks, Sets(e, a, u),
         task[e][a].stage \in {"adopt", "probe", "end", "kill", "proof"}, u.stage \in {"probe", "end", "kill", "proof"},
         u.record = task[e][a].record, u.lifetime = task[e][a].lifetime, u.entered = task[e][a].entered,
         u.stage \in {"kill", "proof"} => u.record.pid # 0, u.stage = "probe" => u.seen /\ u.record.lifetime = u.lifetime,
         UNCHANGED <<owner, current, records>>
  PROVE  task' \in [Owners -> [Agents -> GateTasks]] /\ ReadsStand' /\ OneLooks' /\ TaskFields'
<1>1. Fits(u)
  BY TaskIs DEF Fits
<1>2. u.entered => owner = e /\ records[a] = u.record
  BY TaskIs
<1> QED BY <1>1, <1>2, TaskMoves

LEMMA ConfirmsStep ==
  ASSUME GatewaysAreNumbered, GateInv, NEW e \in Owners, NEW a \in Agents, PrepareConfirms(e, a)
  PROVE  GateInv' /\ KnownIsNotForgotten
<1> DEFINE t == task[e][a]
<1>1. t \in GateTasks /\ t.stage = "adopt" /\ UNCHANGED <<owner, current, records, launcher, process, handed>>
  BY TaskIs DEF PrepareConfirms
<1>2. PICK u \in {[t EXCEPT !.stage = "probe", !.seen = TRUE], [t EXCEPT !.stage = "end"]} : Sets(e, a, u)
  BY DEF PrepareConfirms
<1>3. /\ u \in GateTasks /\ u.stage \in {"probe", "end"} /\ u.record = t.record /\ u.lifetime = t.lifetime /\ u.entered = t.entered
      /\ u.stage = "probe" => u.seen /\ u.record.lifetime = u.lifetime
  <2>1. t.record.lifetime = t.lifetime
    BY <1>1, TaskIs DEF Fits
  <2> QED BY <1>1, <1>2, <2>1 DEF GateTasks
<1> HIDE DEF t
<1>4. task' \in [Owners -> [Agents -> GateTasks]] /\ ReadsStand' /\ OneLooks' /\ TaskFields'
  BY <1>1, <1>2, <1>3, ReadOn DEF t
<1> QED BY <1>1, <1>4, RouteStays DEF GateInv, GateTypeOK, HandsBackItsOwn

\* What is handed back is the record's own gateway, or one that took its port
\* when it had gone and that no record names.
LEMMA HandedIsOwn ==
  ASSUME GatewaysAreNumbered, GateInv, NEW e \in Owners, NEW a \in Agents, task[e][a].stage = "probe", Acts(e, a),
         NEW p \in AtPort(task[e][a].record.port), NEW h, h = Handed(a, task[e][a], p)
  PROVE  (h.gateway.agent = h.agent /\ h.gateway.lifetime = h.lifetime) \/ (h.left /\ ~ h.named)
<1> DEFINE t == task[e][a]
<1>1. /\ t.record \in GateRecords /\ t.seen /\ records[a] = t.record /\ records[a].lifetime = t.lifetime
      /\ p \in GatewayPids /\ process[p].port = t.record.port
  BY TaskIs DEF Fits, Acts, AtPort
<1>2. CASE Confirms(t.record)
  <2>1. p = t.record.pid
    BY <1>1, <1>2, ConfirmedIs DEF GateInv, OnePerPort
  <2> QED BY <1>1, <1>2, <2>1, ConfirmedIs DEF GateInv, RecordsAreTrue, Handed
<1>3. CASE ~ Confirms(t.record)
  <2>1. ASSUME NEW b \in Agents, records[b].pid = p, records[b].port = t.record.port
        PROVE  h.gateway.agent = h.agent /\ h.gateway.lifetime = h.lifetime
    <3>1. p # 0 /\ records[b].port # 0
      BY <1>1, <2>1, NumbersApart DEF GateInv, GateFields
    <3>2. b = a
      BY <1>1, <2>1, <3>1 DEF GateInv, PortsAreApart
    <3> QED BY <1>1, <2>1, <3>1, <3>2 DEF GateInv, RecordsAreTrue, Handed
  <2>2. /\ h.left <=> t.seen /\ ~ Confirms(t.record)
        /\ h.named <=> \E b \in Agents : records[b].pid = p /\ records[b].port = t.record.port
    BY DEF Handed
  <2> QED BY <1>1, <1>3, <2>1, <2>2
<1> QED BY <1>2, <1>3

LEMMA AdoptsStep ==
  ASSUME GatewaysAreNumbered, GateInv, NEW e \in Owners, NEW a \in Agents, PrepareAdopts(e, a)
  PROVE  GateInv' /\ KnownIsNotForgotten
<1> DEFINE t == task[e][a]
<1>1. t \in GateTasks /\ t.stage = "probe" /\ t.lifetime \in 1 .. MaxLifetimes /\ UNCHANGED <<owner, current, records, process>>
  BY TaskIs DEF PrepareAdopts
<1>2. CASE Refuses(e, a) /\ UNCHANGED <<launcher, handed>>
  BY <1>1, <1>2, RestIs, RouteStays DEF GateInv, GateTypeOK, HandsBackItsOwn
<1>3. CASE Sets(e, a, [t EXCEPT !.stage = "end", !.seen = FALSE]) /\ UNCHANGED <<launcher, handed>>
  <2> DEFINE u == [t EXCEPT !.stage = "end", !.seen = FALSE]
  <2>1. u \in GateTasks /\ u.stage = "end" /\ u.record = t.record /\ u.lifetime = t.lifetime /\ u.entered = t.entered
    BY <1>1 DEF GateTasks
  <2>2. Sets(e, a, u)
    BY <1>3
  <2> HIDE DEF u
  <2>3. task' \in [Owners -> [Agents -> GateTasks]] /\ ReadsStand' /\ OneLooks' /\ TaskFields'
    BY <1>1, <2>1, <2>2, ReadOn
  <2> QED BY <1>1, <1>3, <2>3, RouteStays DEF GateInv, GateTypeOK, HandsBackItsOwn
<1>4. CASE /\ Acts(e, a) /\ Refuses(e, a)
           /\ handed' = handed \cup {Handed(a, t, p) : p \in AtPort(t.record.port)}
           /\ launcher' = [launcher EXCEPT ![a][t.lifetime].stage = "done"]
  <2>1. HandsBackItsOwn'
    BY <1>1, <1>4, HandedIsOwn DEF GateInv, HandsBackItsOwn
  <2> DEFINE was == launcher[a][t.lifetime]
             done == [was EXCEPT !.stage = "done"]
  <2>2. was \in Launchers
    BY <1>1 DEF GateInv, GateTypeOK
  <2>3. done \in Launchers /\ done.stage = "done"
    BY <2>2 DEF Launchers
  <2>4. launcher' = [launcher EXCEPT ![a][t.lifetime] = done]
    BY <1>4
  <2>5. launcher \in [Agents -> [1 .. MaxLifetimes -> Launchers]] /\ t.lifetime \in 1 .. MaxLifetimes
    BY <1>1 DEF GateInv, GateTypeOK
  <2> HIDE DEF done, was, t
  <2>6. /\ launcher' \in [Agents -> [1 .. MaxLifetimes -> Launchers]]
        /\ \A b \in Agents, m \in 1 .. MaxLifetimes : launcher'[b][m] = launcher[b][m] \/ launcher'[b][m].stage \notin {"given", "started"}
    BY <2>3, <2>4, <2>5, TwoDeep
  <2> QED BY <1>1, <1>4, <2>1, <2>6, RestIs, RouteStays
<1> QED BY <1>2, <1>3, <1>4 DEF PrepareAdopts

LEMMA ChoosesStep ==
  ASSUME GatewaysAreNumbered, GateInv, NEW e \in Owners, NEW a \in Agents, PrepareChooses(e, a)
  PROVE  GateInv' /\ KnownIsNotForgotten
<1> DEFINE t == task[e][a]
           held == {records[b].port : b \in Agents \ {a}}
           u == [t EXCEPT !.stage = "look", !.others = held]
<1>1. t \in GateTasks /\ t.stage = "choose" /\ ItsTurn(e) /\ Sets(e, a, u) /\ UNCHANGED <<owner, current, records, launcher, process, handed>>
  BY DEF PrepareChooses, GateInv, GateTypeOK
<1>2. held \in SUBSET ({0} \cup GatewayPorts) /\ \A b \in Agents : b # a => records[b].port \in held
  BY DEF GateInv, GateTypeOK, GateRecords
<1>3. (t.record.pid # 0 => t.record.port # 0) /\ t.lifetime # 0 /\ (t.entered => owner = e /\ records[a] = NoRecord)
  BY <1>1 DEF GateInv, GateFields, TaskFields, Fits, ReadsStand
<1> HIDE DEF held, t
<1>4. u \in GateTasks /\ u.stage = "look" /\ u.lifetime = t.lifetime /\ u.record = t.record /\ u.entered = t.entered /\ u.others = held
      /\ Fits(u)
  BY <1>1, <1>2, <1>3 DEF GateTasks, Fits
<1> HIDE DEF u
<1>5. /\ task' \in [Owners -> [Agents -> GateTasks]] /\ ReadsStand' /\ OneLooks'
      /\ TaskFields'
  BY <1>1, <1>2, <1>3, <1>4, TaskMoves
<1> QED BY <1>1, <1>5, RouteStays DEF GateInv, GateTypeOK, HandsBackItsOwn

\* A record is dropped by the request that may, which has yet to choose.
LEMMA DropKeeps ==
  ASSUME GatewaysAreNumbered, GateInv, NEW e \in Owners, NEW a \in Agents, task[e][a].entered, owner = e, task[e][a].stage # "rest",
         Sets(e, a, [task[e][a] EXCEPT !.stage = "choose"]), records' = [records EXCEPT ![a] = NoRecord], UNCHANGED owner
  PROVE  /\ records' \in [Agents -> GateRecords] /\ task' \in [Owners -> [Agents -> GateTasks]]
         /\ launcher' = launcher => GateFields'
         /\ ReadsStand' /\ OneLooks' /\ PortsAreApart'
         /\ \A b \in Agents : records'[b] = records[b] \/ records'[b] = NoRecord
<1> DEFINE t == task[e][a]
           u == [t EXCEPT !.stage = "choose"]
<1>1. t \in GateTasks /\ Sets(e, a, u) /\ t.lifetime # 0 /\ (t.record.pid # 0 => t.record.port # 0) /\ records \in [Agents -> GateRecords]
  BY DEF GateInv, GateTypeOK, GateFields, TaskFields, Fits
<1>2. /\ records' \in [Agents -> GateRecords] /\ records'[a] = NoRecord
      /\ \A b \in Agents : b # a => records'[b] = records[b]
  BY <1>1, NumbersApart
<1> HIDE DEF t
<1>3. u \in GateTasks /\ u.stage = "choose" /\ u.lifetime = t.lifetime /\ u.record = t.record
  BY <1>1 DEF GateTasks
<1> HIDE DEF u
<1>4. /\ task' \in [Owners -> [Agents -> GateTasks]] /\ task'[e][a] = u
      /\ \A d \in Owners, b \in Agents : <<d, b>> # <<e, a>> => task'[d][b] = task[d][b]
  BY <1>1, <1>3, TaskSet
<1>5. ASSUME launcher' = launcher
      PROVE  GateFields'
  <2>1. \A b \in Agents : records'[b].pid # 0 => records'[b].port # 0
    BY <1>2, NumbersApart DEF GateInv, GateFields
  <2>2. TaskFields'
    BY <1>1, <1>3, <1>4 DEF GateInv, GateFields, TaskFields, Fits
  <2>3. \A b \in Agents, l \in 1 .. MaxLifetimes :
          /\ launcher'[b][l].stage \in {"given", "started"} => launcher'[b][l].port # 0
          /\ launcher'[b][l].stage = "started" => launcher'[b][l].pid # 0
    BY <1>5 DEF GateInv, GateFields
  <2> QED BY <2>1, <2>2, <2>3 DEF GateFields
<1>6. ReadsStand'
  <2> SUFFICES ASSUME NEW d \in Owners, NEW b \in Agents, task'[d][b].entered
               PROVE  /\ owner = d /\ task'[d][b].stage # "rest"
                      /\ task'[d][b].stage \in {"adopt", "probe", "end", "kill", "proof"} => records'[b] = task'[d][b].record
                      /\ task'[d][b].stage \in {"choose", "look"} => records'[b] = NoRecord
                      /\ task'[d][b].stage = "look" => \A c \in Agents : c # b => records'[c].port \in task'[d][b].others \cup {0}
    BY DEF ReadsStand
  <2>1. CASE <<d, b>> = <<e, a>>
    BY <1>2, <1>3, <1>4, <2>1
  <2>2. CASE <<d, b>> # <<e, a>>
    <3>1. task'[d][b] = task[d][b] /\ owner = d /\ d = e /\ b # a
      BY <1>4, <2>2, OneActs DEF GateInv, ReadsStand
    <3>2. records'[b] = records[b] /\ \A c \in Agents : records'[c].port = records[c].port \/ records'[c].port = 0
      BY <1>2, <3>1, NumbersApart
    <3> QED BY <3>1, <3>2 DEF GateInv, ReadsStand
  <2> QED BY <2>1, <2>2
<1>7. OneLooks'
  BY <1>3, <1>4 DEF GateInv, OneLooks
<1>8. PortsAreApart'
  BY <1>2, NumbersApart DEF GateInv, PortsAreApart
<1> QED BY <1>2, <1>4, <1>5, <1>6, <1>7, <1>8

LEMMA EndStep ==
  ASSUME GatewaysAreNumbered, GateInv, NEW e \in Owners, NEW a \in Agents, PrepareEnds(e, a)
  PROVE  GateInv' /\ KnownIsNotForgotten
<1> DEFINE t == task[e][a]
<1>1. t \in GateTasks /\ t.stage = "end" /\ t.record \in GateRecords /\ UNCHANGED <<owner, current, launcher, process, handed>>
  BY TaskIs DEF PrepareEnds
<1>2. CASE Refuses(e, a) /\ UNCHANGED records
  BY <1>1, <1>2, RestIs, RouteStays DEF GateInv, GateTypeOK, HandsBackItsOwn
<1>3. CASE Acts(e, a) /\ Confirms(t.record) /\ Sets(e, a, [t EXCEPT !.stage = "kill"]) /\ UNCHANGED records
  <2> DEFINE u == [t EXCEPT !.stage = "kill"]
  <2>1. u \in GateTasks /\ u.stage = "kill" /\ u.lifetime = t.lifetime /\ u.record = t.record /\ u.entered = t.entered
    BY <1>1 DEF GateTasks
  <2>2. u.record.pid # 0 /\ Sets(e, a, u)
    BY <1>1, <1>3, <2>1, ConfirmedIs
  <2> HIDE DEF u
  <2>3. /\ task' \in [Owners -> [Agents -> GateTasks]] /\ ReadsStand' /\ OneLooks'
        /\ TaskFields'
    BY <1>1, <1>3, <2>1, <2>2, ReadOn
  <2> QED BY <1>1, <1>3, <2>3, RouteStays DEF GateInv, GateTypeOK, HandsBackItsOwn
<1>4. CASE /\ Acts(e, a) /\ records' = [records EXCEPT ![a] = NoRecord] /\ Sets(e, a, [t EXCEPT !.stage = "choose"])
           /\ IF Confirms(t.record) THEN Fault /\ unheard' = unheard \cup {t.record.pid} ELSE UNCHANGED <<faults, unheard>>
  <2>1. task[e][a].entered /\ owner = e /\ records[a] = t.record
    BY <1>1, <1>4 DEF Acts, MayAct, GateInv, ReadsStand
  <2>2. /\ records' \in [Agents -> GateRecords] /\ task' \in [Owners -> [Agents -> GateTasks]]
        /\ GateFields' /\ ReadsStand' /\ OneLooks' /\ PortsAreApart'
        /\ \A b \in Agents : records'[b] = records[b] \/ records'[b] = NoRecord
    BY <1>1, <1>4, <2>1, DropKeeps
  <2>3. GateTypeOK'
    BY <1>1, <2>2 DEF GateInv, GateTypeOK
  <2>4. OnePerPort' /\ HandsBackItsOwn'
    BY <1>1 DEF GateInv, OnePerPort, HandsBackItsOwn
  <2>5. RecordsAreTrue'
    BY <1>1, <2>2, NumbersApart DEF GateInv, RecordsAreTrue
  <2>6. KnownIsNotForgotten
    <3> SUFFICES ASSUME NEW b \in Agents, Confirms(records[b]), records'[b].pid # records[b].pid
                 PROVE  records[b].pid \in unheard'
      BY DEF KnownIsNotForgotten
    <3>1. b = a
      BY <1>1, <1>4 DEF GateInv, GateTypeOK
    <3> QED BY <1>4, <2>1, <3>1
  <2> QED BY <2>2, <2>3, <2>4, <2>5, <2>6 DEF GateInv
<1> QED BY <1>2, <1>3, <1>4 DEF PrepareEnds

\* The kill moves no record.
LEMMA KillsStep ==
  ASSUME GatewaysAreNumbered, GateInv, NEW e \in Owners, NEW a \in Agents, PrepareKills(e, a)
  PROVE  GateInv' /\ KnownIsNotForgotten
<1> DEFINE t == task[e][a]
           u == [t EXCEPT !.stage = "proof"]
<1>1. t \in GateTasks /\ t.stage = "kill" /\ t.record \in GateRecords /\ UNCHANGED <<owner, current, records, launcher, handed>>
      /\ t.record.pid # 0 /\ t.record.pid \in GatewayPids /\ Sets(e, a, u)
  BY TaskIs DEF PrepareKills, Fits, GateRecords
<1>2. u \in GateTasks /\ u.stage = "proof" /\ u.record = t.record /\ u.lifetime = t.lifetime /\ u.entered = t.entered
  BY <1>1 DEF GateTasks
<1> HIDE DEF u
<1>3. task' \in [Owners -> [Agents -> GateTasks]] /\ ReadsStand' /\ OneLooks' /\ TaskFields'
  BY <1>1, <1>2, ReadOn
<1>4. process' = [process EXCEPT ![t.record.pid] = NoProcess] \/ process' = process
  BY DEF PrepareKills
<1> HIDE DEF t
<1>5. process' \in [GatewayPids -> Gateways] /\ OnePerPort' /\ RecordsAreTrue'
  <2>1. CASE process' = [process EXCEPT ![t.record.pid] = NoProcess]
    BY <1>1, <2>1, EndedKeeps
  <2>2. CASE process' = process
    BY <1>1, <2>2 DEF GateInv, GateTypeOK, OnePerPort, RecordsAreTrue
  <2> QED BY <1>4, <2>1, <2>2
<1>6. GateTypeOK' /\ GateFields'
  BY <1>1, <1>3, <1>5 DEF GateInv, GateTypeOK, GateFields
<1>7. PortsAreApart' /\ HandsBackItsOwn'
  BY <1>1 DEF GateInv, PortsAreApart, HandsBackItsOwn
<1> QED BY <1>1, <1>3, <1>5, <1>6, <1>7 DEF GateInv, KnownIsNotForgotten

\* A record is dropped only on the system's word that its gateway is gone.
LEMMA ProvesStep ==
  ASSUME GatewaysAreNumbered, GateInv, NEW e \in Owners, NEW a \in Agents, PrepareProves(e, a)
  PROVE  GateInv' /\ KnownIsNotForgotten
<1> DEFINE t == task[e][a]
<1>1. t.stage = "proof" /\ UNCHANGED <<owner, current, launcher, process, handed>>
  BY DEF PrepareProves
<1>2. CASE UNCHANGED records /\ Refuses(e, a)
  BY <1>1, <1>2, RestIs, RouteStays DEF GateInv, GateTypeOK, HandsBackItsOwn
<1>3. CASE Proven(t.record) /\ Acts(e, a) /\ records' = [records EXCEPT ![a] = NoRecord] /\ Sets(e, a, [t EXCEPT !.stage = "choose"])
  <2>1. t.entered /\ owner = e /\ records[a] = t.record
    BY <1>1, <1>3, TaskIs DEF Acts
  <2>2. /\ records' \in [Agents -> GateRecords] /\ task' \in [Owners -> [Agents -> GateTasks]]
        /\ GateFields' /\ ReadsStand' /\ OneLooks' /\ PortsAreApart'
        /\ \A b \in Agents : records'[b] = records[b] \/ records'[b] = NoRecord
    BY <1>1, <1>3, <2>1, DropKeeps
  <2>3. GateTypeOK'
    BY <1>1, <2>2 DEF GateInv, GateTypeOK
  <2>4. OnePerPort' /\ HandsBackItsOwn'
    BY <1>1 DEF GateInv, OnePerPort, HandsBackItsOwn
  <2>5. RecordsAreTrue'
    BY <1>1, <2>2, NumbersApart DEF GateInv, RecordsAreTrue
  <2>6. KnownIsNotForgotten
    <3> SUFFICES ASSUME NEW b \in Agents, Confirms(records[b]), records'[b].pid # records[b].pid
                 PROVE  FALSE
      BY DEF KnownIsNotForgotten
    <3>1. b = a
      BY <1>3 DEF GateInv, GateTypeOK
    <3> QED BY <1>3, <2>1, <3>1 DEF Proven
  <2> QED BY <2>2, <2>3, <2>4, <2>5, <2>6 DEF GateInv
<1> QED BY <1>2, <1>3 DEF PrepareProves

\* A port is chosen: it is nobody else's, and the record has no pid yet.
LEMMA AnswersStep ==
  ASSUME GatewaysAreNumbered, GateInv, NEW e \in Owners, NEW a \in Agents, PrepareAnswers(e, a)
  PROVE  GateInv' /\ KnownIsNotForgotten
<1> DEFINE t == task[e][a]
<1>1. t \in GateTasks /\ t.stage = "look" /\ t.lifetime \in 1 .. MaxLifetimes /\ Refuses(e, a)
      /\ UNCHANGED <<owner, current, process, handed>>
  BY TaskIs DEF PrepareAnswers
<1>2. CASE UNCHANGED <<records, launcher>>
  BY <1>1, <1>2, RestIs, RouteStays DEF GateInv, GateTypeOK, HandsBackItsOwn
<1>3. ASSUME Acts(e, a), NEW port \in Usable(t),
             records' = [records EXCEPT ![a] = [port |-> port, pid |-> 0, lifetime |-> t.lifetime]],
             launcher' = [launcher EXCEPT ![a][t.lifetime] = [stage |-> "given", port |-> port, pid |-> 0]]
      PROVE  GateInv' /\ KnownIsNotForgotten
  <2>1. t.entered /\ owner = e /\ records[a] = NoRecord /\ \A b \in Agents : b # a => records[b].port \in t.others \cup {0}
    BY <1>1, <1>3 DEF Acts, MayAct, GateInv, ReadsStand
  <2>2. port \in GatewayPorts /\ port \notin t.others /\ port # 0
    BY <1>3, NumbersApart DEF Usable
  <2>3. /\ records' \in [Agents -> GateRecords] /\ records'[a] = [port |-> port, pid |-> 0, lifetime |-> t.lifetime]
        /\ \A b \in Agents : b # a => records'[b] = records[b]
    BY <1>1, <1>3, <2>2 DEF GateInv, GateTypeOK, GateRecords
  <2> DEFINE given == [stage |-> "given", port |-> port, pid |-> 0]
  <2>4. given \in Launchers /\ given.stage = "given" /\ given.port = port
    BY <2>2 DEF Launchers
  <2>5. launcher \in [Agents -> [1 .. MaxLifetimes -> Launchers]] /\ launcher' = [launcher EXCEPT ![a][t.lifetime] = given]
    BY <1>3 DEF GateInv, GateTypeOK
  <2> HIDE DEF given, t
  <2>6. /\ launcher' \in [Agents -> [1 .. MaxLifetimes -> Launchers]]
        /\ launcher'[a][t.lifetime] = given
        /\ \A b \in Agents, m \in 1 .. MaxLifetimes : <<b, m>> # <<a, t.lifetime>> => launcher'[b][m] = launcher[b][m]
    <3>1. t.lifetime \in 1 .. MaxLifetimes /\ a \in Agents /\ given \in Launchers
      BY <1>1, <2>4
    <3>2. PICK l \in 1 .. MaxLifetimes : l = t.lifetime /\ launcher' = [launcher EXCEPT ![a][l] = given]
      BY <3>1, <2>5
    <3>3. launcher \in [Agents -> [1 .. MaxLifetimes -> Launchers]]
      BY <2>5
    <3>4. /\ launcher' \in [Agents -> [1 .. MaxLifetimes -> Launchers]]
          /\ launcher'[a][l] = given
          /\ \A b \in Agents, m \in 1 .. MaxLifetimes : <<b, m>> # <<a, l>> => launcher'[b][m] = launcher[b][m]
      BY <3>1, <3>2, <3>3
    <3> QED BY <3>2, <3>4
  <2>7. /\ task' \in [Owners -> [Agents -> GateTasks]] /\ task'[e][a] = AtRest
        /\ \A d \in Owners, b \in Agents : <<d, b>> # <<e, a>> => task'[d][b] = task[d][b]
    <3>1. Sets(e, a, AtRest) /\ AtRest \in GateTasks
      BY <1>1, NumbersApart DEF Sets, Refuses
    <3> QED BY <3>1, TaskSet
  <2>8. GateTypeOK'
    BY <1>1, <2>3, <2>6, <2>7 DEF GateInv, GateTypeOK
  <2>9. GateFields'
    <3>1. \A b \in Agents : records'[b].pid # 0 => records'[b].port # 0
      BY <2>2, <2>3 DEF GateInv, GateFields
    <3>2. TaskFields'
      BY <2>7, NumbersApart DEF GateInv, GateFields, TaskFields, Fits
    <3>3. \A b \in Agents, m \in 1 .. MaxLifetimes :
            /\ launcher'[b][m].stage \in {"given", "started"} => launcher'[b][m].port # 0
            /\ launcher'[b][m].stage = "started" => launcher'[b][m].pid # 0
      BY <2>2, <2>4, <2>6 DEF GateInv, GateFields
    <3> QED BY <3>1, <3>2, <3>3 DEF GateFields
  <2>10. ReadsStand'
    <3> SUFFICES ASSUME NEW d \in Owners, NEW b \in Agents, task'[d][b].entered
                 PROVE  /\ owner = d /\ task'[d][b].stage # "rest"
                        /\ task'[d][b].stage \in {"adopt", "probe", "end", "kill", "proof"} => records'[b] = task'[d][b].record
                        /\ task'[d][b].stage \in {"choose", "look"} => records'[b] = NoRecord
                        /\ task'[d][b].stage = "look" => \A c \in Agents : c # b => records'[c].port \in task'[d][b].others \cup {0}
      BY <1>1 DEF ReadsStand
    <3>1. <<d, b>> # <<e, a>>
      BY <2>7, NumbersApart
    <3>2. task'[d][b] = task[d][b] /\ task[d][b].entered /\ d = e /\ b # a
      BY <2>1, <2>7, <3>1 DEF GateInv, ReadsStand
    <3>3. task[d][b].stage # "look"
      BY <1>1, <3>2 DEF GateInv, OneLooks, t
    <3> QED BY <2>3, <3>2, <3>3 DEF GateInv, ReadsStand
  <2>11. OneLooks'
    BY <2>7, NumbersApart DEF GateInv, OneLooks
  <2>12. PortsAreApart'
    <3>1. \A b \in Agents : b # a => records[b].port # port
      BY <2>1, <2>2
    <3> QED BY <2>3, <3>1 DEF GateInv, PortsAreApart
  <2>13. OnePerPort' /\ HandsBackItsOwn'
    BY <1>1 DEF GateInv, OnePerPort, HandsBackItsOwn
  <2>14. RecordsAreTrue'
    <3>1. \A b \in Agents : records'[b].pid # 0 /\ process'[records'[b].pid].port = records'[b].port
            => process'[records'[b].pid].agent = b /\ process'[records'[b].pid].lifetime = records'[b].lifetime
      BY <1>1, <2>3 DEF GateInv, RecordsAreTrue
    <3>2. \A b \in Agents, l \in 1 .. MaxLifetimes :
            launcher'[b][l].stage = "started" /\ process'[launcher'[b][l].pid].port = launcher'[b][l].port
              => process'[launcher'[b][l].pid].agent = b /\ process'[launcher'[b][l].pid].lifetime = l
      BY <1>1, <2>4, <2>6 DEF GateInv, RecordsAreTrue
    <3>3. \A b \in Agents, l \in 1 .. MaxLifetimes :
            launcher'[b][l].stage \in {"given", "started"} /\ records'[b].lifetime = l => records'[b].pid = 0
      BY <2>3, <2>6 DEF GateInv, RecordsAreTrue
    <3> QED BY <3>1, <3>2, <3>3 DEF RecordsAreTrue
  <2>15. KnownIsNotForgotten
    BY <2>1, <2>3, NumbersApart DEF KnownIsNotForgotten, Confirms
  <2> QED BY <2>8, <2>9, <2>10, <2>11, <2>12, <2>13, <2>14, <2>15 DEF GateInv
<1> QED BY <1>2, <1>3 DEF PrepareAnswers

\* The launcher registers what it started.
LEMMA RegisterStep ==
  ASSUME GatewaysAreNumbered, GateInv, NEW e \in Owners, NEW a \in Agents, NEW l \in 1 .. MaxLifetimes, Register(e, a, l)
  PROVE  GateInv' /\ KnownIsNotForgotten
<1> DEFINE was == launcher[a][l]
           done == [was EXCEPT !.stage = "done"]
<1>1. /\ was \in Launchers /\ was.stage = "started" /\ was.port \in GatewayPorts /\ was.pid \in GatewayPids /\ was.pid # 0
      /\ task[e][a].stage = "rest" /\ owner = e /\ UNCHANGED <<owner, current, task, process, handed>>
      /\ launcher' = [launcher EXCEPT ![a][l] = done]
      /\ launcher \in [Agents -> [1 .. MaxLifetimes -> Launchers]]
  <2>1. /\ task[e][a].stage = "rest" /\ owner = e /\ UNCHANGED <<owner, current, task, process, handed>>
        /\ was.stage = "started" /\ launcher' = [launcher EXCEPT ![a][l] = done]
    BY DEF Register, MayAct
  <2>2. launcher \in [Agents -> [1 .. MaxLifetimes -> Launchers]] /\ was.port # 0 /\ was.pid # 0
    BY <2>1 DEF GateInv, GateTypeOK, GateFields
  <2> QED BY <2>1, <2>2 DEF Launchers
<1>2. records' = IF Accepts(records[a], l, was.port) THEN [records EXCEPT ![a].pid = was.pid] ELSE records
  BY DEF Register
<1> HIDE DEF was
<1>3. done \in Launchers /\ done.stage = "done"
  BY <1>1 DEF Launchers
<1> HIDE DEF done
<1>4. /\ launcher' \in [Agents -> [1 .. MaxLifetimes -> Launchers]]
      /\ \A b \in Agents, m \in 1 .. MaxLifetimes : launcher'[b][m] = launcher[b][m] \/ launcher'[b][m].stage = "done"
      /\ launcher'[a][l].stage = "done"
  <2>1. /\ launcher' \in [Agents -> [1 .. MaxLifetimes -> Launchers]]
        /\ launcher'[a][l] = done
        /\ \A b \in Agents, m \in 1 .. MaxLifetimes : <<b, m>> # <<a, l>> => launcher'[b][m] = launcher[b][m]
    BY <1>1, <1>3
  <2>2. \A b \in Agents, m \in 1 .. MaxLifetimes : <<b, m>> # <<a, l>> \/ (b = a /\ m = l)
    OBVIOUS
  <2> QED BY <1>3, <2>1, <2>2
<1>5. \A b \in Agents, m \in 1 .. MaxLifetimes :
            launcher'[b][m].stage \in {"given", "started"} => launcher'[b][m] = launcher[b][m] /\ <<b, m>> # <<a, l>>
  BY <1>4
<1>6. /\ records' \in [Agents -> GateRecords]
      /\ \A b \in Agents : b # a => records'[b] = records[b]
      /\ records'[a].port = records[a].port /\ records'[a].lifetime = records[a].lifetime
      /\ records'[a].pid # records[a].pid => records'[a].pid = was.pid /\ records[a].port = was.port /\ records[a].lifetime = l
  <2>1. records[a] \in GateRecords /\ records \in [Agents -> GateRecords]
    BY DEF GateInv, GateTypeOK
  <2> DEFINE r == [records[a] EXCEPT !.pid = was.pid]
  <2>2. r \in GateRecords /\ r.pid = was.pid /\ r.port = records[a].port /\ r.lifetime = records[a].lifetime
    BY <1>1, <2>1 DEF GateRecords
  <2>3. records' = IF Accepts(records[a], l, was.port) THEN [records EXCEPT ![a] = r] ELSE records
    BY <1>2
  <2> HIDE DEF r
  <2> QED BY <2>1, <2>2, <2>3 DEF Accepts
<1>7. GateTypeOK'
  BY <1>1, <1>4, <1>6 DEF GateInv, GateTypeOK
<1>8. GateFields'
  <2>1. \A b \in Agents : records'[b].pid # 0 => records'[b].port # 0
    BY <1>1, <1>6, NumbersApart DEF GateInv, GateFields
  <2>2. \A b \in Agents, m \in 1 .. MaxLifetimes :
            /\ launcher'[b][m].stage \in {"given", "started"} => launcher'[b][m].port # 0
            /\ launcher'[b][m].stage = "started" => launcher'[b][m].pid # 0
    BY <1>5 DEF GateInv, GateFields
  <2> QED BY <1>1, <2>1, <2>2 DEF GateInv, GateFields, TaskFields
<1>9. ReadsStand'
  <2> SUFFICES ASSUME NEW d \in Owners, NEW b \in Agents, task[d][b].entered
               PROVE  /\ owner = d /\ task[d][b].stage # "rest"
                      /\ task[d][b].stage \in {"adopt", "probe", "end", "kill", "proof"} => records'[b] = task[d][b].record
                      /\ task[d][b].stage \in {"choose", "look"} => records'[b] = NoRecord
                      /\ task[d][b].stage = "look" => \A c \in Agents : c # b => records'[c].port \in task[d][b].others \cup {0}
    BY <1>1 DEF ReadsStand
  <2>1. d = e /\ b # a
    BY <1>1 DEF GateInv, ReadsStand
  <2> QED BY <1>6, <2>1 DEF GateInv, ReadsStand
<1>10. OneLooks' /\ OnePerPort' /\ HandsBackItsOwn'
  BY <1>1 DEF GateInv, OneLooks, OnePerPort, HandsBackItsOwn
<1>11. PortsAreApart'
  BY <1>6 DEF GateInv, PortsAreApart
<1>12. RecordsAreTrue'
  <2>1. ASSUME NEW b \in Agents, records'[b].pid # 0, process[records'[b].pid].port = records'[b].port
        PROVE  process[records'[b].pid].agent = b /\ process[records'[b].pid].lifetime = records'[b].lifetime
    <3>1. CASE records'[b].pid = records[b].pid
      BY <1>6, <2>1, <3>1 DEF GateInv, RecordsAreTrue
    <3>2. CASE records'[b].pid # records[b].pid
      BY <1>1, <1>6, <2>1, <3>2 DEF GateInv, RecordsAreTrue, was
    <3> QED BY <3>1, <3>2
  <2>2. \A b \in Agents, m \in 1 .. MaxLifetimes :
          launcher'[b][m].stage = "started" /\ process[launcher'[b][m].pid].port = launcher'[b][m].port
            => process[launcher'[b][m].pid].agent = b /\ process[launcher'[b][m].pid].lifetime = m
    BY <1>5 DEF GateInv, RecordsAreTrue
  <2>3. \A b \in Agents, m \in 1 .. MaxLifetimes :
          launcher'[b][m].stage \in {"given", "started"} /\ records'[b].lifetime = m => records'[b].pid = 0
    BY <1>5, <1>6 DEF GateInv, RecordsAreTrue
  <2> QED BY <1>1, <2>1, <2>2, <2>3 DEF RecordsAreTrue
<1>13. KnownIsNotForgotten
  <2> SUFFICES ASSUME NEW b \in Agents, Confirms(records[b]), records'[b].pid # records[b].pid
               PROVE  FALSE
    BY DEF KnownIsNotForgotten
  <2>1. b = a /\ records[a].lifetime = l
    BY <1>6
  <2>2. records[a].pid = 0
    BY <1>1, <2>1 DEF GateInv, RecordsAreTrue, was
  <2> QED BY <2>1, <2>2 DEF Confirms
<1> QED BY <1>7, <1>8, <1>9, <1>10, <1>11, <1>12, <1>13 DEF GateInv

LEMMA GateStays ==
  ASSUME GateInv, UNCHANGED gateVars
  PROVE  GateInv' /\ KnownIsNotForgotten
<1>1. GateTypeOK' /\ GateFields' /\ ReadsStand'
  BY DEF gateVars, GateInv, GateTypeOK, GateFields, TaskFields, ReadsStand
<1>2. OneLooks' /\ PortsAreApart' /\ OnePerPort'
  BY DEF gateVars, GateInv, OneLooks, PortsAreApart, OnePerPort
<1>3. RecordsAreTrue'
  BY DEF gateVars, GateInv, RecordsAreTrue
<1>4. HandsBackItsOwn' /\ KnownIsNotForgotten
  BY DEF gateVars, GateInv, HandsBackItsOwn, KnownIsNotForgotten
<1> QED BY <1>1, <1>2, <1>3, <1>4 DEF GateInv

LEMMA GateMoves ==
  ASSUME GatewaysAreNumbered, GateInv, BookNext
  PROVE  GateInv' /\ KnownIsNotForgotten
<1>1. CASE RoleMoves
  BY <1>1, RoleStep
<1>2. CASE \E p \in GatewayPids : GatewayEnds(p)
  BY <1>2, EndsStep
<1>3. ASSUME NEW a \in Agents, Launches(a)
      PROVE  GateInv' /\ KnownIsNotForgotten
  BY <1>3, LaunchesStep
<1>4. ASSUME NEW a \in Agents, NEW l \in 1 .. MaxLifetimes, StartsGateway(a, l) \/ AsksAgain(a, l)
      PROVE  GateInv' /\ KnownIsNotForgotten
  BY <1>4, StartsStep, LaunchesStep
<1>5. ASSUME NEW a \in Agents, NEW e \in Owners,
             \/ PrepareConfirms(e, a) \/ PrepareAdopts(e, a) \/ PrepareEnds(e, a) \/ PrepareKills(e, a) \/ PrepareProves(e, a)
             \/ PrepareChooses(e, a) \/ PrepareAnswers(e, a)
      PROVE  GateInv' /\ KnownIsNotForgotten
  BY <1>5, ConfirmsStep, AdoptsStep, EndStep, KillsStep, ProvesStep, ChoosesStep, AnswersStep
<1>6. ASSUME NEW a \in Agents, NEW e \in Owners, NEW l \in 1 .. MaxLifetimes, PrepareBegins(e, a, l) \/ Register(e, a, l)
      PROVE  GateInv' /\ KnownIsNotForgotten
  BY <1>6, BeginsStep, RegisterStep
<1> QED BY <1>1, <1>2, <1>3, <1>4, <1>5, <1>6 DEF BookNext

(***************************************************************************)
(* Whatever launchers, requests, the role and the gateways do: no two      *)
(* agents' records share a port; a gateway handed back was started for the *)
(* agent and the lifetime it is handed to, or took the port after the      *)
(* system had seen that one there, and then no record names it; and a      *)
(* running one is forgotten only when the system gave no answer for it.    *)
(***************************************************************************)
THEOREM GatewaysHold ==
  ASSUME GatewaysAreNumbered
  PROVE  BookSpec => GatewaysAreKept
<1>1. BookInit => GateInv
  BY GateBegins
<1>2. GateInv /\ [BookNext]_gateVars => GateInv' /\ (PortsAreApart' /\ HandsBackItsOwn' /\ KnownIsNotForgotten)
  <2> SUFFICES ASSUME GateInv, [BookNext]_gateVars
               PROVE  GateInv' /\ (PortsAreApart' /\ HandsBackItsOwn' /\ KnownIsNotForgotten)
    OBVIOUS
  <2>1. GateInv' /\ KnownIsNotForgotten
    BY GateMoves, GateStays
  <2> QED BY <2>1 DEF GateInv
<1> QED BY <1>1, <1>2, PTL DEF BookSpec, GatewaysAreKept

-----------------------------------------------------------------------------
(***************************************************************************)
(* The keys of the console: what is typed, stopped, attached to and        *)
(* searched for is what the last frame showed.                             *)
(***************************************************************************)

ViewFields == {"mode", "selected", "paneHidden", "confirming", "searching", "matching", "processes", "subject",
               "returnTo", "watched", "status", "problem", "rendered", "frameProblem", "frameStreaming", "size"}
ConsoleModes == {"dashboard", "picker", "confirm", "menu", "pty"}

\* A view with these fields; a search is the picker's.
IsView(v) == DOMAIN v = ViewFields /\ v.mode \in ConsoleModes /\ (v.searching => v.mode = "picker")

\* Off the menu and the question nothing is named.
NobodyIsNamed == view.mode \notin {"menu", "confirm"} => view.subject = Nobody

\* The frame that grants input shows the live stream of the process under the
\* cursor, the one that is followed.
LiveIsShown ==
    view.rendered /\ view.frameStreaming /\ ~view.frameProblem =>
        /\ onScreen.live /\ onScreen.pane = view.watched /\ onScreen.titled = Selected(view)
        /\ view.watched = Selected(view)

\* What the screen shows of the cursor and of the menu is what there is.
ScreenIsCurrent ==
    onScreen.known => onScreen.subject = view.subject /\ onScreen.cursor = Selected(view)

ConsoleInv == IsView(view) /\ view.processes \in Lists /\ NobodyIsNamed /\ LiveIsShown /\ ScreenIsCurrent

LEMMA ListFacts ==
    ASSUME ListedIsFinite, NEW rows \in Lists
    PROVE  Len(rows) \in Nat /\ DOMAIN rows = 1..Len(rows)
<1>0. Cardinality(Listed) \in Nat
    BY FS_CardinalityType DEF ListedIsFinite
<1>1. PICK n \in 0..Cardinality(Listed) : rows \in [1..n -> Listed]
    BY DEF Lists
<1>2. rows \in Seq(Listed)
    BY <1>0, <1>1, SeqDef
<1> QED BY <1>2

LEMMA RowFacts ==
    ASSUME ListedIsFinite, NEW rows \in Lists, NEW agent
    PROVE  LET at == RowOf(rows, agent) IN
           /\ at \in Nat
           /\ at # 0 => at \in DOMAIN rows /\ rows[at] = agent
           /\ (\E i \in DOMAIN rows : rows[i] = agent) => at # 0
<1>1. DOMAIN rows = 1..Len(rows) /\ Len(rows) \in Nat
    BY ListFacts
<1> QED BY <1>1 DEF RowOf

LEMMA ConsoleBegins == ListedIsFinite /\ ConsoleInit => ConsoleInv
<1> SUFFICES ASSUME ListedIsFinite, ConsoleInit PROVE ConsoleInv
    OBVIOUS
<1>1. view.processes = <<>> /\ <<>> \in Lists
    <2>1. <<>> \in [1..0 -> Listed] /\ 0 \in 0..Cardinality(Listed)
        BY FS_CardinalityType DEF ListedIsFinite
    <2>2. \A i, j \in 1..0 : <<>>[i] = <<>>[j] => i = j
        OBVIOUS
    <2> QED BY <2>1, <2>2 DEF ConsoleInit, Lists
<1>2. IsView(view)
    BY DEF ConsoleInit, IsView, ViewFields, ConsoleModes
<1> QED BY <1>1, <1>2 DEF ConsoleInit, ConsoleInv, NobodyIsNamed, LiveIsShown, ScreenIsCurrent, Blank

-----------------------------------------------------------------------------
\* What a sync leaves: the list it was given, nothing named off the menu, and
\* the stream of the process under the cursor, if its pane can be read.
LEMMA PointedFacts ==
    ASSUME NEW v, IsView(v), NEW rows, NEW matching
    PROVE  LET p == Pointed(v, rows, matching) IN
           /\ IsView(p) /\ p.processes = rows /\ p.matching = matching /\ p.searching = v.searching
           /\ p.size = v.size /\ p.subject = v.subject /\ p.watched = v.watched /\ p.paneHidden = v.paneHidden
           /\ p.status = v.status
           /\ p.mode = "pty" => v.mode = "pty"
BY DEF IsView, ViewFields, ConsoleModes, Pointed

LEMMA ReconciledFacts ==
    ASSUME NEW v, IsView(v), NEW n
    PROVE  LET r == Released(Reconciled(v, n)) IN
           /\ IsView(r) /\ r.processes = v.processes /\ r.matching = v.matching /\ r.searching = v.searching
           /\ r.size = v.size /\ r.watched = v.watched /\ r.status = v.status
           /\ r.mode = "pty" => v.mode = "pty"
           /\ r.mode \notin {"menu", "confirm"} => r.subject = Nobody
           /\ n # 0 => r.mode = v.mode
           /\ n # 0 /\ v.mode = "pty" => ~r.paneHidden
           /\ n \in Nat /\ v.selected \in 1..n => r.selected = v.selected
<1> DEFINE q == Reconciled(v, n)
           r == Released(q)
<1>1. /\ IsView(q) /\ q.processes = v.processes /\ q.matching = v.matching /\ q.searching = v.searching
      /\ q.size = v.size /\ q.watched = v.watched /\ q.status = v.status
      /\ q.mode = "pty" => v.mode = "pty"
      /\ n # 0 => q.mode = v.mode
      /\ n # 0 /\ v.mode = "pty" => ~q.paneHidden
      /\ n \in Nat /\ v.selected \in 1..n => q.selected = v.selected
    BY DEF Reconciled, IsView, ViewFields, ConsoleModes
<1> HIDE DEF q
<1>2. /\ IsView(r) /\ r.processes = q.processes /\ r.matching = q.matching /\ r.searching = q.searching
      /\ r.size = q.size /\ r.watched = q.watched /\ r.status = q.status /\ r.mode = q.mode
      /\ r.paneHidden = q.paneHidden /\ r.selected = q.selected
      /\ r.mode \notin {"menu", "confirm"} => r.subject = Nobody
    BY <1>1 DEF Released, IsView, ViewFields
<1> HIDE DEF r
<1> QED BY <1>1, <1>2 DEF q, r

LEMMA FollowedFacts ==
    ASSUME NEW v, IsView(v)
    PROVE  LET s == Followed(v) IN
           /\ IsView(s) /\ s.processes = v.processes /\ s.matching = v.matching /\ s.searching = v.searching
           /\ s.size = v.size /\ s.mode = v.mode /\ s.subject = v.subject /\ s.selected = v.selected
           /\ s.paneHidden = v.paneHidden /\ Selected(s) = Selected(v)
           /\ s.watched = IF ~s.paneHidden /\ CanDraw(s) THEN Selected(s) ELSE Nobody
<1> DEFINE s == Followed(v)
           followed == IF ~v.paneHidden /\ CanDraw(v) THEN Selected(v) ELSE Nobody
<1>1. \/ s = v /\ followed = v.watched
      \/ s = [Closed(v) EXCEPT !.rendered = FALSE] /\ followed = Nobody
      \/ s = [Closed(v) EXCEPT !.rendered = FALSE, !.watched = followed, !.status = "connecting"]
    BY DEF Followed
<1> HIDE DEF s, followed
<1>2. /\ DOMAIN s = ViewFields /\ s.processes = v.processes /\ s.matching = v.matching /\ s.searching = v.searching
      /\ s.size = v.size /\ s.mode = v.mode /\ s.subject = v.subject /\ s.selected = v.selected
      /\ s.paneHidden = v.paneHidden /\ s.watched = followed
    BY <1>1 DEF Closed, IsView, ViewFields
<1>3. Selected(s) = Selected(v) /\ CanDraw(s) = CanDraw(v)
    BY <1>2 DEF Selected, Visible, CanDraw
<1> QED BY <1>2, <1>3 DEF IsView, s, followed

LEMMA SyncedFacts ==
    ASSUME NEW v, IsView(v), NEW rows, NEW matching, NEW s \in Synced(v, rows, matching)
    PROVE  /\ IsView(s) /\ s.processes = rows /\ s.matching = matching /\ s.searching = v.searching /\ s.size = v.size
           /\ s.mode = "pty" => v.mode = "pty"
           /\ s.mode \notin {"menu", "confirm"} => s.subject = Nobody
           /\ s.watched = IF ~s.paneHidden /\ CanDraw(s) THEN Selected(s) ELSE Nobody
<1>1. PICK p : p = Pointed(v, rows, matching)
    OBVIOUS
<1>2. PICK r : r = Released(Reconciled(p, Len(Visible(p))))
    OBVIOUS
<1>3. s = Followed(r)
    BY <1>1, <1>2 DEF Synced
<1>4. /\ IsView(p) /\ p.processes = rows /\ p.matching = matching /\ p.searching = v.searching /\ p.size = v.size
      /\ p.mode = "pty" => v.mode = "pty"
    BY <1>1, PointedFacts
<1>5. /\ IsView(r) /\ r.processes = rows /\ r.matching = matching /\ r.searching = v.searching /\ r.size = v.size
      /\ r.mode = "pty" => v.mode = "pty"
      /\ r.mode \notin {"menu", "confirm"} => r.subject = Nobody
    BY <1>2, <1>4, ReconciledFacts
<1> QED BY <1>3, <1>5, FollowedFacts

\* What is drawn is what there is, and a frame that was not written shows nothing.
LEMMA PaintKeepsIt ==
    ASSUME NEW v, IsView(v), NEW rows \in Lists, NEW matching, Paint(v, rows, matching)
    PROVE  ConsoleInv'
<1>1. PICK s \in Synced(v, rows, matching), written \in BOOLEAN :
        /\ view' = Noted(s, PaneIsDrawn(s) /\ written)
        /\ onScreen' = IF ~written THEN Blank
                       ELSE [pane |-> IF PaneIsDrawn(s) THEN s.watched ELSE Nobody,
                             titled |-> IF PaneIsDrawn(s) THEN Selected(s) ELSE Nobody,
                             live |-> s.status = "streaming" /\ ~s.problem,
                             cursor |-> Selected(s), subject |-> s.subject, known |-> TRUE]
    BY DEF Paint
<1>2. /\ IsView(s) /\ s.processes = rows
      /\ s.mode \notin {"menu", "confirm"} => s.subject = Nobody
      /\ s.watched = IF ~s.paneHidden /\ CanDraw(s) THEN Selected(s) ELSE Nobody
    BY SyncedFacts
<1>0. Selected(view)' = Selected(view')
    OBVIOUS
<1> DEFINE drew == PaneIsDrawn(s) /\ written
<1>3. /\ DOMAIN view' = ViewFields /\ view'.processes = rows /\ view'.matching = s.matching
      /\ view'.searching = s.searching /\ view'.selected = s.selected /\ view'.subject = s.subject
      /\ view'.watched = s.watched /\ view'.rendered = drew
      /\ view'.frameProblem = (drew /\ s.problem) /\ view'.frameStreaming = (drew /\ s.status = "streaming")
      /\ view'.mode = IF ~drew /\ s.mode = "pty" THEN "dashboard" ELSE s.mode
    BY <1>1, <1>2 DEF Noted, IsView, ViewFields
<1>4. IsView(view') /\ Selected(view') = Selected(s)
    BY <1>2, <1>3 DEF IsView, ConsoleModes, Selected, Visible
<1>5. NobodyIsNamed'
    BY <1>2, <1>3 DEF NobodyIsNamed
<1>6. PaneIsDrawn(s) => s.watched = Selected(s)
    BY <1>2 DEF PaneIsDrawn, CanDraw
<1>7. LiveIsShown'
    <2>1. SUFFICES ASSUME PaneIsDrawn(s), written, s.status = "streaming", ~s.problem
                   PROVE  /\ onScreen'.live /\ onScreen'.pane = view'.watched /\ onScreen'.titled = Selected(view')
                          /\ view'.watched = Selected(view')
        BY <1>0, <1>3 DEF LiveIsShown
    <2>2. /\ onScreen'.live /\ onScreen'.pane = s.watched /\ onScreen'.titled = Selected(s)
        BY <2>1, <1>1
    <2> QED BY <2>1, <2>2, <1>3, <1>4, <1>6
<1>8. ScreenIsCurrent'
    <2>1. CASE written
        <3>1. onScreen'.subject = s.subject /\ onScreen'.cursor = Selected(s)
            BY <2>1, <1>1
        <3>2. onScreen'.subject = view'.subject /\ onScreen'.cursor = Selected(view')
            BY <3>1, <1>3, <1>4
        <3> QED BY <3>2, <1>0 DEF ScreenIsCurrent
    <2>2. CASE ~written
        BY <2>2, <1>1 DEF ScreenIsCurrent, Blank
    <2> QED BY <2>1, <2>2
<1> QED BY <1>3, <1>4, <1>5, <1>7, <1>8 DEF ConsoleInv, IsView

\* The view a key leaves, and what it asks for.
LEMMA KeyFacts ==
    ASSUME ConsoleInv, NEW r \in KeyResults(view)
    PROVE  /\ IsView(r.view) /\ r.view.processes = view.processes
           /\ r.acted.kind = "typed" => InputIsLive(view) /\ r.acted.agent = Selected(view)
           /\ r.acted.kind = "stopped" => r.acted.agent = view.subject
           /\ r.acted.kind = "accepted" => r.acted.agent = Selected(view)
           /\ r.acted.kind = "bound" /\ r.acted.agent # Nobody =>
                view.mode = "menu" /\ r = AttachedFromMenu(view) /\ RowOf(view.processes, view.subject) # 0
                /\ r.acted.agent = view.subject
<1>1. IsView(view) /\ NobodyIsNamed
    BY DEF ConsoleInv
<1>2. \A v, kind, agent : Answer(v, kind, agent).view = v /\ Answer(v, kind, agent).acted.kind = kind
                          /\ Answer(v, kind, agent).acted.agent = agent
    BY DEF Answer
<1>3. \A v, kind, agent : Reselecting(Answer(v, kind, agent)).view = v
                          /\ Reselecting(Answer(v, kind, agent)).acted.kind = kind
                          /\ Reselecting(Answer(v, kind, agent)).acted.agent = agent
    BY DEF Answer, Reselecting
<1>4. \A v : /\ Quiet(v).view = v /\ Quiet(v).acted.kind = "nothing"
             /\ Reselecting(Quiet(v)).view = v /\ Reselecting(Quiet(v)).acted.kind = "nothing"
    BY <1>2, <1>3 DEF Quiet
<1>5. CASE r \in Moves(view)
    <2>1. PICK i \in DOMAIN Visible(view) : r = Reselecting(Quiet([view EXCEPT !.selected = i]))
        BY <1>5 DEF Moves
    <2>2. IsView([view EXCEPT !.selected = i]) /\ [view EXCEPT !.selected = i].processes = view.processes
        BY <1>1 DEF IsView, ViewFields
    <2> QED BY <2>1, <2>2, <1>4
<1>6. CASE view.mode = "pty"
    <2>1. r = Quiet([view EXCEPT !.mode = "dashboard"]) \/ r = Typed(view)
        BY <1>6 DEF KeyResults, PtyKey
    <2>2. IsView([view EXCEPT !.mode = "dashboard"]) /\ [view EXCEPT !.mode = "dashboard"].processes = view.processes
        BY <1>1, <1>6 DEF IsView, ViewFields, ConsoleModes
    <2>3. CASE r = Quiet([view EXCEPT !.mode = "dashboard"])
        BY <2>2, <2>3, <1>4
    <2>4. CASE r = Typed(view) /\ InputIsLive(view)
        <3>1. r = Answer(view, "typed", Selected(view))
            BY <2>4 DEF Typed
        <3>2. r.view = view /\ r.acted.kind = "typed" /\ r.acted.agent = Selected(view)
            BY <3>1, <1>2
        <3> QED BY <3>2, <2>4, <1>1
    <2>5. CASE r = Typed(view) /\ ~InputIsLive(view)
        <3>1. r = Quiet(view)
            BY <2>5 DEF Typed
        <3>2. r.view = view /\ r.acted.kind = "nothing"
            BY <3>1, <1>4
        <3> QED BY <3>2, <1>1
    <2> QED BY <2>1, <2>3, <2>4, <2>5
<1>7. CASE view.mode = "picker" /\ r \notin Moves(view)
    <2>1. ASSUME NEW agent
          PROVE  IsView(LeftPicker(view, agent)) /\ LeftPicker(view, agent).processes = view.processes
        BY <1>1 DEF LeftPicker, IsView, ViewFields, ConsoleModes
    <2>2. ASSUME NEW m
          PROVE  /\ IsView([view EXCEPT !.searching = TRUE, !.matching = m])
                 /\ [view EXCEPT !.searching = TRUE, !.matching = m].processes = view.processes
        BY <1>1, <1>7 DEF IsView, ViewFields, ConsoleModes
    <2>3. \/ \E agent : r = Reselecting(Quiet(LeftPicker(view, agent)))
          \/ \E agent : r = Reselecting(Answer(LeftPicker(view, agent), "accepted", Selected(view)))
          \/ \E m : r = Reselecting(Quiet([view EXCEPT !.searching = TRUE, !.matching = m]))
        BY <1>7 DEF KeyResults, PickerKeys
    <2>4. CASE \E agent : r = Reselecting(Quiet(LeftPicker(view, agent)))
        <3>1. PICK agent : r.view = LeftPicker(view, agent) /\ r.acted.kind = "nothing"
            BY <2>4, <1>4
        <3> QED BY <3>1, <2>1
    <2>5. CASE \E agent : r = Reselecting(Answer(LeftPicker(view, agent), "accepted", Selected(view)))
        <3>1. PICK agent : r.view = LeftPicker(view, agent) /\ r.acted.kind = "accepted" /\ r.acted.agent = Selected(view)
            BY <2>5, <1>3
        <3> QED BY <3>1, <2>1
    <2>6. CASE \E m : r = Reselecting(Quiet([view EXCEPT !.searching = TRUE, !.matching = m]))
        <3>1. PICK m : r.view = [view EXCEPT !.searching = TRUE, !.matching = m] /\ r.acted.kind = "nothing"
            BY <2>6, <1>4
        <3> QED BY <3>1, <2>2
    <2> QED BY <2>3, <2>4, <2>5, <2>6
<1>8. CASE view.mode = "confirm"
    <2> DEFINE done == [view EXCEPT !.mode = "dashboard", !.confirming = "nothing", !.subject = Nobody]
    <2>1. IsView(done) /\ done.processes = view.processes
        BY <1>1, <1>8 DEF IsView, ViewFields, ConsoleModes
    <2>2. \/ r = Answer(done, "shutdown", Nobody) \/ r = Answer(done, "stopped", view.subject) \/ r = Quiet(done)
        BY <1>8 DEF KeyResults, ConfirmKeys, Confirmed
    <2> HIDE DEF done
    <2> QED BY <2>1, <2>2, <1>2, <1>4
<1>9. CASE view.mode = "menu"
    <2>1. IsView([view EXCEPT !.mode = "dashboard", !.subject = Nobody])
          /\ [view EXCEPT !.mode = "dashboard", !.subject = Nobody].processes = view.processes
          /\ IsView([view EXCEPT !.mode = "confirm", !.confirming = "stop"])
          /\ [view EXCEPT !.mode = "confirm", !.confirming = "stop"].processes = view.processes
        BY <1>1, <1>9 DEF IsView, ViewFields, ConsoleModes
    <2>2. \/ r = Quiet([view EXCEPT !.mode = "dashboard", !.subject = Nobody])
          \/ r = Quiet([view EXCEPT !.mode = "confirm", !.confirming = "stop"])
          \/ r = AttachedFromMenu(view)
        BY <1>9 DEF KeyResults, MenuKeys
    <2>3. CASE r = AttachedFromMenu(view)
        <3>1. CASE RowOf(view.processes, view.subject) = 0
            <4>1. r = Quiet([view EXCEPT !.mode = "dashboard", !.paneHidden = FALSE, !.subject = Nobody])
                BY <2>3, <3>1 DEF AttachedFromMenu
            <4>2. IsView([view EXCEPT !.mode = "dashboard", !.paneHidden = FALSE, !.subject = Nobody])
                  /\ [view EXCEPT !.mode = "dashboard", !.paneHidden = FALSE, !.subject = Nobody].processes = view.processes
                BY <1>1, <1>9 DEF IsView, ViewFields, ConsoleModes
            <4> QED BY <4>1, <4>2, <1>4
        <3>2. CASE RowOf(view.processes, view.subject) # 0
            <4>1. PICK c : c = Closed([view EXCEPT !.selected = RowOf(view.processes, view.subject)])
                OBVIOUS
            <4>2. DOMAIN c = ViewFields /\ c.processes = view.processes /\ c.subject = view.subject
                  /\ c.searching = view.searching
                BY <4>1, <1>1 DEF Closed, IsView, ViewFields
            <4>3. r = Attached(c)
                BY <2>3, <3>2, <4>1 DEF AttachedFromMenu
            <4>4. IsView([c EXCEPT !.mode = "pty", !.paneHidden = FALSE])
                  /\ [c EXCEPT !.mode = "pty", !.paneHidden = FALSE].processes = view.processes
                BY <4>2, <1>1, <1>9 DEF IsView, ViewFields, ConsoleModes
            <4>5. /\ r.view = [c EXCEPT !.mode = "pty", !.paneHidden = FALSE]
                  /\ r.acted.kind = "bound" /\ r.acted.agent = view.subject
                BY <4>2, <4>3, <1>3 DEF Attached
            <4> QED BY <2>3, <3>2, <4>4, <4>5, <1>9
        <3> QED BY <3>1, <3>2
    <2> QED BY <2>1, <2>2, <2>3, <1>4
<1>10. CASE view.mode = "dashboard" /\ r \notin Moves(view)
    <2>1. view.subject = Nobody /\ ~view.searching
        BY <1>1, <1>10 DEF NobodyIsNamed, IsView
    <2>2. \/ r = Quiet([view EXCEPT !.mode = "confirm", !.confirming = "shutdown"])
          \/ r = Reselecting(Quiet([view EXCEPT !.paneHidden = ~@]))
          \/ r = Reselecting(Quiet([view EXCEPT !.mode = "picker", !.searching = FALSE, !.returnTo = Selected(view)]))
          \/ r = Quiet([view EXCEPT !.mode = "menu", !.subject = Selected(view)])
          \/ r = Attached(view)
        BY <1>10 DEF KeyResults, DashboardKeys
    <2>3. /\ IsView([view EXCEPT !.mode = "confirm", !.confirming = "shutdown"])
          /\ [view EXCEPT !.mode = "confirm", !.confirming = "shutdown"].processes = view.processes
          /\ IsView([view EXCEPT !.paneHidden = ~@])
          /\ [view EXCEPT !.paneHidden = ~@].processes = view.processes
          /\ IsView([view EXCEPT !.mode = "picker", !.searching = FALSE, !.returnTo = Selected(view)])
          /\ [view EXCEPT !.mode = "picker", !.searching = FALSE, !.returnTo = Selected(view)].processes = view.processes
          /\ IsView([view EXCEPT !.mode = "menu", !.subject = Selected(view)])
          /\ [view EXCEPT !.mode = "menu", !.subject = Selected(view)].processes = view.processes
          /\ IsView([view EXCEPT !.mode = "pty", !.paneHidden = FALSE])
          /\ [view EXCEPT !.mode = "pty", !.paneHidden = FALSE].processes = view.processes
        BY <1>1, <2>1 DEF IsView, ViewFields, ConsoleModes
    <2>4. CASE r = Quiet([view EXCEPT !.mode = "confirm", !.confirming = "shutdown"])
        BY <2>3, <2>4, <1>4
    <2>5. CASE r = Reselecting(Quiet([view EXCEPT !.paneHidden = ~@]))
        BY <2>3, <2>5, <1>4
    <2>6. CASE r = Reselecting(Quiet([view EXCEPT !.mode = "picker", !.searching = FALSE, !.returnTo = Selected(view)]))
        BY <2>3, <2>6, <1>4
    <2>7. CASE r = Quiet([view EXCEPT !.mode = "menu", !.subject = Selected(view)])
        BY <2>3, <2>7, <1>4
    <2>8. CASE r = Attached(view)
        <3>1. /\ r.view = [view EXCEPT !.mode = "pty", !.paneHidden = FALSE]
              /\ r.acted.kind = "bound" /\ r.acted.agent = Nobody
            BY <2>1, <2>8, <1>3 DEF Attached
        <3> QED BY <2>3, <3>1
    <2> QED BY <2>2, <2>4, <2>5, <2>6, <2>7, <2>8
<1> QED BY <1>1, <1>5, <1>6, <1>7, <1>8, <1>9, <1>10 DEF IsView, ConsoleModes

-----------------------------------------------------------------------------
\* From the menu to the pane: the row that is found is the named agent's, the
\* old pane is closed and binds nothing, and the stream that is followed is its.
LEMMA BoundSync ==
    ASSUME ListedIsFinite, NEW v, IsView(v), v.processes \in Lists, ~v.searching, NEW agent, agent # Nobody,
           v.watched = agent \/ (v.watched = Nobody /\ Selected(v) = agent), RowOf(v.processes, agent) # 0,
           v.mode = "pty", NEW s \in Synced(v, v.processes, v.matching)
    PROVE  s.mode = "pty" /\ ~s.searching /\ s.watched = IF CanDraw(s) THEN agent ELSE Nobody
<1>1. PICK p : p = Pointed(v, v.processes, v.matching)
    OBVIOUS
<1>2. PICK r : r = Released(Reconciled(p, Len(Visible(p))))
    OBVIOUS
<1>3. s = Followed(r)
    BY <1>1, <1>2 DEF Synced
<1>4. PICK next : next = [v EXCEPT !.processes = v.processes, !.matching = v.matching]
    OBVIOUS
<1>5. DOMAIN next = ViewFields /\ next.processes = v.processes /\ next.searching = v.searching /\ next.mode = v.mode
      /\ next.selected = v.selected /\ Visible(next) = v.processes
    BY <1>4 DEF IsView, ViewFields, Visible
<1> DEFINE at == RowOf(v.processes, agent)
<1>6. at \in DOMAIN v.processes /\ v.processes[at] = agent /\ at \in Nat
    BY RowFacts
<1>7. at # 0 /\ (IF v.mode = "pty" /\ v.watched # Nobody THEN v.watched ELSE Selected(v)) = agent
    OBVIOUS
<1>8. /\ IsView(p) /\ p.processes = v.processes /\ p.searching = v.searching /\ p.mode = "pty" /\ p.selected = at
    <2>0. RowOf(Visible(next), IF v.mode = "pty" /\ v.watched # Nobody THEN v.watched ELSE Selected(v)) = at
        BY <1>5, <1>7
    <2>1. p = [next EXCEPT !.mode = IF v.mode = "pty" /\ v.watched # Nobody /\ at = 0 THEN "dashboard" ELSE @,
                           !.selected = IF at # 0 THEN at ELSE @]
        BY <1>1, <1>4, <2>0, Zenon DEF Pointed
    <2>2. p.mode = "pty" /\ p.selected = at
        BY <2>1, <1>5, <1>7 DEF ViewFields
    <2> QED BY <2>2, <1>1, PointedFacts
<1>9. Visible(p) = v.processes
    BY <1>8 DEF Visible
<1>10. Len(v.processes) \in Nat /\ DOMAIN v.processes = 1..Len(v.processes)
    BY ListFacts
<1>11. at \in 1..Len(v.processes) /\ Len(v.processes) # 0
    BY <1>6, <1>10
<1>12. /\ IsView(r) /\ r.processes = v.processes /\ r.searching = v.searching /\ r.mode = "pty" /\ ~r.paneHidden
       /\ r.selected = at
    BY <1>2, <1>8, <1>9, <1>10, <1>11, ReconciledFacts
<1>13. Selected(r) = agent
    BY <1>6, <1>12 DEF Selected, Visible
<1> QED BY <1>3, <1>12, <1>13, FollowedFacts

\* The screen and its typist: what a step that draws nothing leaves.
LEMMA StreamKeepsIt ==
    ASSUME ConsoleInv, StreamComesUp \/ StreamGoesWrong
    PROVE  ConsoleInv'
<1>2. onScreen' = onScreen
    BY DEF StreamComesUp, StreamGoesWrong
<1>3. /\ DOMAIN view' = ViewFields /\ view'.mode = view.mode /\ view'.searching = view.searching
      /\ view'.processes = view.processes /\ view'.subject = view.subject /\ view'.rendered = view.rendered
      /\ view'.frameStreaming = view.frameStreaming /\ view'.frameProblem = view.frameProblem
      /\ view'.watched = view.watched /\ view'.selected = view.selected /\ view'.matching = view.matching
    BY DEF StreamComesUp, StreamGoesWrong, ConsoleInv, IsView, ViewFields
<1>4. Selected(view)' = Selected(view') /\ Selected(view') = Selected(view)
    <2>1. Visible(view') = Visible(view)
        BY <1>3 DEF Visible
    <2> QED BY <2>1, <1>3 DEF Selected
<1>5. IsView(view)'
    BY <1>3 DEF ConsoleInv, IsView
<1>6. NobodyIsNamed' /\ LiveIsShown' /\ ScreenIsCurrent'
    BY <1>2, <1>3, <1>4 DEF ConsoleInv, NobodyIsNamed, LiveIsShown, ScreenIsCurrent
<1> QED BY <1>3, <1>5, <1>6 DEF ConsoleInv

\* The view a key leaves is drawn, synced first if the key moved something.
LEMMA PressPaints ==
    ASSUME ConsoleInv, NEW r \in KeyResults(view),
           NEW v \in IF r.reselects THEN Synced(r.view, r.view.processes, r.view.matching) ELSE {r.view}
    PROVE  IsView(v) /\ v.processes = view.processes
<1>1. IsView(r.view) /\ r.view.processes = view.processes
    BY KeyFacts
<1>2. CASE r.reselects
    BY <1>1, <1>2, SyncedFacts
<1>3. CASE ~r.reselects
    BY <1>1, <1>3
<1> QED BY <1>2, <1>3

LEMMA LeftIsView ==
    ASSUME NEW v, IsView(v)
    PROVE  LET w == IF ~CanDraw(v) /\ v.mode = "pty" THEN [v EXCEPT !.mode = "dashboard"] ELSE v IN
           /\ IsView(w) /\ w.processes = v.processes
           /\ CanDraw(v) => w = v
           /\ ~CanDraw(v) => w.mode # "pty"
BY DEF IsView, ViewFields, ConsoleModes

LEMMA DrawingKeepsIt ==
    ASSUME ConsoleInv, Press \/ Refresh \/ Repaint \/ Resize
    PROVE  ConsoleInv'
<1>1. IsView(view) /\ view.processes \in Lists
    BY DEF ConsoleInv
<1>2. CASE Press
    <2>1. PICK r \in KeyResults(view) :
            \E v \in IF r.reselects THEN Synced(r.view, r.view.processes, r.view.matching) ELSE {r.view} :
                Paint(IF ~CanDraw(v) /\ v.mode = "pty" THEN [v EXCEPT !.mode = "dashboard"] ELSE v,
                      v.processes, v.matching)
        BY <1>2 DEF Press
    <2>2. PICK v \in IF r.reselects THEN Synced(r.view, r.view.processes, r.view.matching) ELSE {r.view} :
                Paint(IF ~CanDraw(v) /\ v.mode = "pty" THEN [v EXCEPT !.mode = "dashboard"] ELSE v,
                      v.processes, v.matching)
        BY <2>1
    <2>3. IsView(v) /\ v.processes \in Lists
        BY <1>1, PressPaints
    <2>4. PICK w : w = IF ~CanDraw(v) /\ v.mode = "pty" THEN [v EXCEPT !.mode = "dashboard"] ELSE v
        OBVIOUS
    <2>5. IsView(w)
        BY <2>3, <2>4, LeftIsView
    <2>6. Paint(w, v.processes, v.matching)
        BY <2>2, <2>4
    <2> QED BY <2>3, <2>5, <2>6, PaintKeepsIt
<1>3. CASE Refresh
    <2>1. PICK rows \in Lists : \E m : Paint(view, rows, m)
        BY <1>3 DEF Refresh
    <2>2. PICK m : Paint(view, rows, m)
        BY <2>1
    <2> QED BY <2>2, <1>1, PaintKeepsIt
<1>4. CASE Repaint
    BY <1>1, <1>4, PaintKeepsIt DEF Repaint
<1>5. CASE Resize
    <2>1. PICK size, v : /\ v = [view EXCEPT !.size = size,
                                   !.mode = IF @ = "pty" /\ size = "narrow" THEN "dashboard" ELSE @]
                         /\ \E s \in Synced(v, v.processes, v.matching) : Paint(s, s.processes, s.matching)
        BY <1>5 DEF Resize
    <2>2. IsView(v) /\ v.processes \in Lists
        BY <2>1, <1>1 DEF IsView, ViewFields, ConsoleModes
    <2>3. PICK s \in Synced(v, v.processes, v.matching) : Paint(s, s.processes, s.matching)
        BY <2>1
    <2>4. IsView(s) /\ s.processes \in Lists
        BY <2>2, SyncedFacts
    <2> QED BY <2>3, <2>4, PaintKeepsIt
<1> QED BY <1>2, <1>3, <1>4, <1>5

\* An attach from the menu, synced and drawn, follows the agent it named.
LEMMA AttachFollowsTheNamed ==
    ASSUME ListedIsFinite, ConsoleInv, view.mode = "menu", view.subject # Nobody,
           RowOf(view.processes, view.subject) # 0, NEW r, r = AttachedFromMenu(view)
    PROVE  /\ r.reselects
           /\ r.view.mode = "pty" /\ r.view.watched = Nobody /\ Selected(r.view) = view.subject
           /\ IsView(r.view) /\ ~r.view.searching /\ r.view.processes = view.processes
<1>1. IsView(view) /\ ~view.searching /\ view.processes \in Lists
    BY DEF ConsoleInv, IsView
<1>2. PICK at : at = RowOf(view.processes, view.subject)
    OBVIOUS
<1>3. at \in DOMAIN view.processes /\ view.processes[at] = view.subject
    BY <1>1, <1>2, RowFacts
<1>4. PICK c : c = Closed([view EXCEPT !.selected = at])
    OBVIOUS
<1>5. /\ DOMAIN c = ViewFields /\ c.processes = view.processes /\ c.subject = view.subject
      /\ c.searching = view.searching /\ c.selected = at /\ c.watched = Nobody
    BY <1>1, <1>4 DEF Closed, IsView, ViewFields
<1>6. r = Attached(c)
    BY <1>2, <1>4 DEF AttachedFromMenu
<1>7. PICK w : w = [c EXCEPT !.mode = "pty", !.paneHidden = FALSE]
    OBVIOUS
<1>8. r = [view |-> w, acted |-> [kind |-> "bound", agent |-> c.subject], reselects |-> TRUE]
    BY <1>6, <1>7 DEF Attached, Reselecting, Answer
<1>9. r.view = w /\ r.reselects
    BY <1>8
<1>10. /\ DOMAIN w = ViewFields /\ w.mode = "pty" /\ w.watched = Nobody /\ w.selected = at
       /\ w.searching = view.searching /\ w.processes = view.processes
    BY <1>5, <1>7 DEF ViewFields
<1>11. Selected(w) = view.subject
    BY <1>1, <1>3, <1>10 DEF Selected, Visible
<1> QED BY <1>1, <1>9, <1>10, <1>11 DEF IsView, ConsoleModes

LEMMA PaintFollows ==
    ASSUME NEW v, IsView(v), NEW rows, NEW matching, Paint(v, rows, matching)
    PROVE  \E s \in Synced(v, rows, matching) :
               view'.watched = s.watched /\ (view'.mode = "pty" => s.mode = "pty")
<1>1. PICK s \in Synced(v, rows, matching), written \in BOOLEAN : view' = Noted(s, PaneIsDrawn(s) /\ written)
    BY DEF Paint
<1>2. PICK drew : drew = (PaneIsDrawn(s) /\ written)
    OBVIOUS
<1>3. IsView(s)
    BY SyncedFacts
<1>4. view' = Noted(s, drew)
    BY <1>1, <1>2
<1>5. view'.watched = s.watched /\ (view'.mode = "pty" => s.mode = "pty")
    BY <1>3, <1>4 DEF Noted, IsView, ViewFields
<1> QED BY <1>5

\* What a key asks for is asked of what the screen shows.
LEMMA PressIsObeyed ==
    ASSUME ListedIsFinite, ConsoleInv, Press
    PROVE  KeysReachTheShown /\ ChoicesHitTheNamed
<1>1. PICK r \in KeyResults(view) :
        /\ acted' = r.acted
        /\ \E v \in IF r.reselects THEN Synced(r.view, r.view.processes, r.view.matching) ELSE {r.view} :
               Paint(IF ~CanDraw(v) /\ v.mode = "pty" THEN [v EXCEPT !.mode = "dashboard"] ELSE v,
                     v.processes, v.matching)
    BY DEF Press
<1>2. KeysReachTheShown
    <2>1. SUFFICES ASSUME acted'.kind = "typed"
                   PROVE  onScreen.live /\ onScreen.pane = acted'.agent /\ onScreen.titled = acted'.agent
        BY DEF KeysReachTheShown
    <2>2. InputIsLive(view) /\ acted'.agent = Selected(view)
        BY <1>1, <2>1, KeyFacts
    <2> QED BY <2>2 DEF ConsoleInv, LiveIsShown, InputIsLive
<1>3. onScreen.known /\ acted'.kind = "stopped" => acted'.agent = onScreen.subject
    BY <1>1, KeyFacts DEF ConsoleInv, ScreenIsCurrent
<1>4. onScreen.known /\ acted'.kind = "accepted" => acted'.agent = onScreen.cursor
    BY <1>1, KeyFacts DEF ConsoleInv, ScreenIsCurrent
<1>5. ASSUME onScreen.known, acted'.kind = "bound", acted'.agent # Nobody, view'.mode = "pty"
      PROVE  view'.watched = onScreen.subject
    <2>1. PICK agent : agent = view.subject
        OBVIOUS
    <2>2. /\ view.mode = "menu" /\ r = AttachedFromMenu(view) /\ RowOf(view.processes, agent) # 0
          /\ agent # Nobody
        BY <1>1, <1>5, <2>1, KeyFacts
    <2>3. onScreen.subject = agent /\ view.processes \in Lists
        BY <1>5, <2>1 DEF ConsoleInv, ScreenIsCurrent
    <2>4. /\ r.reselects
          /\ r.view.mode = "pty" /\ r.view.watched = Nobody /\ Selected(r.view) = agent
          /\ IsView(r.view) /\ ~r.view.searching /\ r.view.processes = view.processes
        BY <2>1, <2>2, AttachFollowsTheNamed
    <2>5. PICK v \in Synced(r.view, r.view.processes, r.view.matching) :
            Paint(IF ~CanDraw(v) /\ v.mode = "pty" THEN [v EXCEPT !.mode = "dashboard"] ELSE v,
                  v.processes, v.matching)
        BY <1>1, <2>4
    <2>6. /\ v.mode = "pty" /\ ~v.searching /\ v.watched = IF CanDraw(v) THEN agent ELSE Nobody
        BY <2>2, <2>3, <2>4, <2>5, BoundSync
    <2>7. IsView(v) /\ v.processes = view.processes
        BY <2>4, <2>5, SyncedFacts
    <2>8. PICK w : w = IF ~CanDraw(v) /\ v.mode = "pty" THEN [v EXCEPT !.mode = "dashboard"] ELSE v
        OBVIOUS
    <2>9. /\ IsView(w) /\ w.processes = v.processes /\ (CanDraw(v) => w = v) /\ (~CanDraw(v) => w.mode # "pty")
        BY <2>7, <2>8, LeftIsView
    <2>10. PICK s \in Synced(w, v.processes, v.matching) :
             view'.watched = s.watched /\ (view'.mode = "pty" => s.mode = "pty")
        BY <2>5, <2>8, <2>9, PaintFollows
    <2>11. s.mode = "pty" => w.mode = "pty"
        BY <2>9, <2>10, SyncedFacts
    <2>12. CanDraw(v) /\ w = v
        BY <1>5, <2>9, <2>10, <2>11
    <2>13. s \in Synced(v, v.processes, v.matching) /\ v.processes \in Lists /\ RowOf(v.processes, agent) # 0
           /\ v.watched = agent
        BY <2>2, <2>3, <2>6, <2>7, <2>10, <2>12
    <2>14. s.watched = IF CanDraw(s) THEN agent ELSE Nobody
        BY <2>2, <2>6, <2>7, <2>13, BoundSync
    <2>15. s.size = v.size
        BY <2>7, <2>13, SyncedFacts
    <2> QED BY <2>3, <2>10, <2>12, <2>14, <2>15 DEF CanDraw
<1> QED BY <1>2, <1>3, <1>4, <1>5 DEF ChoicesHitTheNamed

\* Whatever is listed, drawn or not drawn between two keys, a keystroke reaches
\* the process whose live stream the last frame showed under its name, and a
\* stop, an attach or a search goes to the agent it named (keys.mjs,
\* console-session/subjects.mjs, console-session/pane-follower.mjs).
THEOREM KeysGoWhereShown ==
    ASSUME ListedIsFinite
    PROVE  ConsoleSpec => [][KeysReachTheShown /\ ChoicesHitTheNamed]_consoleVars
<1>1. ConsoleInit => ConsoleInv
    BY ConsoleBegins
<1>2. ConsoleInv /\ [ConsoleNext]_consoleVars => ConsoleInv'
    <2> SUFFICES ASSUME ConsoleInv, [ConsoleNext]_consoleVars PROVE ConsoleInv'
        OBVIOUS
    <2>1. CASE UNCHANGED consoleVars
        BY <2>1 DEF consoleVars, ConsoleInv, NobodyIsNamed, LiveIsShown, ScreenIsCurrent
    <2> QED BY <2>1, DrawingKeepsIt, StreamKeepsIt DEF ConsoleNext
<1>3. ConsoleInv /\ [ConsoleNext]_consoleVars => [KeysReachTheShown /\ ChoicesHitTheNamed]_consoleVars
    <2> SUFFICES ASSUME ConsoleInv, ConsoleNext PROVE KeysReachTheShown /\ ChoicesHitTheNamed
        OBVIOUS
    <2>1. CASE acted' = DidNothing
        BY <2>1 DEF DidNothing, KeysReachTheShown, ChoicesHitTheNamed
    <2>2. Press \/ acted' = DidNothing
        BY DEF ConsoleNext, Refresh, Repaint, Resize, StreamComesUp, StreamGoesWrong
    <2> QED BY <2>1, <2>2, PressIsObeyed
<1> QED BY <1>1, <1>2, <1>3, PTL DEF ConsoleSpec
=============================================================================
