-------- MODULE MCTerminals -------------------------------------------------
(***************************************************************************)
(* A worker's terminal as the service, its viewers, its panes and its      *)
(* gateway have it, side by side: a behaviour is one component's, with its *)
(* neighbours as its module has them, and the others rest.                 *)
(***************************************************************************)
EXTENDS CommsTerminals, InputWire, HerdrPanes, GatewayBook, Naturals,
    Sequences, FiniteSets, TLC

CONSTANTS Kinds, Widths, MaxWidth, Retained, MaxOps, MaxConnections
CONSTANTS t1, t2, v1, v2, e1, e2, a, b

VARIABLES
  part,  \* the component this behaviour is of
  \* the variables of ScreenStream
  done, truth, exited, checkpoint, copy, parsed, conn, joined, held, frames,
  draws, status, meta, emulator, pending, applying, drawn, repainted, carry,
  printed, connections, relied

Screen == INSTANCE ScreenStream WITH wire <- frames

ASSUME Screen!StreamAssumption

\* MaxOps is reached only with at most one resize and an emulator, and a viewer
\* that connects again does so to a terminal that has done little.
SmallScreen ==
  /\ Len(done) = MaxOps => Len(done) - Len(Screen!Chunks(done)) <= 1 /\ draws
  /\ connections = 2 => Len(done) < MaxOps - 1

\* The second id is given only while nobody has meddled and nothing has failed.
SmallPanes == \A w \in PaneWorkers : opening[w].pane = 2 => meddles + paneTroubles = 0

screenVars == <<done, truth, exited, checkpoint, copy, parsed, conn, joined,
    held, frames, draws, status, meta, emulator, pending, applying, drawn,
    repainted, carry, printed, connections, relied>>

\* The components at rest are where they begin.
AllInit ==
  /\ part \in {"terminals", "input", "panes", "gateways", "screen"}
  /\ TermInit
  /\ WireInit
  /\ part # "input" => tty.shape = 1
  /\ PanesInit
  /\ BookInit
  /\ Screen!Init
  /\ part # "screen" => truth[1].cols = 1 /\ checkpoint /\ draws

TermActs == part = "terminals" /\ TermNext /\ UNCHANGED <<part, wireVars,
    paneVars, gateVars, screenVars>>
InputActs == part = "input" /\ WireNext /\ UNCHANGED <<part, termVars,
    paneVars, gateVars, screenVars>>
PaneActs == part = "panes" /\ PanesNext /\ SmallPanes' /\ UNCHANGED <<part,
    termVars, wireVars, gateVars, screenVars>>
GatewayActs == part = "gateways" /\ BookNext /\ UNCHANGED <<part, termVars,
    wireVars, paneVars, screenVars>>
ScreenActs == part = "screen" /\ Screen!Next /\ SmallScreen' /\ UNCHANGED
    <<part, termVars, wireVars, paneVars, gateVars>>

AllNext == TermActs \/ InputActs \/ PaneActs \/ GatewayActs \/ ScreenActs

AllSpec == AllInit /\ [][AllNext]_<<part, screenVars, termVars, wireVars, paneVars, gateVars>>

\* No component has both terminals and agents: those are exchanged together.
Exchanged == (t1 :> t2) @@ (t2 :> t1) @@ (a :> b) @@ (b :> a)
Symmetry == {Exchanged} \cup Permutations({v1, v2}) \cup Permutations({e1, e2})

-----------------------------------------------------------------------------
\* What the pane shows as the screen is one the terminal had, and the latest
\* once nothing is under way.
PaneIsTrue == part = "screen" => Screen!ScreenTypeOK /\ Screen!PaneShowsARealScreen /\ Screen!ShowsTheLatestScreen

=============================================================================
