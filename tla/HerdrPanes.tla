----------------------------- MODULE HerdrPanes -----------------------------
(***************************************************************************)
(* A managed worker's pane in the daemon's own Herdr: opened after the     *)
(* worker starts, closed when it ends (lib/herdr-pane-opener.mjs), and     *)
(* told its agent's word meanwhile (lib/herdr-pane-reporter.mjs).  A       *)
(* closed pane's id may be given to another at once: reports to it may     *)
(* still be under way, and where the operator closed it, or a close was    *)
(* never answered, its opener still has the id.                            *)
(***************************************************************************)
EXTENDS Naturals, FiniteSets

CONSTANTS PaneWorkers,    \* workers, each one lifetime
          PaneIds,        \* ids Herdr gives to panes
          PaneWords,      \* words of an agent's state
          MaxWords,       \* changes of a word
          MaxMeddles,     \* panes the operator opens or closes
          MaxPaneTroubles \* Herdr calls and readings that fail

NoOne == "nobody"

PaneAssumption ==
  /\ PaneIds \subseteq Nat /\ 0 \notin PaneIds /\ IsFiniteSet(PaneIds)
  /\ PaneWords # {}
  /\ NoOne \notin PaneWorkers /\ "operator" \notin PaneWorkers

VARIABLES
  living,    \* each worker: off, live or gone
  word,      \* its agent's word
  panes,     \* Herdr's panes: whose it was opened for, what it tells, the highest seq
  opening,   \* each worker's pane, as its opener holds it
  told,      \* the reporter's entry of each pane: whose it is, the word it wants told, the one waiting
  flights,   \* reports under way, and what became of them
  reading,   \* the reading in flight, and whether another is asked for
  seqs,      \* the clock reports are stamped by
  astray,    \* history: workers whose pane was closed without their opener being told
  words, meddles, paneTroubles

paneVars == <<living, word, panes, opening, told, flights, reading, seqs, astray, words, meddles, paneTroubles>>

NoPane == [of |-> NoOne, tells |-> <<NoOne, "none">>, seq |-> 0]
NoEntry == [of |-> NoOne, wanted |-> "none", waiting |-> "none"]
NotOpening == [stage |-> "none", pane |-> 0, tries |-> 0]
NoReading == [now |-> FALSE, seen |-> [w \in PaneWorkers |-> "none"], again |-> FALSE]

PanesInit ==
  /\ living = [w \in PaneWorkers |-> "off"]
  /\ word \in [PaneWorkers -> {CHOOSE x \in PaneWords : TRUE}]
  /\ panes = [p \in PaneIds |-> NoPane]
  /\ opening = [w \in PaneWorkers |-> NotOpening]
  /\ told = [p \in PaneIds |-> NoEntry]
  /\ flights = {} /\ reading = NoReading /\ seqs = 1 /\ astray = {}
  /\ words = 0 /\ meddles = 0 /\ paneTroubles = 0

Troubled == paneTroubles < MaxPaneTroubles /\ paneTroubles' = paneTroubles + 1

Watched == \E p \in PaneIds : told[p].of # NoOne

\* One reading in flight, and one more after it.
AskedToRead(r) == IF r.now THEN [r EXCEPT !.again = TRUE] ELSE [now |-> TRUE, seen |-> word, again |-> FALSE]

\* An id that Herdr may give to a new pane.
Free(p) == panes[p].of = NoOne

\* The opener has the pane's id, and a use for it.
HoldsPane(w, p) == opening[w].pane = p /\ opening[w].stage \in {"shell", "open", "close"}

\* A pane goes, and of those that hold its id the ones told of it know.
PaneGoes(p, knowing) ==
  /\ panes' = [panes EXCEPT ![p] = NoPane]
  /\ astray' = astray \cup {v \in PaneWorkers \ knowing : HoldsPane(v, p)}

----------------------------------------------------------------------------
(* Opening. *)

\* The worker starts; a workspace is made for it, or cannot be.
WorkerStarts(w) ==
  /\ living[w] = "off" /\ living' = [living EXCEPT ![w] = "live"]
  /\ \/ \E p \in {q \in PaneIds : Free(q)} :
          /\ panes' = [panes EXCEPT ![p] = [NoPane EXCEPT !.of = w]]
          /\ opening' = [opening EXCEPT ![w] = [stage |-> "shell", pane |-> p, tries |-> 0]]
          /\ UNCHANGED paneTroubles
     \/ Troubled /\ opening' = [opening EXCEPT ![w].stage = "done"] /\ UNCHANGED panes
  /\ UNCHANGED <<word, told, flights, reading, seqs, astray, words, meddles>>

\* What Herdr does with a report: the highest seq stands, and one without any
\* is dropped once one with a seq has landed.
Heard(pane, says, seq) == IF seq >= pane.seq THEN [pane EXCEPT !.tells = says, !.seq = seq] ELSE pane

\* The claim is stamped by the same clock.
ClaimSeq(w) == seqs

\* Told nothing more, before the close is even queued.
\* (Mutant: it is told until Herdr says that it is gone.)
ForgotLater(book, p) == book
Forgot(book, p) == [book EXCEPT ![p] = NoEntry]

\* A worker that has ended already is heard of by a late subscriber.
HeardGone(w) == living[w] = "gone"

ToClose(w) == [opening EXCEPT ![w].stage = "close"]

\* The claim, and the reporter's entry from it.
Announced(w, p) ==
  /\ panes' = [panes EXCEPT ![p] = Heard(@, <<w, "idle">>, ClaimSeq(w))]
  /\ told' = IF HeardGone(w) THEN Forgot(told, p) ELSE [told EXCEPT ![p] = [NoEntry EXCEPT !.of = w]]
  /\ reading' = AskedToRead(reading)
  /\ seqs' = seqs + 1

\* The shell is there: the attach command is typed, and the pane is claimed;
\* one that cannot be claimed is named to nobody.  No shell closes it.
PaneIsReady(w) ==
  /\ opening[w].stage = "shell"
  /\ LET p == opening[w].pane
         there == panes[p].of # NoOne
     IN
     \/ \E claimed \in BOOLEAN :
          /\ there
          /\ IF claimed
             THEN Announced(w, p) /\ UNCHANGED paneTroubles
             ELSE Troubled /\ UNCHANGED <<panes, told, reading, seqs>>
          /\ opening' = IF HeardGone(w) THEN ToClose(w) ELSE [opening EXCEPT ![w].stage = "open"]
     \/ /\ IF there THEN Troubled ELSE UNCHANGED paneTroubles
        /\ opening' = ToClose(w) /\ told' = Forgot(told, p)
        /\ UNCHANGED <<panes, reading, seqs>>
  /\ UNCHANGED <<living, word, flights, astray, words, meddles>>

----------------------------------------------------------------------------
(* Closing. *)

WorkerEnds(w) ==
  /\ living[w] = "live" /\ living' = [living EXCEPT ![w] = "gone"]
  /\ IF opening[w].stage = "open"
     THEN opening' = ToClose(w) /\ told' = Forgot(told, opening[w].pane)
     ELSE UNCHANGED <<opening, told>>
  /\ UNCHANGED <<word, panes, flights, reading, seqs, astray, words, meddles, paneTroubles>>

\* One close of the pane by its id, outside whatever asked for it; one more
\* if it fails, as it also does when Herdr closed the pane and was not heard.
\* A pane that is not found is gone.
Closes(w) ==
  /\ opening[w].stage = "close"
  /\ \/ /\ PaneGoes(opening[w].pane, {w})
        /\ opening' = [opening EXCEPT ![w] = [NotOpening EXCEPT !.stage = "done"]]
        /\ UNCHANGED paneTroubles
     \/ /\ Troubled
        /\ opening' = IF opening[w].tries = 0 THEN [opening EXCEPT ![w].tries = 1]
                      ELSE [opening EXCEPT ![w] = [NotOpening EXCEPT !.stage = "left"]]
        /\ UNCHANGED <<panes, astray>> \/ PaneGoes(opening[w].pane, {})
  /\ UNCHANGED <<living, word, told, flights, reading, seqs, words, meddles>>

----------------------------------------------------------------------------
(* Telling. *)

WordChanges(w) ==
  /\ living[w] = "live" /\ words < MaxWords /\ words' = words + 1
  /\ \E x \in PaneWords \ {word[w]} : word' = [word EXCEPT ![w] = x]
  /\ UNCHANGED <<living, panes, opening, told, flights, reading, seqs, astray, meddles, paneTroubles>>

\* Asked for wherever the daemon evaluates agent state.
TellTick ==
  /\ Watched
  /\ reading' = AskedToRead(reading)
  /\ UNCHANGED <<living, word, panes, opening, told, flights, seqs, astray, words, meddles, paneTroubles>>

\* At most one report of a pane in flight; a later one replaces the one
\* waiting.
Sending(w, out) == \E f \in out : f.of = w

\* What every pane is told after a reading, one after another.
ToTell(seen) == {p \in PaneIds : told[p].of # NoOne /\ told[p].wanted # seen[told[p].of]}

Report(p, w, says, seq) == [pane |-> p, of |-> w, says |-> says, seq |-> seq, fate |-> "out"]

\* Each gets its own stamp.
Stamp(ps, p) == seqs + Cardinality({q \in ps : q < p})

\* An incomplete reading says nothing.
ReadingEnds ==
  /\ reading.now
  /\ reading' = IF reading.again /\ Watched THEN [now |-> TRUE, seen |-> word, again |-> FALSE] ELSE NoReading
  /\ \/ LET ps == ToTell(reading.seen)
            says(p) == reading.seen[told[p].of]
            free == {p \in ps : ~ Sending(told[p].of, flights)}
        IN /\ flights' = flights \cup {Report(p, told[p].of, says(p), Stamp(free, p)) : p \in free}
           /\ seqs' = seqs + Cardinality(free)
           /\ told' = [p \in PaneIds |-> IF p \notin ps THEN told[p]
                         ELSE [told[p] EXCEPT !.wanted = says(p), !.waiting = IF p \in free THEN @ ELSE says(p)]]
           /\ UNCHANGED paneTroubles
     \/ Troubled /\ UNCHANGED <<told, flights, seqs>>
  /\ UNCHANGED <<living, word, panes, opening, astray, words, meddles>>

\* Herdr takes the report, has no such pane, or fails.
Lands ==
  /\ \E f \in {g \in flights : g.fate = "out"} :
       \E fate \in IF panes[f.pane].of = NoOne THEN {"missing", "failed"} ELSE {"heard", "failed"} :
         /\ flights' = (flights \ {f}) \cup {[f EXCEPT !.fate = fate]}
         /\ panes' = IF fate = "heard" THEN [panes EXCEPT ![f.pane] = Heard(@, <<f.of, f.says>>, f.seq)] ELSE panes
         /\ IF fate = "failed" THEN Troubled ELSE UNCHANGED paneTroubles
  /\ UNCHANGED <<living, word, opening, told, reading, seqs, astray, words, meddles>>

\* A pane that is gone is forgotten, if the entry is still this one's; a
\* failure is said again at the next reading.
IsSame(p, w) == told[p].of = w

\* (Mutant: a report that failed counts as told.)
WantedStill(entry) == entry
Wanted(entry) == [entry EXCEPT !.wanted = "none"]

ReportIsAnswered ==
  /\ \E f \in {g \in flights : g.fate # "out"} :
       LET kept == [told EXCEPT ![f.pane] =
                      IF f.fate = "missing" THEN IF IsSame(f.pane, f.of) THEN NoEntry ELSE @
                      ELSE IF f.fate = "failed" /\ told[f.pane].of = f.of THEN Wanted(@) ELSE @]
           next == kept[f.pane].of = f.of /\ kept[f.pane].waiting # "none"
       IN /\ told' = IF next THEN [kept EXCEPT ![f.pane].waiting = "none"] ELSE kept
          /\ flights' = (flights \ {f})
                          \cup (IF next THEN {Report(f.pane, f.of, kept[f.pane].waiting, seqs)} ELSE {})
          /\ seqs' = IF next THEN seqs + 1 ELSE seqs
  /\ UNCHANGED <<living, word, panes, opening, reading, astray, words, meddles, paneTroubles>>

----------------------------------------------------------------------------
(* The operator, in the same Herdr. *)

Meddles ==
  /\ meddles < MaxMeddles /\ meddles' = meddles + 1
  /\ \E p \in PaneIds :
       \/ panes[p].of # NoOne /\ PaneGoes(p, {})
       \/ /\ Free(p) /\ panes' = [panes EXCEPT ![p] = [NoPane EXCEPT !.of = "operator"]]
          /\ UNCHANGED astray
  /\ UNCHANGED <<living, word, opening, told, flights, reading, seqs, words, paneTroubles>>

PanesNext ==
  \/ \E w \in PaneWorkers : WorkerStarts(w) \/ PaneIsReady(w) \/ WorkerEnds(w) \/ Closes(w) \/ WordChanges(w)
  \/ TellTick \/ ReadingEnds \/ Lands \/ ReportIsAnswered \/ Meddles

\* Herdr answers every call in the end, a reading ends, and the daemon
\* evaluates agent state for as long as it runs.
PanesFair ==
  /\ \A w \in PaneWorkers : WF_paneVars(PaneIsReady(w)) /\ WF_paneVars(Closes(w))
  /\ WF_paneVars(TellTick) /\ WF_paneVars(ReadingEnds) /\ WF_paneVars(Lands) /\ WF_paneVars(ReportIsAnswered)

PanesSpec == PanesInit /\ [][PanesNext]_paneVars /\ PanesFair

----------------------------------------------------------------------------
(* Properties. *)

\* Once a pane is claimed for a worker, it tells that worker's word and no
\* other's, whatever reports were under way to the pane whose id it got.
ClaimedTellsItsOwn ==
  \A p \in PaneIds : told[p].of # NoOne /\ panes[p].of = told[p].of => panes[p].tells[1] = told[p].of

\* Whose pane went without its opener being told has an id that Herdr may have
\* given again.  But for those, no report is begun to a pane that was not opened
\* for its worker,
ReportsGoHome ==
  \A f \in flights' \ flights : f.fate = "out" => panes[f.pane].of = f.of \/ f.of \in astray

\* and none is typed at or closed for it: what the operator opened, or another
\* worker has, is left alone.
IsUsed(w) ==
  \/ opening[w].stage = "shell" /\ opening'[w].stage = "open"
  \/ opening[w].stage = "close" /\ opening'[w].stage = "done"
UsesItsOwn ==
  \A w \in PaneWorkers : IsUsed(w) => panes[opening[w].pane].of = w \/ w \in astray

\* "Never touches anything this daemon did not create" (herdr-pane-opener.mjs:42-43):
\* a worker's end closes no pane that the operator opened.
OperatorsPanesStay ==
  [][\A p \in PaneIds : panes[p].of = "operator" /\ panes'[p].of = NoOne => meddles' # meddles]_paneVars

PanesAreTheirs == [][ClaimedTellsItsOwn' /\ ReportsGoHome /\ UsesItsOwn]_paneVars

\* A claimed pane comes to tell the word of its agent, while that stands.
WordsAreTold ==
  \A w \in PaneWorkers, x \in PaneWords :
    (\E p \in PaneIds : told[p].of = w /\ panes[p].of = w /\ word[w] = x)
      ~> \/ word[w] # x \/ living[w] = "gone"
         \/ \E p \in PaneIds : opening[w].pane = p /\ (panes[p].tells = <<w, x>> \/ panes[p].of # w)

\* A worker that has ended has no pane, unless Herdr refused to close it
\* twice.
PanesGo ==
  \A w \in PaneWorkers :
    (living[w] = "gone") ~> (opening[w].stage = "left" \/ \A p \in PaneIds : panes[p].of # w)

PanesAreLookedAfter == WordsAreTold /\ PanesGo
=============================================================================
