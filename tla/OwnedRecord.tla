----------------------------- MODULE OwnedRecord -----------------------------
(***************************************************************************)
(* The owned-process record file shared by environments that hold no lock  *)
(* on it (lib/owned-process-record.mjs, lib/durable-file.mjs).  Every       *)
(* change reads the file, composes the next rows and replaces the file by  *)
(* a rename; another writer may come between those two, the machine may    *)
(* stop at any point, and a hand or another program may damage the bytes.  *)
(*                                                                         *)
(* A row is an id and a revision of what is said of it; a row of a newer   *)
(* version, which this one does not understand, has the id "alien".        *)
(***************************************************************************)
EXTENDS Naturals, FiniteSets

CONSTANTS Writers,     \* environments sharing the file
          RowIds,      \* ids of processes
          MaxRevision, \* bound: revisions of a row
          MaxBlots,    \* bound: times the bytes are damaged
          MaxSlips     \* bound: failed reads, writes, renames and power cuts

ASSUME RevisionAssumption == MaxRevision \in Nat \ {0}

VARIABLES
  page,      \* what the file holds now
  settled,   \* what it holds after a power cut
  asides,    \* damaged bytes kept beside the file
  errand,    \* what each writer is doing
  word,      \* the last change answered as written, and made alone, until another begins
  blots,     \* times the bytes were damaged
  slips      \* failures so far

recordVars == <<page, settled, asides, errand, word, blots, slips>>

Row(id, rev) == [id |-> id, rev |-> rev]
Alien == Row("alien", 0)
Rows == [id : RowIds, rev : 1..MaxRevision]

Readable(rows) == [state |-> "readable", rows |-> rows, bytes |-> 0]
Damaged(n) == [state |-> "damaged", rows |-> {}, bytes |-> n]

AtRest == [at |-> "rest"]
NoWord == [kind |-> "none", rows |-> {}]

RecordInit ==
  /\ page \in {Readable({}), Readable({Alien}), Readable({Alien} \cup {Row(i, 1) : i \in RowIds})}
  /\ settled = page
  /\ asides = {}
  /\ errand = [w \in Writers |-> AtRest]
  /\ word = NoWord
  /\ blots = 0 /\ slips = 0

----------------------------------------------------------------------------
(* The three changes *)

Changes ==
  [kind : {"started"}, rows : {{r} : r \in Rows}]
    \cup [kind : {"retain", "retire"}, rows : {{r} : r \in Rows} \cup {Rows}]

\* (Mutant: a row is forgotten by its id, whatever is said of it now.)
ComposeById(change, rows) ==
  CASE change.kind = "started" -> {r \in rows : \A s \in change.rows : r.id # s.id} \cup change.rows
    [] change.kind = "retain" -> rows \cup change.rows
    [] change.kind = "retire" -> {r \in rows : \A s \in change.rows : r.id # s.id}

\* started replaces the rows of its id, retain adds what no row equals, retire
\* removes exactly the rows that equal one it names.
Compose(change, rows) ==
  CASE change.kind = "started" -> {r \in rows : \A s \in change.rows : r.id # s.id} \cup change.rows
    [] change.kind = "retain" -> rows \cup change.rows
    [] change.kind = "retire" -> rows \ change.rows

\* The rows a change may take out of the file.
Names(change, rows) ==
  CASE change.kind = "started" -> {r \in rows : \E s \in change.rows : r.id = s.id}
    [] change.kind = "retain" -> {}
    [] change.kind = "retire" -> change.rows

Answers(change, ok) == word' = IF ok THEN change ELSE NoWord

\* A change begins on what the file says now; `alone` while no other is under way.
Begins(w, stage, change) ==
  errand' = [v \in Writers |->
    IF v = w THEN [at |-> stage, change |-> change, seen |-> page,
                   alone |-> \A u \in Writers : errand[u].at = "rest"]
    ELSE IF errand[v].at = "rest" THEN AtRest ELSE [errand[v] EXCEPT !.alone = FALSE]]

MayFail == slips < MaxSlips

ReadFails(w, change) ==
  /\ MayFail /\ slips' = slips + 1
  /\ Answers(change, FALSE)
  /\ UNCHANGED <<page, settled, asides, errand, blots>>

\* Bytes that are not understood are kept aside before a change replaces them;
\* retiring never replaces them.
OnDamage(w, change) ==
  /\ page.state = "damaged"
  /\ IF change.kind = "retire" THEN Answers(change, FALSE) /\ UNCHANGED errand
     ELSE /\ Begins(w, "preserving", change)
          /\ word' = NoWord
  /\ UNCHANGED <<page, settled, asides, blots, slips>>

\* #read and compose; no change, no write.
ReadsRows(w, change) ==
  /\ page.state = "readable"
  /\ IF change.kind # "started" /\ Compose(change, page.rows) = page.rows THEN
       word' = NoWord /\ UNCHANGED errand
     ELSE /\ Begins(w, "writing", change)
          /\ word' = NoWord
  /\ UNCHANGED <<page, settled, asides, blots, slips>>

Begin(w) ==
  \E change \in Changes :
    /\ errand[w].at = "rest"
    /\ ReadFails(w, change) \/ OnDamage(w, change) \/ ReadsRows(w, change)

Preserves(w) ==
  /\ errand[w].at = "preserving"
  /\ asides' = asides \cup {errand[w].seen.bytes}
  /\ errand' = [errand EXCEPT ![w].at = "writing"]
  /\ UNCHANGED <<page, settled, word, blots, slips>>

\* The copy could not be kept, or the rename was refused: the target stands.
GivesUp(w) ==
  /\ errand[w].at \in {"preserving", "writing"} /\ MayFail
  /\ slips' = slips + 1
  /\ errand' = [errand EXCEPT ![w] = AtRest]
  /\ Answers(errand[w].change, FALSE)
  /\ UNCHANGED <<page, settled, asides, blots>>

\* The rename: what the reader composed takes the place of what is there now.
Replaces(w) ==
  /\ errand[w].at = "writing"
  /\ page' = Readable(Compose(errand[w].change, errand[w].seen.rows))
  /\ errand' = [errand EXCEPT ![w].at = "syncing"]
  /\ UNCHANGED <<settled, asides, word, blots, slips>>

\* syncDirectory, and the answer.
Syncs(w) ==
  /\ errand[w].at = "syncing"
  /\ settled' = page
  /\ errand' = [errand EXCEPT ![w] = AtRest]
  /\ Answers(errand[w].change, errand[w].alone)
  /\ UNCHANGED <<page, asides, blots, slips>>

SyncFails(w) ==
  /\ errand[w].at = "syncing" /\ MayFail
  /\ slips' = slips + 1
  /\ errand' = [errand EXCEPT ![w] = AtRest]
  /\ Answers(errand[w].change, FALSE)
  /\ UNCHANGED <<page, settled, asides, blots>>

\* A writer's process ends between two steps.
WriterDies(w) ==
  /\ errand[w].at # "rest" /\ MayFail
  /\ slips' = slips + 1
  /\ errand' = [errand EXCEPT ![w] = AtRest]
  /\ Answers(errand[w].change, FALSE)
  /\ UNCHANGED <<page, settled, asides, blots>>

PowerCut ==
  /\ MayFail
  /\ slips' = slips + 1
  /\ page' = settled
  /\ errand' = [w \in Writers |-> AtRest]
  /\ UNCHANGED <<settled, asides, word, blots>>

\* Somebody writes over the file with bytes no writer understands.
Blotted ==
  /\ blots < MaxBlots
  /\ blots' = blots + 1
  /\ page' = Damaged(blots + 1)
  /\ settled' = page'
  /\ UNCHANGED <<asides, errand, word, slips>>

RecordNext ==
  \/ \E w \in Writers :
       Begin(w) \/ Preserves(w) \/ GivesUp(w) \/ Replaces(w) \/ Syncs(w) \/ SyncFails(w) \/ WriterDies(w)
  \/ PowerCut \/ Blotted

RecordSpec == RecordInit /\ [][RecordNext]_recordVars

----------------------------------------------------------------------------
(* Properties *)

Undisturbed(w) == errand[w].at = "writing" /\ errand[w].seen = page

\* A change takes out of the file only rows it names, and never rows it does not
\* understand, unless another writer came between its reading and its rename: a
\* stale snapshot neither erases what was written since nor brings back what was
\* removed; damaged bytes it read are kept aside first (lib/owned-process-record.mjs).
OnlyNamedRowsGo ==
  \A w \in Writers :
    (Undisturbed(w) /\ errand'[w].at = "syncing") =>
      /\ page.rows \ page'.rows \subseteq Names(errand[w].change, page.rows)
      /\ page'.rows \ page.rows \subseteq errand[w].change.rows
      /\ page.state = "damaged" => page.bytes \in asides

\* A change made with no other under way and answered as written is in the file, and
\* still is after a power cut, until another change begins or the bytes are damaged.
AnsweredIsKept ==
  (blots = 0 /\ \A w \in Writers : errand[w].at = "rest") =>
    \A rows \in {page.rows, settled.rows} :
      IF word.kind = "retire" THEN rows \cap word.rows = {} ELSE word.rows \subseteq rows

RecordIsKept == [][OnlyNamedRowsGo /\ AnsweredIsKept]_recordVars
=============================================================================
