----------------------------- MODULE HeadWatch -----------------------------
(***************************************************************************)
(* What the aify-dashboard plugin tells the dashboard of one folder's git   *)
(* history: HeadWatcher (head-watcher.mjs), RangeReporter                   *)
(* (range-reporter.mjs), FileListSender (file-list.mjs), and the yield to   *)
(* another aify-env that serves this host (index.mjs).                      *)
(*                                                                         *)
(* HEAD moves by a commit or a reset, which writes the ref it names, or by  *)
(* a checkout, which writes none.  A request is one step with three         *)
(* outcomes: answered, lost before it was applied, or applied with its      *)
(* answer lost.  Batches are of one commit.  The grant that a folder must   *)
(* be inside, and a watch list that changes, are left out.                  *)
(***************************************************************************)
EXTENDS Naturals

CONSTANTS
    Checkouts,    \* whether HEAD moves by checkouts too
    MaxHeads,     \* bound: moves of HEAD
    MaxFailures,  \* bound: requests that fail, git runs that fail, restarts
    MaxOthers     \* bound: times another aify-env serves this host

\* Commit 1 is the root, 2 and 3 follow it, and 4 is a branch of its own.
Commits == 1 .. 4
Ancestors(c) == IF c = 4 THEN {1, 4} ELSE 1 .. c
Unknown == 0
Between(a, b) == Ancestors(b) \ Ancestors(a)

VARIABLES
    checkout,   \* the folder's HEAD
    refWrites,  \* times the refs HEAD names were written: their size and time
    headMoves,
    dash,       \* the dashboard: the head it was told, the head it accepted commits up to and
                \* that cursor's revision, the commits it has, those it records as a gap, its lists;
                \* and, as history, what it holds that this aify-env never heard of: a head
                \* report applied and not answered, or what another one reported between two ticks
    elsewhere,  \* another aify-env serves this host; TRUE after it has been asked for
    noticed,    \* history: a tick saw it serve
    others,
    yielding,   \* the plugin's `declined`
    folder,     \* what HeadWatcher keeps of the folder
    kept,       \* RangeReporter's #read
    look,       \* the look in progress: where it is, the fingerprint, the head, the batches left
    failures

folderVars == <<folder, kept, look>>
otherVars == <<elsewhere, noticed, others>>
watchVars == <<checkout, refWrites, headMoves, dash, otherVars, yielding, folderVars, failures>>

NeverTaken == <<Unknown, 0>>
\* headFingerprint: the text of HEAD, and the size and time of the ref it names.
Fingerprint == <<checkout, refWrites>>

NewFolder == [print |-> NeverTaken, sentHead |-> Unknown, acked |-> Unknown, revision |-> 0,
              wanted |-> FALSE, listFailedHead |-> Unknown, problem |-> FALSE]
NothingRead == [base |-> Unknown, target |-> Unknown, commits |-> {}]
NoLook == [at |-> "no", print |-> NeverTaken, head |-> Unknown, batches |-> {}]

WatchInit ==
    /\ checkout = 2 /\ refWrites = 0 /\ headMoves = 0
    /\ dash = [head |-> 1, acked |-> 1, revision |-> 0, has |-> {1}, gaps |-> {}, lists |-> {1},
             unheard |-> "nothing"]
    /\ elsewhere = FALSE /\ noticed = FALSE /\ others = 0 /\ yielding = FALSE
    /\ folder = NewFolder /\ kept = NothingRead /\ look = NoLook
    /\ failures = 0

Fails == failures < MaxFailures /\ failures' = failures + 1

(***************************************************************************)
(* The checkout, and another aify-env on this host.                        *)
(***************************************************************************)
HeadMoves(c) ==
    /\ headMoves < MaxHeads /\ c # checkout
    /\ checkout' = c /\ headMoves' = headMoves + 1
    /\ refWrites' \in {refWrites + 1} \cup (IF Checkouts THEN {refWrites} ELSE {})
    /\ UNCHANGED <<dash, otherVars, yielding, folderVars, failures>>

OtherStarts ==
    /\ ~elsewhere /\ others < MaxOthers
    /\ elsewhere' = TRUE /\ noticed' = FALSE /\ others' = others + 1
    /\ UNCHANGED <<checkout, refWrites, headMoves, dash, yielding, folderVars, failures>>

\* It brings the dashboard up to the HEAD it finds.
OtherReports ==
    /\ elsewhere /\ dash.acked # checkout
    /\ dash' = [dash EXCEPT !.head = checkout, !.acked = checkout, !.revision = @ + 1,
                            !.has = @ \cup Ancestors(checkout), !.lists = @ \cup {checkout}]
    /\ UNCHANGED <<checkout, refWrites, headMoves, otherVars, yielding, folderVars, failures>>

\* It may have come and gone between two ticks, which ask only for who serves now.
OtherEnds ==
    /\ elsewhere /\ elsewhere' = FALSE
    /\ dash' = IF noticed THEN dash ELSE [dash EXCEPT !.unheard = "served"]
    /\ UNCHANGED <<checkout, refWrites, headMoves, noticed, others, yielding, folderVars, failures>>

(***************************************************************************)
(* A tick, and the look it takes.                                          *)
(***************************************************************************)
\* (Mutant: only the fingerprint is forgotten.)
ForgetPrint(f) == [f EXCEPT !.print = NeverTaken]

\* forgetReported, on the first tick after a yield.
ForgetReported(f) == [f EXCEPT !.print = NeverTaken, !.sentHead = Unknown]

\* servedElsewhere is asked first; a quiet folder is looked at no further.
Tick ==
    /\ look.at = "no"
    /\ yielding' = elsewhere /\ noticed' = (noticed \/ elsewhere)
    /\ folder' = IF yielding /\ ~elsewhere THEN ForgetReported(folder) ELSE folder
    /\ look' = IF elsewhere \/ (folder'.sentHead # Unknown /\ Fingerprint = folder'.print /\ ~folder'.problem)
               THEN NoLook ELSE [NoLook EXCEPT !.at = "git", !.print = Fingerprint]
    /\ UNCHANGED <<checkout, refWrites, headMoves, dash, elsewhere, others, kept, failures>>

\* The fingerprint is kept, and the folder is without a problem.
LookIsDone(f, l) ==
    /\ folder' = [f EXCEPT !.print = l.print, !.problem = FALSE]
    /\ look' = NoLook

\* The list is sent once the dashboard asked, unless git could not list this head.
ListOrDone(f, l) ==
    IF f.wanted /\ f.listFailedHead # l.head
    THEN look' = [l EXCEPT !.at = "list"] /\ folder' = f
    ELSE LookIsDone(f, l)

SyncOrList(f, l) ==
    IF f.acked # l.head THEN look' = [l EXCEPT !.at = "sync"] /\ folder' = f
                        ELSE ListOrDone(f, l)

Stumbles(f) == folder' = [f EXCEPT !.problem = TRUE] /\ look' = NoLook

GitTellsHead ==
    /\ look.at = "git"
    /\ LET l == [look EXCEPT !.head = checkout] IN
       IF l.head # folder.sentHead THEN look' = [l EXCEPT !.at = "report"] /\ UNCHANGED folder
                                   ELSE SyncOrList(folder, l)
    /\ UNCHANGED <<checkout, refWrites, headMoves, dash, otherVars, yielding, kept, failures>>

\* git fails, whatever it was asked.
GitFails ==
    /\ look.at \in {"git", "sync"} /\ Fails
    /\ Stumbles(folder)
    /\ UNCHANGED <<checkout, refWrites, headMoves, dash, otherVars, yielding, kept>>

(***************************************************************************)
(* reportHead: first, and once more after the commits went.                *)
(***************************************************************************)
Told == [dash EXCEPT !.head = look.head, !.unheard = "nothing"]
WithAnswer(f) == [f EXCEPT !.acked = dash.acked, !.revision = dash.revision,
                           !.wanted = look.head \notin dash.lists]

HeadIsReported ==
    /\ look.at = "report"
    /\ dash' = Told
    /\ LET f == [WithAnswer(folder) EXCEPT !.sentHead = look.head,
                    !.listFailedHead = IF look.head = @ THEN @ ELSE Unknown]
       IN SyncOrList(f, look)
    /\ UNCHANGED <<checkout, refWrites, headMoves, otherVars, yielding, kept, failures>>

\* Short of the head, the folder has a problem, and the next tick tries again.
CoverageIsRead ==
    /\ look.at = "reread"
    /\ dash' = Told
    /\ LET f == WithAnswer(folder) IN
       IF f.acked # look.head THEN Stumbles(f) ELSE ListOrDone(f, look)
    /\ UNCHANGED <<checkout, refWrites, headMoves, otherVars, yielding, kept, failures>>

ToldUnheard == [Told EXCEPT !.unheard = IF dash.unheard = "served" THEN "served" ELSE "report"]
ReportFails ==
    /\ look.at \in {"report", "reread"} /\ Fails
    /\ dash' \in {dash, ToldUnheard}
    /\ Stumbles(folder)
    /\ UNCHANGED <<checkout, refWrites, headMoves, otherVars, yielding, kept>>

(***************************************************************************)
(* RangeReporter.sync.                                                     *)
(***************************************************************************)
IsKept(base, target) == kept.base = base /\ kept.target = target

\* Forward, the commits are read once and kept; a history that does not go
\* forward is resynced.
Sync ==
    /\ look.at = "sync"
    /\ IF IsKept(folder.acked, look.head)
       THEN look' = [look EXCEPT !.at = "open"] /\ UNCHANGED kept
       ELSE IF folder.acked \in Ancestors(look.head)
       THEN /\ kept' = [base |-> folder.acked, target |-> look.head, commits |-> Between(folder.acked, look.head)]
            /\ look' = [look EXCEPT !.at = "open"]
       ELSE look' = [look EXCEPT !.at = "resync"] /\ UNCHANGED kept
    /\ UNCHANGED <<checkout, refWrites, headMoves, dash, otherVars, yielding, folder, failures>>

CursorIsCurrent == folder.revision = dash.revision /\ folder.acked = dash.acked

\* A stale cursor is refused with the current one.
WithCurrent(f) == [f EXCEPT !.acked = dash.acked, !.revision = dash.revision]

Resynced ==
    [dash EXCEPT !.acked = look.head, !.revision = @ + 1,
                 !.gaps = @ \cup (Ancestors(look.head) \ dash.has)]

Resync ==
    /\ look.at = "resync"
    /\ IF CursorIsCurrent
       THEN /\ dash' = Resynced /\ kept' = NothingRead
            /\ look' = [look EXCEPT !.at = "reread"] /\ UNCHANGED folder
       ELSE Stumbles(WithCurrent(folder)) /\ UNCHANGED <<dash, kept>>
    /\ UNCHANGED <<checkout, refWrites, headMoves, otherVars, yielding, failures>>

ResyncFails ==
    /\ look.at = "resync" /\ Fails
    /\ dash' \in (IF CursorIsCurrent THEN {dash, Resynced} ELSE {dash})
    /\ Stumbles(folder)
    /\ UNCHANGED <<checkout, refWrites, headMoves, otherVars, yielding, kept>>

OpenRange ==
    /\ look.at = "open"
    /\ IF CursorIsCurrent
       THEN look' = [look EXCEPT !.at = "batch", !.batches = kept.commits] /\ UNCHANGED folder
       ELSE Stumbles(WithCurrent(folder))
    /\ UNCHANGED <<checkout, refWrites, headMoves, dash, otherVars, yielding, kept, failures>>

\* The oldest commit that is left.
NextBatch == {c \in look.batches : \A d \in look.batches : c <= d}

\* The last batch closes the range: complete if the cursor is still where the
\* range began, superseded if not.
Completes(c) == look.batches = {c} /\ CursorIsCurrent
Received(c) ==
    LET d == [dash EXCEPT !.has = @ \cup {c}] IN
    IF Completes(c) THEN [d EXCEPT !.acked = look.head, !.revision = @ + 1] ELSE d

SendBatch ==
    /\ look.at = "batch"
    /\ \E c \in NextBatch :
         /\ dash' = Received(c)
         /\ look' = [look EXCEPT !.at = IF look.batches = {c} THEN "reread" ELSE @, !.batches = @ \ {c}]
         /\ kept' = IF Completes(c) THEN NothingRead ELSE kept
    /\ UNCHANGED <<checkout, refWrites, headMoves, otherVars, yielding, folder, failures>>

RangeFails ==
    /\ look.at \in {"open", "batch"} /\ Fails
    /\ dash' \in {dash} \cup (IF look.at = "batch" THEN {Received(c) : c \in NextBatch} ELSE {})
    /\ Stumbles(folder)
    /\ UNCHANGED <<checkout, refWrites, headMoves, otherVars, yielding, kept>>

(***************************************************************************)
(* FileListSender.send.                                                    *)
(***************************************************************************)
ListTaken == IF dash.head = look.head THEN [dash EXCEPT !.lists = @ \cup {look.head}] ELSE dash

\* Answered, whichever way: a list for a head the dashboard was told has been
\* left is stale, and is not sent again for this ask.
SendList ==
    /\ look.at = "list"
    /\ dash' = ListTaken
    /\ LookIsDone([folder EXCEPT !.wanted = FALSE], look)
    /\ UNCHANGED <<checkout, refWrites, headMoves, otherVars, yielding, kept, failures>>

ListFails ==
    /\ look.at = "list" /\ Fails
    /\ dash' \in {dash, ListTaken}
    /\ Stumbles(folder)
    /\ UNCHANGED <<checkout, refWrites, headMoves, otherVars, yielding, kept>>

\* git could not list the head: a problem of this head, not of the look.
GitCannotList ==
    /\ look.at = "list" /\ Fails
    /\ LookIsDone([folder EXCEPT !.listFailedHead = look.head], look)
    /\ UNCHANGED <<checkout, refWrites, headMoves, dash, otherVars, yielding, kept>>

\* The plugin is stopped, and started again.
Restart ==
    /\ Fails
    /\ folder' = NewFolder /\ kept' = NothingRead /\ look' = NoLook /\ yielding' = FALSE
    /\ UNCHANGED <<checkout, refWrites, headMoves, dash, otherVars>>

LookSteps ==
    \/ Tick \/ GitTellsHead \/ HeadIsReported \/ CoverageIsRead \/ Sync \/ Resync \/ OpenRange \/ SendBatch
    \/ SendList

WatchNext ==
    \/ \E c \in Commits : HeadMoves(c)
    \/ OtherStarts \/ OtherReports \/ OtherEnds
    \/ LookSteps
    \/ GitFails \/ ReportFails \/ ResyncFails \/ RangeFails \/ ListFails \/ GitCannotList
    \/ Restart

\* The timer ticks, and a look that has begun goes on: every request is answered
\* or fails by its timeout.
WatchSpec == WatchInit /\ [][WatchNext]_watchVars /\ WF_watchVars(LookSteps)

(***************************************************************************)
(* Properties.                                                             *)
(***************************************************************************)
\* Every commit in the history the dashboard takes for reported was sent to it,
\* or it records the gap: whatever was refused, lost, superseded or read
\* before (range-reporter.mjs:3-16).
CoverageIsHonest == Ancestors(dash.acked) \subseteq dash.has \cup dash.gaps

\* Once the HEAD stays and no other aify-env serves the host, the dashboard
\* comes to know it, to have accepted the commits up to it, and to hold its
\* list, unless git could not list it: no look that failed, no lost answer and
\* no yield leaves the folder quiet before that (head-watcher.mjs:11-15).  The
\* two exceptions are what this aify-env never heard of, when HEAD then goes
\* back to the head it reported before, which it does not send again: a head
\* report applied and not answered, and what another aify-env reported that
\* served the host between two ticks.
DashboardCatchesUp ==
    <>[]~elsewhere =>
    <>[](\/ dash.unheard = "served"
         \/ /\ dash.acked = checkout
            /\ \/ dash.unheard = "report"
               \/ dash.head = checkout /\ (checkout \in dash.lists \/ folder.listFailedHead = checkout))

\* A folder that is looked at no further is one whose HEAD the dashboard was
\* told: "a HEAD is sent when it differs from the last one the dashboard
\* accepted" (head-watcher.mjs:11).
QuietIsTold ==
    look.at = "no" /\ ~folder.problem /\ folder.print = Fingerprint => folder.sentHead \in {checkout, Unknown}

=============================================================================
