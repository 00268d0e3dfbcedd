------------------------------ MODULE ClientRun ------------------------------
(***************************************************************************)
(* One run of a provider client on Windows, and its end: runChild           *)
(* (provider-child.mjs), endOwnedChildTree (owned-process-tree.mjs), and    *)
(* the helper that ends a process tree through handles it holds             *)
(* (held-process-tree.mjs, both the node side and the helper's program).    *)
(*                                                                         *)
(* A process number is handed out again once the process has ended and      *)
(* nobody holds a handle on it.  Times of birth are kept as a count.  The   *)
(* POSIX side of the same run is a process group: module Runner.            *)
(***************************************************************************)
EXTENDS Naturals, Sequences, FiniteSets, FiniteSetsExt

CONSTANTS
    ClientPids,   \* process numbers
    ClientPid,    \* the one the client was given
    MaxBirths,    \* bound: processes ever started
    MaxRefusals   \* bound: calls of the operating system that fail

\* 0 is nobody's number: whoever has no parent here names it.
ClientPidIsAPid == ClientPid \in ClientPids /\ 0 \notin ClientPids

VARIABLES
    procs,      \* pid -> the process of that number: born when, by which pid, and whether by the client's tree
    births,
    exitSeen,   \* node has emitted the client's 'exit', and let go of its handle
    run,        \* runChild's variables
    helper,     \* the helper: where it is, what it holds, its queue, its problems, the children to open
    reached,    \* as history: births of the processes the helper held and answered for
    refusals    \* calls that failed

clientRunVars == <<procs, births, exitSeen, run, helper, reached, refusals>>

NoProc == [born |-> 0, ppid |-> 0, from |-> 0, ours |-> FALSE, alive |-> FALSE]
ClientBirth == 2
NoHelper == [at |-> "no", held |-> {}, queue |-> <<>>, opens |-> {}, problem |-> FALSE]

\* Another process of this host may name the client's number as its parent: it
\* was started by an earlier process of that number.
ClientRunInit ==
    /\ \E other \in BOOLEAN :
         procs = [p \in ClientPids |->
            IF p = ClientPid THEN [born |-> ClientBirth, ppid |-> 0, from |-> 0, ours |-> TRUE, alive |-> TRUE]
            ELSE IF other /\ p = Max(ClientPids)
                 THEN [born |-> 1, ppid |-> ClientPid, from |-> 0, ours |-> FALSE, alive |-> TRUE]
            ELSE NoProc]
    /\ births = ClientBirth /\ exitSeen = FALSE
    /\ run = [killing |-> FALSE, killSaid |-> "none", closed |-> FALSE, settled |-> "no"]
    /\ helper = NoHelper /\ reached = {} /\ refusals = 0

HeldPids == {h.pid : h \in helper.held}
IsHeldPid(p) == p \in HeldPids \/ (p = ClientPid /\ ~exitSeen)
CanOpen(p) == procs[p].alive \/ IsHeldPid(p)

Refused == refusals < MaxRefusals /\ refusals' = refusals + 1

(***************************************************************************)
(* The host.                                                               *)
(***************************************************************************)
IsForked(p, ppid, from, ours) ==
    /\ births < MaxBirths /\ ~procs[p].alive /\ ~IsHeldPid(p)
    /\ births' = births + 1
    /\ procs' = [procs EXCEPT ![p] =
                   [born |-> births + 1, ppid |-> ppid, from |-> from, ours |-> ours, alive |-> TRUE]]
    /\ UNCHANGED <<exitSeen, run, helper, reached, refusals>>

ProcessForks(parent, p) ==
    procs[parent].alive /\ IsForked(p, parent, procs[parent].born, procs[parent].ours)

StrangerStarts(p) == IsForked(p, 0, 0, FALSE)

ProcessExits(p) ==
    /\ procs[p].alive
    /\ procs' = [procs EXCEPT ![p].alive = FALSE]
    /\ UNCHANGED <<births, exitSeen, run, helper, reached, refusals>>

(***************************************************************************)
(* runChild.                                                               *)
(***************************************************************************)
\* settleIfDone, with what a kill said.
SettledIfDone(r) ==
    IF r.settled = "no" /\ r.closed /\ (~r.killing \/ r.killSaid # "none")
    THEN [r EXCEPT !.settled = IF r.killing /\ r.killSaid = "failed" THEN "unconfirmed" ELSE "clean"]
    ELSE r

Said(r, word) == SettledIfDone([r EXCEPT !.killSaid = word])

NodeSeesExit ==
    /\ ~exitSeen /\ ~procs[ClientPid].alive
    /\ exitSeen' = TRUE
    /\ UNCHANGED <<procs, births, run, helper, reached, refusals>>

\* Its output is closed too.
ClientCloses ==
    /\ exitSeen /\ ~run.closed /\ run.settled = "no"
    /\ run' = SettledIfDone([run EXCEPT !.closed = TRUE])
    /\ UNCHANGED <<procs, births, exitSeen, helper, reached, refusals>>

\* The time is up, or the plugin stops.  A client that has exited is not
\* killed by its number.
EndRun ==
    /\ ~run.killing /\ ~run.closed
    /\ run' = IF exitSeen THEN Said([run EXCEPT !.killing = TRUE], "failed")
                          ELSE [run EXCEPT !.killing = TRUE]
    /\ helper' = IF exitSeen THEN helper ELSE [helper EXCEPT !.at = "open root"]
    /\ UNCHANGED <<procs, births, exitSeen, reached, refusals>>

\* (Mutant: the run waits for its client to close, whatever the kill said.)
SettlesOnceClosed ==
    /\ run.killing /\ run.closed /\ run.settled = "no"
    /\ run' = [run EXCEPT !.settled = "unconfirmed"]
    /\ UNCHANGED <<procs, births, exitSeen, helper, reached, refusals>>

KillDeadline ==
    /\ run.killing /\ run.settled = "no"
    /\ run' = [run EXCEPT !.settled = "unconfirmed"]
    /\ UNCHANGED <<procs, births, exitSeen, helper, reached, refusals>>

(***************************************************************************)
(* The helper.                                                             *)
(***************************************************************************)
HelperSays(word) == run' = Said(run, word) /\ helper' = [NoHelper EXCEPT !.at = "over"]

\* "held", or "gone": it could not be opened, or its time of birth not be read.
OpenRoot ==
    /\ helper.at = "open root"
    /\ \/ /\ CanOpen(ClientPid)
          /\ helper' = [helper EXCEPT !.at = "held",
                          !.held = {[pid |-> ClientPid, born |-> procs[ClientPid].born]}]
          /\ UNCHANGED <<run, refusals>>
       \/ ~CanOpen(ClientPid) /\ HelperSays("failed") /\ UNCHANGED refusals
       \/ Refused /\ HelperSays("failed")
    /\ UNCHANGED <<procs, births, exitSeen, reached>>

\* stillOurs: node has not seen the client exit.
StillOurs == ~exitSeen

NodeAnswersHelper ==
    /\ helper.at = "held"
    /\ IF StillOurs
       THEN /\ helper' = [helper EXCEPT !.at = "end", !.queue = <<ClientPid>>]
            /\ reached' = {h.born : h \in helper.held}
            /\ UNCHANGED run
       ELSE HelperSays("failed") /\ UNCHANGED reached
    /\ UNCHANGED <<procs, births, exitSeen, refusals>>

\* End: the process is ended and waited for, unless it cannot be.
EndOne ==
    /\ helper.at = "end" /\ helper.queue # <<>>
    /\ LET one == Head(helper.queue) IN
       \/ /\ procs' = [procs EXCEPT ![one].alive = FALSE]
          /\ helper' = [helper EXCEPT !.at = "list"] /\ UNCHANGED refusals
       \/ /\ procs[one].alive /\ Refused
          /\ helper' = [helper EXCEPT !.at = "list", !.problem = TRUE] /\ UNCHANGED procs
    /\ UNCHANGED <<births, exitSeen, run, reached>>

Children(parent) == {p \in ClientPids \ {parent} : procs[p].alive /\ procs[p].ppid = parent}

\* ChildrenOf: one listing, which may stop before its end.
ListChildren ==
    /\ helper.at = "list"
    /\ LET found == Children(Head(helper.queue)) IN
       \/ helper' = [helper EXCEPT !.at = "children", !.opens = found] /\ UNCHANGED refusals
       \/ Refused /\ \E some \in SUBSET found :
            helper' = [helper EXCEPT !.at = "children", !.opens = some, !.problem = TRUE]
    /\ UNCHANGED <<procs, births, exitSeen, run, reached>>

\* Classify, when every read succeeded: on its own handle, the child names the
\* parent and was born no earlier.
Classify(p, parent) ==
    IF ~CanOpen(p) THEN "gone"
    ELSE IF procs[p].ppid = parent.pid /\ procs[p].born >= parent.born THEN "ours" ELSE "foreign"

\* Only "no such process" is gone: a read that failed is a problem.
IsProblem(kind) == kind = "unknown"

OpenChild(p) ==
    /\ helper.at = "children" /\ p \in helper.opens
    /\ LET parent == CHOOSE h \in helper.held : h.pid = Head(helper.queue) IN
       \E kind \in {Classify(p, parent), "unknown"} :
         /\ IF kind = "unknown" THEN CanOpen(p) /\ Refused ELSE UNCHANGED refusals
         /\ helper' =
              IF kind = "ours"
              THEN [helper EXCEPT !.opens = @ \ {p}, !.queue = Append(@, p),
                                  !.held = @ \cup {[pid |-> p, born |-> procs[p].born]}]
              ELSE [helper EXCEPT !.opens = @ \ {p}, !.problem = @ \/ IsProblem(kind)]
         /\ reached' = IF kind = "ours" THEN reached \cup {procs[p].born} ELSE reached
    /\ UNCHANGED <<procs, births, exitSeen, run>>

NextOne ==
    /\ helper.at = "children" /\ helper.opens = {}
    /\ helper' = [helper EXCEPT !.at = "end", !.queue = Tail(@)]
    /\ UNCHANGED <<procs, births, exitSeen, run, reached, refusals>>

HelperIsDone ==
    /\ helper.at = "end" /\ helper.queue = <<>>
    /\ HelperSays(IF helper.problem THEN "failed" ELSE "done")
    /\ UNCHANGED <<procs, births, exitSeen, reached, refusals>>

\* It dies, or ends with an error of its own: its handles are let go of.
HelperDies ==
    /\ helper.at \notin {"no", "over"} /\ Refused
    /\ HelperSays("failed")
    /\ UNCHANGED <<procs, births, exitSeen, reached>>

ClientRunNext ==
    \/ \E p, q \in ClientPids : ProcessForks(p, q)
    \/ \E p \in ClientPids : StrangerStarts(p) \/ ProcessExits(p) \/ OpenChild(p)
    \/ NodeSeesExit \/ ClientCloses \/ EndRun \/ KillDeadline
    \/ OpenRoot \/ NodeAnswersHelper \/ EndOne \/ ListChildren \/ NextOne \/ HelperIsDone \/ HelperDies

\* The timers fire.  Nothing is assumed of the helper.
ClientRunSpec ==
    ClientRunInit /\ [][ClientRunNext]_clientRunVars /\ WF_clientRunVars(EndRun) /\ WF_clientRunVars(KillDeadline)

(***************************************************************************)
(* Properties.                                                             *)
(***************************************************************************)
\* Whatever the helper has been told to end is the client or came from it, and
\* is still the process that was opened (held-process-tree.mjs:8-29).
HeldAreOurs ==
    helper.at \in {"end", "list", "children"} =>
        \A h \in helper.held : procs[h.pid].born = h.born /\ procs[h.pid].ours

\* A run that started a kill and says nothing of it has left neither the client
\* nor a child of any process the helper reached (provider-child.mjs:107-112).
CleanMeansGone ==
    run.killing /\ run.settled = "clean" =>
        \A p \in ClientPids : procs[p].alive => procs[p].born # ClientBirth /\ procs[p].from \notin reached

ClientRunIsHonest == HeldAreOurs /\ CleanMeansGone

\* A run settles: a client that hangs, a helper that hangs and a client that
\* nothing can end do not hold the plugin's stop.
RunSettles == <>(run.settled # "no")

=============================================================================
