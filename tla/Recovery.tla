------------------------------ MODULE Recovery ------------------------------
(***************************************************************************)
(* What a new environment does about the processes an earlier one left on  *)
(* record: the takeover of an incumbent (bin/aify-env.mjs, the port's error *)
(* handler), lib/successor-recovery.mjs with its plan (lib/orphan-reap.mjs) *)
(* and its kills (lib/recovered-process-termination.mjs).                  *)
(*                                                                         *)
(* Three parties share one record file: the successor (modelled in full),  *)
(* the predecessor whose port it wants, and any other instance.  Of those   *)
(* two the model keeps what the successor can notice: they live or die,    *)
(* their children end, their rows are retired or, by a legacy predecessor's *)
(* last act, all rows are cleared.                                         *)
(***************************************************************************)

EXTENDS Naturals

CONSTANTS
    Kids,           \* recorded children
    Predecessor,    \* the environment that may hold the port
    Others,         \* other environments sharing the record file
    Platforms,      \* kinds of host explored
    Evidence,       \* what a row may say of its owner: birth, pid, malformed
    MaxCrashes      \* bound on crashes of the successor

Owners == Others \cup {Predecessor}

ASSUME OwnersAssumption == Predecessor \notin Others
ASSUME PlatformsAssumption == Platforms \subseteq {"linux", "win32"}
ASSUME EvidenceAssumption == Evidence \subseteq {"birth", "pid", "malformed"}
ASSUME CrashesAssumption == MaxCrashes \in Nat

VARIABLES
    platform,
    legacy,         \* the predecessor clears the whole record as it ends
    ownerOf,        \* the owner each row names
    evidence,       \* and the evidence it keeps of it
    scoped,         \* rows that record a POSIX group
    owner,          \* alive, gone, or gone with its pid given to a stranger
    port,           \* the predecessor still listens
    child,          \* each child: running, gone, or its number reused
    tree,           \* children with a descendant still running: in the
                    \* recorded group (Linux) or reachable (Windows)
    file,           \* the rows on disk
    takeover,       \* what the successor is doing
    displaced,      \* it captured the predecessor's birth and supersedes it
    ownerGone,      \* SuccessorRecovery.#ownerGone
    remembered,     \* #snapshot
    confirmed,      \* #confirmedGone
    unresolved,     \* #unresolved (of the attempt under way, while there is one)
    todo,           \* the plan's reap list, what is left of it
    beingEnded,     \* the child being ended now
    saved,          \* both deltas were written
    admitted,       \* a start was admitted
    wronged,        \* wrong targets signalled
    letGo,          \* history: rows their own living owner has retired
    crashes

facts == <<platform, legacy, ownerOf, evidence, scoped>>
world == <<owner, port, child, tree, letGo>>
memory == <<displaced, ownerGone, remembered, confirmed, unresolved, todo, beingEnded, saved>>
takeoverVars == <<facts, world, file, takeover, memory, admitted, wronged, crashes>>

TakeoverTypeOK ==
    /\ platform \in Platforms /\ legacy \in BOOLEAN
    /\ ownerOf \in [Kids -> Owners] /\ evidence \in [Kids -> Evidence]
    /\ owner \in [Owners -> {"alive", "gone", "reused"}] /\ port \in BOOLEAN
    /\ child \in [Kids -> {"running", "gone", "reused"}]
    /\ takeover \in {"boot", "superseding", "binding", "loading", "reaping", "held",
                  "ready", "exited"}
    /\ scoped \subseteq Kids /\ tree \subseteq Kids /\ file \subseteq Kids
    /\ remembered \subseteq Kids /\ confirmed \subseteq Kids /\ unresolved \subseteq Kids
    /\ todo \subseteq Kids /\ beingEnded \subseteq Kids /\ wronged \subseteq Kids
    /\ letGo \subseteq Kids
    /\ displaced \in BOOLEAN /\ ownerGone \in BOOLEAN
    /\ saved \in BOOLEAN /\ admitted \in BOOLEAN
    /\ crashes \in 0..MaxCrashes

\* Every child has a row; who is alive when the successor boots is open, and
\* a predecessor that listens is alive.
TakeoverInit ==
    /\ platform \in Platforms /\ legacy \in BOOLEAN
    /\ ownerOf \in [Kids -> Owners] /\ evidence \in [Kids -> Evidence]
    /\ scoped \in IF platform = "linux" THEN SUBSET Kids ELSE {{}}
    /\ owner \in [Owners -> {"alive", "gone"}]
    /\ port \in {FALSE, owner[Predecessor] = "alive"}
    /\ child = [k \in Kids |-> "running"] /\ tree = {} /\ file = Kids
    /\ letGo = {}
    /\ takeover = "boot" /\ displaced = FALSE /\ ownerGone = FALSE
    /\ remembered = {} /\ confirmed = {} /\ unresolved = {} /\ todo = {} /\ beingEnded = {}
    /\ saved = FALSE /\ admitted = FALSE /\ wronged = {} /\ crashes = 0

-----------------------------------------------------------------------------
(* Observation *)

\* Something of k still runs.
Alive(k) == child[k] = "running" \/ k \in tree

\* Something of what its row records still runs: the root, or a member of the
\* recorded group.  A row without a scope speaks of its root alone.
ScopeRuns(k) == child[k] = "running" \/ (k \in scoped /\ k \in tree)

\* One shared probe may fail to answer for any pid.  "other" is an answer from
\* somebody else's process at the same number.
OwnerAnswers(o) ==
    {"unknown", CASE owner[o] = "alive" -> "same" [] owner[o] = "gone" -> "gone"
                  [] owner[o] = "reused" -> "other"}
KidAnswers(k) ==
    {"unknown", CASE child[k] = "running" -> "same" [] child[k] = "gone" -> "gone"
                  [] child[k] = "reused" -> "other"}

\* ownerReapState: may k be reaped as far as its owner goes?  Only a birth on
\* record can use the exception for the displaced owner, still alive or not.
Permission(k, answer) ==
    CASE evidence[k] = "malformed" -> "unknown"
      [] evidence[k] = "birth" /\ displaced /\ ownerOf[k] = Predecessor -> "allowed"
      [] OTHER ->
           CASE answer = "gone" -> "allowed"
             [] answer = "other" -> IF evidence[k] = "birth" THEN "allowed" ELSE "protected"
             [] answer = "same" -> "protected"
             [] answer = "unknown" -> "unknown"

\* absentRoot: a recorded group that answers ESRCH.
GroupIsGone(k) == k \in scoped /\ child[k] = "gone" /\ k \notin tree

(* Taking over *)

\* The port is free, or no incumbent is in the way: listen and recover.
Bind ==
    /\ takeover \in {"boot", "binding"} /\ ~port
    /\ takeover' = "loading"
    /\ UNCHANGED <<facts, world, file, memory, admitted, wronged, crashes>>

\* The port is held by an idle environment (or --force).  Its birth is
\* captured and the rows are remembered before anything is signalled.
Supersede ==
    /\ takeover = "boot" /\ port
    /\ \/ /\ owner[Predecessor] = "alive"
          /\ takeover' = "superseding" /\ displaced' = TRUE
          /\ remembered' \in {remembered, remembered \cup file}
          /\ UNCHANGED <<ownerGone, confirmed, unresolved, todo, beingEnded, saved>>
       \/ takeover' = "exited" /\ UNCHANGED memory
    /\ UNCHANGED <<facts, world, file, admitted, wronged, crashes>>

\* TERM, later KILL, to the root alone and only while it is the same birth.
\* Whether it dies of it is the world's step.  A probe may end the attempt.
SignalIncumbent ==
    /\ takeover = "superseding"
    /\ takeover' = "binding"
    /\ UNCHANGED <<facts, world, file, memory, admitted, wronged, crashes>>

\* Still held after 20 waits and a second listen.
GiveUp ==
    /\ takeover = "binding" /\ port
    /\ takeover' = "exited"
    /\ UNCHANGED <<facts, world, file, memory, admitted, wronged, crashes>>

(* Recovering *)

\* #perform up to the first kill: load, one shared probe, the plan, and the
\* verdict on everything it skips.
Plan ==
    /\ takeover = "loading"
    /\ \E loaded \in {{}, file} :
       LET rows == remembered \cup loaded
           entries == rows \ confirmed
       IN  \E kid \in [entries -> {"same", "gone", "other", "unknown"}],
              own \in [Owners -> {"same", "gone", "other", "unknown"}] :
             /\ \A k \in entries : kid[k] \in KidAnswers(k)
             /\ \A o \in Owners : own[o] \in OwnerAnswers(o)
             /\ LET allowed == {k \in entries : Permission(k, own[ownerOf[k]]) = "allowed"}
                    reap == {k \in allowed : kid[k] = "same"}
                    absent == {k \in allowed : kid[k] = "gone" /\ GroupIsGone(k)}
                IN  /\ remembered' = rows
                    /\ todo' = reap
                    /\ confirmed' = confirmed \cup absent
                    /\ unresolved' = entries \ (reap \cup absent)
    /\ takeover' = "reaping"
    /\ UNCHANGED <<facts, world, file, displaced, ownerGone, beingEnded, saved, admitted,
                   wronged, crashes>>

\* termination.child for the next row: a fresh look must still find the
\* recorded child (Linux: its token, in its own recorded group; Windows: the
\* held handle's birth is the probed one).  Only then is anything signalled.
BeginEnd(k) ==
    /\ takeover = "reaping" /\ k \in todo /\ beingEnded = {}
    /\ child[k] = "running"
    /\ platform = "linux" => k \in scoped
    /\ todo' = todo \ {k} /\ beingEnded' = {k}
    /\ wronged' = wronged \cup
         {j \in {k} : \/ child[k] # "running"
                      \/ /\ owner[ownerOf[k]] = "alive"
                         /\ ~(displaced /\ ownerOf[k] = Predecessor)}
    /\ UNCHANGED <<facts, world, file, takeover, displaced, ownerGone, remembered, confirmed,
                   unresolved, saved, admitted, crashes>>

\* The fresh look refused, or did not answer.  A root found gone on Linux is
\* still confirmed if its group is.
RefuseEnd(k) ==
    /\ takeover = "reaping" /\ k \in todo /\ beingEnded = {}
    /\ todo' = todo \ {k}
    /\ \/ /\ platform = "linux" /\ GroupIsGone(k)
          /\ confirmed' = confirmed \cup {k} /\ UNCHANGED unresolved
       \/ unresolved' = unresolved \cup {k} /\ UNCHANGED confirmed
    /\ UNCHANGED <<facts, world, file, takeover, displaced, ownerGone, remembered, beingEnded,
                   saved, admitted, wronged, crashes>>

\* The bounded attempt ends: the matching scope is confirmed gone, or not.
\* On Windows the scope is what the held root could reach.
FinishEnd(k) ==
    /\ takeover = "reaping" /\ beingEnded = {k}
    /\ beingEnded' = {}
    /\ \/ ~Alive(k) /\ confirmed' = confirmed \cup {k} /\ UNCHANGED unresolved
       \/ unresolved' = unresolved \cup {k} /\ UNCHANGED confirmed
    /\ UNCHANGED <<facts, world, file, takeover, displaced, ownerGone, remembered, todo, saved,
                   admitted, wronged, crashes>>

\* The fence: the original writer is not positively gone, so nothing is
\* written and nothing admitted.
Hold ==
    /\ takeover = "reaping" /\ todo = {} /\ beingEnded = {}
    /\ displaced /\ ~ownerGone
    /\ \E answer \in OwnerAnswers(Predecessor) : answer \in {"same", "unknown"}
    /\ takeover' = "held"
    /\ UNCHANGED <<facts, world, file, memory, admitted, wronged, crashes>>

\* The displaced owner is positively gone: remembered, or answered now.
FenceOpen ==
    \/ ~displaced \/ ownerGone
    \/ \E answer \in OwnerAnswers(Predecessor) : answer \in {"gone", "other"}

\* The record after the two deltas, either of which may fail to be written.
\* (Mutant: the file is rewritten from what is unresolved.)
RowsRewritten(retained, retired) == IF retired THEN unresolved ELSE file

RowsAfter(retained, retired) ==
    (file \cup IF retained THEN unresolved ELSE {}) \ IF retired THEN confirmed ELSE {}

\* The fence opens: retain what is unresolved, retire what is confirmed.
Open ==
    /\ takeover = "reaping" /\ todo = {} /\ beingEnded = {}
    /\ FenceOpen
    /\ ownerGone' = (displaced \/ ownerGone)
    /\ \E retained, retired \in BOOLEAN :
         /\ file' = RowsAfter(retained, retired)
         /\ saved' = (retained /\ retired)
    /\ takeover' = "ready"
    /\ UNCHANGED <<facts, world, displaced, remembered, confirmed, unresolved, todo, beingEnded,
                   admitted, wronged, crashes>>

\* admitStart: an explicit start request re-runs a held recovery, joins one
\* that is running, or is admitted.
RequestAgain ==
    /\ takeover = "held"
    /\ takeover' = "loading"
    /\ UNCHANGED <<facts, world, file, memory, admitted, wronged, crashes>>

AdmitStart ==
    /\ takeover = "ready" /\ ~admitted
    /\ admitted' = TRUE
    /\ UNCHANGED <<facts, world, file, takeover, memory, wronged, crashes>>

\* The successor itself dies; another boots in its place and remembers nothing.
Crash ==
    /\ crashes < MaxCrashes
    /\ crashes' = crashes + 1
    /\ takeover' = "boot" /\ displaced' = FALSE /\ ownerGone' = FALSE /\ saved' = FALSE
    /\ remembered' = {} /\ confirmed' = {} /\ unresolved' = {} /\ todo' = {} /\ beingEnded' = {}
    /\ admitted' = FALSE
    /\ UNCHANGED <<facts, world, file, wronged>>

(* The predecessor, the others and the operating system *)

\* The owner's runner retires the exact row when the root's exit is seen or its
\* stop verified.  Only of a group it owns does it wait for the descendants: of a
\* terminal, or of a child on Windows, they may run on.
OwnerRetires(k) ==
    /\ owner[ownerOf[k]] = "alive" /\ ~ScopeRuns(k) /\ k \in file
    /\ file' = file \ {k} /\ letGo' = letGo \cup {k}
    /\ UNCHANGED <<owner, port, child, tree>>

\* Its shutdown closes the listener first and goes on writing afterwards.
PortCloses ==
    /\ port /\ port' = FALSE
    /\ UNCHANGED <<owner, child, tree, file, letGo>>

\* A legacy predecessor's clear: every row, its own or not.
LegacyClears ==
    /\ legacy /\ owner[Predecessor] = "alive"
    /\ file' = {}
    /\ UNCHANGED world

OwnerDies(o) ==
    /\ owner[o] = "alive"
    /\ owner' = [owner EXCEPT ![o] = "gone"]
    /\ port' = (port /\ o # Predecessor)
    /\ UNCHANGED <<child, tree, file, letGo>>

OwnerReused(o) ==
    /\ owner[o] = "gone"
    /\ owner' = [owner EXCEPT ![o] = "reused"]
    /\ UNCHANGED <<port, child, tree, file, letGo>>

KidForks(k) ==
    /\ child[k] = "running" /\ k \notin tree
    /\ tree' = tree \cup {k}
    /\ UNCHANGED <<owner, port, child, file, letGo>>

KidDies(k) ==
    /\ child[k] = "running"
    /\ child' = [child EXCEPT ![k] = "gone"]
    /\ UNCHANGED <<owner, port, tree, file, letGo>>

TreeEnds(k) ==
    /\ k \in tree
    /\ tree' = tree \ {k}
    /\ UNCHANGED <<owner, port, child, file, letGo>>

\* A Linux group number is free only once its group is empty; the number of a
\* child being ended is being polled every 10 ms.
KidReused(k) ==
    /\ child[k] = "gone" /\ k \notin beingEnded
    /\ platform = "linux" => k \notin tree
    /\ child' = [child EXCEPT ![k] = "reused"]
    /\ UNCHANGED <<owner, port, tree, file, letGo>>

Elsewhere ==
    /\ \/ PortCloses \/ LegacyClears
       \/ \E o \in Owners : OwnerDies(o) \/ OwnerReused(o)
       \/ \E k \in Kids : \/ OwnerRetires(k) \/ KidForks(k) \/ KidDies(k)
                          \/ TreeEnds(k) \/ KidReused(k)
    /\ UNCHANGED <<facts, takeover, memory, admitted, wronged, crashes>>

-----------------------------------------------------------------------------
Reap == \E k \in Kids : BeginEnd(k) \/ RefuseEnd(k) \/ FinishEnd(k)

Successor ==
    \/ Bind \/ Supersede \/ SignalIncumbent \/ GiveUp \/ Plan \/ Reap
    \/ Hold \/ Open \/ RequestAgain \/ AdmitStart \/ Crash

TakeoverNext == Successor \/ Elsewhere

\* Each await settles within its own bound; start requests keep coming; and a
\* probe that is asked again and again answers some day.
TakeoverFairness ==
    /\ WF_takeoverVars(Bind) /\ WF_takeoverVars(SignalIncumbent) /\ WF_takeoverVars(Plan) /\ WF_takeoverVars(Reap)
    /\ WF_takeoverVars(Hold \/ Open) /\ SF_takeoverVars(Open) /\ WF_takeoverVars(RequestAgain)

TakeoverSpec == TakeoverInit /\ [][TakeoverNext]_takeoverVars /\ TakeoverFairness

-----------------------------------------------------------------------------
(* Properties *)

\* What a row is owed for: something of its scope runs, or something of its
\* child at all, and its own owner has not let go of it.
RowOwed(k) == ScopeRuns(k) \/ (Alive(k) /\ k \notin letGo)

\* A row is never lost while what it records runs; and while only a descendant
\* it does not record runs, none but its living owner lets go of it: neither the
\* takeover, nor a crash of the successor at any point of it, nor another owner's
\* retirements (docs/OWNED-PROCESS-RECOVERY-v1.md:37-41).
RowsOutliveTrees ==
    ~legacy => \A k \in Kids : RowOwed(k) => k \in file

\* Rows a legacy predecessor cleared after they were remembered are back on
\* disk once the takeover is complete, for every child still owed one: the
\* fence keeps the last write for the successor.
ClearedRowsComeBack ==
    displaced /\ takeover = "ready" /\ saved =>
        \A k \in remembered : RowOwed(k) => k \in file

\* "Confirmed" is never said of a child of which something still runs.
ConfirmedIsGone == \A k \in confirmed : ~Alive(k)

\* No signal reaches a stranger at a reused number, nor a child whose owner is
\* alive and is not the one being displaced.
OnlyOrphansAreStruck == wronged = {}

\* Nothing is admitted, and nothing written, while the displaced predecessor
\* is alive and could still write: a freed port is not that proof.
FenceHolds ==
    displaced /\ (takeover = "ready" \/ admitted) => owner[Predecessor] # "alive"

TakeoverIsSafe ==
    /\ TakeoverTypeOK /\ RowsOutliveTrees /\ ClearedRowsComeBack
    /\ ConfirmedIsGone /\ OnlyOrphansAreStruck /\ FenceHolds

\* A held successor becomes ready once its predecessor has gone.
HeldAlone == takeover = "held" /\ owner[Predecessor] # "alive"
Answered == takeover \in {"ready", "boot"}

HoldEnds == HeldAlone ~> Answered
=============================================================================
