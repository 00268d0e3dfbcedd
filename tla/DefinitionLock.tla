--------------------------- MODULE DefinitionLock ---------------------------
(***************************************************************************)
(* The definition store's lock: lib/definition-lock.mjs over               *)
(* lib/lock-break.mjs.  Several processes share a folder; each step below  *)
(* is one call to the file system, and any process may die between two.    *)
(*                                                                         *)
(* A lock file's content is a text only one process ever writes (it names  *)
(* the pid and carries a nonce), so a text stands for a file's content and  *)
(* for the name of its guard, and the folder is one function: file[Lock] is *)
(* the lock, and file[t] is the guard that must be held to delete a file    *)
(* holding t.  Lock is also the content of a file that is not there.  A     *)
(* text that no file holds, that names no guard in the folder and that no   *)
(* process remembers may be minted again.                                   *)
(***************************************************************************)
EXTENDS Naturals

CONSTANTS
    Procs,          \* processes that use the store, one call at a time each
    Operators,      \* those that may also run the operator's unlock
    Crashers,       \* those that may die
    Remote,         \* those on another host that shares the folder
    Texts,          \* bounds the texts alive at once
    Writer,         \* who writes each text
    Lock,           \* the lock's name, and "no text"
    MaxDepth        \* MAX_DEPTH of guards of guards

ASSUME ProcsAssumption ==
    Operators \subseteq Procs /\ Crashers \subseteq Procs /\ Remote \subseteq Procs
ASSUME TextsAssumption == Writer \in [Texts -> Procs] /\ Lock \notin Texts
ASSUME DepthAssumption == MaxDepth \in Nat

NoText == Lock
Paths == Texts \cup {Lock}

VARIABLES
    run,            \* alive, dead, or dead with its pid given to a stranger
    stage,          \* the file-system call each process makes next
    path,           \* the file it is judging
    text,           \* what it read there
    depth,          \* how many guards down that is
    mine,           \* the text of the lock or the guard it holds
    file            \* the folder

judging == <<path, text, depth>>
vars == <<run, stage, judging, mine, file>>

Guarding == {"rereading", "unlinking", "unguarding"}
Breaking == {"judging", "guarding", "reclaiming"} \cup Guarding

\* Every variable has its type; a process in a call is alive, one that judges
\* has read a text, and one that holds the lock or a guard wrote its content.
TypeOK ==
    /\ run \in [Procs -> {"alive", "dead", "reused"}]
    /\ stage \in [Procs -> {"idle", "creating", "reading", "judging", "guarding",
                            "reclaiming", "rereading", "unlinking", "unguarding",
                            "holding", "releasing"}]
    /\ path \in [Procs -> Paths] /\ text \in [Procs -> Paths]
    /\ depth \in [Procs -> 0..MaxDepth + 1]
    /\ mine \in [Procs -> Paths] /\ file \in [Paths -> Paths]
    /\ \A p \in Procs :
         /\ stage[p] # "idle" => run[p] = "alive"
         /\ stage[p] \in Breaking => text[p] \in Texts
         /\ stage[p] \in Guarding \cup {"holding", "releasing"} =>
              mine[p] \in Texts /\ Writer[mine[p]] = p

Init ==
    /\ run = [p \in Procs |-> "alive"]
    /\ stage = [p \in Procs |-> "idle"]
    /\ path = [p \in Procs |-> Lock]
    /\ text = [p \in Procs |-> NoText]
    /\ depth = [p \in Procs |-> 0]
    /\ mine = [p \in Procs |-> NoText]
    /\ file = [f \in Paths |-> NoText]

-----------------------------------------------------------------------------
Goes(p, next) == stage' = [stage EXCEPT ![p] = next]

At(p, now) == run[p] = "alive" /\ stage[p] = now

\* createWhole: the text is written aside and linked into place, all or nothing.
Fresh(t) ==
    /\ file[t] = NoText /\ \A f \in Paths : file[f] # t
    /\ \A q \in Procs : text[q] # t /\ mine[q] # t

CreateWhole(p, f, t) ==
    /\ file[f] = NoText /\ Writer[t] = p /\ Fresh(t)
    /\ file' = [file EXCEPT ![f] = t]
    /\ mine' = [mine EXCEPT ![p] = t]

\* removeIfStill answered, either way: the caller tries again, or gives up at
\* its deadline; a sweep or an unlock returns.
Back(p) ==
    /\ \E next \in {"creating", "idle"} :
         /\ next = "creating" => p \notin Operators
         /\ Goes(p, next)
    /\ path' = [path EXCEPT ![p] = Lock]
    /\ text' = [text EXCEPT ![p] = NoText]
    /\ depth' = [depth EXCEPT ![p] = 0]

(* take() *)

\* The operator's unlock is a process of its own, which takes no lock.
Call(p) ==
    /\ p \notin Operators /\ At(p, "idle")
    /\ Goes(p, "creating")
    /\ UNCHANGED <<run, judging, mine, file>>

Create(p) ==
    /\ At(p, "creating")
    /\ \/ /\ \E t \in Texts : CreateWhole(p, Lock, t)
          /\ Goes(p, "holding")
       \/ /\ file[Lock] # NoText
          /\ Goes(p, "reading")
          /\ UNCHANGED <<mine, file>>
    /\ UNCHANGED <<run, judging>>

ReadLock(p) ==
    /\ At(p, "reading")
    /\ IF file[Lock] = NoText THEN Back(p)
       ELSE /\ Goes(p, "judging")
            /\ path' = [path EXCEPT ![p] = Lock]
            /\ text' = [text EXCEPT ![p] = file[Lock]]
            /\ depth' = [depth EXCEPT ![p] = 0]
    /\ UNCHANGED <<run, mine, file>>

(* Judging a holder *)

SameHost(p, w) == p \in Remote <=> w \in Remote

\* (Mutant: the hosts are compared the wrong way round.)
MayJudgeForeign(p) ==
    LET w == Writer[text[p]] IN ~SameHost(p, w) /\ run[w] = "dead"

\* The holder is proven gone: signal 0 says ESRCH, of a pid on this host.  The
\* operator's unlock asks the pid alone of the lock, wherever its holder is.
MayJudgeGone(p) ==
    LET w == Writer[text[p]] IN
    \/ SameHost(p, w) /\ run[w] = "dead"
    \/ ~SameHost(p, w) /\ p \in Operators /\ path[p] = Lock

Judge(p) ==
    /\ At(p, "judging")
    /\ \/ /\ MayJudgeGone(p) /\ Goes(p, "guarding") /\ UNCHANGED judging
       \/ ~(SameHost(p, Writer[text[p]]) /\ run[Writer[text[p]]] = "dead") /\ Back(p)
    /\ UNCHANGED <<run, mine, file>>

(* removeIfStill *)

TakeGuard(p) ==
    /\ At(p, "guarding")
    /\ \/ /\ depth[p] > MaxDepth /\ Back(p)
          /\ UNCHANGED <<mine, file>>
       \/ /\ depth[p] <= MaxDepth /\ file[text[p]] = NoText
          /\ \E g \in Texts : CreateWhole(p, text[p], g)
          /\ Goes(p, "rereading")
          /\ UNCHANGED judging
       \/ /\ depth[p] <= MaxDepth /\ file[text[p]] # NoText
          /\ Goes(p, "reclaiming")
          /\ UNCHANGED <<judging, mine, file>>
    /\ UNCHANGED run

\* The guard is held: is its holder dead?  Then it goes by the same rule.
Reclaim(p) ==
    /\ At(p, "reclaiming")
    /\ IF file[text[p]] = NoText THEN Back(p)
       ELSE /\ Goes(p, "judging")
            /\ path' = [path EXCEPT ![p] = text[p]]
            /\ text' = [text EXCEPT ![p] = file[text[p]]]
            /\ depth' = [depth EXCEPT ![p] = @ + 1]
    /\ UNCHANGED <<run, mine, file>>

\* (Mutant: what was judged is not read again under the guard.)
RereadNot(p) ==
    /\ At(p, "rereading")
    /\ Goes(p, "unlinking")
    /\ UNCHANGED <<run, judging, mine, file>>

Reread(p) ==
    /\ At(p, "rereading")
    /\ Goes(p, IF file[path[p]] = text[p] THEN "unlinking" ELSE "unguarding")
    /\ UNCHANGED <<run, judging, mine, file>>

\* By path: whatever the file holds now.
Unlink(p) ==
    /\ At(p, "unlinking")
    /\ file' = [file EXCEPT ![path[p]] = NoText]
    /\ Goes(p, "unguarding")
    /\ UNCHANGED <<run, judging, mine>>

Unguard(p) ==
    /\ At(p, "unguarding")
    /\ file' = [file EXCEPT ![text[p]] = NoText]
    /\ mine' = [mine EXCEPT ![p] = NoText]
    /\ Back(p)
    /\ UNCHANGED run

(* release() *)

ReadOwn(p) ==
    /\ At(p, "holding")
    /\ IF file[Lock] = mine[p]
       THEN Goes(p, "releasing") /\ UNCHANGED mine
       ELSE Goes(p, "idle") /\ mine' = [mine EXCEPT ![p] = NoText]
    /\ UNCHANGED <<run, judging, file>>

Release(p) ==
    /\ At(p, "releasing")
    /\ file' = [file EXCEPT ![Lock] = NoText]
    /\ mine' = [mine EXCEPT ![p] = NoText]
    /\ Goes(p, "idle")
    /\ UNCHANGED <<run, judging>>

(* The operator's unlock: sweep the dead guards, then judge the lock *)

SweepGuard(p, t) ==
    /\ p \in Operators /\ At(p, "idle") /\ file[t] # NoText
    /\ Goes(p, "judging")
    /\ path' = [path EXCEPT ![p] = t]
    /\ text' = [text EXCEPT ![p] = file[t]]
    /\ depth' = [depth EXCEPT ![p] = 1]
    /\ UNCHANGED <<run, mine, file>>

UnlockStore(p) ==
    /\ p \in Operators /\ At(p, "idle")
    /\ Goes(p, "reading")
    /\ UNCHANGED <<run, judging, mine, file>>

(* The operating system *)

\* A process dies with everything it remembered; its files stay.
Crash(p) ==
    /\ p \in Crashers /\ run[p] = "alive"
    /\ run' = [run EXCEPT ![p] = "dead"]
    /\ Goes(p, "idle")
    /\ path' = [path EXCEPT ![p] = Lock]
    /\ text' = [text EXCEPT ![p] = NoText]
    /\ depth' = [depth EXCEPT ![p] = 0]
    /\ mine' = [mine EXCEPT ![p] = NoText]
    /\ UNCHANGED file

\* Its pid is given to a stranger, which reads as a live holder.
Reused(p) ==
    /\ run[p] = "dead"
    /\ run' = [run EXCEPT ![p] = "reused"]
    /\ UNCHANGED <<stage, judging, mine, file>>

-----------------------------------------------------------------------------
Take(p) == Call(p) \/ Create(p) \/ ReadLock(p)

Break(p) ==
    \/ Judge(p) \/ TakeGuard(p) \/ Reclaim(p) \/ Reread(p) \/ Unlink(p) \/ Unguard(p)

Step(p) == Take(p) \/ Break(p) \/ ReadOwn(p) \/ Release(p)

Next ==
    \E p \in Procs :
        \/ Step(p) \/ UnlockStore(p) \/ Crash(p) \/ Reused(p)
        \/ \E t \in Texts : SweepGuard(p, t)

\* A live process goes on with the call it is in, and calls come again.
Fairness == \A p \in Procs : WF_vars(Step(p))

Spec == Init /\ [][Next]_vars /\ Fairness

-----------------------------------------------------------------------------
(* Properties *)

\* A hold is never taken from a live process, so no two calls work in the
\* store at once: nobody deletes a lock by its path after another lock has
\* replaced the one it judged (the first fault in lib/lock-break.mjs's history).
HolderKeepsLock ==
    \A p \in Procs : stage[p] \in {"holding", "releasing"} => file[Lock] = mine[p]

\* Nor is a guard taken from a live breaker: the second and third faults of
\* that history.
GuardIsKept ==
    \A p \in Procs : stage[p] \in Guarding => file[text[p]] = mine[p]

\* A file is deleted only while it holds exactly what was judged.
DeletesWhatItJudged ==
    [][\A p \in Procs : Unlink(p) => file[path[p]] = text[p]]_vars

\* The three faults of that history at once.
LockIsSafe == [](HolderKeepsLock /\ GuardIsKept) /\ DeletesWhatItJudged

\* A lock whose holder died does not stay, however many breakers died over it,
\* while no dead process's pid reads as live and a caller is left alive.
DeadLockIsBroken ==
    [](\A p \in Procs : run[p] # "reused") =>
        \A p \in Crashers :
            run[p] = "dead" ~> ~(file[Lock] # NoText /\ Writer[file[Lock]] = p)

\* What the unlock says of itself (lib/definition-lock.mjs:153): it removes the
\* lock only when its holder is not running.
UnlockSparesTheRunning ==
    \A p \in Operators :
        stage[p] = "unlinking" /\ path[p] = Lock => run[Writer[text[p]]] # "alive"
=============================================================================
