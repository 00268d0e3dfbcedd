---------------------------- MODULE FilesProofs ----------------------------
(***************************************************************************)
(* Of what is kept on files, for any number of processes, ports, services   *)
(* and clients: the definition store's lock when an unlock runs on the host *)
(* of the holders, which environment a command means, what a guided         *)
(* installation runs, and the credential that several starts store at once; *)
(* and of the folders that are watched and swept, for any number of them.   *)
(*                                                                         *)
(* The lock's argument.  A text is only ever written by one process, and    *)
(* whatever is being deleted was written by a process that is dead; death   *)
(* is final.  A live process's lock and guards therefore never match what   *)
(* another one deletes, and two breakers of one text would need the same    *)
(* guard.                                                                   *)
(***************************************************************************)
EXTENDS DefinitionLock, EnvChoice, InstallChain, CredentialStore, HeadWatch, SweepRuns, FiniteSetTheorems, TLAPS

-----------------------------------------------------------------------------
(* The lock *)

\* An unlock sees every holder's process: nobody shares the folder from
\* another host, or nobody unlocks from another host than the holders'.
OneHost == \A o \in Operators, p \in Procs : SameHost(o, p)

\* What a process works to delete was written by a process that is gone.
Condemned == Breaking \ {"judging"}
JudgedIsDead ==
    \A p \in Procs : stage[p] \in Condemned => run[Writer[text[p]]] # "alive"

\* A guard's depth is bounded before the next level is judged.
DepthIsBounded == \A p \in Procs : stage[p] = "reclaiming" => depth[p] <= MaxDepth

\* A file about to be deleted still holds what was judged.
StillJudged == \A p \in Procs : stage[p] = "unlinking" => file[path[p]] = text[p]

Inv == TypeOK /\ JudgedIsDead /\ DepthIsBounded /\ StillJudged
       /\ HolderKeepsLock /\ GuardIsKept

-----------------------------------------------------------------------------
\* The folder starts empty and nobody is in a call.
LEMMA InitInv == Init => Inv
<1> SUFFICES ASSUME Init PROVE Inv
  OBVIOUS
<1>1. TypeOK
  BY TextsAssumption, DepthAssumption
     DEF Init, TypeOK, Breaking, Guarding, Paths, NoText
<1>2. JudgedIsDead /\ DepthIsBounded /\ StillJudged /\ HolderKeepsLock /\ GuardIsKept
  BY DEF Init, JudgedIsDead, DepthIsBounded, StillJudged, HolderKeepsLock, GuardIsKept,
         Condemned, Breaking, Guarding
<1> QED  BY <1>1, <1>2 DEF Inv

\* A judgement of death is true, of a lock as of a guard, on one host.
LEMMA JudgementIsTrue ==
    ASSUME OneHost, NEW p \in Procs, Writer[text[p]] \in Procs, MayJudgeGone(p)
    PROVE  run[Writer[text[p]]] # "alive"
BY DEF OneHost, MayJudgeGone, SameHost

\* Two processes that hold files of one content are one process.
LEMMA ContentIsOwn ==
    ASSUME Inv, NEW p \in Procs, NEW q \in Procs,
           stage[p] \in Guarding \cup {"holding", "releasing"},
           stage[q] \in Guarding \cup {"holding", "releasing"},
           mine[p] = mine[q]
    PROVE  p = q
BY DEF Inv, TypeOK

\* What is condemned is not a live process's lock or guard.
LEMMA LivingIsSpared ==
    ASSUME Inv, NEW p \in Procs, NEW q \in Procs,
           stage[p] \in Condemned,
           stage[q] \in Guarding \cup {"holding", "releasing"}
    PROVE  text[p] # mine[q]
<1>1. run[Writer[text[p]]] # "alive"
  BY DEF Inv, JudgedIsDead
<1>2. Writer[mine[q]] = q /\ run[q] = "alive"
  BY DEF Inv, TypeOK, Guarding
<1> QED  BY <1>1, <1>2

-----------------------------------------------------------------------------
(* Type correctness *)

LEMMA TypeNext == ASSUME Inv, [Next]_vars PROVE TypeOK'
<1> USE DepthAssumption, TextsAssumption, ProcsAssumption
<1> USE DEF TypeOK, Breaking, Guarding, Paths, NoText, Goes, At
<1>0. TypeOK
  BY DEF Inv
<1>1. ASSUME NEW p \in Procs, Call(p) PROVE TypeOK'
  BY <1>0, <1>1 DEF Call, judging
<1>2. ASSUME NEW p \in Procs, Create(p) PROVE TypeOK'
  <2>1. CASE \E t \in Texts : CreateWhole(p, Lock, t) /\ Goes(p, "holding")
    BY <1>0, <1>2, <2>1 DEF Create, CreateWhole, judging
  <2>2. CASE Goes(p, "reading") /\ UNCHANGED <<mine, file>>
    BY <1>0, <1>2, <2>2 DEF Create, judging
  <2> QED  BY <1>2, <2>1, <2>2 DEF Create
<1>3. ASSUME NEW p \in Procs, ReadLock(p) PROVE TypeOK'
  <2>1. CASE file[Lock] = NoText
    BY <1>0, <1>3, <2>1 DEF ReadLock, Back
  <2>2. CASE file[Lock] # NoText
    BY <1>0, <1>3, <2>2 DEF ReadLock
  <2> QED  BY <2>1, <2>2
<1>4. ASSUME NEW p \in Procs, Judge(p) PROVE TypeOK'
  <2>1. CASE Goes(p, "guarding") /\ UNCHANGED judging
    BY <1>0, <1>4, <2>1 DEF Judge, judging
  <2>2. CASE Back(p)
    BY <1>0, <1>4, <2>2 DEF Judge, Back
  <2> QED  BY <1>4, <2>1, <2>2 DEF Judge
<1>5. ASSUME NEW p \in Procs, TakeGuard(p) PROVE TypeOK'
  <2>1. CASE Back(p) /\ UNCHANGED <<mine, file>>
    BY <1>0, <1>5, <2>1 DEF TakeGuard, Back
  <2>2. CASE (\E g \in Texts : CreateWhole(p, text[p], g)) /\ Goes(p, "rereading")
             /\ UNCHANGED judging
    BY <1>0, <1>5, <2>2 DEF TakeGuard, CreateWhole, judging
  <2>3. CASE Goes(p, "reclaiming") /\ UNCHANGED <<judging, mine, file>>
    BY <1>0, <1>5, <2>3 DEF TakeGuard, judging
  <2> QED  BY <1>5, <2>1, <2>2, <2>3 DEF TakeGuard
<1>6. ASSUME NEW p \in Procs, Reclaim(p) PROVE TypeOK'
  <2>1. CASE file[text[p]] = NoText
    BY <1>0, <1>6, <2>1 DEF Reclaim, Back
  <2>2. CASE file[text[p]] # NoText
    BY <1>0, <1>6, <2>2 DEF Reclaim, Inv, DepthIsBounded
  <2> QED  BY <2>1, <2>2
<1>7. ASSUME NEW p \in Procs, Reread(p) \/ Unlink(p) PROVE TypeOK'
  BY <1>0, <1>7 DEF Reread, Unlink, judging
<1>8. ASSUME NEW p \in Procs, Unguard(p) PROVE TypeOK'
  BY <1>0, <1>8 DEF Unguard, Back
<1>9. ASSUME NEW p \in Procs, ReadOwn(p) \/ Release(p) PROVE TypeOK'
  BY <1>0, <1>9 DEF ReadOwn, Release, judging
<1>10. ASSUME NEW p \in Procs, NEW t \in Texts, SweepGuard(p, t) PROVE TypeOK'
  BY <1>0, <1>10 DEF SweepGuard
<1>11. ASSUME NEW p \in Procs, UnlockStore(p) \/ Reused(p) PROVE TypeOK'
  BY <1>0, <1>11 DEF UnlockStore, Reused, judging
<1>12. ASSUME NEW p \in Procs, Crash(p) PROVE TypeOK'
  BY <1>0, <1>12 DEF Crash
<1>13. CASE UNCHANGED vars
  BY <1>0, <1>13 DEF vars, judging
<1> QED
  BY <1>1, <1>2, <1>3, <1>4, <1>5, <1>6, <1>7, <1>8, <1>9, <1>10, <1>11, <1>12, <1>13
     DEF Next, Step, Take, Break

-----------------------------------------------------------------------------
(* What the calls delete *)

\* A process is condemned only by a true judgement, and nobody comes back.
LEMMA JudgedNext == ASSUME OneHost, Inv, [Next]_vars PROVE JudgedIsDead'
<1> SUFFICES ASSUME NEW q \in Procs, (stage[q] \in Condemned)'
             PROVE  (run[Writer[text[q]]] # "alive")'
  BY DEF JudgedIsDead
<1> USE TextsAssumption DEF Condemned, Breaking, Guarding, Goes, At, Inv, TypeOK
<1>1. \A w \in Procs : run[w] # "alive" => run'[w] # "alive"
  BY DEF Next, vars, judging, Step, Take, Break, Call, Create, ReadLock, Judge, TakeGuard,
         Reclaim, Reread, Unlink, Unguard, ReadOwn, Release, SweepGuard, UnlockStore,
         Crash, Reused
<1>2. \/ stage[q] \in Condemned
      \/ stage[q] = "judging" /\ MayJudgeGone(q)
  BY DEF Next, vars, judging, Step, Take, Break, Call, Create, ReadLock, Judge, TakeGuard,
         Reclaim, Reread, Unlink, Unguard, ReadOwn, Release, SweepGuard, UnlockStore,
         Crash, Reused, Back
<1>3. text'[q] = text[q] /\ text[q] \in Texts
  BY <1>2 DEF Next, vars, judging, Step, Take, Break, Call, Create, ReadLock, Judge, TakeGuard,
         Reclaim, Reread, Unlink, Unguard, ReadOwn, Release, SweepGuard, UnlockStore,
         Crash, Reused, Back
<1>4. run[Writer[text[q]]] # "alive" /\ Writer[text[q]] \in Procs
  BY <1>2, <1>3, JudgementIsTrue DEF JudgedIsDead
<1> QED  BY <1>1, <1>3, <1>4

LEMMA DepthNext == ASSUME Inv, [Next]_vars PROVE DepthIsBounded'
<1> SUFFICES ASSUME NEW q \in Procs, (stage[q] = "reclaiming")'
             PROVE  (depth[q] <= MaxDepth)'
  BY DEF DepthIsBounded
<1> QED
  BY DepthAssumption
     DEF Next, vars, judging, Step, Take, Break, Call, Create, ReadLock, Judge, TakeGuard,
         Reclaim, Reread, Unlink, Unguard, ReadOwn, Release, SweepGuard, UnlockStore,
         Crash, Reused, Back, Goes, At, Inv, TypeOK, DepthIsBounded

\* Holding the lock or a guard.
Holds == Guarding \cup {"holding", "releasing"}

\* A file that is there changes only when a breaker deletes what it judged, or
\* when a holder, which then holds it no more, deletes its own.
LEMMA OnlyDeletions ==
    ASSUME Inv, [Next]_vars, NEW f \in Paths, file[f] # NoText, file'[f] # file[f]
    PROVE  \E p \in Procs :
               \/ /\ stage[p] = "unlinking" /\ stage'[p] = "unguarding"
                  /\ file[f] = text[p]
               \/ /\ stage[p] \in Holds /\ stage'[p] \notin Holds
                  /\ file[f] = mine[p]
<1> USE DEF Inv, TypeOK, Goes, At, Holds, Guarding, Breaking
<1>1. ASSUME NEW p \in Procs, Unlink(p)
      PROVE  /\ stage[p] = "unlinking" /\ stage'[p] = "unguarding"
             /\ file[f] = text[p]
  BY <1>1 DEF Unlink, StillJudged
<1>2. ASSUME NEW p \in Procs, Unguard(p)
      PROVE  /\ stage[p] \in Holds /\ stage'[p] \notin Holds
             /\ file[f] = mine[p]
  BY <1>2 DEF Unguard, Back, GuardIsKept
<1>3. ASSUME NEW p \in Procs, Release(p)
      PROVE  /\ stage[p] \in Holds /\ stage'[p] \notin Holds
             /\ file[f] = mine[p]
  BY <1>3 DEF Release, HolderKeepsLock
<1>4. ASSUME NEW p \in Procs, Create(p) \/ TakeGuard(p) PROVE FALSE
  BY <1>4 DEF Create, TakeGuard, CreateWhole
<1>5. \E p \in Procs : Unlink(p) \/ Unguard(p) \/ Release(p)
  BY <1>4 DEF Next, vars, Step, Take, Break, Call, ReadLock, Judge, Reclaim, Reread,
              ReadOwn, SweepGuard, UnlockStore, Crash, Reused
<1> QED  BY <1>1, <1>2, <1>3, <1>5

\* What a process holds stays in its file while it holds it.
LEMMA HeldIsKept ==
    ASSUME Inv, [Next]_vars, NEW q \in Procs, stage[q] \in Holds, stage'[q] \in Holds,
           NEW f \in Paths, file[f] = mine[q]
    PROVE  file'[f] = mine[q]
<1> SUFFICES ASSUME file'[f] # file[f] PROVE FALSE
  OBVIOUS
<1>1. file[f] # NoText
  BY TextsAssumption DEF Inv, TypeOK, Holds, NoText
<1>2. PICK p \in Procs :
          \/ stage[p] = "unlinking" /\ file[f] = text[p]
          \/ stage[p] \in Holds /\ stage'[p] \notin Holds /\ file[f] = mine[p]
  BY <1>1, OnlyDeletions
<1>3. CASE stage[p] = "unlinking" /\ file[f] = text[p]
  BY <1>3, LivingIsSpared DEF Condemned, Breaking, Guarding, Holds
<1>4. CASE stage[p] \in Holds /\ stage'[p] \notin Holds /\ file[f] = mine[p]
  BY <1>4, ContentIsOwn DEF Holds
<1> QED  BY <1>2, <1>3, <1>4

\* What a process keeps between two of its calls.
LEMMA HolderNext ==
    ASSUME Inv, [Next]_vars, NEW q \in Procs, stage'[q] \in Holds
    PROVE  \/ stage[q] \in Holds /\ UNCHANGED <<mine[q], text[q]>>
              /\ (stage[q] \in Guarding <=> stage'[q] \in Guarding)
           \/ stage'[q] = "holding" /\ file'[Lock] = mine'[q]
           \/ stage'[q] = "rereading" /\ file'[text'[q]] = mine'[q]
BY DEF Next, vars, judging, Step, Take, Break, Call, Create, ReadLock, Judge, TakeGuard,
       Reclaim, Reread, Unlink, Unguard, ReadOwn, Release, SweepGuard, UnlockStore,
       Crash, Reused, Back, CreateWhole, Goes, At, Holds, Guarding, Inv, TypeOK, Breaking,
       Paths, HolderKeepsLock

LEMMA LockNext == ASSUME Inv, [Next]_vars PROVE HolderKeepsLock'
<1> SUFFICES ASSUME NEW q \in Procs, stage'[q] \in {"holding", "releasing"}
             PROVE  file'[Lock] = mine'[q]
  BY DEF HolderKeepsLock
<1>1. stage'[q] \in Holds /\ stage'[q] \notin Guarding
  BY DEF Holds, Guarding
<1>2. CASE stage[q] \in Holds /\ UNCHANGED <<mine[q], text[q]>> /\ stage[q] \notin Guarding
  <2>1. file[Lock] = mine[q]
    BY <1>2 DEF Holds, Inv, HolderKeepsLock
  <2> QED  BY <1>1, <1>2, <2>1, HeldIsKept DEF Paths
<1> QED  BY <1>1, <1>2, HolderNext DEF Guarding

LEMMA GuardNext == ASSUME Inv, [Next]_vars PROVE GuardIsKept'
<1> SUFFICES ASSUME NEW q \in Procs, stage'[q] \in Guarding
             PROVE  file'[text'[q]] = mine'[q]
  BY DEF GuardIsKept
<1>1. stage'[q] \in Holds /\ stage'[q] # "holding"
  BY DEF Holds, Guarding
<1>2. CASE stage[q] \in Guarding /\ UNCHANGED <<mine[q], text[q]>>
  <2>1. file[text[q]] = mine[q] /\ text[q] \in Paths
    BY <1>2 DEF Inv, GuardIsKept, TypeOK
  <2> QED  BY <1>1, <1>2, <2>1, HeldIsKept DEF Holds
<1> QED  BY <1>1, <1>2, HolderNext

\* Nothing replaces a condemned file under its guard.
LEMMA JudgedStays == ASSUME Inv, [Next]_vars PROVE StillJudged'
<1> SUFFICES ASSUME NEW q \in Procs, stage'[q] = "unlinking"
             PROVE  file'[path'[q]] = text'[q]
  BY DEF StillJudged
<1>1. /\ UNCHANGED <<path[q], text[q]>>
      /\ \/ stage[q] = "rereading" /\ file[path[q]] = text[q] /\ UNCHANGED file
         \/ stage[q] = "unlinking"
  BY DEF Next, vars, judging, Step, Take, Break, Call, Create, ReadLock, Judge, TakeGuard,
         Reclaim, Reread, Unlink, Unguard, ReadOwn, Release, SweepGuard, UnlockStore,
         Crash, Reused, Back, Goes, At, Inv, TypeOK
<1>2. CASE stage[q] = "rereading" /\ file[path[q]] = text[q] /\ UNCHANGED file
  BY <1>1, <1>2
<1>3. CASE stage[q] = "unlinking"
  <2> SUFFICES ASSUME file'[path[q]] # file[path[q]] PROVE FALSE
    BY <1>1, <1>3 DEF Inv, StillJudged
  <2>1. file[path[q]] = text[q] /\ text[q] # NoText /\ path[q] \in Paths
    BY <1>3, TextsAssumption DEF Inv, StillJudged, TypeOK, Breaking, Guarding, NoText
  <2>2. PICK p \in Procs :
            \/ stage[p] = "unlinking" /\ stage'[p] = "unguarding" /\ text[q] = text[p]
            \/ stage[p] \in Holds /\ text[q] = mine[p]
    BY <2>1, OnlyDeletions
  <2>3. CASE stage[p] = "unlinking" /\ stage'[p] = "unguarding" /\ text[q] = text[p]
    <3>1. mine[p] = mine[q]
      BY <1>3, <2>3 DEF Inv, GuardIsKept, Guarding
    <3>2. p = q
      BY <1>3, <2>3, <3>1, ContentIsOwn DEF Guarding
    <3> QED  BY <2>3, <3>2
  <2>4. CASE stage[p] \in Holds /\ text[q] = mine[p]
    BY <1>3, <2>4, LivingIsSpared DEF Condemned, Breaking, Guarding, Holds
  <2> QED  BY <2>2, <2>3, <2>4
<1> QED  BY <1>1, <1>2, <1>3

-----------------------------------------------------------------------------
(* The theorems *)

\* The invariant holds in every state the store's folder can be in.
THEOREM LockInvariance == ASSUME OneHost PROVE Spec => []Inv
<1>1. Inv /\ [Next]_vars => Inv'
  BY TypeNext, JudgedNext, DepthNext, JudgedStays, LockNext, GuardNext DEF Inv
<1> QED  BY InitInv, <1>1, PTL DEF Spec

\* A hold is never taken from a live process: two calls never work in the store
\* at once, however many processes take, break and sweep, and die doing so.
THEOREM HoldIsExclusive == ASSUME OneHost PROVE Spec => []HolderKeepsLock
<1>1. Inv => HolderKeepsLock
  BY DEF Inv
<1> QED  BY LockInvariance, <1>1, PTL

\* Nor is a guard, at any level.
THEOREM GuardsAreExclusive == ASSUME OneHost PROVE Spec => []GuardIsKept
<1>1. Inv => GuardIsKept
  BY DEF Inv
<1> QED  BY LockInvariance, <1>1, PTL

\* Exactly what was judged is deleted, never what replaced it.
THEOREM DeletionIsExact == ASSUME OneHost PROVE Spec => DeletesWhatItJudged
<1>1. Inv => \A p \in Procs : Unlink(p) => file[path[p]] = text[p]
  BY DEF Inv, StillJudged, Unlink, At
<1> QED  BY LockInvariance, <1>1, PTL DEF DeletesWhatItJudged

\* No hold and no guard is taken from a live process, and nothing but what was
\* judged is deleted.
THEOREM LockHolds == ASSUME OneHost PROVE Spec => LockIsSafe
BY HoldIsExclusive, GuardsAreExclusive, DeletionIsExact, PTL DEF LockIsSafe

\* The types of the variables.
THEOREM LockTypeCorrect == ASSUME OneHost PROVE Spec => []TypeOK
<1>1. Inv => TypeOK
  BY DEF Inv
<1> QED  BY LockInvariance, <1>1, PTL

\* An unlock on the holders' host removes only a dead process's lock.
THEOREM UnlockIsTrueOnOneHost == ASSUME OneHost PROVE Spec => []UnlockSparesTheRunning
<1>1. Inv => UnlockSparesTheRunning
  BY ProcsAssumption DEF Inv, JudgedIsDead, UnlockSparesTheRunning, Condemned, Breaking, Guarding
<1> QED  BY LockInvariance, <1>1, PTL

-----------------------------------------------------------------------------
(* The choice of an environment *)

Handles == [instance : Nat, number : Nat]
Environments == [instance : Nat, pid : EnvPids, port : Ports \cup {DefaultPort}, count : Nat]
Receipts == [pid : EnvPids, port : Ports, instance : Nat]
Processes == [handle : Handles, host : Nat, label : {Name}, born : Nat]

\* What the record of a command holds where it stands.
CommandIsWhole ==
  /\ command.at \in {"start", "reading", "probing", "chosen", "listed", "acted", "problem"}
  /\ command.at = "probing" =>
       command \in [at : {"probing"}, partial : BOOLEAN, asked : SUBSET Receipts, live : SUBSET Receipts,
                    unanswered : Nat, looked : SUBSET Nat]
  /\ command.at = "probing" => IsFiniteSet(command.live)
  /\ command.at = "listed" => command.handle \in Handles

ChoiceTypeOK ==
  /\ envs \subseteq Environments /\ minted \in Nat /\ births \in Nat
  /\ \A i \in DOMAIN receipts : receipts[i] \in Receipts
  /\ hosted \subseteq Processes
  /\ CommandIsWhole

\* No two environments run as one instance or on one port, and an instance is
\* never given again.
EnvsAreApart ==
  /\ \A e, f \in envs : e.instance = f.instance \/ e.port = f.port => e = f
  /\ \A e \in envs : e.instance <= minted

\* A receipt says of its environment what is so while it runs.
ReceiptsAreTrue ==
  /\ \A i \in DOMAIN receipts : receipts[i].instance <= minted
  /\ \A i \in DOMAIN receipts, e \in envs :
       receipts[i].instance = e.instance => receipts[i].pid = e.pid /\ receipts[i].port = e.port

\* A handle that was given is never given again.
Spent(handle) ==
  /\ handle.instance <= minted
  /\ \A e \in envs : e.instance = handle.instance => handle.number <= e.count

HandlesAreSpent ==
  /\ \A p \in hosted : Spent(p.handle)
  /\ \A p, q \in hosted : p.handle = q.handle => p.born = q.born
  /\ command.at = "listed" =>
       Spent(command.handle) /\ \A p \in hosted : p.handle = command.handle => p.born = command.born

\* Of the environments a look saw running with a receipt, each that still runs
\* is to be asked, has answered, or left a question unanswered.
NoneIsMissed ==
  command.at = "probing" =>
    /\ \A n \in command.looked : n <= minted
    /\ ~ command.partial => \A e \in envs, i \in DOMAIN receipts :
         e.instance \in command.looked /\ receipts[i].instance = e.instance =>
           receipts[i] \in command.asked \cup command.live \/ command.unanswered # 0

LooksAreOld ==
  command.at = "chosen" /\ command.sure /\ command.port # DefaultPort =>
    \A n \in command.looked : n \in Nat /\ n <= minted

ChoiceInv ==
  /\ ChoiceTypeOK /\ EnvsAreApart /\ ReceiptsAreTrue /\ HandlesAreSpent /\ NoneIsMissed /\ LooksAreOld
  /\ ChosenIsTheOnlyOne /\ ActsOnWhatItMeant

USE DEF DefaultPort

\* Nothing runs and nothing was asked.
LEMMA ChoiceStarts == ChoiceInit => ChoiceInv
  BY DEF ChoiceInit, ChoiceInv, ChoiceTypeOK, EnvsAreApart, ReceiptsAreTrue, HandlesAreSpent, NoneIsMissed,
         LooksAreOld, ChosenIsTheOnlyOne, ActsOnWhatItMeant, CommandIsWhole, AtStart

\* An environment that starts has an instance nobody was given, and a port of its own.
LEMMA StartKeeps ==
  ASSUME ChoiceInv, NEW pid \in EnvPids, NEW port \in Ports \cup {DefaultPort}, EnvStarts(pid, port),
         UNCHANGED <<strangers, hosted, births, command, unheard>>,
         \/ UNCHANGED receipts
         \/ \E i \in Invocations \ DOMAIN receipts :
              /\ port \in Ports
              /\ receipts' = [j \in DOMAIN receipts \cup {i} |->
                   IF j = i THEN [pid |-> pid, port |-> port, instance |-> minted + 1] ELSE receipts[j]]
  PROVE  ChoiceInv'
<1> DEFINE new == [instance |-> minted + 1, pid |-> pid, port |-> port, count |-> 0]
<1> USE DEF ChoiceInv, ChoiceTypeOK
<1>1. /\ envs' = envs \cup {new} /\ minted' = minted + 1
      /\ \A e \in envs : e.port # port
  BY DEF EnvStarts, ListensAt
<1>2. new \in Environments /\ minted \in Nat
  BY DEF Environments
<1>3. \A e \in envs : e \in Environments /\ e.instance \in Nat /\ e.instance <= minted /\ e.instance # minted + 1
  BY <1>2 DEF EnvsAreApart, Environments
<1>4. \A i \in DOMAIN receipts' :
        \/ i \in DOMAIN receipts /\ receipts'[i] = receipts[i]
        \/ receipts'[i] = [pid |-> pid, port |-> port, instance |-> minted + 1] /\ port \in Ports
  BY ZenonT(30)
<1>5. \A i \in DOMAIN receipts : receipts[i].instance \in Nat /\ receipts[i].instance <= minted
  BY DEF ReceiptsAreTrue, Receipts
<1>6. ChoiceTypeOK'
  <2>1. envs' \subseteq Environments /\ minted' \in Nat /\ births' \in Nat
    BY <1>1, <1>2
  <2>2. \A i \in DOMAIN receipts' : receipts'[i] \in Receipts
    BY <1>2, <1>4 DEF Receipts
  <2>3. QED BY <2>1, <2>2 DEF CommandIsWhole
<1>7. EnvsAreApart'
  BY <1>1, <1>2, <1>3 DEF EnvsAreApart
<1>8. ReceiptsAreTrue'
  BY <1>1, <1>2, <1>3, <1>4, <1>5 DEF ReceiptsAreTrue
<1>9. HandlesAreSpent'
  <2>1. \A h \in Handles : Spent(h) => Spent(h)'
    BY <1>1, <1>2 DEF Spent, Handles
  <2>2. \A p \in hosted : p.handle \in Handles
    BY DEF Processes
  <2>3. QED BY <2>1, <2>2 DEF HandlesAreSpent, CommandIsWhole
<1>10. NoneIsMissed'
  <2> SUFFICES ASSUME command.at = "probing" PROVE NoneIsMissed'
    BY DEF NoneIsMissed
  <2>1. command.looked \subseteq Nat /\ \A n \in command.looked : n <= minted
    BY DEF NoneIsMissed, CommandIsWhole
  <2>2. minted + 1 \notin command.looked
    BY <1>2, <2>1
  <2>3. \A n \in command.looked : n <= minted'
    BY <1>1, <1>2, <2>1
  <2>4. ASSUME NEW e \in envs', NEW i \in DOMAIN receipts',
               e.instance \in command.looked, receipts'[i].instance = e.instance
        PROVE  e \in envs /\ i \in DOMAIN receipts /\ receipts'[i] = receipts[i]
    BY <1>1, <1>4, <2>2, <2>4
  <2>5. QED BY <2>3, <2>4 DEF NoneIsMissed
<1>11. LooksAreOld'
  <2> SUFFICES ASSUME command.at = "chosen", command.sure, command.port # DefaultPort, NEW n \in command.looked
               PROVE  n \in Nat /\ n <= minted'
    BY DEF LooksAreOld
  <2>1. n \in Nat /\ n <= minted
    BY DEF LooksAreOld
  <2>2. QED BY <1>1, <1>2, <2>1
<1>12. ChosenIsTheOnlyOne'
  <2> SUFFICES ASSUME command.at = "chosen", command.sure, command.port # DefaultPort, command.unanswered = 0,
                      NEW e \in envs', e.instance \in command.looked,
                      NEW i \in DOMAIN receipts', receipts'[i].instance = e.instance
               PROVE  e.port = command.port
    BY DEF ChosenIsTheOnlyOne
  <2>1. e.instance \in Nat /\ e.instance <= minted
    BY DEF LooksAreOld
  <2>2. e \in envs /\ i \in DOMAIN receipts /\ receipts'[i] = receipts[i]
    BY <1>1, <1>2, <1>4, <2>1
  <2>3. QED BY <2>2 DEF ChosenIsTheOnlyOne
<1>13. QED BY <1>6, <1>7, <1>8, <1>9, <1>10, <1>11, <1>12 DEF ActsOnWhatItMeant

\* An environment that ends takes its processes along; nothing is said of it any more.
LEMMA EndKeeps == ChoiceInv /\ EnvEnds => ChoiceInv'
<1> SUFFICES ASSUME ChoiceInv, EnvEnds PROVE ChoiceInv'
  OBVIOUS
<1> USE DEF ChoiceInv
<1>1. /\ envs' \subseteq envs /\ hosted' \subseteq hosted
      /\ UNCHANGED <<minted, strangers, receipts, births, command, unheard>>
  BY DEF EnvEnds
<1>2. ChoiceTypeOK' /\ EnvsAreApart' /\ ReceiptsAreTrue'
  BY <1>1 DEF ChoiceTypeOK, EnvsAreApart, ReceiptsAreTrue, CommandIsWhole
<1>3. HandlesAreSpent'
  BY <1>1 DEF HandlesAreSpent, Spent
<1>4. NoneIsMissed' /\ LooksAreOld'
  BY <1>1 DEF NoneIsMissed, LooksAreOld
<1>5. ChosenIsTheOnlyOne' /\ ActsOnWhatItMeant'
  BY <1>1 DEF ChosenIsTheOnlyOne, ActsOnWhatItMeant
<1>6. QED BY <1>2, <1>3, <1>4, <1>5

\* A process that starts is given a handle that nobody was given.
LEMMA ProcessKeeps == ChoiceInv /\ ProcessStarts => ChoiceInv'
<1> SUFFICES ASSUME ChoiceInv, NEW e \in envs,
                    births' = births + 1,
                    envs' = (envs \ {e}) \cup {[e EXCEPT !.count = @ + 1]},
                    hosted' = hosted \cup {[handle |-> Handle(e), host |-> e.instance, label |-> Name, born |-> births + 1]},
                    UNCHANGED <<minted, strangers, receipts, command, unheard>>
             PROVE  ChoiceInv'
  BY DEF ProcessStarts
<1> DEFINE counted == [e EXCEPT !.count = @ + 1]
           new == [handle |-> Handle(e), host |-> e.instance, label |-> Name, born |-> births + 1]
<1> USE DEF ChoiceInv, ChoiceTypeOK
<1>1. e \in Environments
  OBVIOUS
<1>2. /\ counted \in Environments /\ counted.instance = e.instance /\ counted.port = e.port /\ counted.pid = e.pid
      /\ counted.count = e.count + 1 /\ e.count \in Nat /\ e.instance \in Nat
  BY <1>1 DEF Environments
<1>3. /\ Handle(e) \in Handles /\ Handle(e).instance = e.instance /\ Handle(e).number = e.count + 1
  BY <1>2 DEF Handle, Handles
<1>4. \A f \in envs' : (f \in envs /\ f # e) \/ f = counted
  OBVIOUS
<1> HIDE DEF counted
<1>5. ChoiceTypeOK'
  <2>1. new \in Processes
    BY <1>2, <1>3 DEF Processes
  <2>2. envs' \subseteq Environments /\ hosted' \subseteq Processes /\ births' \in Nat
    BY <1>2, <1>4, <2>1
  <2>3. QED BY <2>2 DEF CommandIsWhole
<1>6. EnvsAreApart' /\ ReceiptsAreTrue'
  BY <1>2, <1>4 DEF EnvsAreApart, ReceiptsAreTrue
<1>7. HandlesAreSpent'
  <2>1. \A h \in Handles : Spent(h) => Spent(h)' /\ h # Handle(e)
    BY <1>1, <1>2, <1>3, <1>4 DEF Spent, Handles
  <2>2. \A p \in hosted : p.handle \in Handles
    BY DEF Processes
  <2>3. Spent(Handle(e))'
    BY <1>2, <1>3, <1>4 DEF Spent, EnvsAreApart
  <2>4. \A p \in hosted' : p \in hosted \/ p = new
    OBVIOUS
  <2>5. new.handle = Handle(e)
    OBVIOUS
  <2> HIDE DEF new
  <2>6. QED BY <2>1, <2>2, <2>3, <2>4, <2>5 DEF HandlesAreSpent, CommandIsWhole
<1>8. NoneIsMissed' /\ LooksAreOld' /\ ChosenIsTheOnlyOne' /\ ActsOnWhatItMeant'
  BY <1>2, <1>4 DEF NoneIsMissed, LooksAreOld, ChosenIsTheOnlyOne, ActsOnWhatItMeant
<1>9. QED BY <1>5, <1>6, <1>7, <1>8

\* A step of the command moves nothing else.
LEMMA CommandKeeps ==
  ASSUME ChoiceInv, UNCHANGED envVars, CommandIsWhole', NoneIsMissed', LooksAreOld',
         ChosenIsTheOnlyOne', ActsOnWhatItMeant',
         command'.at = "listed" =>
           Spent(command'.handle) /\ \A p \in hosted : p.handle = command'.handle => p.born = command'.born
  PROVE  ChoiceInv'
  BY DEF envVars, ChoiceInv, ChoiceTypeOK, EnvsAreApart, ReceiptsAreTrue, HandlesAreSpent, Spent

\* A command that was given no instance begins with the default port.
LEMMA AsksKeep == ChoiceInv /\ AsksDefault => ChoiceInv'
<1> SUFFICES ASSUME ChoiceInv, AsksDefault PROVE ChoiceInv'
  OBVIOUS
<1>1. /\ UNCHANGED envVars
      /\ \/ command' = [at |-> "chosen", port |-> DefaultPort, sure |-> TRUE]
         \/ command' = [at |-> "reading"]
  BY DEF AsksDefault
<1>2. QED
  BY <1>1, CommandKeeps DEF CommandIsWhole, NoneIsMissed, LooksAreOld, ChosenIsTheOnlyOne, ActsOnWhatItMeant

\* All receipts are read, or the look is partial; each that names a process that
\* runs is to be asked.
LEMMA ReadsKeep == ChoiceInv /\ ReadsReceipts => ChoiceInv'
<1> SUFFICES ASSUME ChoiceInv, NEW clear \in BOOLEAN, UNCHANGED envVars,
                    command' = [at |-> "probing",
                      partial |-> DOMAIN receipts \ Newest(ReceiptLimit) # {} \/ ~clear,
                      asked |-> {receipts[i] : i \in {j \in Newest(ReceiptLimit) : receipts[j].pid \in PidsInUse}},
                      live |-> {}, unanswered |-> 0, looked |-> {e.instance : e \in envs}]
             PROVE  ChoiceInv'
  BY DEF ReadsReceipts, Hearing
<1> USE DEF ChoiceInv
<1>1. \A e \in envs : e.instance \in Nat /\ e.instance <= minted
  BY DEF ChoiceTypeOK, Environments, EnvsAreApart
<1>2. Newest(ReceiptLimit) \subseteq DOMAIN receipts
  BY DEF Newest
<1>3. CommandIsWhole'
  <2>1. command'.asked \subseteq Receipts
    BY <1>2 DEF ChoiceTypeOK
  <2>2. command'.looked \subseteq Nat
    BY <1>1
  <2>3. command'.partial \in BOOLEAN
    OBVIOUS
  <2>4. IsFiniteSet(command'.live)
    BY FS_EmptySet
  <2>5. QED BY <2>1, <2>2, <2>3, <2>4 DEF CommandIsWhole
<1>4. NoneIsMissed'
  <2>1. \A n \in command'.looked : n <= minted'
    BY <1>1 DEF envVars
  <2>2. ASSUME ~ command'.partial, NEW e \in envs, NEW i \in DOMAIN receipts, receipts[i].instance = e.instance
        PROVE  receipts[i] \in command'.asked
    <3>1. i \in Newest(ReceiptLimit)
      BY <2>2
    <3>2. receipts[i].pid \in PidsInUse
      BY <2>2 DEF PidsInUse, ReceiptsAreTrue
    <3>3. QED BY <3>1, <3>2
  <2>3. QED BY <2>1, <2>2 DEF NoneIsMissed, envVars
<1>5. QED
  BY <1>3, <1>4, CommandKeeps DEF LooksAreOld, ChosenIsTheOnlyOne, ActsOnWhatItMeant

\* The one who is asked and still runs is the one who answers on its port.
LEMMA ProbesKeep == ChoiceInv /\ ProbeAnswers => ChoiceInv'
<1> SUFFICES ASSUME ChoiceInv, command.at = "probing", UNCHANGED envVars,
                    NEW heard \in BOOLEAN, NEW r \in command.asked,
                    command' = [command EXCEPT
                      !.asked = @ \ {r},
                      !.unanswered = @ + (IF heard THEN 0 ELSE 1),
                      !.live = IF \E a \in Answered(r.port, heard) : Matches(r, a) THEN @ \cup {r} ELSE @]
             PROVE  ChoiceInv'
  BY DEF ProbeAnswers, Hearing
<1> USE DEF ChoiceInv
<1>1. /\ command \in [at : {"probing"}, partial : BOOLEAN, asked : SUBSET Receipts, live : SUBSET Receipts,
                      unanswered : Nat, looked : SUBSET Nat]
      /\ IsFiniteSet(command.live)
  BY DEF ChoiceTypeOK, CommandIsWhole
<1>2. /\ command'.at = "probing" /\ command'.partial = command.partial /\ command'.looked = command.looked
      /\ command'.asked = command.asked \ {r}
      /\ command'.unanswered = command.unanswered + (IF heard THEN 0 ELSE 1)
      /\ command'.live = IF \E a \in Answered(r.port, heard) : Matches(r, a) THEN command.live \cup {r} ELSE command.live
  BY <1>1
<1>3. CommandIsWhole'
  <2>1. IsFiniteSet(command'.live)
    BY <1>1, <1>2, FS_AddElement
  <2>2. /\ command'.asked \subseteq Receipts /\ command'.live \subseteq Receipts
        /\ command'.unanswered \in Nat
    BY <1>1, <1>2
  <2>3. command' \in [at : {"probing"}, partial : BOOLEAN, asked : SUBSET Receipts, live : SUBSET Receipts,
                      unanswered : Nat, looked : SUBSET Nat]
    BY <1>1, <1>2, <2>2
  <2>4. QED BY <1>2, <2>1, <2>3 DEF CommandIsWhole
<1>4. NoneIsMissed'
  <2> SUFFICES ASSUME ~ command.partial, NEW e \in envs, NEW i \in DOMAIN receipts,
                      e.instance \in command.looked, receipts[i].instance = e.instance
               PROVE  receipts[i] \in command'.asked \cup command'.live \/ command'.unanswered # 0
    BY <1>2 DEF NoneIsMissed, envVars
  <2>1. receipts[i] \in command.asked \cup command.live \/ command.unanswered # 0
    BY DEF NoneIsMissed
  <2>2. CASE receipts[i] = r /\ heard
    <3>1. r.pid = e.pid /\ r.port = e.port /\ r.instance = e.instance
      BY <2>2 DEF ReceiptsAreTrue
    <3>2. [pid |-> e.pid, instance |-> e.instance] \in Answered(r.port, heard)
      BY <2>2, <3>1 DEF Answered, Health, ListensAt
    <3>3. Matches(r, [pid |-> e.pid, instance |-> e.instance])
      BY <3>1 DEF Matches
    <3>4. command'.live = command.live \cup {r}
      BY <1>2, <3>2, <3>3, Zenon
    <3>5. QED BY <2>2, <3>4
  <2>3. CASE ~ heard \/ command.unanswered # 0
    BY <1>1, <1>2, <2>3
  <2>4. CASE command.unanswered = 0 /\ receipts[i] # r
    <3>1. command.live \subseteq command'.live
      BY <1>2
    <3>2. QED BY <1>2, <2>1, <2>4, <3>1
  <2>5. QED BY <2>2, <2>3, <2>4
<1>5. QED
  BY <1>2, <1>3, <1>4, CommandKeeps DEF LooksAreOld, ChosenIsTheOnlyOne, ActsOnWhatItMeant

\* With one live receipt after a whole look, every environment that was seen
\* with a receipt and still runs has that receipt.
LEMMA ChoosesKeep == ChoiceInv /\ Chooses => ChoiceInv'
<1> SUFFICES ASSUME ChoiceInv, Chooses PROVE ChoiceInv'
  OBVIOUS
<1> USE DEF ChoiceInv
<1>1. /\ command.at = "probing" /\ command.asked = {} /\ UNCHANGED envVars
      /\ \/ command' = [at |-> "problem"]
         \/ command' = [at |-> "chosen", port |-> DefaultPort, sure |-> FALSE]
         \/ /\ ~ command.partial
            /\ \E p \in OnlyPort(command.live) :
                 command' = [at |-> "chosen", port |-> p, sure |-> TRUE, unanswered |-> command.unanswered,
                             looked |-> command.looked]
  BY DEF Chooses
<1>2. CASE command' = [at |-> "problem"] \/ command' = [at |-> "chosen", port |-> DefaultPort, sure |-> FALSE]
  BY <1>1, <1>2, CommandKeeps
  DEF CommandIsWhole, NoneIsMissed, LooksAreOld, ChosenIsTheOnlyOne, ActsOnWhatItMeant
<1>3. ASSUME ~ command.partial, NEW p \in OnlyPort(command.live),
             command' = [at |-> "chosen", port |-> p, sure |-> TRUE, unanswered |-> command.unanswered,
                         looked |-> command.looked]
      PROVE  ChoiceInv'
  <2>1. /\ command.live \subseteq Receipts /\ IsFiniteSet(command.live) /\ command.looked \subseteq Nat
    BY <1>1 DEF ChoiceTypeOK, CommandIsWhole
  <2>2. PICK r : command.live = {r}
    BY <1>3, <2>1, FS_Singleton DEF OnlyPort
  <2>3. p = r.port
    BY <1>3, <2>2 DEF OnlyPort
  <2>4. LooksAreOld'
    BY <1>1, <1>3, <2>1 DEF LooksAreOld, NoneIsMissed, envVars
  <2>5. ASSUME command.unanswered = 0, NEW e \in envs, e.instance \in command.looked,
               NEW i \in DOMAIN receipts, receipts[i].instance = e.instance
        PROVE  e.port = p
    <3>1. receipts[i] = r
      BY <1>1, <1>3, <2>2, <2>5 DEF NoneIsMissed
    <3>2. QED BY <2>3, <2>5, <3>1 DEF ReceiptsAreTrue
  <2>6. ChosenIsTheOnlyOne'
    BY <1>1, <1>3, <2>5 DEF ChosenIsTheOnlyOne, envVars
  <2>7. QED
    BY <1>1, <1>3, <2>4, <2>6, CommandKeeps DEF CommandIsWhole, NoneIsMissed, ActsOnWhatItMeant
<1>4. QED BY <1>1, <1>2, <1>3

\* A list names the environment that answered it, by the instance it answered as.
LEMMA ListsKeep == ChoiceInv /\ Lists => ChoiceInv'
<1> SUFFICES ASSUME ChoiceInv, Lists PROVE ChoiceInv'
  OBVIOUS
<1> USE DEF ChoiceInv
<1>1. /\ UNCHANGED envVars
      /\ \/ command' = [at |-> "problem"]
         \/ \E p \in hosted : command' = [at |-> "listed", port |-> command.port, handle |-> p.handle, born |-> p.born]
  BY DEF Lists, Listed
<1>2. CASE command' = [at |-> "problem"]
  BY <1>1, <1>2, CommandKeeps
  DEF CommandIsWhole, NoneIsMissed, LooksAreOld, ChosenIsTheOnlyOne, ActsOnWhatItMeant
<1>3. ASSUME NEW p \in hosted,
             command' = [at |-> "listed", port |-> command.port, handle |-> p.handle, born |-> p.born]
      PROVE  ChoiceInv'
  <2>1. p.handle \in Handles
    BY DEF ChoiceTypeOK, Processes
  <2>2. Spent(p.handle) /\ \A q \in hosted : q.handle = p.handle => q.born = p.born
    BY DEF HandlesAreSpent
  <2>3. QED
    BY <1>1, <1>3, <2>1, <2>2, CommandKeeps
    DEF CommandIsWhole, NoneIsMissed, LooksAreOld, ChosenIsTheOnlyOne, ActsOnWhatItMeant
<1>4. QED BY <1>1, <1>2, <1>3

\* An act by handle reaches the process the handle was given to, or nobody.
LEMMA ActsKeep == ChoiceInv /\ Acts => ChoiceInv'
<1> SUFFICES ASSUME ChoiceInv, Acts PROVE ChoiceInv'
  OBVIOUS
<1> USE DEF ChoiceInv
<1>1. /\ UNCHANGED envVars /\ command.at = "listed"
      /\ \/ command' = [at |-> "problem"]
         \/ \E p \in hosted : p.handle = command.handle /\ command' = [at |-> "acted", meant |-> command.born, reached |-> p.born]
  BY DEF Acts, Listed
<1>2. QED
  BY <1>1, CommandKeeps
  DEF HandlesAreSpent, CommandIsWhole, NoneIsMissed, LooksAreOld, ChosenIsTheOnlyOne, ActsOnWhatItMeant

\* The invariant of the choice holds throughout.
LEMMA ChoiceInvHolds == ChoiceSpec => []ChoiceInv
<1>1. ChoiceInv /\ [ChoiceNext]_choiceVars => ChoiceInv'
  <2> SUFFICES ASSUME ChoiceInv, [ChoiceNext]_choiceVars PROVE ChoiceInv'
    OBVIOUS
  <2>1. CASE OrdinaryStarts
    BY <2>1, StartKeeps DEF OrdinaryStarts
  <2>2. CASE DedicatedStarts
    BY <2>2, StartKeeps DEF DedicatedStarts
  <2>3. CASE StrangerTakesPid
    BY <2>3 DEF StrangerTakesPid, ChoiceInv, ChoiceTypeOK, EnvsAreApart, ReceiptsAreTrue, HandlesAreSpent, Spent,
                NoneIsMissed, LooksAreOld, ChosenIsTheOnlyOne, ActsOnWhatItMeant, CommandIsWhole
  <2>4. CASE ProcessGoes
    BY <2>4 DEF ProcessGoes, ChoiceInv, ChoiceTypeOK, EnvsAreApart, ReceiptsAreTrue, HandlesAreSpent, Spent,
                NoneIsMissed, LooksAreOld, ChosenIsTheOnlyOne, ActsOnWhatItMeant, CommandIsWhole
  <2>5. CASE CommandEnds
    BY <2>5, CommandKeeps
    DEF CommandEnds, AtStart, CommandIsWhole, NoneIsMissed, LooksAreOld, ChosenIsTheOnlyOne, ActsOnWhatItMeant
  <2>6. CASE UNCHANGED choiceVars
    BY <2>6 DEF choiceVars, ChoiceInv, ChoiceTypeOK, EnvsAreApart, ReceiptsAreTrue, HandlesAreSpent, Spent,
                NoneIsMissed, LooksAreOld, ChosenIsTheOnlyOne, ActsOnWhatItMeant, CommandIsWhole
  <2>7. QED
    BY <2>1, <2>2, <2>3, <2>4, <2>5, <2>6, EndKeeps, ProcessKeeps, AsksKeep, ReadsKeep, ProbesKeep, ChoosesKeep,
       ListsKeep, ActsKeep DEF ChoiceNext
<1>2. QED BY <1>1, ChoiceStarts, PTL DEF ChoiceSpec

\* An environment is chosen only where it is the only one that was seen and runs,
\* and what a command does to a handle it does to the process that the handle
\* was listed for (endpoint-registry.mjs, env-client.mjs).
THEOREM ChoiceHolds == ChoiceSpec => []ChoiceIsSafe
<1>1. ChoiceInv => ChoiceIsSafe
  BY DEF ChoiceInv, ChoiceIsSafe
<1>2. QED BY <1>1, ChoiceInvHolds, PTL

-----------------------------------------------------------------------------
(***************************************************************************)
(* The installation.                                                       *)
(***************************************************************************)
Phases == {"keys", "packages", "ask", "acquire", "connect", "entry", "render", "assets", "done"}
BeforeAssets == Phases \ {"assets", "done"}

ChainTypeOK ==
  /\ phase \in Phases /\ at \in DOMAIN Connects /\ client \in DOMAIN Selected
  /\ serving \in [Services -> Artifacts \cup {NoArtifact}]
  /\ DOMAIN installers = Services /\ DOMAIN placed = Revisions /\ DOMAIN connected = Services
  /\ registry \in Nat /\ before \in Nat
  /\ problems \in BOOLEAN /\ assetsWrote \in BOOLEAN

\* A package's directory is its revision.
PlacedAsNamed == \A v \in Revisions : placed[v] # NoArtifact => placed[v].revision = v

\* An installer that is resolved is one that may run, and a package's is
\* resolved only once its service is connected.
MayRun(s, installer) ==
  \/ installer.from = "operator" /\ s \in plan.checkouts
  \/ installer.from = "checkout" /\ installer.artifact \in approve
  \/ /\ installer.from = "package" /\ s \in joined
     /\ \E c \in connected[s] : c.revision = installer.artifact.revision

InstallersMayRun == \A s \in Services : installers[s] # NoInstaller => MayRun(s, installers[s])
ExecutedMayRun == \A e \in executed : MayRun(e.service, e.installer)

\* The services are connected one by one, in their order.
Before(n) == {Connects[i] : i \in {j \in DOMAIN Connects : j < n}}

JoinedSoFar ==
  /\ joined \subseteq Services
  /\ phase \in {"keys", "packages", "ask", "acquire"} => joined = {}
  /\ phase = "connect" => joined = Before(at)
  /\ phase = "entry" => joined = Before(at + 1)
  /\ phase \in {"render", "assets"} => joined = Services
  /\ phase = "render" => at = 1
  /\ (\E e \in executed : e.phase = "assets") => joined = Services

\* The assets of service s have been run.
Applied(s) == installers[s] # NoInstaller => [phase |-> "assets", service |-> s, installer |-> installers[s]] \in executed

\* Assets are applied client by client, and for each service by service; the
\* registry only grows.
AppliedSoFar ==
  phase = "assets" =>
    /\ \A i \in DOMAIN Connects : i < at => Applied(Connects[i])
    /\ (\A j \in DOMAIN Selected : j < client => Selected[j] \in pending) \/ \A s \in Services : Applied(s)
    /\ before <= registry /\ (assetsWrote => before < registry)

NothingWroteYet == phase \in BeforeAssets => ~ assetsWrote

\* A run that ended without a problem applied everything.
EndedWhole ==
  phase = "done" /\ ~ problems =>
    /\ joined = Services /\ ~ assetsWrote
    /\ ToSet(Selected) \subseteq pending \/ \A s \in Services : Applied(s)

ChainInv ==
  /\ ChainTypeOK /\ PlacedAsNamed /\ InstallersMayRun /\ ExecutedMayRun
  /\ JoinedSoFar /\ AppliedSoFar /\ NothingWroteYet /\ EndedWhole

\* The services are those of the arguments, each once, and both lists have a first.
LEMMA ChainConstants ==
  /\ Services = {Connects[i] : i \in DOMAIN Connects}
  /\ DOMAIN Connects = 1..Len(Connects) /\ Len(Connects) \in Nat \ {0}
  /\ DOMAIN Selected = 1..Len(Selected) /\ Len(Selected) \in Nat \ {0}
  /\ ToSet(Selected) = {Selected[i] : i \in DOMAIN Selected}
  BY ChainAssumption DEF Services, ToSet

\* The services before the next one are those before this one, and this one.
LEMMA InOrder ==
  /\ Before(1) = {} /\ Before(Len(Connects) + 1) = Services
  /\ \A i \in DOMAIN Connects : Connects[i] \notin Before(i) /\ Before(i + 1) = Before(i) \cup {Connects[i]}
<1>1. Before(1) = {} /\ Before(Len(Connects) + 1) = Services
  BY ChainConstants DEF Before
<1>2. ASSUME NEW i \in DOMAIN Connects
      PROVE  Connects[i] \notin Before(i) /\ Before(i + 1) = Before(i) \cup {Connects[i]}
  <2>1. i \in Nat /\ \A j \in DOMAIN Connects : j \in Nat /\ (j < i + 1 <=> j < i \/ j = i)
    BY <1>2, ChainConstants
  <2>2. Connects[i] \notin Before(i)
    BY <1>2, <2>1, ChainAssumption DEF Before
  <2>3. Before(i + 1) = Before(i) \cup {Connects[i]}
    BY <1>2, <2>1 DEF Before
  <2>4. QED BY <2>2, <2>3
<1>3. QED BY <1>1, <1>2

\* Nothing is resolved, connected or run when the chain begins.
LEMMA ChainStarts == ChainInit => ChainInv
<1> SUFFICES ASSUME ChainInit PROVE ChainInv
  OBVIOUS
<1>1. ChainTypeOK
  <2>1. 1 \in DOMAIN Connects /\ 1 \in DOMAIN Selected
    BY ChainConstants
  <2>2. DOMAIN installers = Services /\ DOMAIN placed = Revisions /\ DOMAIN connected = Services
    BY DEF ChainInit
  <2>3. QED BY <2>1, <2>2 DEF ChainInit, ChainTypeOK, Phases
<1>2. InstallersMayRun
  BY DEF ChainInit, InstallersMayRun, MayRun
<1>3. QED
  BY <1>1, <1>2 DEF ChainInit, ChainInv, PlacedAsNamed, ExecutedMayRun, JoinedSoFar, AppliedSoFar, NothingWroteYet, EndedWhole

\* What the phases before acquire change: which of them it is, and approvals.
LEMMA EarlyKeeps ==
  ASSUME ChainInv, phase \in {"keys", "packages", "ask"},
         UNCHANGED <<plan, serving, client, installers, placed, published, registry, before, pending, executed, joined,
                     connected, assetsWrote>>,
         approve \subseteq approve', at' \in DOMAIN Connects,
         \/ phase' \in {"packages", "ask", "acquire"} /\ problems' = problems
         \/ phase' = "done" /\ problems' = TRUE
  PROVE  ChainInv'
<1> USE DEF ChainInv
<1>1. ChainTypeOK'
  BY DEF ChainTypeOK, Phases
<1>2. InstallersMayRun' /\ ExecutedMayRun'
  BY DEF InstallersMayRun, ExecutedMayRun, MayRun
<1>3. QED
  BY <1>1, <1>2 DEF PlacedAsNamed, JoinedSoFar, AppliedSoFar, NothingWroteYet, EndedWhole, BeforeAssets, Phases

\* A phase goes on to the next service, or past the last one to the next phase.
LEMMA NextServiceIs ==
  ASSUME ChainTypeOK, NEW following, NextService(following)
  PROVE  /\ at' \in DOMAIN Connects
         /\ \/ at' = at + 1 /\ phase' = phase
            \/ at' = 1 /\ phase' = following /\ at = Len(Connects)
  BY ChainConstants DEF NextService, ChainTypeOK

\* The phases in which nothing runs keep the invariant.
LEMMA EarlyStepsKeep == ChainInv /\ (KeysPresent \/ EnsuresPackages \/ AskNext \/ AnswerAsked) => ChainInv'
<1> SUFFICES ASSUME ChainInv, KeysPresent \/ EnsuresPackages \/ AskNext \/ AnswerAsked PROVE ChainInv'
  OBVIOUS
<1>0. ChainTypeOK /\ at \in DOMAIN Connects /\ 1 \in DOMAIN Connects
  BY ChainConstants DEF ChainInv, ChainTypeOK
<1>1. CASE KeysPresent
  BY <1>0, <1>1, EarlyKeeps DEF KeysPresent, Stops
<1>2. CASE EnsuresPackages
  BY <1>0, <1>2, EarlyKeeps DEF EnsuresPackages, Stops
<1>3. CASE AskNext
  BY <1>0, <1>3, EarlyKeeps, NextServiceIs DEF AskNext
<1>4. CASE AnswerAsked
  BY <1>0, <1>4, EarlyKeeps DEF AnswerAsked, Stops
<1>5. QED BY <1>1, <1>2, <1>3, <1>4

\* What others publish or write leaves what this run holds as it is.
LEMMA OthersKeep == ChainInv /\ (ServesAnew \/ OthersWrite) => ChainInv'
<1> SUFFICES ASSUME ChainInv, ServesAnew \/ OthersWrite PROVE ChainInv'
  OBVIOUS
<1> USE DEF ChainInv
<1>1. /\ UNCHANGED <<plan, approve, phase, at, client, installers, before, problems, pending, executed, joined, connected,
                    assetsWrote>>
      /\ phase # "done"
  BY DEF ServesAnew, OthersWrite, chainSteps
<1>2. /\ registry' \in Nat /\ registry <= registry'
      /\ serving' \in [Services -> Artifacts \cup {NoArtifact}]
      /\ DOMAIN placed' = Revisions
  BY DEF ServesAnew, OthersWrite, ChainTypeOK
<1>3. PlacedAsNamed'
  BY DEF ServesAnew, OthersWrite, ChainTypeOK, PlacedAsNamed, Revisions
<1>4. ChainTypeOK' /\ NothingWroteYet' /\ EndedWhole' /\ JoinedSoFar'
  BY <1>1, <1>2 DEF ChainTypeOK, NothingWroteYet, EndedWhole, JoinedSoFar, Applied
<1>5. InstallersMayRun' /\ ExecutedMayRun'
  BY <1>1 DEF InstallersMayRun, ExecutedMayRun, MayRun
<1>6. AppliedSoFar'
  BY <1>1, <1>2 DEF AppliedSoFar, Applied, ChainTypeOK
<1>7. QED BY <1>3, <1>4, <1>5, <1>6

\* A phase that stops the run says so.
LEMMA StopsKeeps ==
  ASSUME ChainInv, Stops, phase \in BeforeAssets \/ phase = "assets",
         ChainTypeOK', PlacedAsNamed', InstallersMayRun', ExecutedMayRun',
         joined \subseteq joined', joined' \subseteq Services,
         \A e \in executed' : e.phase = "assets" => e \in executed \/ joined = Services
  PROVE  ChainInv'
<1> USE DEF ChainInv
<1>1. JoinedSoFar'
  BY DEF JoinedSoFar, Stops
<1>2. AppliedSoFar' /\ NothingWroteYet' /\ EndedWhole'
  BY DEF AppliedSoFar, NothingWroteYet, EndedWhole, BeforeAssets, Stops
<1>3. QED BY <1>1, <1>2

\* The operator's checkout or an approved one runs; a package runs nothing here.
LEMMA AcquireKeeps == ChainInv /\ Acquire => ChainInv'
<1> SUFFICES ASSUME ChainInv, Acquire PROVE ChainInv'
  OBVIOUS
<1> USE DEF ChainInv
<1>1. /\ phase = "acquire" /\ joined = {}
      /\ UNCHANGED <<plan, serving, approve, client, asked, placed, published, before, pending, joined, connected>>
  BY DEF Acquire, JoinedSoFar
<1>2. Service \in Services
  BY ChainConstants DEF Service, ChainTypeOK
<1>3. PlacedAsNamed'
  BY <1>1 DEF PlacedAsNamed
<1>4. NextService("connect") => /\ at' \in DOMAIN Connects
                                /\ \/ at' = at + 1 /\ phase' = "acquire"
                                   \/ at' = 1 /\ phase' = "connect"
  BY <1>1, NextServiceIs
<1>5. ASSUME NEW installer, installer # NoInstaller,
             installers[Service] = NoInstaller => installer.from = "checkout" /\ installer.artifact \in approve,
             installers[Service] # NoInstaller => installer = installers[Service],
             installers' = [installers EXCEPT ![Service] = installer],
             Runs("acquire", installer),
             (NextService("connect") /\ UNCHANGED problems) \/ (Stops /\ UNCHANGED at)
      PROVE  ChainInv'
  <2>1. MayRun(Service, installer) /\ \A v, i : MayRun(v, i) => MayRun(v, i)'
    BY <1>1, <1>2, <1>5 DEF MayRun, InstallersMayRun
  <2>2. InstallersMayRun'
    <3>1. \A s \in Services : installers'[s] = IF s = Service THEN installer ELSE installers[s]
      BY <1>5 DEF ChainTypeOK
    <3>2. QED BY <1>2, <2>1, <3>1 DEF InstallersMayRun
  <2>3. executed' = executed \cup {[phase |-> "acquire", service |-> Service, installer |-> installer]}
    BY <1>5 DEF Runs
  <2>4. ExecutedMayRun'
    BY <2>1, <2>3 DEF ExecutedMayRun
  <2>5. registry' \in Nat /\ assetsWrote' \in BOOLEAN /\ (assetsWrote' => assetsWrote)
    BY <1>5 DEF Runs, ChainTypeOK
  <2>6. ChainTypeOK'
    <3>1. DOMAIN installers' = Services
      BY <1>5 DEF ChainTypeOK
    <3>2. phase' \in Phases /\ at' \in DOMAIN Connects /\ problems' \in BOOLEAN
      BY <1>4, <1>5 DEF ChainTypeOK, Phases, Stops
    <3>3. QED BY <1>1, <2>5, <3>1, <3>2 DEF ChainTypeOK
  <2>7. \A e \in executed' : e.phase = "assets" => e \in executed
    BY <2>3
  <2>8. CASE Stops
    BY <1>1, <1>3, <2>2, <2>4, <2>6, <2>7, <2>8, StopsKeeps DEF JoinedSoFar, BeforeAssets, Phases
  <2>9. CASE NextService("connect")
    <3>1. JoinedSoFar'
      BY <1>1, <1>4, <2>7, <2>9, InOrder DEF JoinedSoFar
    <3>2. AppliedSoFar' /\ NothingWroteYet' /\ EndedWhole'
      BY <1>1, <1>4, <2>5, <2>9 DEF AppliedSoFar, NothingWroteYet, EndedWhole, BeforeAssets, Phases
    <3>3. QED BY <1>3, <2>2, <2>4, <2>6, <3>1, <3>2
  <2>10. QED BY <1>5, <2>8, <2>9
<1>6. ASSUME NextService("connect"), UNCHANGED <<installers, problems, budget, executed, registry, assetsWrote>>
      PROVE  ChainInv'
  <2>1. ChainTypeOK'
    BY <1>1, <1>4, <1>6 DEF ChainTypeOK, Phases
  <2>2. InstallersMayRun' /\ ExecutedMayRun'
    BY <1>1, <1>6 DEF InstallersMayRun, ExecutedMayRun, MayRun
  <2>3. JoinedSoFar'
    BY <1>1, <1>4, <1>6, InOrder DEF JoinedSoFar
  <2>4. AppliedSoFar' /\ NothingWroteYet' /\ EndedWhole'
    BY <1>1, <1>4, <1>6 DEF AppliedSoFar, NothingWroteYet, EndedWhole, BeforeAssets, Phases
  <2>5. QED BY <1>3, <2>1, <2>2, <2>3, <2>4
<1>7. ASSUME Stops, UNCHANGED <<at, installers, executed, registry, assetsWrote>>
      PROVE  ChainInv'
  <2>1. ChainTypeOK'
    BY <1>1, <1>7 DEF ChainTypeOK, Phases, Stops
  <2>2. InstallersMayRun' /\ ExecutedMayRun'
    BY <1>1, <1>7 DEF InstallersMayRun, ExecutedMayRun, MayRun
  <2>3. QED BY <1>1, <1>3, <1>7, <2>1, <2>2, StopsKeeps DEF JoinedSoFar, BeforeAssets, Phases
<1>8. QED
  <2>1. CASE \E installer \in {installers[Service]} \cup {[from |-> "checkout", artifact |-> h] : h \in {Url, NoArtifact}} :
          /\ installer # NoInstaller
          /\ installers[Service] = NoInstaller => CheckedOut(Url, installer.artifact)
          /\ installers[Service] # NoInstaller => installer = installers[Service]
          /\ installers' = [installers EXCEPT ![Service] = installer]
          /\ Runs("acquire", installer)
          /\ \/ NextService("connect") /\ UNCHANGED <<problems, budget>>
             \/ Hitch /\ Stops /\ UNCHANGED at
    <3>1. PICK installer \in {installers[Service]} \cup {[from |-> "checkout", artifact |-> h] : h \in {Url, NoArtifact}} :
            /\ installer # NoInstaller
            /\ installers[Service] = NoInstaller => CheckedOut(Url, installer.artifact)
            /\ installers[Service] # NoInstaller => installer = installers[Service]
            /\ installers' = [installers EXCEPT ![Service] = installer]
            /\ Runs("acquire", installer)
            /\ \/ NextService("connect") /\ UNCHANGED problems
               \/ Stops /\ UNCHANGED at
      BY <2>1
    <3>2. installers[Service] = NoInstaller => installer.from = "checkout" /\ installer.artifact \in approve
      BY <3>1 DEF CheckedOut
    <3>3. QED BY <1>5, <3>1, <3>2
  <2>2. CASE NextService("connect") /\ UNCHANGED <<installers, problems, budget, executed, registry, assetsWrote>>
    BY <1>6, <2>2
  <2>3. CASE Stops /\ UNCHANGED <<at, installers, executed, registry, assetsWrote>>
    BY <1>7, <2>3
  <2>4. QED BY ONLY Acquire, <2>1, <2>2, <2>3 DEF Acquire

\* A connect joins its service, which was not joined before, so nothing that ran
\* or is to run rests on what the connect records.
LEMMA ConnectKeeps == ChainInv /\ ConnectInstalls => ChainInv'
<1> SUFFICES ASSUME ChainInv, ConnectInstalls PROVE ChainInv'
  OBVIOUS
<1> USE DEF ChainInv
<1>1. /\ phase = "connect" /\ joined = Before(at) /\ at \in DOMAIN Connects
      /\ UNCHANGED <<plan, serving, approve, client, installers, before, pending, executed, assetsWrote, at>>
  BY DEF ConnectInstalls, JoinedSoFar, ChainTypeOK
<1>2. Service \in Services /\ Service \notin joined /\ Before(at + 1) = joined \cup {Service}
  BY <1>1, ChainConstants, InOrder DEF Service
<1>3. CASE Stops /\ UNCHANGED <<placed, published, registry, joined, connected, asked>>
  <2>1. ChainTypeOK' /\ PlacedAsNamed'
    BY <1>1, <1>3 DEF ChainTypeOK, Phases, Stops, PlacedAsNamed
  <2>2. InstallersMayRun' /\ ExecutedMayRun'
    BY <1>1, <1>3 DEF InstallersMayRun, ExecutedMayRun, MayRun
  <2>3. QED BY <1>1, <1>3, <2>1, <2>2, StopsKeeps DEF JoinedSoFar, BeforeAssets, Phases
<1>4. ASSUME placed' = IF Url.kind = "package" THEN [placed EXCEPT ![Url.revision] = Url] ELSE placed,
             joined' = joined \cup {Service}, registry' = registry + 1, phase' = "entry", UNCHANGED problems,
             DOMAIN connected' = DOMAIN connected, \A s \in Services \ {Service} : connected'[s] = connected[s]
      PROVE  ChainInv'
  <2>1. ChainTypeOK'
    BY <1>1, <1>4 DEF ChainTypeOK, Phases
  <2>2. PlacedAsNamed'
    BY <1>4 DEF PlacedAsNamed, ChainTypeOK
  <2>3. \A s \in Services : \A installer : MayRun(s, installer) => MayRun(s, installer)'
    BY <1>1, <1>2, <1>4 DEF MayRun
  <2>4. InstallersMayRun'
    BY <1>1, <2>3 DEF InstallersMayRun
  <2>5. ExecutedMayRun'
    BY <1>1, <1>2, <1>4 DEF ExecutedMayRun, MayRun, JoinedSoFar
  <2>6. JoinedSoFar'
    BY <1>1, <1>2, <1>4 DEF JoinedSoFar
  <2>7. AppliedSoFar' /\ NothingWroteYet' /\ EndedWhole'
    BY <1>1, <1>4 DEF AppliedSoFar, NothingWroteYet, EndedWhole, BeforeAssets, Phases
  <2>8. QED BY <2>1, <2>2, <2>4, <2>5, <2>6, <2>7
<1>5. QED
  BY <1>3, <1>4 DEF ConnectInstalls, ChainTypeOK

\* The entry of a package is resolved once its service is connected, into the
\* directory the connect recorded.
LEMMA EntryKeeps == ChainInv /\ PackageEntry => ChainInv'
<1> SUFFICES ASSUME ChainInv, PackageEntry PROVE ChainInv'
  OBVIOUS
<1> USE DEF ChainInv
<1>1. /\ phase = "entry" /\ joined = Before(at + 1) /\ at \in DOMAIN Connects
      /\ UNCHANGED <<plan, serving, approve, client, asked, placed, published, registry, before, pending, executed,
                    joined, connected, assetsWrote>>
  BY DEF PackageEntry, JoinedSoFar, ChainTypeOK
<1>2. Service \in Services /\ Service \in joined
  BY <1>1, ChainConstants, InOrder DEF Service
<1>3. PlacedAsNamed'
  BY <1>1 DEF PlacedAsNamed
<1>4. ASSUME InstallersMayRun', DOMAIN installers' = Services, UNCHANGED problems,
             IF at < Len(Connects) THEN at' = at + 1 /\ phase' = "connect" ELSE at' = 1 /\ phase' = "render"
      PROVE  ChainInv'
  <2>1. /\ at' \in DOMAIN Connects
        /\ \/ phase' = "connect" /\ joined = Before(at')
           \/ phase' = "render" /\ joined = Services /\ at' = 1
    BY <1>1, <1>4, ChainConstants, InOrder
  <2>2. ChainTypeOK' /\ ExecutedMayRun'
    BY <1>1, <1>4, <2>1 DEF ChainTypeOK, Phases, ExecutedMayRun, MayRun
  <2>3. JoinedSoFar' /\ AppliedSoFar' /\ NothingWroteYet' /\ EndedWhole'
    BY <1>1, <1>4, <2>1 DEF JoinedSoFar, AppliedSoFar, NothingWroteYet, EndedWhole, BeforeAssets, Phases
  <2>4. QED BY <1>3, <1>4, <2>2, <2>3
<1>5. ASSUME UNCHANGED installers
      PROVE  InstallersMayRun' /\ DOMAIN installers' = Services
  BY <1>1, <1>5 DEF InstallersMayRun, MayRun, ChainTypeOK
<1>6. ASSUME IsPlaced(Url), IsAccepted(Url),
             installers' = [installers EXCEPT ![Service] = [from |-> "package", artifact |-> placed[Url.revision]]]
      PROVE  InstallersMayRun' /\ DOMAIN installers' = Services
  <2>1. placed[Url.revision].revision = Url.revision
    BY <1>6 DEF IsPlaced, PlacedAsNamed
  <2>2. MayRun(Service, [from |-> "package", artifact |-> placed[Url.revision]])
    BY <1>2, <1>6, <2>1 DEF MayRun, IsAccepted
  <2>3. \A v, i : MayRun(v, i) => MayRun(v, i)'
    BY <1>1 DEF MayRun
  <2>4. DOMAIN installers' = Services
    BY <1>6 DEF ChainTypeOK
  <2>5. \A s \in Services : installers'[s] =
          IF s = Service THEN [from |-> "package", artifact |-> placed[Url.revision]] ELSE installers[s]
    BY <1>6 DEF ChainTypeOK
  <2>6. InstallersMayRun'
    BY <2>2, <2>3, <2>5 DEF InstallersMayRun
  <2>7. QED BY <2>4, <2>6
<1>7. ASSUME Stops, UNCHANGED <<at, installers>>
      PROVE  ChainInv'
  <2>1. ChainTypeOK'
    BY <1>1, <1>7 DEF ChainTypeOK, Phases, Stops
  <2>2. ExecutedMayRun'
    BY <1>1, <1>7 DEF ExecutedMayRun, MayRun
  <2>3. QED BY <1>1, <1>3, <1>5, <1>7, <2>1, <2>2, StopsKeeps DEF JoinedSoFar, BeforeAssets, Phases
<1>8. QED
  BY <1>4, <1>5, <1>6, <1>7 DEF PackageEntry

\* The plan is rendered once for all services before any of their assets.
LEMMA RenderKeeps == ChainInv /\ Render => ChainInv'
<1> SUFFICES ASSUME ChainInv, Render PROVE ChainInv'
  OBVIOUS
<1> USE DEF ChainInv
<1>1. /\ phase = "render" /\ joined = Services /\ client \in DOMAIN Selected
      /\ UNCHANGED <<plan, serving, approve, at, asked, installers, placed, published, registry, pending, executed,
                    joined, connected, assetsWrote>>
  BY DEF Render, JoinedSoFar, ChainTypeOK
<1>2. PlacedAsNamed' /\ InstallersMayRun' /\ ExecutedMayRun'
  BY <1>1 DEF PlacedAsNamed, InstallersMayRun, ExecutedMayRun, MayRun
<1>3. CASE Stops /\ UNCHANGED <<client, before>>
  <2>1. ChainTypeOK'
    BY <1>1, <1>3 DEF ChainTypeOK, Phases, Stops
  <2>2. QED BY <1>1, <1>2, <1>3, <2>1, StopsKeeps DEF JoinedSoFar, BeforeAssets, Phases
<1>4. CASE client < Len(Selected) /\ client' = client + 1 /\ UNCHANGED <<phase, problems, budget, before>>
  <2>1. ChainTypeOK'
    BY <1>1, <1>4, ChainConstants DEF ChainTypeOK, Phases
  <2>2. JoinedSoFar' /\ AppliedSoFar' /\ NothingWroteYet' /\ EndedWhole'
    BY <1>1, <1>4 DEF JoinedSoFar, AppliedSoFar, NothingWroteYet, EndedWhole, BeforeAssets, Phases
  <2>3. QED BY <1>2, <2>1, <2>2
<1>5. CASE client' = 1 /\ phase' = "assets" /\ before' = registry /\ UNCHANGED <<problems, budget>>
  <2>1. ChainTypeOK'
    BY <1>1, <1>5, ChainConstants DEF ChainTypeOK, Phases
  <2>2. JoinedSoFar' /\ NothingWroteYet' /\ EndedWhole'
    BY <1>1, <1>5 DEF JoinedSoFar, NothingWroteYet, EndedWhole, BeforeAssets, Phases
  <2>3. AppliedSoFar'
    BY <1>1, <1>5, ChainConstants DEF AppliedSoFar, JoinedSoFar, NothingWroteYet, BeforeAssets, Phases, ChainTypeOK
  <2>4. QED BY <1>2, <2>1, <2>2, <2>3
<1>6. QED BY <1>3, <1>4, <1>5 DEF Render

\* Where assets go on to: the next service, the next client or the end, which
\* compares the registry.
LEMMA AdvancesIs ==
  ASSUME NEW reg, NEW service \in DOMAIN Connects, NEW person \in DOMAIN Selected, Advances(reg, service, person)
  PROVE  \/ /\ service + 1 \in DOMAIN Connects /\ at' = service + 1 /\ client' = person
            /\ UNCHANGED <<phase, problems>>
         \/ /\ service = Len(Connects) /\ at' = 1 /\ person + 1 \in DOMAIN Selected /\ client' = person + 1
            /\ UNCHANGED <<phase, problems>>
         \/ /\ service = Len(Connects) /\ at' = 1 /\ person = Len(Selected)
            /\ UNCHANGED client /\ phase' = "done" /\ Compared(reg)
  BY ChainConstants DEF Advances

\* A client's step of the assets: what is applied stays applied, and after the
\* last service either all of them are or the client is pending.
LEMMA AdvanceKeeps ==
  ASSUME ChainInv, phase = "assets",
         UNCHANGED <<plan, serving, approve, asked, installers, placed, published, before, joined, connected>>,
         NEW service \in DOMAIN Connects, Advances(registry', service, client),
         executed \subseteq executed', ExecutedMayRun', pending \subseteq pending',
         NEW own, own = Connects[at],
         \/ service = at /\ Applied(own)'
         \/ service = Len(Connects) /\ \E c \in pending' : c = Selected[client],
         registry' \in Nat, assetsWrote' \in BOOLEAN,
         registry <= registry', assetsWrote' => assetsWrote \/ registry < registry'
  PROVE  ChainInv'
<1> USE DEF ChainInv
<1>1. /\ joined = Services /\ at \in DOMAIN Connects /\ client \in DOMAIN Selected
      /\ \A i \in DOMAIN Connects : i < at => Applied(Connects[i])
      /\ (\A j \in DOMAIN Selected : j < client => Selected[j] \in pending) \/ \A s \in Services : Applied(s)
      /\ before <= registry /\ (assetsWrote => before < registry)
      /\ before \in Nat /\ registry \in Nat
  BY DEF JoinedSoFar, AppliedSoFar, ChainTypeOK
<1>2. \A s : Applied(s) => Applied(s)'
  BY DEF Applied
<1>3. before <= registry' /\ (assetsWrote' => before < registry')
  BY <1>1
<1>4. \/ /\ service + 1 \in DOMAIN Connects /\ at' = service + 1 /\ client' = client
         /\ UNCHANGED <<phase, problems>>
      \/ /\ service = Len(Connects) /\ at' = 1 /\ client + 1 \in DOMAIN Selected /\ client' = client + 1
         /\ UNCHANGED <<phase, problems>>
      \/ /\ service = Len(Connects) /\ at' = 1 /\ client = Len(Selected)
         /\ UNCHANGED client /\ phase' = "done" /\ Compared(registry')
  BY <1>1, AdvancesIs
<1>5. 1 \in DOMAIN Connects /\ DOMAIN Connects \subseteq Nat /\ DOMAIN Selected \subseteq Nat
  BY ChainConstants
<1>6. PlacedAsNamed' /\ InstallersMayRun'
  BY DEF PlacedAsNamed, InstallersMayRun, MayRun
<1>7. ChainTypeOK'
  <2>1. problems' \in BOOLEAN /\ phase' \in Phases
    BY <1>4 DEF ChainTypeOK, Compared, Phases
  <2>2. at' \in DOMAIN Connects /\ client' \in DOMAIN Selected
    BY <1>1, <1>4, <1>5
  <2>3. QED BY <2>1, <2>2 DEF ChainTypeOK
<1>8. JoinedSoFar' /\ NothingWroteYet'
  BY <1>1, <1>4 DEF JoinedSoFar, NothingWroteYet, BeforeAssets
<1>9. \* after the last service
      ASSUME service = Len(Connects)
      PROVE  \/ \A j \in DOMAIN Selected : j < client + 1 => Selected[j] \in pending'
             \/ \A s \in Services : Applied(s)'
  <2>1. CASE service = at /\ Applied(own)'
    <3>1. ASSUME NEW i \in DOMAIN Connects PROVE Applied(Connects[i])'
      <4>1. i < at \/ i = at
        BY <1>9, <2>1, ChainConstants
      <4>2. QED BY <1>1, <1>2, <2>1, <4>1
    <3>2. QED BY <3>1, ChainConstants
  <2>2. CASE \E c \in pending' : c = Selected[client]
    <3>1. \A j \in DOMAIN Selected : j < client + 1 => j < client \/ j = client
      BY <1>1, <1>5
    <3>2. QED BY <1>1, <1>2, <2>2, <3>1
  <2>3. QED BY <2>1, <2>2
<1>10. AppliedSoFar'
  <2>1. CASE service + 1 \in DOMAIN Connects /\ at' = service + 1 /\ client' = client
    <3>1. service = at /\ Applied(own)'
      BY <2>1, ChainConstants
    <3>2. \A i \in DOMAIN Connects : i < at + 1 => i < at \/ i = at
      BY <1>1, <1>5
    <3>3. \A i \in DOMAIN Connects : i < at' => Applied(Connects[i])'
      BY <1>1, <1>2, <2>1, <3>1, <3>2
    <3>4. QED BY <1>1, <1>2, <1>3, <2>1, <3>3 DEF AppliedSoFar
  <2>2. CASE service = Len(Connects) /\ at' = 1 /\ client' = client + 1
    <3>1. \A i \in DOMAIN Connects : ~ (i < 1)
      BY ChainConstants
    <3>2. QED BY <1>3, <1>9, <2>2, <3>1 DEF AppliedSoFar
  <2>3. CASE phase' = "done"
    BY <2>3 DEF AppliedSoFar
  <2>4. QED BY <1>4, <2>1, <2>2, <2>3
<1>11. EndedWhole'
  <2> SUFFICES ASSUME phase' = "done", ~ problems' PROVE EndedWhole'
    BY DEF EndedWhole
  <2>1. service = Len(Connects) /\ client = Len(Selected) /\ Compared(registry')
    BY <1>4
  <2>2. ~ assetsWrote'
    BY <1>1, <1>3, <2>1 DEF Compared
  <2>3. ToSet(Selected) \subseteq pending' \/ \A s \in Services : Applied(s)'
    <3>1. \A j \in DOMAIN Selected : j < client + 1
      BY <2>1, ChainConstants
    <3>2. QED BY <1>9, <2>1, <3>1, ChainConstants
  <2>4. QED BY <1>1, <2>2, <2>3 DEF EndedWhole
<1>12. QED BY <1>6, <1>7, <1>8, <1>10, <1>11

\* A step of the assets phase keeps the invariant, whatever the installer does.
LEMMA AssetsKeep == ChainInv /\ Assets => ChainInv'
<1> SUFFICES ASSUME ChainInv, Assets PROVE ChainInv'
  OBVIOUS
<1> USE DEF ChainInv
<1>1. /\ phase = "assets" /\ joined = Services /\ at \in DOMAIN Connects /\ client \in DOMAIN Selected
      /\ registry \in Nat /\ assetsWrote \in BOOLEAN
      /\ UNCHANGED <<plan, serving, approve, asked, installers, placed, published, before, joined, connected>>
  BY DEF Assets, JoinedSoFar, ChainTypeOK
<1>2. PICK own : /\ Len(Connects) \in DOMAIN Connects /\ own \in Services
                  /\ own = Service /\ own = Connects[at]
  BY <1>1, ChainConstants DEF Service
<1>3. \A v, i : MayRun(v, i) => MayRun(v, i)'
  BY <1>1 DEF MayRun
<1>4. \* the client's command is missing
      CASE /\ pending' = pending \cup {Selected[client]}
           /\ Advances(registry, Len(Connects), client)
           /\ UNCHANGED <<executed, registry, assetsWrote>>
  <2>1. ExecutedMayRun'
    BY <1>3, <1>4 DEF ExecutedMayRun
  <2>2. QED BY <1>1, <1>2, <1>4, <2>1, AdvanceKeeps
<1>5. \* nothing was resolved for this service
      CASE /\ installers[Service] = NoInstaller /\ Advances(registry, at, client)
           /\ UNCHANGED <<executed, registry, assetsWrote, pending>>
  <2>1. ExecutedMayRun'
    BY <1>3, <1>5 DEF ExecutedMayRun
  <2>2. Applied(own)'
    BY <1>1, <1>2, <1>5 DEF Applied
  <2>3. QED BY <1>1, <1>2, <1>5, <2>1, <2>2, AdvanceKeeps
<1>6. \* its installer runs
      CASE /\ installers[Service] # NoInstaller /\ Runs("assets", installers[Service]) /\ UNCHANGED pending
           /\ Advances(registry', at, client) \/ (Stops /\ UNCHANGED <<at, client>>)
  <2>1. executed' = executed \cup {[phase |-> "assets", service |-> Service, installer |-> installers[Service]]}
    BY <1>6 DEF Runs
  <2>2. /\ registry' \in Nat /\ registry <= registry' /\ assetsWrote' \in BOOLEAN
        /\ (assetsWrote' => assetsWrote \/ registry < registry')
    <3>1. \/ UNCHANGED <<registry, assetsWrote>>
          \/ registry' = registry + 1 /\ assetsWrote' \in BOOLEAN
      BY <1>1, <1>6 DEF Runs
    <3>2. QED BY <1>1, <3>1
  <2>3. ExecutedMayRun'
    <3>1. MayRun(own, installers[own])'
      BY <1>1, <1>2, <1>3, <1>6 DEF InstallersMayRun, MayRun
    <3>2. executed' = executed \cup {[phase |-> "assets", service |-> own, installer |-> installers'[own]]}
      BY <1>1, <1>2, <2>1
    <3>3. QED BY <1>3, <3>1, <3>2 DEF ExecutedMayRun
  <2>4. Applied(own)'
    BY <1>1, <1>2, <2>1 DEF Applied
  <2>5. CASE Advances(registry', at, client)
    BY <1>1, <1>2, <1>6, <2>1, <2>2, <2>3, <2>4, <2>5, AdvanceKeeps
  <2>6. CASE Stops /\ UNCHANGED <<at, client>>
    <3>1. ChainTypeOK'
      BY <1>1, <2>2, <2>6 DEF ChainTypeOK, Phases, Stops
    <3>2. PlacedAsNamed' /\ InstallersMayRun'
      BY <1>1, <1>3 DEF PlacedAsNamed, InstallersMayRun
    <3>3. QED BY <1>1, <2>3, <2>6, <3>1, <3>2, StopsKeeps DEF JoinedSoFar
  <2>7. QED BY <1>6, <2>5, <2>6
<1>7. \* the variables to withhold cannot be read
      CASE Stops /\ UNCHANGED <<at, client, executed, registry, assetsWrote, pending>>
  <2>1. ChainTypeOK'
    BY <1>1, <1>7 DEF ChainTypeOK, Phases, Stops
  <2>2. PlacedAsNamed' /\ InstallersMayRun' /\ ExecutedMayRun'
    BY <1>1, <1>3, <1>7 DEF PlacedAsNamed, InstallersMayRun, ExecutedMayRun
  <2>3. QED BY <1>1, <1>7, <2>1, <2>2, StopsKeeps DEF JoinedSoFar
<1>8. QED BY <1>4, <1>5, <1>6, <1>7 DEF Assets

\* The invariant of the chain holds throughout.
LEMMA ChainInvHolds == ChainSpec => []ChainInv
<1>1. ChainInv /\ [ChainNext]_chainVars => ChainInv'
  <2> SUFFICES ASSUME ChainInv, [ChainNext]_chainVars PROVE ChainInv'
    OBVIOUS
  <2>1. CASE UNCHANGED chainVars
    BY <2>1 DEF chainVars, ChainInv, ChainTypeOK, PlacedAsNamed, InstallersMayRun, ExecutedMayRun, MayRun, JoinedSoFar,
                AppliedSoFar, Applied, NothingWroteYet, EndedWhole
  <2>2. QED
    BY <2>1, OthersKeep, EarlyStepsKeep, AcquireKeeps, ConnectKeeps, EntryKeeps, RenderKeeps, AssetsKeep DEF ChainNext
<1>2. QED BY <1>1, ChainStarts, PTL DEF ChainSpec

\* Nothing runs that was not approved, a run that says it is complete is, and
\* assets come last.
THEOREM ChainHolds == ChainSpec => []ChainIsSafe
<1>1. ChainInv => ChainIsSafe
  <2> SUFFICES ASSUME ChainInv PROVE ChainIsSafe
    OBVIOUS
  <2>1. OnlyApprovedRuns
    BY DEF ChainInv, ExecutedMayRun, MayRun, OnlyApprovedRuns
  <2>2. CompleteIsComplete
    BY DEF ChainInv, EndedWhole, Applied, Complete, CompleteIsComplete
  <2>3. AssetsComeLast
    BY DEF ChainInv, JoinedSoFar, AssetsComeLast
  <2>4. QED BY <2>1, <2>2, <2>3 DEF ChainIsSafe
<1>2. QED BY <1>1, ChainInvHolds, PTL

-----------------------------------------------------------------------------
(***************************************************************************)
(* The credential store.                                                   *)
(***************************************************************************)
Acls == {None, "wide", "private"}
FileShape == [name : Spellings \cup {None}, key : Values \cup {None}, acl : Acls, by : Savers \cup {None}, node : Nat, stamp : Nat]
TempShape == [key : Values \cup {None}, acl : Acls]
CommandShape == [stage : {"idle", "scan", "stage", "rename"}, ref : Spellings \cup {None},
                 key : Values \cup {None}, saw : Spellings \cup {None}]
ReadShape == [stage : {"idle", "acl", "waits", "judge"}, env : Values \cup {None}, node : Nat, stamp : Nat,
              asks : Readers \cup {None}, text : Acls \cup {"unknown"}, key : Values \cup {None}]

CredTypeOK ==
  /\ root \in {"absent", "wide", "private"}
  /\ keyFile \in FileShape
  /\ temps \in [Savers -> TempShape]
  /\ writer \in [Savers -> CommandShape]
  /\ reader \in [Readers -> ReadShape]
  /\ entry \in [node : Nat, stamp : Nat, by : Readers \cup {None}, text : Acls]
  /\ clock \in Nat
  /\ privates \subseteq Nat

\* A command at work has been given its reference.
RefsAreGiven == \A w \in Savers : writer[w].stage # "idle" => writer[w].ref \in Spellings

\* A file that is there has the clock's last stamp and the name of somebody's
\* reference.
FileIsLatest ==
  keyFile # NoFile => keyFile.name \in Spellings /\ keyFile.stamp = clock /\ clock > 0 /\ (IsPrivate(keyFile.acl) => clock \in privates)

\* A command goes on only under a private directory, and past its scan it saw
\* no file or its own.
CommandsAreCareful ==
  \A w \in Savers :
    /\ writer[w].stage # "idle" => root = "private"
    /\ temps[w] # NoTemp => root = "private"
    /\ writer[w].stage \in {"stage", "rename"} => writer[w].saw \in {None, writer[w].ref}

KeptWasPrivate(stamp) == \E s \in privates : s >= stamp

\* What is said to be private was private when its file was looked at, or
\* since.
AnswersWerePrivate ==
  /\ \A r \in Readers :
       /\ reader[r].stage # "idle" => reader[r].stamp > 0
       /\ reader[r].stamp <= clock
       /\ reader[r].text = "private" => KeptWasPrivate(reader[r].stamp)
  /\ entry.stamp <= clock
  /\ entry.text = "private" => KeptWasPrivate(entry.stamp)

CredInv ==
  CredTypeOK /\ RefsAreGiven /\ FileIsLatest /\ CommandsAreCareful /\ AnswersWerePrivate
    /\ KeysStayPrivate /\ PresentedWasPrivate

LEMMA CredBegins ==
  ASSUME CredAssumption, StoreInit
  PROVE  CredInv
  BY DEF CredAssumption, StoreInit, CredInv, CredTypeOK, RefsAreGiven, FileIsLatest, CommandsAreCareful, AnswersWerePrivate,
         KeysStayPrivate, PresentedWasPrivate, NoFile, NoTemp, Quiet, Unread, NoEntry, None, Acls, KeptWasPrivate, FileShape, TempShape, CommandShape, ReadShape

\* The clock and the private stamps only grow, which is all the reads ask of
\* the other side.
LEMMA ReadsStay ==
  ASSUME CredInv, UNCHANGED <<reader, entry>>, clock' \in Nat, clock' >= clock, privates \subseteq privates'
  PROVE  AnswersWerePrivate' /\ PresentedWasPrivate'
<1>1. clock \in Nat /\ reader \in [Readers -> ReadShape] /\ entry.stamp \in Nat
  BY DEF CredInv, CredTypeOK
<1>2. \A n \in Nat : KeptWasPrivate(n) => KeptWasPrivate(n)'
  BY DEF KeptWasPrivate
<1>3. \A r \in Readers : reader[r].stamp \in Nat
  BY <1>1 DEF ReadShape
<1>4. AnswersWerePrivate'
  BY <1>1, <1>2, <1>3 DEF CredInv, AnswersWerePrivate
<1>5. PresentedWasPrivate'
  BY <1>2, <1>3 DEF CredInv, PresentedWasPrivate, KeptWasPrivate
<1>6. QED BY <1>4, <1>5

\* The file changes to one that the clock's next number stamps.
LEMMA BecomesKeeps ==
  ASSUME CredAssumption, CredInv, NEW f \in FileShape, Becomes(f), f.name \in Spellings, f.by \in Savers => f.acl = "private"
  PROVE  /\ keyFile' \in FileShape
         /\ keyFile'.name = f.name /\ keyFile'.acl = f.acl /\ keyFile'.by = f.by /\ keyFile'.key = f.key /\ keyFile'.node = f.node
         /\ keyFile' # NoFile
         /\ FileIsLatest' /\ clock' = clock + 1 /\ clock' \in Nat /\ privates' \subseteq Nat /\ privates \subseteq privates'
         /\ keyFile'.by \in Savers => keyFile'.acl = "private"
<1>1. clock \in Nat /\ privates \subseteq Nat
  BY DEF CredInv, CredTypeOK
<1>2. clock' = clock + 1 /\ keyFile' = [f EXCEPT !.stamp = clock + 1]
  BY DEF Becomes
<1>3. privates \subseteq privates' /\ privates' \subseteq Nat /\ (IsPrivate(f.acl) => clock' \in privates')
  BY <1>1, <1>2 DEF Becomes
<1>4. /\ keyFile' \in FileShape
      /\ keyFile'.name = f.name /\ keyFile'.acl = f.acl /\ keyFile'.by = f.by /\ keyFile'.key = f.key /\ keyFile'.node = f.node /\ keyFile'.stamp = clock'
  BY <1>1, <1>2 DEF FileShape
<1>5. keyFile' # NoFile
  BY <1>4 DEF NoFile, CredAssumption
<1>6. FileIsLatest'
  BY <1>1, <1>2, <1>3, <1>4 DEF FileIsLatest, IsPrivate
<1>7. QED BY <1>1, <1>2, <1>3, <1>4, <1>5, <1>6

\* A command goes from one place to the next.
LEMMA CommandGoes ==
  ASSUME CredInv, NEW w \in Savers, NEW new \in CommandShape, writer' = [writer EXCEPT ![w] = new],
         root' \in {"absent", "wide", "private"}, root = "private" => root' = "private",
         new.stage # "idle" => root' = "private" /\ new.ref \in Spellings,
         new.stage \in {"stage", "rename"} => new.saw \in {None, new.ref},
         temps' \in [Savers -> TempShape],
         \A v \in Savers : temps'[v] \in {temps[v], NoTemp} \/ root' = "private"
  PROVE  /\ root' \in {"absent", "wide", "private"} /\ temps' \in [Savers -> TempShape] /\ writer' \in [Savers -> CommandShape]
         /\ RefsAreGiven' /\ CommandsAreCareful'
         /\ \A v \in Savers : temps'[v] # NoTemp => root' = "private"
<1>1. writer' \in [Savers -> CommandShape]
  BY DEF CredInv, CredTypeOK
<1>2. \A v \in Savers : writer'[v] = IF v = w THEN new ELSE writer[v]
  BY DEF CredInv, CredTypeOK
<1>3. RefsAreGiven'
  BY <1>2 DEF CredInv, RefsAreGiven
<1>4. \A v \in Savers : temps'[v] # NoTemp => root' = "private"
  BY DEF CredInv, CommandsAreCareful
<1>5. CommandsAreCareful'
  BY <1>2, <1>4 DEF CredInv, CommandsAreCareful
<1>6. QED BY <1>1, <1>3, <1>4, <1>5

\* What is left to show of a command's step that leaves the file alone.
LEMMA FileStays ==
  ASSUME CredInv, UNCHANGED <<keyFile, clock, privates, reader, entry>>,
         root' \in {"absent", "wide", "private"}, temps' \in [Savers -> TempShape], writer' \in [Savers -> CommandShape],
         RefsAreGiven', CommandsAreCareful', \A v \in Savers : temps'[v] # NoTemp => root' = "private"
  PROVE  CredInv' /\ OthersKeysSurvive
<1>1. CredTypeOK' /\ FileIsLatest' /\ KeysStayPrivate'
  BY DEF CredInv, CredTypeOK, FileIsLatest, KeysStayPrivate
<1>2. AnswersWerePrivate' /\ PresentedWasPrivate'
  BY ReadsStay DEF CredInv, CredTypeOK
<1>3. QED BY <1>1, <1>2 DEF CredInv, OthersKeysSurvive

LEMMA CredWrites ==
  ASSUME CredAssumption, CredInv, NEW w \in Savers,
         EnsuresRoot(w) \/ Scans(w) \/ Stages(w) \/ Renames(w) \/ Abandons(w)
  PROVE  CredInv' /\ OthersKeysSurvive
<1>0. writer[w] \in CommandShape /\ temps \in [Savers -> TempShape] /\ Quiet \in CommandShape /\ NoTemp \in TempShape
      /\ Quiet.stage = "idle" /\ root \in {"absent", "wide", "private"}
      /\ (writer[w].stage # "idle" => root = "private" /\ writer[w].ref \in Spellings)
      /\ (writer[w].stage \in {"stage", "rename"} => writer[w].saw \in {None, writer[w].ref})
  BY DEF CredInv, CredTypeOK, Quiet, NoTemp, CommandShape, TempShape, Acls, RefsAreGiven, CommandsAreCareful
<1>1. CASE EnsuresRoot(w)
  <2>1. root' \in {"wide", "private"} /\ (root = "private" => root' = "private")
    BY <1>1 DEF EnsuresRoot
  <2>2. UNCHANGED <<keyFile, temps, clock, privates, reader, entry>> /\ writer[w].stage = "idle"
    BY <1>1 DEF EnsuresRoot, readSide
  <2>3. \E new \in CommandShape : /\ writer' = [writer EXCEPT ![w] = new]
                                  /\ new.stage # "idle" => root' = "private" /\ new.ref \in Spellings
                                  /\ new.stage \notin {"stage", "rename"}
    <3>1. CASE root' = "private"
      <4>1. PICK s \in Spellings, v \in Values : writer' = [writer EXCEPT ![w] = [Quiet EXCEPT !.stage = "scan", !.ref = s, !.key = v]]
        BY <1>1, <3>1 DEF EnsuresRoot, RootProven, IsPrivate
      <4> DEFINE new == [Quiet EXCEPT !.stage = "scan", !.ref = s, !.key = v]
      <4>2. new \in CommandShape /\ new.stage = "scan" /\ new.ref = s
        BY DEF CommandShape, Quiet
      <4> HIDE DEF new
      <4>3. writer' = [writer EXCEPT ![w] = new]
        BY <4>1 DEF new
      <4> QED BY <3>1, <4>2, <4>3
    <3>2. CASE root' # "private"
      <4>1. writer' = [writer EXCEPT ![w] = writer[w]]
        BY <1>1, <3>2 DEF EnsuresRoot, RootProven, IsPrivate, CredInv, CredTypeOK
      <4> QED BY <1>0, <2>2, <4>1
    <3> QED BY <3>1, <3>2
  <2> QED BY <1>0, <2>1, <2>2, <2>3, CommandGoes, FileStays
<1>2. CASE Scans(w)
  <2>1. UNCHANGED <<root, keyFile, temps, clock, privates, reader, entry>> /\ writer[w].stage = "scan"
    BY <1>2 DEF Scans, readSide
  <2>2. CASE Collides(keyFile, writer[w].ref)
    <3>1. writer' = [writer EXCEPT ![w] = Quiet]
      BY <1>2, <2>2 DEF Scans
    <3> QED BY <1>0, <2>1, <3>1, CommandGoes, FileStays
  <2>3. CASE ~ Collides(keyFile, writer[w].ref)
    <3> DEFINE new == [writer[w] EXCEPT !.stage = "stage", !.saw = keyFile.name]
    <3>1. keyFile.name \in Spellings \cup {None} /\ keyFile.name \in {None, writer[w].ref}
      BY <2>3 DEF Collides, NoFile, CredInv, CredTypeOK, FileShape
    <3>2. new \in CommandShape /\ new.stage = "stage" /\ new.ref = writer[w].ref /\ new.saw = keyFile.name
      BY <1>0, <3>1 DEF CommandShape
    <3>3. writer' = [writer EXCEPT ![w] = new]
      BY <1>2, <2>3 DEF Scans, CredInv, CredTypeOK
    <3> HIDE DEF new
    <3> QED BY <1>0, <2>1, <3>1, <3>2, <3>3, CommandGoes, FileStays
  <2> QED BY <2>2, <2>3
<1>3. CASE Stages(w)
  <2> DEFINE new == [writer[w] EXCEPT !.stage = "rename"]
  <2>1. writer[w].stage = "stage" /\ UNCHANGED <<root, keyFile, clock, privates, reader, entry>> /\ writer' = [writer EXCEPT ![w] = new]
    BY <1>3 DEF Stages, readSide, ToStage, CredInv, CredTypeOK
  <2>2. new \in CommandShape /\ new.stage = "rename" /\ new.ref = writer[w].ref /\ new.saw = writer[w].saw
    BY <1>0 DEF CommandShape
  <2>3. temps' \in [Savers -> TempShape]
    <3>1. \E acl \in {"private", "wide"} : temps' = [temps EXCEPT ![w] = [key |-> writer[w].key, acl |-> acl]]
      BY <1>3 DEF Stages
    <3>2. writer[w].key \in Values \cup {None}
      BY <1>0 DEF CommandShape
    <3> QED BY <1>0, <3>1, <3>2 DEF TempShape, Acls
  <2> HIDE DEF new
  <2> QED BY <1>0, <2>1, <2>2, <2>3, CommandGoes, FileStays
<1>4. CASE Renames(w)
  <2>1. /\ writer[w].stage = "rename" /\ UNCHANGED <<root, reader, entry>>
        /\ temps' = [temps EXCEPT ![w] = NoTemp] /\ writer' = [writer EXCEPT ![w] = Quiet]
    BY <1>4 DEF Renames, readSide
  <2>2. temps' \in [Savers -> TempShape] /\ \A v \in Savers : temps'[v] \in {temps[v], NoTemp}
    BY <1>0, <2>1
  <2>3. /\ writer' \in [Savers -> CommandShape] /\ RefsAreGiven' /\ CommandsAreCareful'
        /\ \A v \in Savers : temps'[v] # NoTemp => root' = "private"
    BY <1>0, <2>1, <2>2, CommandGoes
  <2>4. CASE UNCHANGED <<keyFile, clock, privates>>
    BY <1>0, <2>1, <2>2, <2>3, <2>4, FileStays
  <2>5. CASE StagedIsGood(temps[w], writer[w].key)
    <3>1. PICK name \in {writer[w].ref} \cup (IF keyFile = NoFile THEN {} ELSE {keyFile.name}) :
            Becomes([name |-> name, key |-> temps[w].key, acl |-> temps[w].acl, by |-> w, node |-> clock + 1, stamp |-> 0])
      BY <1>4, <2>5 DEF Renames
    <3> DEFINE f == [name |-> name, key |-> temps[w].key, acl |-> temps[w].acl, by |-> w, node |-> clock + 1, stamp |-> 0]
    <3>2. name \in Spellings
      BY <1>0, <2>1 DEF CredInv, FileIsLatest
    <3>3. temps[w].key \in Values \cup {None} /\ temps[w].acl = "private" /\ clock \in Nat
      BY <2>5 DEF CredInv, CredTypeOK, TempShape, StagedIsGood, IsPrivate
    <3>4. f \in FileShape /\ f.name \in Spellings /\ f.acl = "private" /\ f.by = w
      BY <3>2, <3>3 DEF FileShape, Acls
    <3> HIDE DEF f
    <3>5. Becomes(f)
      BY <3>1 DEF f
    <3>6. /\ keyFile' \in FileShape /\ keyFile'.by = w /\ FileIsLatest' /\ clock' = clock + 1 /\ clock' \in Nat
          /\ privates' \subseteq Nat /\ privates \subseteq privates' /\ (keyFile'.by \in Savers => keyFile'.acl = "private")
      BY <3>4, <3>5, BecomesKeeps
    <3>7. CredTypeOK' /\ KeysStayPrivate'
      BY <2>1, <2>2, <2>3, <3>6 DEF CredInv, CredTypeOK, KeysStayPrivate
    <3>8. AnswersWerePrivate' /\ PresentedWasPrivate'
      BY <2>1, <3>3, <3>6, ReadsStay
    <3>9. OthersKeysSurvive
      <4>1. keyFile # NoFile /\ keyFile.name # writer[w].ref => writer[w].saw # keyFile.name
        BY <1>0, <2>1 DEF CredInv, FileIsLatest, CredAssumption
      <4> QED BY <3>6, <4>1 DEF OthersKeysSurvive
    <3> QED BY <2>3, <3>6, <3>7, <3>8, <3>9 DEF CredInv
  <2> QED BY <1>4, <2>4, <2>5 DEF Renames
<1>5. CASE Abandons(w)
  <2>1. UNCHANGED <<root, keyFile, clock, privates, reader, entry>> /\ writer' = [writer EXCEPT ![w] = Quiet]
    BY <1>5 DEF Abandons, readSide
  <2>2. PICK left \in {NoTemp, temps[w]} : temps' = [temps EXCEPT ![w] = left]
    BY <1>5 DEF Abandons
  <2>3. temps' \in [Savers -> TempShape] /\ \A v \in Savers : temps'[v] \in {temps[v], NoTemp}
    BY <1>0, <2>2
  <2> QED BY <1>0, <2>1, <2>3, CommandGoes, FileStays
<1> QED BY <1>1, <1>2, <1>3, <1>4, <1>5

\* A file removed, an ACL changed, or a file put there by hand.
LEMMA CredMeddling ==
  ASSUME CredAssumption, CredInv, Removes \/ Others
  PROVE  CredInv' /\ OthersKeysSurvive
<1>1. CASE Removes
  <2>1. keyFile' = NoFile /\ UNCHANGED <<root, temps, writer, clock, snags, privates, reader, entry>>
    BY <1>1 DEF Removes, readSide
  <2>2. NoFile \in FileShape /\ NoFile.by \notin Savers
    BY DEF NoFile, FileShape, Acls, CredAssumption
  <2>3. CredTypeOK' /\ RefsAreGiven' /\ FileIsLatest' /\ CommandsAreCareful' /\ KeysStayPrivate'
    BY <2>1, <2>2 DEF CredInv, CredTypeOK, RefsAreGiven, FileIsLatest, CommandsAreCareful, KeysStayPrivate
  <2>4. AnswersWerePrivate' /\ PresentedWasPrivate'
    BY <2>1, ReadsStay DEF CredInv, CredTypeOK
  <2>5. OthersKeysSurvive
    BY <2>1, <2>2 DEF OthersKeysSurvive
  <2> QED BY <2>3, <2>4, <2>5 DEF CredInv
<1>2. CASE Others
  <2>1. UNCHANGED <<root, temps, writer, snags, reader, entry>>
    BY <1>2 DEF Others, readSide
  <2>2. \E f \in FileShape : Becomes(f) /\ f.name \in Spellings /\ f.by = None
    <3>1. CASE keyFile # NoFile /\ \E acl \in {"wide", "private"} \ {keyFile.acl} : Becomes([keyFile EXCEPT !.acl = acl, !.by = None])
      <4>1. PICK acl \in {"wide", "private"} : Becomes([keyFile EXCEPT !.acl = acl, !.by = None])
        BY <3>1
      <4>2. [keyFile EXCEPT !.acl = acl, !.by = None] \in FileShape /\ [keyFile EXCEPT !.acl = acl, !.by = None].name = keyFile.name
            /\ [keyFile EXCEPT !.acl = acl, !.by = None].by = None
        BY DEF CredInv, CredTypeOK, FileShape, Acls
      <4>3. keyFile.name \in Spellings
        BY <3>1 DEF CredInv, FileIsLatest
      <4> QED BY <4>1, <4>2, <4>3
    <3>2. CASE \E v \in Values, s \in Spellings :
             Becomes([name |-> s, key |-> v, acl |-> "wide", by |-> None, node |-> clock + 1, stamp |-> 0])
      <4>1. PICK v \in Values, s \in Spellings :
             Becomes([name |-> s, key |-> v, acl |-> "wide", by |-> None, node |-> clock + 1, stamp |-> 0])
        BY <3>2
      <4>2. [name |-> s, key |-> v, acl |-> "wide", by |-> None, node |-> clock + 1, stamp |-> 0] \in FileShape
        BY DEF CredInv, CredTypeOK, FileShape, Acls
      <4> QED BY <4>1, <4>2
    <3> QED BY <1>2, <3>1, <3>2 DEF Others
  <2>3. PICK f \in FileShape : Becomes(f) /\ f.name \in Spellings /\ f.by = None
    BY <2>2
  <2>4. f.by \notin Savers
    BY <2>3 DEF CredAssumption
  <2>5. /\ keyFile' \in FileShape /\ keyFile'.by = None /\ FileIsLatest' /\ clock' = clock + 1 /\ clock' \in Nat
        /\ privates' \subseteq Nat /\ privates \subseteq privates' /\ (keyFile'.by \in Savers => keyFile'.acl = "private")
    BY <2>3, <2>4, BecomesKeeps
  <2>6. CredTypeOK' /\ RefsAreGiven' /\ CommandsAreCareful' /\ KeysStayPrivate'
    BY <2>1, <2>5 DEF CredInv, CredTypeOK, RefsAreGiven, CommandsAreCareful, KeysStayPrivate
  <2>7. AnswersWerePrivate' /\ PresentedWasPrivate'
    <3>1. clock' >= clock
      BY <2>5 DEF CredInv, CredTypeOK
    <3> QED BY <2>1, <2>5, <3>1, ReadsStay
  <2>8. OthersKeysSurvive
    BY <2>5 DEF OthersKeysSurvive, CredAssumption
  <2> QED BY <2>5, <2>6, <2>7, <2>8 DEF CredInv
<1> QED BY <1>1, <1>2

LEMMA CredReads ==
  ASSUME CredAssumption, CredInv, (\E r \in Readers : Stats(r) \/ AsksAcl(r) \/ IcaclsAnswers(r) \/ Judges(r)) \/ Expires
  PROVE  CredInv' /\ OthersKeysSurvive
<1>0. UNCHANGED <<root, keyFile, temps, writer, clock, privates>>
  BY DEF Stats, AsksAcl, IcaclsAnswers, Judges, Expires, writeSide
<1>1. OthersKeysSurvive /\ RefsAreGiven' /\ FileIsLatest' /\ CommandsAreCareful' /\ KeysStayPrivate'
  BY <1>0 DEF CredInv, OthersKeysSurvive, RefsAreGiven, FileIsLatest, CommandsAreCareful, KeysStayPrivate
<1>2. SUFFICES CredTypeOK' /\ AnswersWerePrivate' /\ PresentedWasPrivate'
  BY <1>1 DEF CredInv
<1>3. SUFFICES /\ reader' \in [Readers -> ReadShape]
               /\ entry' \in [node : Nat, stamp : Nat, by : Readers \cup {None}, text : Acls]
               /\ AnswersWerePrivate' /\ PresentedWasPrivate'
  BY <1>0 DEF CredInv, CredTypeOK
<1> DEFINE EntryShape == [node : Nat, stamp : Nat, by : Readers \cup {None}, text : Acls]
           Fair(x) == /\ x.stage # "idle" => x.stamp > 0
                      /\ x.stamp <= clock
                      /\ x.text = "private" => KeptWasPrivate(x.stamp)
                      /\ x.key # None => KeptWasPrivate(x.stamp) /\ x.stamp > 0 /\ x.env \in {None, x.key}
           Good(e) == e.stamp <= clock /\ (e.text = "private" => KeptWasPrivate(e.stamp))
<1>4. SUFFICES /\ reader' \in [Readers -> ReadShape] /\ \A r \in Readers : Fair(reader'[r])
               /\ entry' \in EntryShape /\ Good(entry')
  BY <1>0 DEF AnswersWerePrivate, PresentedWasPrivate, KeptWasPrivate
<1>5. reader \in [Readers -> ReadShape] /\ (\A r \in Readers : Fair(reader[r])) /\ entry \in EntryShape /\ Good(entry) /\ clock \in Nat
  BY DEF CredInv, CredTypeOK, AnswersWerePrivate, PresentedWasPrivate, KeptWasPrivate
<1>6. NoEntry \in EntryShape /\ Good(NoEntry)
  BY <1>5 DEF NoEntry, Acls, None
<1>7. \A r \in Readers, x \in ReadShape : reader' = [reader EXCEPT ![r] = x] /\ Fair(x) =>
        reader' \in [Readers -> ReadShape] /\ \A q \in Readers : Fair(reader'[q])
  BY <1>5
<1>8. CASE Expires
  BY <1>5, <1>6, <1>8 DEF Expires, writeSide
<1>9. CASE \E r \in Readers : Stats(r)
  <2>1. PICK r \in Readers : Stats(r)
    BY <1>9
  <2>2. PICK s \in Spellings, e \in Values \cup {None} :
       reader' = [reader EXCEPT ![r] = IF keyFile.name = s
                                         THEN [Unread EXCEPT !.stage = "acl", !.env = e, !.node = keyFile.node, !.stamp = keyFile.stamp]
                                         ELSE Unread]
    BY <2>1 DEF Stats
  <2>3. CASE keyFile.name = s
    <3> DEFINE x == [Unread EXCEPT !.stage = "acl", !.env = e, !.node = keyFile.node, !.stamp = keyFile.stamp]
    <3>1. keyFile # NoFile
      BY <2>3 DEF NoFile, CredAssumption
    <3>2. keyFile.stamp = clock /\ clock > 0 /\ keyFile.node \in Nat
      BY <3>1 DEF CredInv, FileIsLatest, CredTypeOK, FileShape
    <3>3. /\ x \in ReadShape /\ x.stage = "acl" /\ x.stamp = clock /\ x.text # "private" /\ x.key = None
      BY <1>5, <3>2 DEF Unread, ReadShape, Acls, None
    <3>4. Fair(x)
      BY <1>5, <3>2, <3>3
    <3>5. reader' = [reader EXCEPT ![r] = x]
      BY <2>2, <2>3
    <3> HIDE DEF x
    <3> QED BY <1>5, <1>7, <2>1, <3>3, <3>4, <3>5 DEF Stats
  <2>4. CASE keyFile.name # s
    <3>1. Unread \in ReadShape /\ Fair(Unread)
      BY <1>5 DEF Unread, ReadShape, Acls, None
    <3> QED BY <1>5, <1>7, <2>1, <2>2, <2>4, <3>1 DEF Stats
  <2> QED BY <2>3, <2>4
<1>10. CASE \E r \in Readers : AsksAcl(r)
  <2>1. PICK r \in Readers : AsksAcl(r)
    BY <1>10
  <2>2. reader[r] \in ReadShape /\ Fair(reader[r]) /\ reader[r].stage = "acl"
    BY <1>5, <2>1 DEF AsksAcl
  <2>3. CASE entry # NoEntry /\ Serves(entry, reader[r].node, reader[r].stamp)
    <3> DEFINE x == [reader[r] EXCEPT !.stage = IF entry.text = None THEN "waits" ELSE "judge", !.asks = entry.by, !.text = entry.text]
    <3>1. reader' = [reader EXCEPT ![r] = x] /\ UNCHANGED entry
      BY <1>5, <2>1, <2>3 DEF AsksAcl
    <3>2. entry.stamp = reader[r].stamp
      BY <2>3 DEF Serves
    <3>3. x \in ReadShape
      BY <1>5, <2>2 DEF ReadShape
    <3>4. x.stamp = reader[r].stamp /\ x.text = entry.text /\ x.key = reader[r].key /\ x.env = reader[r].env
      BY <1>5, <2>2 DEF ReadShape
    <3> HIDE DEF x
    <3>5. Fair(x)
      BY <1>5, <2>2, <3>2, <3>4
    <3> QED BY <1>5, <1>7, <3>1, <3>3, <3>5
  <2>4. CASE ~ (entry # NoEntry /\ Serves(entry, reader[r].node, reader[r].stamp))
    <3> DEFINE x == [reader[r] EXCEPT !.stage = "waits", !.asks = r]
    <3>1. reader' = [reader EXCEPT ![r] = x] /\ entry' = [node |-> reader[r].node, stamp |-> reader[r].stamp, by |-> r, text |-> None]
      BY <1>5, <2>1, <2>4 DEF AsksAcl
    <3>2. x \in ReadShape /\ x.stamp = reader[r].stamp /\ x.text = reader[r].text /\ x.key = reader[r].key /\ x.env = reader[r].env
      BY <1>5, <2>2 DEF ReadShape
    <3> HIDE DEF x
    <3>3. Fair(x)
      BY <1>5, <2>2, <3>2
    <3>4. entry' \in EntryShape /\ Good(entry')
      BY <2>2, <3>1 DEF ReadShape, Acls, None
    <3> QED BY <1>5, <1>7, <3>1, <3>2, <3>3, <3>4
  <2> QED BY <2>3, <2>4
<1>11. CASE \E r \in Readers : IcaclsAnswers(r)
  <2>1. PICK r \in Readers : IcaclsAnswers(r)
    BY <1>11
  <2>2. PICK acl \in {"unknown", keyFile.acl} \ {None} :
       /\ reader' = [q \in Readers |-> IF reader[q].stage = "waits" /\ reader[q].asks = r
                                         THEN [reader[q] EXCEPT !.stage = "judge", !.text = acl] ELSE reader[q]]
       /\ entry' = IF entry.by = r /\ entry.text = None
                   THEN (IF Keeps(acl) THEN [entry EXCEPT !.text = acl] ELSE NoEntry)
                   ELSE entry
    BY <2>1 DEF IcaclsAnswers
  <2>3. acl \in Acls \cup {"unknown"} /\ acl # None /\ (acl = "private" => clock \in privates)
    BY DEF CredInv, CredTypeOK, FileShape, FileIsLatest, NoFile, IsPrivate, None
  <2>4. acl = "private" => \A n \in Nat : n <= clock => KeptWasPrivate(n)
    BY <1>5, <2>3 DEF KeptWasPrivate
  <2>5. entry' \in EntryShape /\ Good(entry')
    <3>1. acl # "unknown" => [entry EXCEPT !.text = acl] \in EntryShape /\ [entry EXCEPT !.text = acl].stamp = entry.stamp
                              /\ [entry EXCEPT !.text = acl].text = acl
      BY <1>5, <2>3
    <3>2. entry.stamp \in Nat
      BY <1>5
    <3> QED BY <1>5, <1>6, <2>2, <2>4, <3>1, <3>2 DEF Keeps
  <2>6. ASSUME NEW q \in Readers PROVE reader'[q] \in ReadShape /\ Fair(reader'[q])
    <3> DEFINE x == [reader[q] EXCEPT !.stage = "judge", !.text = acl]
    <3>1. reader[q] \in ReadShape /\ Fair(reader[q])
      BY <1>5
    <3>2. x \in ReadShape /\ x.stamp = reader[q].stamp /\ x.stage = "judge" /\ x.text = acl /\ x.key = reader[q].key /\ x.env = reader[q].env
      BY <2>3, <3>1 DEF ReadShape
    <3>3. reader'[q] = IF reader[q].stage = "waits" /\ reader[q].asks = r THEN x ELSE reader[q]
      BY <2>2
    <3>4. reader[q].stamp \in Nat
      BY <3>1 DEF ReadShape
    <3> HIDE DEF x
    <3>5. reader[q].stage = "waits" => Fair(x)
      BY <2>4, <3>1, <3>2, <3>4
    <3> QED BY <3>1, <3>2, <3>3, <3>5
  <2>7. reader' \in [Readers -> ReadShape]
    BY <2>2, <2>6
  <2> QED BY <2>5, <2>6, <2>7
<1>12. CASE \E r \in Readers : Judges(r)
  <2>1. PICK r \in Readers : Judges(r)
    BY <1>12
  <2> DEFINE key == Presents(reader[r].env, IsPrivate(reader[r].text) /\ keyFile # NoFile, keyFile.key)
             x == [reader[r] EXCEPT !.stage = "idle", !.key = key]
  <2>2. reader' = [reader EXCEPT ![r] = x] /\ reader[r].stage = "judge" /\ UNCHANGED entry
    BY <1>5, <2>1 DEF Judges
  <2>3. reader[r] \in ReadShape /\ Fair(reader[r])
    BY <1>5
  <2>4. key \in Values \cup {None} /\ (key # None => reader[r].text = "private" /\ reader[r].env \in {None, key})
    BY DEF Presents, CredInv, CredTypeOK, FileShape, IsPrivate
  <2> HIDE DEF key
  <2>5. x \in ReadShape /\ x.stage = "idle" /\ x.key = key /\ x.env = reader[r].env /\ x.text = reader[r].text /\ x.stamp = reader[r].stamp
    BY <2>3, <2>4 DEF ReadShape
  <2> HIDE DEF x
  <2>6. Fair(x)
    BY <2>2, <2>3, <2>4, <2>5
  <2> QED BY <1>5, <1>7, <2>2, <2>5, <2>6
<1> QED BY <1>8, <1>9, <1>10, <1>11, <1>12

LEMMA CredStep ==
  ASSUME CredAssumption, CredInv, [StoreNext]_storeVars
  PROVE  CredInv' /\ OthersKeysSurvive
<1>1. CASE UNCHANGED storeVars
  BY <1>1 DEF storeVars, CredInv, CredTypeOK, RefsAreGiven, FileIsLatest, CommandsAreCareful, AnswersWerePrivate, KeysStayPrivate,
              PresentedWasPrivate, KeptWasPrivate, OthersKeysSurvive
<1> QED BY <1>1, CredWrites, CredMeddling, CredReads DEF StoreNext

\* Whatever commands, hand edits, failed lockdowns and slow reads do: keys are
\* on disk only where they are private, what is presented was private when its
\* file was looked at or since, a question without an answer refuses nobody
\* later, and a command replaces no other service's key that it saw
\* (lib/credential-fs.mjs, lib/credential-acl-cache.mjs).
THEOREM CredentialsHold ==
  ASSUME CredAssumption
  PROVE  StoreSpec => CredentialsAreKept
<1>1. StoreInit => CredInv
  BY CredBegins
<1>2. CredInv /\ [StoreNext]_storeVars => CredInv'
  BY CredStep
<1>3. CredInv' => RefusalsPass'
  BY DEF CredInv, CredTypeOK, RefusalsPass, Acls, None
<1>4. CredInv /\ [StoreNext]_storeVars => [KeysStayPrivate' /\ PresentedWasPrivate' /\ RefusalsPass' /\ OthersKeysSurvive]_storeVars
  BY <1>3, CredStep DEF CredInv
<1> QED BY <1>1, <1>2, <1>4, PTL DEF StoreSpec, CredentialsAreKept

-----------------------------------------------------------------------------
(***************************************************************************)
(* The reports of a folder's HEAD: what the dashboard was told of as       *)
(* covered, it has.                                                        *)
(***************************************************************************)

Dashes == [head : Nat, acked : Nat, revision : Nat, has : SUBSET Nat, gaps : SUBSET Nat, lists : SUBSET Nat,
           unheard : {"nothing", "report", "served"}]
Folders == [print : Nat \X Nat, sentHead : Nat, acked : Nat, revision : Nat, wanted : BOOLEAN,
            listFailedHead : Nat, problem : BOOLEAN]
LookPlaces == {"no", "git", "report", "sync", "open", "batch", "resync", "reread", "list"}
Looks == [at : LookPlaces, print : Nat \X Nat, head : Nat, batches : SUBSET Nat]
Ranges == [base : Nat, target : Nat, commits : SUBSET Nat]

WatchTypes ==
    /\ checkout \in Nat /\ refWrites \in Nat
    /\ dash \in Dashes /\ folder \in Folders /\ look \in Looks /\ kept \in Ranges

\* What was read of a range is all that its target has and its base has not.
RangeIsWhole == Ancestors(kept.target) \subseteq Ancestors(kept.base) \cup kept.commits

\* A range that is sent is the one that was read, and what of it is not in the
\* dashboard is still to be sent.
RangeIsSent ==
    /\ look.at = "open" => IsKept(folder.acked, look.head)
    /\ look.at = "batch" => Ancestors(look.head) \subseteq Ancestors(folder.acked) \cup dash.has \cup look.batches

WatchInv == WatchTypes /\ CoverageIsHonest /\ RangeIsWhole /\ RangeIsSent

LEMMA AncestorsAreCommits == \A c \in Nat : Ancestors(c) \in SUBSET Nat
BY DEF Ancestors

LEMMA WatchBegins == WatchInit => WatchInv
BY DEF WatchInit, WatchInv, WatchTypes, Dashes, Folders, Looks, LookPlaces, Ranges, NewFolder, NothingRead, NoLook, NeverTaken,
       Unknown, CoverageIsHonest, RangeIsWhole, RangeIsSent, Ancestors

-----------------------------------------------------------------------------
\* The dashboard's side only grows: whatever it takes for reported, it has or
\* records as a gap, if it had it or the step brings it.
LEMMA DashboardGrows ==
    ASSUME WatchInv, dash' \in Dashes, dash.has \subseteq dash'.has, dash.gaps \subseteq dash'.gaps,
           dash'.acked = dash.acked \/ Ancestors(dash'.acked) \subseteq dash'.has \cup dash'.gaps
    PROVE  CoverageIsHonest'
BY DEF WatchInv, CoverageIsHonest

\* A step after which nothing is being sent.
LEMMA QuietKeepsIt ==
    ASSUME WatchInv, UNCHANGED <<checkout, refWrites>>, dash' \in Dashes, dash.has \subseteq dash'.has,
           dash.gaps \subseteq dash'.gaps,
           dash'.acked = dash.acked \/ Ancestors(dash'.acked) \subseteq dash'.has \cup dash'.gaps,
           folder' \in Folders, look' \in Looks, look'.at \notin {"open", "batch"},
           kept' = kept \/ kept' = NothingRead
    PROVE  WatchInv'
<1>1. CoverageIsHonest'
    BY DashboardGrows
<1>2. kept' \in Ranges /\ RangeIsWhole'
    BY DEF WatchInv, WatchTypes, RangeIsWhole, NothingRead, Ranges, Unknown
<1> QED BY <1>1, <1>2 DEF WatchInv, WatchTypes, RangeIsSent

\* The checkout and the other aify-env.
LEMMA SurroundingsKeepWatch ==
    ASSUME WatchInv, \/ \E c \in Commits : HeadMoves(c)
                     \/ OtherStarts \/ OtherReports \/ OtherEnds
    PROVE  WatchInv'
<1>1. UNCHANGED <<folder, kept, look>>
    BY DEF HeadMoves, OtherStarts, OtherReports, OtherEnds, folderVars
<1>2. checkout' \in Nat /\ refWrites' \in Nat
    BY DEF HeadMoves, OtherStarts, OtherReports, OtherEnds, WatchInv, WatchTypes, Commits
<1>3. dash' \in Dashes /\ dash.has \subseteq dash'.has /\ dash.gaps \subseteq dash'.gaps
      /\ (dash'.acked = dash.acked \/ Ancestors(dash'.acked) \subseteq dash'.has \cup dash'.gaps)
    <2>1. CASE dash' = dash
        BY <2>1 DEF WatchInv, WatchTypes
    <2>2. CASE OtherReports
        <3>1. Ancestors(checkout) \in SUBSET Nat /\ checkout \in Nat /\ dash \in Dashes
            BY AncestorsAreCommits DEF WatchInv, WatchTypes
        <3>2. PICK a \in SUBSET Nat : a = Ancestors(checkout)
            BY <3>1
        <3>20. PICK n \in Nat : n = dash.revision + 1
            BY <3>1 DEF Dashes
        <3>3. dash' = [dash EXCEPT !.head = checkout, !.acked = checkout, !.revision = n,
                                   !.has = @ \cup a, !.lists = @ \cup {checkout}]
            BY <2>2, <3>2, <3>20 DEF OtherReports
        <3>4. dash' \in Dashes /\ dash'.acked = checkout /\ dash'.has = dash.has \cup a /\ dash'.gaps = dash.gaps
            BY <3>1, <3>3 DEF Dashes
        <3> QED BY <3>2, <3>4
    <2>3. CASE OtherEnds
        <3>1. [dash EXCEPT !.unheard = "served"] \in Dashes
              /\ [dash EXCEPT !.unheard = "served"].has = dash.has
              /\ [dash EXCEPT !.unheard = "served"].gaps = dash.gaps
              /\ [dash EXCEPT !.unheard = "served"].acked = dash.acked
            BY DEF Dashes, WatchInv, WatchTypes
        <3> QED BY <2>1, <2>3, <3>1 DEF OtherEnds
    <2> QED BY <2>1, <2>2, <2>3 DEF HeadMoves, OtherStarts
<1>4. CoverageIsHonest'
    BY <1>3, DashboardGrows
<1> QED BY <1>1, <1>2, <1>3, <1>4 DEF WatchInv, WatchTypes, RangeIsWhole, RangeIsSent, IsKept

\* What a folder and a look become stays of their kind.
LEMMA FolderFacts ==
    ASSUME WatchInv, NEW f \in Folders, NEW l \in Looks
    PROVE  /\ LookIsDone(f, l) \/ Stumbles(f) \/ ListOrDone(f, l) =>
                folder' \in Folders /\ look' \in Looks /\ look'.at \in {"no", "list"}
           /\ SyncOrList(f, l) =>
                folder' \in Folders /\ look' \in Looks /\ look'.at \in {"no", "list", "sync"}
           /\ WithAnswer(f) \in Folders /\ WithCurrent(f) \in Folders
<1>0. NoLook \in Looks /\ NoLook.at = "no"
    BY DEF NoLook, NeverTaken, Unknown, Looks, LookPlaces
<1>1. LookIsDone(f, l) => folder' \in Folders /\ look' \in Looks /\ look'.at = "no"
    <2>1. l.print \in Nat \X Nat
        BY DEF Looks
    <2>2. [f EXCEPT !.print = l.print, !.problem = FALSE] \in Folders
        BY <2>1 DEF Folders
    <2> QED BY <1>0, <2>2 DEF LookIsDone
<1>2. Stumbles(f) => folder' \in Folders /\ look' \in Looks /\ look'.at = "no"
    <2>1. [f EXCEPT !.problem = TRUE] \in Folders
        BY DEF Folders
    <2> QED BY <1>0, <2>1 DEF Stumbles
<1>3. ListOrDone(f, l) => folder' \in Folders /\ look' \in Looks /\ look'.at \in {"no", "list"}
    <2>1. [l EXCEPT !.at = "list"] \in Looks /\ [l EXCEPT !.at = "list"].at = "list"
        BY DEF Looks, LookPlaces
    <2> QED BY <1>1, <2>1 DEF ListOrDone
<1>4. SyncOrList(f, l) => folder' \in Folders /\ look' \in Looks /\ look'.at \in {"no", "list", "sync"}
    <2>1. [l EXCEPT !.at = "sync"] \in Looks /\ [l EXCEPT !.at = "sync"].at = "sync"
        BY DEF Looks, LookPlaces
    <2> QED BY <1>3, <2>1 DEF SyncOrList
<1>5. WithAnswer(f) \in Folders /\ WithCurrent(f) \in Folders
    BY DEF WithAnswer, WithCurrent, Folders, WatchInv, WatchTypes, Dashes
<1> QED BY <1>1, <1>2, <1>3, <1>4, <1>5

LEMMA ToldIsTyped ==
    ASSUME WatchInv
    PROVE  /\ Told \in Dashes /\ Told.has = dash.has /\ Told.gaps = dash.gaps /\ Told.acked = dash.acked
           /\ ToldUnheard \in Dashes /\ ToldUnheard.has = dash.has
           /\ ToldUnheard.gaps = dash.gaps /\ ToldUnheard.acked = dash.acked
<1>1. dash \in Dashes /\ look.head \in Nat
    BY DEF WatchInv, WatchTypes, Looks
<1>2. Told \in Dashes /\ Told.has = dash.has /\ Told.gaps = dash.gaps /\ Told.acked = dash.acked
    BY <1>1 DEF Told, Dashes
<1> HIDE DEF Told
<1> QED BY <1>2 DEF ToldUnheard, Dashes

\* The looks that send no commits.
LEMMA LooksKeepIt ==
    ASSUME WatchInv,
           \/ Tick \/ GitTellsHead \/ HeadIsReported \/ CoverageIsRead \/ SendList
           \/ GitFails \/ ReportFails \/ ListFails \/ GitCannotList \/ Restart
    PROVE  WatchInv'
<1>1. dash \in Dashes /\ folder \in Folders /\ look \in Looks /\ kept \in Ranges /\ checkout \in Nat /\ refWrites \in Nat
    BY DEF WatchInv, WatchTypes
<1>2. UNCHANGED <<checkout, refWrites>> /\ (kept' = kept \/ kept' = NothingRead)
    BY DEF Tick, GitTellsHead, HeadIsReported, CoverageIsRead, SendList, GitFails, ReportFails, ListFails, GitCannotList,
           Restart
<1>3. dash' \in Dashes /\ dash.has \subseteq dash'.has /\ dash.gaps \subseteq dash'.gaps /\ dash'.acked = dash.acked
    <2>1. CASE dash' = dash
        BY <2>1, <1>1
    <2>2. CASE HeadIsReported \/ CoverageIsRead \/ ReportFails
        BY <2>2, <1>1, ToldIsTyped DEF HeadIsReported, CoverageIsRead, ReportFails
    <2>3. ListTaken \in Dashes /\ ListTaken.has = dash.has /\ ListTaken.gaps = dash.gaps /\ ListTaken.acked = dash.acked
        BY <1>1 DEF ListTaken, Dashes, Looks
    <2>4. CASE SendList \/ ListFails
        BY <2>3, <2>4, <1>1 DEF SendList, ListFails
    <2> QED BY <2>1, <2>2, <2>4 DEF Tick, GitTellsHead, GitFails, GitCannotList, Restart
<1>4. folder' \in Folders /\ look' \in Looks /\ look'.at \notin {"open", "batch"}
    <2>1. CASE Tick
        <3>1. NoLook \in Looks /\ [NoLook EXCEPT !.at = "git", !.print = Fingerprint] \in Looks
              /\ NoLook.at = "no" /\ [NoLook EXCEPT !.at = "git", !.print = Fingerprint].at = "git"
            BY <1>1 DEF NoLook, NeverTaken, Unknown, Fingerprint, Looks, LookPlaces
        <3>2. ForgetReported(folder) \in Folders
            BY <1>1 DEF ForgetReported, NeverTaken, Unknown, Folders
        <3> QED BY <2>1, <3>1, <3>2, <1>1 DEF Tick
    <2>2. CASE GitTellsHead
        <3>1. PICK l : l = [look EXCEPT !.head = checkout]
            OBVIOUS
        <3>2. l \in Looks /\ [l EXCEPT !.at = "report"] \in Looks /\ [l EXCEPT !.at = "report"].at = "report"
            BY <3>1, <1>1 DEF Looks, LookPlaces
        <3>3. (look' = [l EXCEPT !.at = "report"] /\ UNCHANGED folder) \/ SyncOrList(folder, l)
            BY <2>2, <3>1 DEF GitTellsHead
        <3> QED BY <3>2, <3>3, <1>1, FolderFacts
    <2>3. CASE GitFails \/ ReportFails \/ ListFails
        BY <2>3, <1>1, FolderFacts DEF GitFails, ReportFails, ListFails
    <2>4. CASE HeadIsReported
        <3>1. PICK f : f = [WithAnswer(folder) EXCEPT !.sentHead = look.head,
                             !.listFailedHead = IF look.head = @ THEN @ ELSE Unknown]
            OBVIOUS
        <3>2. f \in Folders
            <4>1. WithAnswer(folder) \in Folders /\ look.head \in Nat
                BY <1>1, FolderFacts DEF Looks
            <4> QED BY <3>1, <4>1 DEF Folders, Unknown
        <3>3. SyncOrList(f, look)
            BY <2>4, <3>1 DEF HeadIsReported
        <3> QED BY <3>2, <3>3, <1>1, FolderFacts
    <2>5. CASE CoverageIsRead
        BY <2>5, <1>1, FolderFacts DEF CoverageIsRead
    <2>6. CASE SendList
        <3>1. [folder EXCEPT !.wanted = FALSE] \in Folders
            BY <1>1 DEF Folders
        <3> QED BY <2>6, <3>1, <1>1, FolderFacts DEF SendList
    <2>7. CASE GitCannotList
        <3>1. [folder EXCEPT !.listFailedHead = look.head] \in Folders
            BY <1>1 DEF Folders, Looks
        <3> QED BY <2>7, <3>1, <1>1, FolderFacts DEF GitCannotList
    <2>8. CASE Restart
        BY <2>8 DEF Restart, NewFolder, NoLook, NeverTaken, Unknown, Folders, Looks, LookPlaces
    <2> QED BY <2>1, <2>2, <2>3, <2>4, <2>5, <2>6, <2>7, <2>8
<1> QED BY <1>2, <1>3, <1>4, QuietKeepsIt

-----------------------------------------------------------------------------
\* Reading a range, and opening it.
LEMMA RangesAreReadWhole ==
    ASSUME WatchInv, Sync \/ OpenRange
    PROVE  WatchInv'
<1>1. dash \in Dashes /\ folder \in Folders /\ look \in Looks /\ kept \in Ranges /\ look.head \in Nat /\ folder.acked \in Nat
    BY DEF WatchInv, WatchTypes, Looks, Folders
<1>2. UNCHANGED <<checkout, refWrites, dash>>
    BY DEF Sync, OpenRange
<1>3. CASE Sync
    <2>1. UNCHANGED folder
        BY <1>3 DEF Sync
    <2>2. look' \in Looks /\ look'.head = look.head /\ look'.at \in {"open", "resync"}
        BY <1>1, <1>3 DEF Sync, Looks, LookPlaces
    <2>3. kept' \in Ranges /\ RangeIsWhole' /\ (look'.at = "open" => kept'.base = folder.acked /\ kept'.target = look.head)
        <3>1. CASE kept' = kept /\ (look' = [look EXCEPT !.at = "resync"] \/ IsKept(folder.acked, look.head))
            <4>1. look' = [look EXCEPT !.at = "resync"] => look'.at = "resync"
                BY <1>1 DEF Looks
            <4> QED BY <3>1, <4>1, <1>1 DEF IsKept, WatchInv, RangeIsWhole
        <3>2. CASE kept' = [base |-> folder.acked, target |-> look.head, commits |-> Between(folder.acked, look.head)]
            <4>1. Between(folder.acked, look.head) \in SUBSET Nat
                BY <1>1, AncestorsAreCommits DEF Between
            <4> QED BY <3>2, <4>1, <1>1 DEF RangeIsWhole, Between, Ranges
        <3> QED BY <1>3, <3>1, <3>2 DEF Sync
    <2> QED BY <1>1, <1>2, <2>1, <2>2, <2>3 DEF WatchInv, WatchTypes, CoverageIsHonest, RangeIsSent, IsKept
<1>4. CASE OpenRange
    <2>1. look.at = "open" /\ kept' = kept
        BY <1>4 DEF OpenRange
    <2>2. CASE CursorIsCurrent
        <3>1. look' \in Looks /\ look'.head = look.head /\ look'.at = "batch" /\ look'.batches = kept.commits
            BY <1>1, <1>4, <2>2 DEF OpenRange, Looks, LookPlaces, Ranges
        <3>2. UNCHANGED folder
            BY <1>4, <2>2 DEF OpenRange
        <3>3. Ancestors(look.head) \subseteq Ancestors(folder.acked) \cup kept.commits
            BY <2>1 DEF WatchInv, RangeIsWhole, RangeIsSent, IsKept
        <3> QED BY <1>1, <1>2, <2>1, <3>1, <3>2, <3>3
                DEF WatchInv, WatchTypes, CoverageIsHonest, RangeIsWhole, RangeIsSent
    <2>3. CASE ~CursorIsCurrent
        <3>1. folder' \in Folders /\ look' \in Looks /\ look'.at \in {"no", "list"}
            BY <1>1, <1>4, <2>3, FolderFacts DEF OpenRange
        <3> QED BY <1>1, <1>2, <2>1, <3>1, QuietKeepsIt
    <2> QED BY <2>2, <2>3
<1> QED BY <1>3, <1>4

\* What the dashboard becomes when a batch comes: only the last of a range that
\* began where the cursor still is moves the cursor.
LEMMA ReceivedIsHonest ==
    ASSUME WatchInv, look.at = "batch", NEW c \in NextBatch
    PROVE  /\ c \in look.batches /\ c \in Nat
           /\ Received(c) \in Dashes /\ Received(c).has = dash.has \cup {c} /\ Received(c).gaps = dash.gaps
           /\ \/ Received(c).acked = dash.acked
              \/ Ancestors(Received(c).acked) \subseteq Received(c).has \cup Received(c).gaps
<1>1. dash \in Dashes /\ look \in Looks /\ c \in look.batches /\ c \in Nat /\ look.head \in Nat
    BY DEF WatchInv, WatchTypes, NextBatch, Looks
<1>2. PICK d : d = [dash EXCEPT !.has = @ \cup {c}]
    OBVIOUS
<1>3. d \in Dashes /\ d.has = dash.has \cup {c} /\ d.gaps = dash.gaps /\ d.acked = dash.acked
    BY <1>1, <1>2 DEF Dashes
<1>4. Received(c) = IF Completes(c) THEN [d EXCEPT !.acked = look.head, !.revision = @ + 1] ELSE d
    BY <1>2 DEF Received
<1>5. CASE Completes(c)
    <2>1. /\ Received(c) \in Dashes /\ Received(c).has = d.has /\ Received(c).gaps = d.gaps
          /\ Received(c).acked = look.head
        <3>1. PICK n \in Nat : n = d.revision + 1
            BY <1>3 DEF Dashes
        <3>2. Received(c) = [d EXCEPT !.acked = look.head, !.revision = n]
            BY <1>4, <1>5, <3>1
        <3> QED BY <1>1, <1>3, <3>2 DEF Dashes
    <2>2. Ancestors(look.head) \subseteq Ancestors(dash.acked) \cup dash.has \cup {c}
        BY <1>5 DEF Completes, CursorIsCurrent, WatchInv, RangeIsSent
    <2>3. Ancestors(dash.acked) \subseteq dash.has \cup dash.gaps
        BY DEF WatchInv, CoverageIsHonest
    <2> QED BY <1>1, <1>3, <2>1, <2>2, <2>3
<1>6. CASE ~Completes(c)
    BY <1>1, <1>3, <1>4, <1>6
<1> QED BY <1>5, <1>6

LEMMA BatchesAreSentInTurn ==
    ASSUME WatchInv, SendBatch
    PROVE  WatchInv'
<1>1. look.at = "batch" /\ look \in Looks /\ folder \in Folders /\ kept \in Ranges
      /\ UNCHANGED <<checkout, refWrites, folder>>
    BY DEF SendBatch, WatchInv, WatchTypes
<1>2. PICK c \in NextBatch :
        /\ dash' = Received(c)
        /\ look' = [look EXCEPT !.at = IF look.batches = {c} THEN "reread" ELSE @, !.batches = @ \ {c}]
        /\ kept' = kept \/ kept' = NothingRead
    BY DEF SendBatch
<1>3. /\ dash' \in Dashes /\ dash'.has = dash.has \cup {c} /\ dash'.gaps = dash.gaps
      /\ dash'.acked = dash.acked \/ Ancestors(dash'.acked) \subseteq dash'.has \cup dash'.gaps
    BY <1>1, <1>2, ReceivedIsHonest
<1>4. /\ look' \in Looks /\ look'.head = look.head /\ look'.batches = look.batches \ {c}
      /\ look'.at \in {"reread", "batch"}
    BY <1>1, <1>2 DEF Looks, LookPlaces
<1>5. CoverageIsHonest'
    BY <1>3, DashboardGrows
<1>6. RangeIsWhole' /\ kept' \in Ranges
    BY <1>1, <1>2 DEF WatchInv, RangeIsWhole, NothingRead, Ranges, Unknown
<1>7. RangeIsSent'
    BY <1>1, <1>3, <1>4 DEF WatchInv, RangeIsSent
<1> QED BY <1>1, <1>3, <1>4, <1>5, <1>6, <1>7 DEF WatchInv, WatchTypes

\* A history that does not go forward is resynced: what it lacks becomes a gap.
LEMMA ResyncKeepsIt ==
    ASSUME WatchInv, Resync \/ ResyncFails \/ RangeFails
    PROVE  WatchInv'
<1>1. dash \in Dashes /\ look \in Looks /\ folder \in Folders /\ look.head \in Nat
    BY DEF WatchInv, WatchTypes, Looks
<1>2. UNCHANGED <<checkout, refWrites>> /\ (kept' = kept \/ kept' = NothingRead)
    BY DEF Resync, ResyncFails, RangeFails
<1>3. /\ Resynced \in Dashes /\ Resynced.acked = look.head /\ Resynced.has = dash.has
      /\ Resynced.gaps = dash.gaps \cup (Ancestors(look.head) \ dash.has)
    <2>1. PICK a \in SUBSET Nat : a = Ancestors(look.head) \ dash.has
        BY <1>1, AncestorsAreCommits
    <2>10. PICK n \in Nat : n = dash.revision + 1
        BY <1>1 DEF Dashes
    <2>2. Resynced = [dash EXCEPT !.acked = look.head, !.revision = n, !.gaps = @ \cup a]
        BY <2>1, <2>10 DEF Resynced
    <2>3. Resynced \in Dashes /\ Resynced.acked = look.head /\ Resynced.has = dash.has /\ Resynced.gaps = dash.gaps \cup a
        BY <1>1, <2>2 DEF Dashes
    <2> QED BY <2>1, <2>3
<1>4. /\ dash' \in Dashes /\ dash.has \subseteq dash'.has /\ dash.gaps \subseteq dash'.gaps
      /\ dash'.acked = dash.acked \/ Ancestors(dash'.acked) \subseteq dash'.has \cup dash'.gaps
    <2>1. CASE dash' = dash
        BY <2>1, <1>1
    <2>2. CASE dash' = Resynced
        BY <2>2, <1>3
    <2>3. CASE look.at = "batch" /\ \E c \in NextBatch : dash' = Received(c)
        BY <2>3, ReceivedIsHonest
    <2> QED BY <2>1, <2>2, <2>3 DEF Resync, ResyncFails, RangeFails
<1>5. folder' \in Folders /\ look' \in Looks /\ look'.at \notin {"open", "batch"}
    <2>1. CASE UNCHANGED folder /\ look' = [look EXCEPT !.at = "reread"]
        BY <2>1, <1>1 DEF Looks, LookPlaces
    <2>2. CASE Stumbles(folder) \/ Stumbles(WithCurrent(folder))
        BY <2>2, <1>1, FolderFacts
    <2> QED BY <2>1, <2>2 DEF Resync, ResyncFails, RangeFails
<1> QED BY <1>2, <1>4, <1>5, QuietKeepsIt

\* What the dashboard takes for reported of a folder's history
\* (range-reporter.mjs:3-16) was sent to it or is recorded as a gap, in every
\* order of commits, resets and checkouts, refused cursors, lost answers,
\* restarts and another aify-env that reports the same folder.
THEOREM CoverageHolds == WatchSpec => []CoverageIsHonest
<1>1. WatchInit => WatchInv
    BY WatchBegins
<1>2. WatchInv /\ [WatchNext]_watchVars => WatchInv'
    <2>1. SUFFICES ASSUME WatchInv, [WatchNext]_watchVars PROVE WatchInv'
        OBVIOUS
    <2>2. CASE (\E c \in Commits : HeadMoves(c)) \/ OtherStarts \/ OtherReports \/ OtherEnds
        BY <2>1, <2>2, SurroundingsKeepWatch
    <2>3. CASE \/ Tick \/ GitTellsHead \/ HeadIsReported \/ CoverageIsRead \/ SendList
               \/ GitFails \/ ReportFails \/ ListFails \/ GitCannotList \/ Restart
        BY <2>1, <2>3, LooksKeepIt
    <2>4. CASE Sync \/ OpenRange
        BY <2>1, <2>4, RangesAreReadWhole
    <2>5. CASE SendBatch
        BY <2>1, <2>5, BatchesAreSentInTurn
    <2>6. CASE Resync \/ ResyncFails \/ RangeFails
        BY <2>1, <2>6, ResyncKeepsIt
    <2>7. CASE UNCHANGED watchVars
        BY <2>1, <2>7 DEF watchVars, folderVars, WatchInv, WatchTypes, CoverageIsHonest, RangeIsWhole, RangeIsSent, IsKept
    <2> QED BY <2>1, <2>2, <2>3, <2>4, <2>5, <2>6, <2>7 DEF WatchNext, LookSteps
<1>3. WatchInv => CoverageIsHonest
    BY DEF WatchInv
<1> QED BY <1>1, <1>2, <1>3, PTL DEF WatchSpec

-----------------------------------------------------------------------------
(***************************************************************************)
(* The passes over the folders of a project: a row is true of the folder it*)
(* is about.                                                               *)
(***************************************************************************)

HeadsThere == SweepHeads \cup {NoHead}
RowKinds == {"stopped", "tried again", "none is swept", "not swept"}
Rows == RowKinds \X SweepFolders \X (HeadsThere \cup {EveryHead})
Waits == [head : HeadsThere, due : BOOLEAN, refusals : Nat]
Latches == [head : HeadsThere \cup {EveryHead}, under : Nat]
Downs == [runs : Nat, due : BOOLEAN]
Sweepers ==
    [settled : [SweepFolders -> HeadsThere], waiting : [SweepFolders -> Waits],
     latched : [SweepFolders -> Latches], down : [SweepFolders -> Downs],
     heads : [SweepFolders -> HeadsThere], rows : SUBSET Rows]
BareRows == {"not swept"} \X SweepFolders \X HeadsThere
Passes == [at : {"no", "queue", "reconcile", "sweep"}, under : Nat, due : SUBSET SweepFolders, rows : SUBSET BareRows]

SweepTypes ==
    /\ watchedHead \in [SweepFolders -> HeadsThere] /\ section \in Nat
    /\ sweeper \in Sweepers /\ pass \in Passes

\* A stop is of the whole folder, or of the head the runner goes by.
StopsAreCurrent(s) ==
    \A f \in SweepFolders : s.latched[f].head \in {NoHead, EveryHead, s.heads[f]}

\* Rows that are true of what the runner keeps.
RowsFit(s, rows) ==
    \A row \in rows :
        /\ row[1] = "tried again" =>
             s.heads[row[2]] \notin {NoHead, s.settled[row[2]]} /\ s.latched[row[2]].head = NoHead
        /\ row[1] = "stopped" => row[3] \in {EveryHead, s.heads[row[2]]}

SweepInv ==
    /\ SweepTypes /\ StopsAreCurrent(sweeper)
    /\ pass.at # "sweep" => RowsFit(sweeper, sweeper.rows)

-----------------------------------------------------------------------------
LEMMA SweepBegins == SweepInit => SweepInv
<1> SUFFICES ASSUME SweepInit PROVE SweepInv
    OBVIOUS
<1>1. sweeper \in Sweepers /\ sweeper.rows = {} /\ \A f \in SweepFolders : sweeper.latched[f].head = NoHead
    BY DEF SweepInit, NewSweeper, NotLatched, Sweepers, HeadsThere, Waits, Latches, Downs
<1>2. pass \in Passes
    BY DEF SweepInit, NoPass, Passes
<1>3. watchedHead \in [SweepFolders -> HeadsThere] /\ section \in Nat
    BY DEF SweepInit, HeadsThere
<1> QED BY <1>1, <1>2, <1>3 DEF SweepInv, SweepTypes, StopsAreCurrent, RowsFit

\* Steps that leave the sweeper alone, and end no sweep.
LEMMA ElsewhereKeepsIt ==
    ASSUME SweepInv, UNCHANGED sweeper, pass' \in Passes, pass'.at = "sweep" \/ pass.at # "sweep",
           watchedHead' \in [SweepFolders -> HeadsThere], section' \in Nat
    PROVE  SweepInv'
BY DEF SweepInv, SweepTypes, StopsAreCurrent, RowsFit

LEMMA PlantKeepsIt ==
    ASSUME SweepInv,
           \/ SectionChanges
           \/ \E f \in SweepFolders, h \in SweepHeads \cup {NoHead} : WatchedHeadMoves(f, h)
    PROVE  SweepInv'
<1>1. watchedHead \in [SweepFolders -> HeadsThere] /\ section \in Nat /\ pass \in Passes
    BY DEF SweepInv, SweepTypes
<1>2. UNCHANGED <<sweeper, pass, warnings>>
    BY DEF SectionChanges, WatchedHeadMoves
<1>3. watchedHead' \in [SweepFolders -> HeadsThere] /\ section' \in Nat
    BY <1>1 DEF SectionChanges, WatchedHeadMoves, HeadsThere
<1> QED BY <1>1, <1>2, <1>3, ElsewhereKeepsIt DEF SweepInv

LEMMA QueueKeepsIt ==
    ASSUME SweepInv,
           \/ PassBegins \/ QueueIsEmpty \/ QueueIsStopped \/ QueueClientServes
           \/ QueueIsNotServed \/ QueueClientStops \/ QueueTimesOut
    PROVE  SweepInv'
<1>1. watchedHead \in [SweepFolders -> HeadsThere] /\ section \in Nat /\ pass \in Passes
    BY DEF SweepInv, SweepTypes
<1>2. UNCHANGED <<sweeper, watchedHead, section>>
    BY DEF PassBegins, QueueIsEmpty, QueueIsStopped, QueueClientServes, QueueIsNotServed, QueueClientStops,
           QueueTimesOut, plantVars
<1>3. pass.at \in {"no", "queue"}
    BY DEF PassBegins, QueueIsEmpty, QueueIsStopped, QueueClientServes, QueueIsNotServed, QueueClientStops, QueueTimesOut
<1>4. pass' = [NoPass EXCEPT !.at = "queue", !.under = section] \/ pass' = [pass EXCEPT !.at = "reconcile"]
    BY DEF PassBegins, QueueIsEmpty, QueueIsStopped, QueueClientServes, QueueIsNotServed, QueueClientStops,
           QueueTimesOut, ToSweep
<1>5. pass' \in Passes
    BY <1>1, <1>4 DEF Passes, NoPass
<1> QED BY <1>1, <1>2, <1>3, <1>5, ElsewhereKeepsIt

\* A wait that ends changes nothing a row speaks of but whether it is due.
LEMMA WaitKeepsIt ==
    ASSUME SweepInv, NEW f \in SweepFolders, WaitIsOver(f)
    PROVE  SweepInv'
<1>1. sweeper \in Sweepers
    BY DEF SweepInv, SweepTypes
<1>2. sweeper' = [sweeper EXCEPT !.waiting[f].due = TRUE, !.down[f].due = TRUE]
      /\ UNCHANGED <<watchedHead, section, pass, warnings>>
    BY DEF WaitIsOver, plantVars
<1>3. sweeper' \in Sweepers /\ sweeper'.settled = sweeper.settled /\ sweeper'.latched = sweeper.latched
      /\ sweeper'.heads = sweeper.heads /\ sweeper'.rows = sweeper.rows
    <2>1. sweeper.waiting[f] \in Waits /\ sweeper.down[f] \in Downs
        BY <1>1 DEF Sweepers
    <2>2. [sweeper.waiting[f] EXCEPT !.due = TRUE] \in Waits /\ [sweeper.down[f] EXCEPT !.due = TRUE] \in Downs
        BY <2>1 DEF Waits, Downs
    <2> QED BY <1>1, <1>2, <2>2 DEF Sweepers
<1> QED BY <1>2, <1>3 DEF SweepInv, SweepTypes, StopsAreCurrent, RowsFit

-----------------------------------------------------------------------------
\* What Reconcile leaves is current: a stop at a head that went is lifted.
LEMMA ReconciledIsCurrent ==
    ASSUME SweepInv, NEW s, s \in {Replaced(Reconciled), Lifted(Replaced(Reconciled), section)}
    PROVE  s \in Sweepers /\ StopsAreCurrent(s)
<1>1. sweeper \in Sweepers /\ watchedHead \in [SweepFolders -> HeadsThere]
    BY DEF SweepInv, SweepTypes
<1> DEFINE r == Reconciled
           q == Replaced(Reconciled)
<1>2. NotLatched \in Latches /\ NotLatched.head = NoHead
    BY DEF NotLatched, Latches, HeadsThere
<1>3. /\ r \in Sweepers /\ r.heads = watchedHead
      /\ r.latched = [f \in SweepFolders |->
            IF Retired(watchedHead, sweeper.latched[f], f) THEN NotLatched ELSE sweeper.latched[f]]
    BY <1>1, <1>2 DEF Reconciled, Sweepers
<1>4. q \in Sweepers /\ q.heads = r.heads /\ q.latched = r.latched
    <2>1. [head |-> NoHead, due |-> TRUE, refusals |-> 0] \in Waits
        BY DEF Waits, HeadsThere
    <2> HIDE DEF r
    <2> QED BY <1>3, <2>1 DEF Replaced, Sweepers, r
<1>5. StopsAreCurrent(q)
    BY <1>2, <1>3, <1>4 DEF StopsAreCurrent, Retired
<1>6. Lifted(q, section) \in Sweepers /\ StopsAreCurrent(Lifted(q, section))
    <2> HIDE DEF q
    <2>1. /\ Lifted(q, section) \in Sweepers /\ Lifted(q, section).heads = q.heads
          /\ Lifted(q, section).latched =
                [f \in SweepFolders |-> IF q.latched[f].under # section THEN NotLatched ELSE q.latched[f]]
        BY <1>2, <1>4 DEF Lifted, Sweepers
    <2> QED BY <1>2, <1>5, <2>1 DEF StopsAreCurrent
<1> QED BY <1>4, <1>5, <1>6

\* What the rows of a standing stop, and of a folder that waits, say.
LEMMA StandingFits ==
    ASSUME NEW s \in Sweepers, StopsAreCurrent(s)
    PROVE  Standing(s) \in SUBSET Rows /\ RowsFit(s, Standing(s))
<1>1. \A row \in Standing(s) :
        \/ \E f \in SweepFolders : row = <<"stopped", f, s.latched[f].head>> /\ s.latched[f].head # NoHead
        \/ \E f \in SweepFolders : row = <<"tried again", f, NoHead>> /\ Retried(s, f)
    BY DEF Standing
<1>2. Standing(s) \in SUBSET Rows
    <2>1. \A f \in SweepFolders : s.latched[f].head \in HeadsThere \cup {EveryHead}
        BY DEF Sweepers, Latches
    <2>2. \A k \in RowKinds, f \in SweepFolders, h \in HeadsThere \cup {EveryHead} : <<k, f, h>> \in Rows
        BY DEF Rows
    <2>3. NoHead \in HeadsThere /\ "stopped" \in RowKinds /\ "tried again" \in RowKinds
        BY DEF HeadsThere, RowKinds
    <2> QED BY <1>1, <2>1, <2>2, <2>3
<1>3. ASSUME NEW f \in SweepFolders, s.latched[f].head # NoHead, NEW row, row = <<"stopped", f, s.latched[f].head>>
      PROVE  row[1] # "tried again" /\ row[3] \in {EveryHead, s.heads[row[2]]}
    BY <1>3 DEF StopsAreCurrent
<1>4. ASSUME NEW f \in SweepFolders, Retried(s, f), NEW row, row = <<"tried again", f, NoHead>>
      PROVE  /\ row[1] # "stopped"
             /\ s.heads[row[2]] \notin {NoHead, s.settled[row[2]]} /\ s.latched[row[2]].head = NoHead
    BY <1>4 DEF Retried
<1> QED BY <1>1, <1>2, <1>3, <1>4 DEF RowsFit

LEMMA ReconcileKeepsIt ==
    ASSUME SweepInv, Reconcile \/ NoCheckout
    PROVE  SweepInv'
<1> DEFINE q == Replaced(Reconciled)
           l == Lifted(q, section)
<1>1. sweeper \in Sweepers /\ pass \in Passes /\ section \in Nat
    BY DEF SweepInv, SweepTypes
<1>2. q \in Sweepers /\ StopsAreCurrent(q) /\ l \in Sweepers /\ StopsAreCurrent(l)
    BY ReconciledIsCurrent
<1>3. UNCHANGED <<watchedHead, section, warnings>>
    BY DEF Reconcile, NoCheckout, plantVars
<1>4. NoPass \in Passes /\ NoPass.at = "no"
    BY DEF NoPass, Passes
<1>5. \/ sweeper' = [q EXCEPT !.rows = Standing(q)] /\ pass' = NoPass
      \/ sweeper' = l /\ pass' = [pass EXCEPT !.at = "sweep", !.under = section, !.due = Due(q), !.rows = {}]
      \/ /\ sweeper' = [l EXCEPT !.rows = {<<"none is swept", f, NoHead>> : f \in Due(q)}]
         /\ pass' = NoPass
    BY DEF Reconcile, NoCheckout
<1> HIDE DEF q, l
<1>6. CASE sweeper' = [q EXCEPT !.rows = Standing(q)] /\ pass' = NoPass
    <2>1. Standing(q) \in SUBSET Rows /\ RowsFit(q, Standing(q))
        BY <1>2, StandingFits
    <2>2. sweeper' \in Sweepers /\ sweeper'.rows = Standing(q) /\ sweeper'.heads = q.heads
          /\ sweeper'.latched = q.latched /\ sweeper'.settled = q.settled
        BY <1>2, <1>6, <2>1 DEF Sweepers
    <2>3. StopsAreCurrent(sweeper') /\ RowsFit(sweeper', sweeper'.rows)
        BY <1>2, <2>1, <2>2 DEF StopsAreCurrent, RowsFit
    <2> QED BY <1>3, <1>4, <1>6, <2>2, <2>3 DEF SweepInv, SweepTypes, StopsAreCurrent, RowsFit
<1>7. CASE sweeper' = l /\ pass' = [pass EXCEPT !.at = "sweep", !.under = section, !.due = Due(q), !.rows = {}]
    <2>1. pass' \in Passes /\ pass'.at = "sweep"
        BY <1>1, <1>7 DEF Passes, Due
    <2> QED BY <1>2, <1>3, <1>7, <2>1 DEF SweepInv, SweepTypes, StopsAreCurrent
<1>8. CASE /\ sweeper' = [l EXCEPT !.rows = {<<"none is swept", f, NoHead>> : f \in Due(q)}]
           /\ pass' = NoPass
    <2> DEFINE rows == {<<"none is swept", f, NoHead>> : f \in Due(q)}
    <2>1. rows \in SUBSET Rows /\ \A row \in rows : row[1] = "none is swept"
        <3>1. \A f \in SweepFolders : <<"none is swept", f, NoHead>> \in Rows
            BY DEF Rows, RowKinds, HeadsThere
        <3>2. \A f \in SweepFolders : <<"none is swept", f, NoHead>>[1] = "none is swept"
            OBVIOUS
        <3>3. Due(q) \subseteq SweepFolders
            BY DEF Due
        <3> QED BY <3>1, <3>2, <3>3
    <2>2. sweeper' \in Sweepers /\ sweeper'.rows = rows /\ sweeper'.heads = l.heads /\ sweeper'.latched = l.latched
        BY <1>2, <1>8, <2>1 DEF Sweepers
    <2> QED BY <1>2, <1>3, <1>4, <1>8, <2>1, <2>2 DEF SweepInv, SweepTypes, StopsAreCurrent, RowsFit
<1> QED BY <1>5, <1>6, <1>7, <1>8

-----------------------------------------------------------------------------
\* One folder's run leaves the heads, and stops the folder at its head or whole.
LEMMA FolderKeepsIt ==
    ASSUME SweepInv, NEW f \in SweepFolders, Sweeping(f),
           sweeper' \in Sweepers, sweeper'.heads = sweeper.heads,
           \A g \in SweepFolders : \/ sweeper'.latched[g].head = sweeper.latched[g].head
                                   \/ sweeper'.latched[g].head \in {NoHead, EveryHead, sweeper.heads[g]},
           NEW rows, rows = {} \/ rows = {<<"not swept", f, sweeper.heads[f]>>}, Went(f, rows),
           UNCHANGED <<watchedHead, section>>
    PROVE  SweepInv'
<1>1. pass \in Passes /\ pass.at = "sweep" /\ sweeper \in Sweepers
    BY DEF SweepInv, SweepTypes, Sweeping
<1>2. rows \in SUBSET BareRows
    <2>1. sweeper.heads[f] \in HeadsThere
        BY <1>1 DEF Sweepers
    <2>2. <<"not swept", f, sweeper.heads[f]>> \in BareRows
        BY <2>1 DEF BareRows
    <2> QED BY <2>2
<1>3. pass' \in Passes /\ pass'.at = "sweep"
    BY <1>1, <1>2 DEF Went, Passes
<1> QED BY <1>3 DEF SweepInv, SweepTypes, StopsAreCurrent

LEMMA SweepKeepsIt ==
    ASSUME SweepInv, NEW f \in SweepFolders,
           \/ IsStopped(f) \/ IsNotSwept(f) \/ IsSwept(f) \/ DashboardIsDown(f) \/ TreeIsDirty(f)
           \/ MovedAfterReserve(f) \/ SweepTimesOut(f) \/ StopsAt(f, EveryHead) \/ StopsAt(f, sweeper.heads[f])
    PROVE  SweepInv'
<1>1. sweeper \in Sweepers /\ pass \in Passes
    BY DEF SweepInv, SweepTypes
<1>2. Sweeping(f) /\ UNCHANGED <<watchedHead, section>>
    BY DEF IsStopped, IsNotSwept, IsSwept, DashboardIsDown, TreeIsDirty, MovedAfterReserve, SweepTimesOut, StopsAt,
           MaySweep, plantVars
<1>4. PICK rows : (rows = {} \/ rows = {<<"not swept", f, sweeper.heads[f]>>}) /\ Went(f, rows)
    BY DEF IsStopped, IsNotSwept, IsSwept, DashboardIsDown, TreeIsDirty, MovedAfterReserve, SweepTimesOut, StopsAt
<1>5. sweeper.heads[f] \in HeadsThere /\ sweeper.waiting[f] \in Waits /\ sweeper.down[f] \in Downs /\ pass.under \in Nat
    BY <1>1 DEF Sweepers, Passes
<1>6. Waiting(sweeper, f) \in Waits
    BY <1>5 DEF Waiting, Waits
<1>7. Answers(sweeper, f) \in Sweepers /\ Answers(sweeper, f).heads = sweeper.heads
      /\ Answers(sweeper, f).latched = sweeper.latched /\ Answers(sweeper, f).waiting = sweeper.waiting
    BY <1>1 DEF Answers, Sweepers, Downs
<1>8. ASSUME NEW s \in Sweepers, s.heads = sweeper.heads, s.latched = sweeper.latched,
             NEW h \in {EveryHead, sweeper.heads[f]}
      PROVE  /\ LatchedAt(s, f, h) \in Sweepers /\ LatchedAt(s, f, h).heads = sweeper.heads
             /\ \A g \in SweepFolders : \/ LatchedAt(s, f, h).latched[g] = sweeper.latched[g]
                                        \/ LatchedAt(s, f, h).latched[g].head \in {EveryHead, sweeper.heads[g]}
    <2>1. [head |-> h, under |-> pass.under] \in Latches /\ [head |-> NoHead, due |-> TRUE, refusals |-> 0] \in Waits
        BY <1>5 DEF Latches, Waits, HeadsThere
    <2> QED BY <1>8, <2>1 DEF LatchedAt, Sweepers
<1>9. /\ sweeper' \in Sweepers /\ sweeper'.heads = sweeper.heads
      /\ \A g \in SweepFolders : \/ sweeper'.latched[g].head = sweeper.latched[g].head
                                 \/ sweeper'.latched[g].head \in {NoHead, EveryHead, sweeper.heads[g]}
    <2>1. CASE IsStopped(f) \/ IsNotSwept(f)
        BY <2>1, <1>1 DEF IsStopped, IsNotSwept
    <2>2. CASE IsSwept(f)
        BY <2>2, <1>1, <1>5 DEF IsSwept, Settled, Sweepers, Waits, Downs, HeadsThere
    <2>3. CASE DashboardIsDown(f)
        <3> DEFINE down == [runs |-> IF sweeper.down[f].runs < 2 THEN sweeper.down[f].runs + 1 ELSE sweeper.down[f].runs,
                            due |-> FALSE]
        <3>1. down \in Downs /\ [sweeper.waiting[f] EXCEPT !.refusals = 0] \in Waits
            BY <1>5 DEF Waits, Downs
        <3>2. sweeper' = [sweeper EXCEPT !.down[f] = down, !.waiting[f].refusals = 0]
            BY <2>3 DEF DashboardIsDown
        <3> HIDE DEF down
        <3> QED BY <3>1, <3>2, <1>1 DEF Sweepers
    <2>4. CASE TreeIsDirty(f)
        <3>1. [Waiting(sweeper, f) EXCEPT !.due = FALSE, !.refusals = 0] \in Waits
            BY <1>6 DEF Waits
        <3> QED BY <2>4, <3>1, <1>1 DEF TreeIsDirty, Sweepers
    <2>5. CASE SweepTimesOut(f)
        <3>1. [Waiting(sweeper, f) EXCEPT !.due = TRUE, !.refusals = 0] \in Waits
            BY <1>6 DEF Waits
        <3> QED BY <2>5, <3>1, <1>1 DEF SweepTimesOut, Sweepers
    <2>6. CASE StopsAt(f, EveryHead) \/ StopsAt(f, sweeper.heads[f])
        <3>1. PICK s \in {sweeper, Answers(sweeper, f)}, h \in {EveryHead, sweeper.heads[f]} : sweeper' = LatchedAt(s, f, h)
            BY <2>6 DEF StopsAt
        <3>2. s \in Sweepers /\ s.heads = sweeper.heads /\ s.latched = sweeper.latched
            BY <1>1, <1>7
        <3> QED BY <3>1, <3>2, <1>8
    <2>7. CASE MovedAfterReserve(f)
        <3> DEFINE s == Answers(sweeper, f)
                   w == [Waiting(s, f) EXCEPT !.refusals = @ + 1, !.due = TRUE]
        <3>1. w \in Waits
            <4>1. Waiting(s, f) \in Waits
                BY <1>5, <1>7 DEF Waiting, Waits
            <4>2. ASSUME NEW v \in Waits, NEW n, n = v.refusals + 1
                  PROVE  [v EXCEPT !.refusals = n, !.due = TRUE] \in Waits
                <5>1. n \in Nat
                    BY <4>2 DEF Waits
                <5> QED BY <5>1 DEF Waits
            <4> HIDE DEF s
            <4> QED BY <4>1, <4>2
        <3>2. sweeper' = [s EXCEPT !.waiting[f] = w] \/ sweeper' = LatchedAt(s, f, s.heads[f])
            BY <2>7 DEF MovedAfterReserve
        <3>3. CASE sweeper' = LatchedAt(s, f, s.heads[f])
            BY <3>3, <1>7, <1>8
        <3>4. CASE sweeper' = [s EXCEPT !.waiting[f] = w]
            <4> HIDE DEF s, w
            <4>1. s \in Sweepers /\ s.heads = sweeper.heads /\ s.latched = sweeper.latched
                BY <1>7 DEF s
            <4> QED BY <3>1, <3>4, <4>1 DEF Sweepers
        <3> QED BY <3>2, <3>3, <3>4
    <2> QED BY <2>1, <2>2, <2>3, <2>4, <2>5, <2>6, <2>7
<1> QED BY <1>2, <1>4, <1>9, FolderKeepsIt

\* The rows of a pass that ends are its own, and of what stands.
LEMMA PassEndKeepsIt ==
    ASSUME SweepInv, PassEnds
    PROVE  SweepInv'
<1>1. sweeper \in Sweepers /\ pass \in Passes /\ StopsAreCurrent(sweeper)
    BY DEF SweepInv, SweepTypes
<1>2. sweeper' = [sweeper EXCEPT !.rows = pass.rows \cup Standing(sweeper)] /\ pass' = NoPass
      /\ UNCHANGED <<watchedHead, section, warnings>>
    BY DEF PassEnds, plantVars
<1>3. Standing(sweeper) \in SUBSET Rows /\ RowsFit(sweeper, Standing(sweeper))
    BY <1>1, StandingFits
<1>4. pass.rows \in SUBSET Rows /\ \A row \in pass.rows : row[1] = "not swept"
    BY <1>1 DEF Passes, BareRows, Rows, RowKinds
<1>5. sweeper' \in Sweepers /\ sweeper'.rows = pass.rows \cup Standing(sweeper) /\ sweeper'.heads = sweeper.heads
      /\ sweeper'.latched = sweeper.latched /\ sweeper'.settled = sweeper.settled
    BY <1>1, <1>2, <1>3, <1>4 DEF Sweepers
<1>6. NoPass \in Passes
    BY DEF NoPass, Passes
<1>7. RowsFit(sweeper', sweeper'.rows) /\ StopsAreCurrent(sweeper')
    BY <1>1, <1>3, <1>4, <1>5 DEF RowsFit, StopsAreCurrent
<1> QED BY <1>2, <1>5, <1>6, <1>7 DEF SweepInv, SweepTypes, RowsFit, StopsAreCurrent

\* A pass that throws leaves one row for each folder it had still to sweep.
LEMMA ThrowKeepsIt ==
    ASSUME SweepInv, NEW f \in SweepFolders, PassThrows(f)
    PROVE  SweepInv'
<1> DEFINE rows == {<<"none is swept", g, NoHead>> : g \in pass.due}
<1>1. sweeper \in Sweepers /\ pass \in Passes /\ UNCHANGED <<watchedHead, section>>
    BY DEF SweepInv, SweepTypes, PassThrows, plantVars
<1>2. rows \in SUBSET Rows /\ \A row \in rows : row[1] = "none is swept"
    <2>1. \A g \in SweepFolders : <<"none is swept", g, NoHead>> \in Rows
        BY DEF Rows, RowKinds, HeadsThere
    <2>2. \A g \in SweepFolders : <<"none is swept", g, NoHead>>[1] = "none is swept"
        OBVIOUS
    <2>3. pass.due \subseteq SweepFolders
        BY <1>1 DEF Passes
    <2> QED BY <2>1, <2>2, <2>3
<1>3. sweeper' = [sweeper EXCEPT !.rows = rows] /\ pass' = NoPass
    BY DEF PassThrows
<1> HIDE DEF rows
<1>4. sweeper' \in Sweepers /\ sweeper'.rows = rows /\ sweeper'.heads = sweeper.heads
      /\ sweeper'.latched = sweeper.latched
    BY <1>1, <1>2, <1>3 DEF Sweepers
<1>5. NoPass \in Passes
    BY DEF NoPass, Passes
<1> QED BY <1>1, <1>2, <1>3, <1>4, <1>5 DEF SweepInv, SweepTypes, StopsAreCurrent, RowsFit

\* A plugin that starts again knows of no stop, and has no row but the warnings.
LEMMA PluginRestartKeepsIt ==
    ASSUME SweepInv, PluginRestarts
    PROVE  SweepInv'
<1>1. sweeper' \in Sweepers /\ sweeper'.rows = {} /\ \A f \in SweepFolders : sweeper'.latched[f].head = NoHead
    BY DEF PluginRestarts, NewSweeper, NotLatched, Sweepers, HeadsThere, Waits, Latches, Downs
<1>2. pass' \in Passes
    BY DEF PluginRestarts, NoPass, Passes
<1>3. UNCHANGED <<watchedHead, section>>
    BY DEF PluginRestarts, plantVars
<1> QED BY <1>1, <1>2, <1>3 DEF SweepInv, SweepTypes, StopsAreCurrent, RowsFit

\* What the plugin says of its clients' runs (sweep-runner.mjs, index.mjs): a
\* folder said to be tried again is due once its wait is over, and not stopped;
\* and a row of a stop names the head the folder is at, or the whole folder;
\* through every stop and start of the plugin and every pass that throws.
THEOREM SweepsHold == SweepSpec => []SweepsAreHonest
<1>1. SweepInit => SweepInv
    BY SweepBegins
<1>2. SweepInv /\ [SweepNext]_sweepVars => SweepInv'
    <2>1. SUFFICES ASSUME SweepInv, [SweepNext]_sweepVars PROVE SweepInv'
        OBVIOUS
    <2>2. CASE \/ SectionChanges
               \/ \E f \in SweepFolders : \E h \in SweepHeads \cup {NoHead} : WatchedHeadMoves(f, h)
        BY <2>1, <2>2, PlantKeepsIt
    <2>3. CASE \/ PassBegins \/ QueueIsEmpty \/ QueueIsStopped \/ QueueClientServes
               \/ QueueIsNotServed \/ QueueClientStops \/ QueueTimesOut
        BY <2>1, <2>3, QueueKeepsIt
    <2>4. CASE Reconcile \/ NoCheckout
        BY <2>1, <2>4, ReconcileKeepsIt
    <2>5. CASE PassEnds
        BY <2>1, <2>5, PassEndKeepsIt
    <2>6. CASE PluginRestarts
        BY <2>1, <2>6, PluginRestartKeepsIt
    <2>7. CASE \E f \in SweepFolders : WaitIsOver(f)
        BY <2>1, <2>7, WaitKeepsIt
    <2>8. CASE \E f \in SweepFolders :
                 \/ IsStopped(f) \/ IsNotSwept(f) \/ IsSwept(f) \/ DashboardIsDown(f) \/ TreeIsDirty(f)
                 \/ MovedAfterReserve(f) \/ SweepTimesOut(f) \/ StopsAt(f, EveryHead) \/ StopsAt(f, sweeper.heads[f])
        BY <2>1, <2>8, SweepKeepsIt
    <2>9. CASE \E f \in SweepFolders : PassThrows(f)
        BY <2>1, <2>9, ThrowKeepsIt
    <2>10. CASE UNCHANGED sweepVars
        BY <2>1, <2>10, ElsewhereKeepsIt DEF sweepVars, plantVars, SweepInv, SweepTypes
    <2> QED BY <2>1, <2>2, <2>3, <2>4, <2>5, <2>6, <2>7, <2>8, <2>9, <2>10 DEF SweepNext, PassSteps
<1>3. SweepInv => SweepsAreHonest
    <2>1. SUFFICES ASSUME SweepInv PROVE SweepsAreHonest
        OBVIOUS
    <2>2. SUFFICES ASSUME NEW row \in sweeper.rows, pass.at \in {"no", "queue"}
                   PROVE  /\ row[1] = "tried again" /\ sweeper.down[row[2]].due /\ sweeper.waiting[row[2]].due
                               => IsDue(sweeper, row[2]) /\ sweeper.latched[row[2]].head = NoHead
                          /\ row[1] = "stopped" /\ row[3] # EveryHead => row[3] = sweeper.heads[row[2]]
        BY DEF SweepsAreHonest
    <2>3. RowsFit(sweeper, sweeper.rows)
        BY <2>1, <2>2 DEF SweepInv
    <2> QED BY <2>2, <2>3 DEF RowsFit, IsDue
<1> QED BY <1>1, <1>2, <1>3, PTL DEF SweepSpec
=============================================================================
