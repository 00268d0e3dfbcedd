-------- MODULE MCCustody ---------------------------------------------------
(***************************************************************************)
(* The children of one environment, what its teardown and the next         *)
(* environment do about them: two starts under a teardown; one start whose *)
(* events and timers come round; and a takeover, with one predecessor, one *)
(* other environment and one recorded child; the record of owned           *)
(* processes, which two environments write; and the definition lock a dead *)
(* process leaves, with two breakers that may die over it and one that     *)
(* survives.  A behaviour is of one of the five.                           *)
(***************************************************************************)
EXTENDS Shutdown, Recovery, OwnedRecord, Naturals, Sequences, FiniteSets, TLC

CONSTANTS Procs, Operators, Crashers, Remote, Texts, Writer, Lock, MaxDepth
CONSTANTS p1, p2, r1, r2, k1, pre, oth, w1, w2, a, b, c, d, a1, b1, c1, c2,
    d1, lock

VARIABLES
  part,  \* the component this behaviour is of
  \* the variables of DefinitionLock
  lockRun, lockStage, lockPath, lockText, lockDepth, lockMine, lockFile

Unused(r) == call'[r] = [p \in Starts |-> "idle"]

\* Two starts where there are no groups, one with a stop request where there are.
Small == Unused(r2) /\ IF host = "group" THEN phase'[p2] = "idle" ELSE Unused(r1)

WriterOf == (a1 :> a) @@ (b1 :> b) @@ (c1 :> c) @@ (c2 :> c) @@ (d1 :> d)

Def == INSTANCE DefinitionLock WITH run <- lockRun, stage <- lockStage, path
    <- lockPath, text <- lockText, depth <- lockDepth, mine <- lockMine, file
    <- lockFile

lockVars == <<lockRun, lockStage, lockPath, lockText, lockDepth, lockMine,
    lockFile>>
own == <<host, phase, root, workers, strangers, exitSeen, closed, inFlight,
    live, stops, registry, managed, group, recorded, disk, requested, attempt,
    call, reason, listening, struck, stage, snapshot, owed, stuck, ending>>

\* The components at rest are where they begin.
AllInit ==
  /\ part \in {"custody", "takeover", "record", "runner", "lock"}
  /\ ShutdownInit
  /\ part \notin {"custody", "runner"} => host = "pipe"
  /\ TakeoverInit
  /\ part # "takeover" => platform = "linux" /\ ~legacy /\ owner[pre] = "gone" /\
      owner[oth] = "gone" /\ ownerOf[k1] = pre /\ evidence[k1] = "birth" /\
      scoped = {}
  /\ RecordInit
  /\ part # "record" => page = Readable({})
  /\ Def!Init
  /\ part # "lock" => lockRun = [p \in Procs |-> "alive"]

CustodyActs == part = "custody" /\ ShutdownNext /\ Small /\ UNCHANGED <<part,
    takeoverVars, recordVars, lockVars>>
RunnerActs == part = "runner" /\ Next /\ phase'[p2] = "idle" /\ UNCHANGED end
    /\ UNCHANGED <<part, takeoverVars, recordVars, lockVars>>
TakeoverActs == part = "takeover" /\ TakeoverNext /\ UNCHANGED <<part, own,
    recordVars, lockVars>>
RecordActs == part = "record" /\ RecordNext /\ UNCHANGED <<part, own,
    takeoverVars, lockVars>>
LockActs == part = "lock" /\ Def!Next /\ UNCHANGED <<part, own, takeoverVars,
    recordVars>>

AllNext == CustodyActs \/ RunnerActs \/ TakeoverActs \/ RecordActs \/ LockActs

AllSpec == AllInit /\ [][AllNext]_<<part, lockVars, own, takeoverVars, recordVars>>

-----------------------------------------------------------------------------
LockFair == \A p \in Procs : WF_lockVars(part = "lock" /\ Def!Step(p))

\* While somebody is left alive to work on it, the lock of a process that died
\* is broken, however many breakers died over it.
LocksAreBroken == part = "lock" /\ LockFair => Def!DeadLockIsBroken

CustodyFair ==
  /\ WF_own(part = "custody" /\ BeginStops) /\ WF_own(part = "custody" /\ AllEntered)
  /\ WF_own(part = "custody" /\ StopsEnd) /\ WF_own(part = "custody" /\ Exit)
  /\ \A p \in Starts : /\ WF_own(part = "custody" /\ EnterStop(p))
                        /\ WF_own(part = "custody" /\ EnterOwed(p))

RunnerFair ==
  /\ WF_vars(part = "runner" /\ ExitEvent(p1))
  /\ WF_vars(part = "runner" /\ p1 \notin workers /\ Close(p1))
  /\ WF_vars(part = "runner" /\ Sweep(p1))
  /\ WF_vars(part = "runner" /\ (Handoff(p1) \/ SpawnFails(p1)))
  /\ WF_vars(part = "runner" /\ AttemptStep(p1))
  /\ \A r \in {r1, r2} : WF_vars(part = "runner" /\ StopEnds(r, p1))

TakeoverFair ==
  /\ WF_takeoverVars(part = "takeover" /\ Bind)
  /\ WF_takeoverVars(part = "takeover" /\ SignalIncumbent)
  /\ WF_takeoverVars(part = "takeover" /\ Plan)
  /\ WF_takeoverVars(part = "takeover" /\ Reap)
  /\ WF_takeoverVars(part = "takeover" /\ (Hold \/ Open))
  /\ SF_takeoverVars(part = "takeover" /\ Open)
  /\ WF_takeoverVars(part = "takeover" /\ RequestAgain)

\* A signal ends in an exit; a child's end is learned and every stop answered;
\* and a held takeover becomes ready once its predecessor has gone.
EndsAreLearned ==
  /\ (part = "custody" /\ CustodyFair => SignalEndsInExit)
  /\ (part = "runner" /\ RunnerFair => EndIsLearned /\ StopsAreAnswered)
  /\ (part = "takeover" /\ TakeoverFair =>
        (part = "takeover" /\ HeldAlone ~> part = "takeover" /\ Answered))

=============================================================================
