--------------------------- MODULE CustodyProofs ----------------------------
(***************************************************************************)
(* The custody of an environment's children, for every set of them.        *)
(*                                                                         *)
(* Runner and Shutdown, for every set of starts and of callers: IndInv is   *)
(* inductive, every action of the Runner preserves it, one lemma per        *)
(* action, and the safety invariants of Runner are consequences of it.  The *)
(* teardown only calls stop(), answers its own calls and retires rows of    *)
(* what is no longer live, so the invariant of the Runner survives it; with *)
(* it, an exit that calls itself complete has verified every process it     *)
(* listed.                                                                 *)
(*                                                                         *)
(* Recovery, for every set of children, every set of environments and any   *)
(* number of crashes of the successor; and the record that both keep, for   *)
(* any number of writers.                                                  *)
(***************************************************************************)
EXTENDS Shutdown, Recovery, OwnedRecord, TLAPS

Held(p) ==
    /\ p \in live \cap stops \cap registry \cap managed \cap recorded
    /\ disk[p] # "retired"

\* What the operating system's state says of how far a start has come.
OsInv(p) ==
    /\ p \in workers => host = "group" /\ root[p] # "none"
    /\ p \in strangers \cup exitSeen \cup closed => root[p] = "reaped"
    /\ phase[p] = "started" => root[p] # "none"
    /\ phase[p] \in {"idle", "admitting", "refused"} => root[p] = "none"

\* What is held while something still runs.
CustodyInv(p) ==
    /\ phase[p] = "spawning" => inFlight[p] = "pending"
    /\ phase[p] = "started" /\ Running(p) => Held(p)
    /\ group[p] # "none" <=> host = "group" /\ phase[p] = "started"
    /\ group[p] = "gone" => ~Running(p)
    /\ p \in registry <=> p \in stops
    /\ p \in registry => phase[p] = "started"
    /\ disk[p] # "none" => phase[p] = "started"
    /\ phase[p] = "started" /\ p \notin listening => root[p] = "reaped"

\* What a stop under way, and an answer already given, rest on.
StopInv(p) ==
    /\ attempt[p] # "none" => group[p] # "none"
    /\ attempt[p] \in {"term", "kill"} => p \notin strangers
    /\ \A c \in Callers :
        /\ call[c][p] = "killing" => phase[p] = "started" /\ group[p] = "none"
        /\ call[c][p] = "attempt" => phase[p] = "started"
        /\ call[c][p] = "stopped" =>
              phase[p] \in {"started", "refused"} /\ ~Running(p)

ChildInv(p) == OsInv(p) /\ CustodyInv(p) /\ StopInv(p)

IndInv ==
    /\ TypeOK
    /\ struck = {}
    /\ \A p \in Starts : ChildInv(p)

\* Nothing that the invariant reads of q has changed.
Untouched(q) ==
    /\ host' = host /\ phase'[q] = phase[q] /\ root'[q] = root[q]
    /\ inFlight'[q] = inFlight[q] /\ group'[q] = group[q] /\ disk'[q] = disk[q]
    /\ attempt'[q] = attempt[q]
    /\ \A c \in Callers : call'[c][q] = call[c][q]
    /\ q \in workers' <=> q \in workers
    /\ q \in strangers' <=> q \in strangers
    /\ q \in exitSeen' <=> q \in exitSeen
    /\ q \in closed' <=> q \in closed
    /\ q \in live' <=> q \in live
    /\ q \in stops' <=> q \in stops
    /\ q \in registry' <=> q \in registry
    /\ q \in managed' <=> q \in managed
    /\ q \in recorded' <=> q \in recorded
    /\ q \in listening' <=> q \in listening

USE DEF os, events, custody, record, stopping, told

-----------------------------------------------------------------------------
(* Each action, for any p (and any caller c), keeps IndInv.  Every lemma has
   the same three parts: the types, the frame for every other child, and the
   invariant of the child itself. *)

\* The invariant of one child reads only what Untouched lists.
LEMMA UntouchedKeeps ==
    ASSUME NEW q \in Starts, ChildInv(q), Untouched(q)
    PROVE  ChildInv(q)'
BY DEF Untouched, ChildInv, OsInv, CustodyInv, StopInv, Held, Running

\* An answer changes what one caller knows of one child.
LEMMA AnswerIsLocal ==
    ASSUME TypeOK, NEW p \in Starts, NEW c \in Callers, NEW a, Answer(c, p, a),
           a \in {"idle", "handoff", "attempt", "killing", "stopped", "unknown"}
    PROVE  /\ call' \in [Callers -> [Starts ->
                {"idle", "handoff", "attempt", "killing", "stopped", "unknown"}]]
           /\ call'[c][p] = a
           /\ \A d \in Callers : d # c => call'[d][p] = call[d][p]
BY DEF TypeOK, Answer

\* The admitted child's own group and row are as the admission made them.
LEMMA AdmitIsLocal ==
    ASSUME TypeOK, NEW p \in Starts, Admit(p)
    PROVE  /\ phase'[p] = "started" /\ inFlight'[p] # "pending"
           /\ group'[p] \in {"none", "valid", "invalid"}
           /\ group'[p] # "none" <=> host = "group"
           /\ disk'[p] \in {disk[p], "row"}
BY DEF TypeOK, Admit

\* Letting go keeps the types.
LEMMA ReleaseIsTyped ==
    ASSUME TypeOK, NEW p \in Starts, NEW why \in {"exited", "stopped", "reaped"},
           Release(p, why)
    PROVE  /\ inFlight' \in [Starts -> {"none", "pending", "admitted"}]
           /\ disk' \in [Starts -> {"none", "row", "retired"}]
           /\ reason' \in [Starts -> {"none", "exited", "stopped", "reaped"}]
           /\ live' \subseteq Starts /\ stops' \subseteq Starts
           /\ registry' \subseteq Starts /\ recorded' \subseteq Starts
BY DEF TypeOK, Release, ExitReason, RetireRecord

\* A start that is only waiting holds nothing yet.
LEMMA StartKeeps ==
    ASSUME NEW p \in Starts, IndInv, Start(p)
    PROVE  IndInv'
<1>1. TypeOK'
  BY DEF IndInv, TypeOK, Start
<1>2. ASSUME NEW q \in Starts, q # p PROVE Untouched(q)
  BY <1>2 DEF IndInv, TypeOK, Untouched, Start
<1>3. ChildInv(p)'
  BY DEF IndInv, TypeOK, ChildInv, OsInv, CustodyInv, StopInv, Held, Running,
         Start
<1>4. struck' = {}
  BY DEF IndInv, TypeOK, ChildInv, OsInv, StopInv, Start
<1> QED BY <1>1, <1>2, <1>3, <1>4, UntouchedKeeps DEF IndInv

\* A refused start leaves no trace.
LEMMA RefuseKeeps ==
    ASSUME NEW p \in Starts, IndInv, Refuse(p)
    PROVE  IndInv'
<1>1. TypeOK'
  BY DEF IndInv, TypeOK, Refuse
<1>2. ASSUME NEW q \in Starts, q # p PROVE Untouched(q)
  BY <1>2 DEF IndInv, TypeOK, Untouched, Refuse
<1>3. ChildInv(p)'
  BY DEF IndInv, TypeOK, ChildInv, OsInv, CustodyInv, StopInv, Held, Running,
         Refuse
<1>4. struck' = {}
  BY DEF IndInv, TypeOK, ChildInv, OsInv, StopInv, Refuse
<1> QED BY <1>1, <1>2, <1>3, <1>4, UntouchedKeeps DEF IndInv

\* A terminal is held in the turn that spawned it.
LEMMA SpawnTerminalKeeps ==
    ASSUME NEW p \in Starts, IndInv, SpawnTerminal(p)
    PROVE  IndInv'
<1>1. TypeOK'
  BY DEF IndInv, TypeOK, SpawnTerminal, Admit
<1>2. ASSUME NEW q \in Starts, q # p PROVE Untouched(q)
  BY <1>2 DEF IndInv, TypeOK, Untouched, SpawnTerminal, Admit
<1>3. ChildInv(p)'
  BY AdmitIsLocal DEF IndInv, TypeOK, ChildInv, OsInv, CustodyInv, StopInv,
       Held, Running,
         SpawnTerminal, Admit
<1>4. struck' = {}
  BY DEF IndInv, TypeOK, ChildInv, OsInv, StopInv, SpawnTerminal, Admit
<1> QED BY <1>1, <1>2, <1>3, <1>4, UntouchedKeeps DEF IndInv

\* A piped child is held in flight from the turn that spawned it.
LEMMA SpawnPipedKeeps ==
    ASSUME NEW p \in Starts, IndInv, SpawnPiped(p)
    PROVE  IndInv'
<1>1. TypeOK'
  BY DEF IndInv, TypeOK, SpawnPiped
<1>2. ASSUME NEW q \in Starts, q # p PROVE Untouched(q)
  BY <1>2 DEF IndInv, TypeOK, Untouched, SpawnPiped
<1>3. ChildInv(p)'
  BY DEF IndInv, TypeOK, ChildInv, OsInv, CustodyInv, StopInv, Held, Running,
         SpawnPiped
<1>4. struck' = {}
  BY DEF IndInv, TypeOK, ChildInv, OsInv, StopInv, SpawnPiped
<1> QED BY <1>1, <1>2, <1>3, <1>4, UntouchedKeeps DEF IndInv

\* The handoff moves a child from one custody to the other in one turn.
LEMMA HandoffKeeps ==
    ASSUME NEW p \in Starts, IndInv, Handoff(p)
    PROVE  IndInv'
<1>1. TypeOK'
  BY DEF IndInv, TypeOK, Handoff, Admit
<1>2. ASSUME NEW q \in Starts, q # p PROVE Untouched(q)
  BY <1>2 DEF IndInv, TypeOK, Untouched, Handoff, Admit
<1>3. ChildInv(p)'
  BY AdmitIsLocal DEF IndInv, TypeOK, ChildInv, OsInv, CustodyInv, StopInv,
       Held, Running,
         Handoff, Admit
<1>4. struck' = {}
  BY DEF IndInv, TypeOK, ChildInv, OsInv, StopInv, Handoff, Admit
<1> QED BY <1>1, <1>2, <1>3, <1>4, UntouchedKeeps DEF IndInv

\* The pending custody is dropped only for a child that never ran.
LEMMA SpawnFailsKeeps ==
    ASSUME NEW p \in Starts, IndInv, SpawnFails(p)
    PROVE  IndInv'
<1>1. TypeOK'
  BY DEF IndInv, TypeOK, SpawnFails
<1>2. ASSUME NEW q \in Starts, q # p PROVE Untouched(q)
  BY <1>2 DEF IndInv, TypeOK, Untouched, SpawnFails
<1>3. ChildInv(p)'
  BY DEF IndInv, TypeOK, ChildInv, OsInv, CustodyInv, StopInv, Held, Running,
         SpawnFails
<1>4. struck' = {}
  BY DEF IndInv, TypeOK, ChildInv, OsInv, StopInv, SpawnFails
<1> QED BY <1>1, <1>2, <1>3, <1>4, UntouchedKeeps DEF IndInv

\* An exit event changes only what Node has told.
LEMMA ExitEventKeeps ==
    ASSUME NEW p \in Starts, IndInv, ExitEvent(p)
    PROVE  IndInv'
<1>1. TypeOK'
  BY DEF IndInv, TypeOK, ExitEvent
<1>2. ASSUME NEW q \in Starts, q # p PROVE Untouched(q)
  BY <1>2 DEF IndInv, TypeOK, Untouched, ExitEvent
<1>3. ChildInv(p)'
  BY DEF IndInv, TypeOK, ChildInv, OsInv, CustodyInv, StopInv, Held, Running,
         ExitEvent
<1>4. struck' = {}
  BY DEF IndInv, TypeOK, ChildInv, OsInv, StopInv, ExitEvent
<1> QED BY <1>1, <1>2, <1>3, <1>4, UntouchedKeeps DEF IndInv

\* finish() lets go only of a dead root whose group, if owned, is empty.
LEMMA CloseKeeps ==
    ASSUME NEW p \in Starts, IndInv, Close(p)
    PROVE  IndInv'
<1>1. TypeOK'
  BY DEF IndInv, TypeOK, Close, Release, ExitReason, RetireRecord, EndManaged,
       TellListeners, OwnsGroup, CanRelease, Observed
<1>2. ASSUME NEW q \in Starts, q # p PROVE Untouched(q)
  BY <1>2 DEF IndInv, TypeOK, Untouched, Close, Release, ExitReason,
       RetireRecord, EndManaged, TellListeners, OwnsGroup, CanRelease, Observed
<1>3. ChildInv(p)'
  BY DEF IndInv, TypeOK, ChildInv, OsInv, CustodyInv, StopInv, Held, Running,
         Close, Release, ExitReason, RetireRecord, EndManaged, TellListeners,
         OwnsGroup, CanRelease, Observed, GroupPresent
<1>4. struck' = {}
  BY DEF IndInv, TypeOK, ChildInv, OsInv, StopInv, Close, Release, ExitReason,
       RetireRecord, EndManaged, TellListeners, OwnsGroup, CanRelease, Observed
<1> QED BY <1>1, <1>2, <1>3, <1>4, UntouchedKeeps DEF IndInv

\* stop() lets go at once only of what is dead.
LEMMA StopKeeps ==
    ASSUME NEW p \in Starts, NEW c \in Callers, IndInv, Stop(c, p)
    PROVE  IndInv'
<1> USE DEF IndInv, Stop, StopGroup, StopRoot, StopConfirmed
<1>1. PICK a \in {"attempt", "killing", "stopped", "unknown"} : Answer(c, p, a)
  OBVIOUS
<1>2. TypeOK'
  <2>1. call' \in [Callers -> [Starts ->
                {"idle", "handoff", "attempt", "killing", "stopped", "unknown"}]]
    BY <1>1, AnswerIsLocal
  <2> QED BY <2>1, ReleaseIsTyped DEF TypeOK, EndManaged
<1>3. ASSUME NEW q \in Starts, q # p PROVE Untouched(q)
  BY <1>3 DEF TypeOK, Untouched, Release, ExitReason, RetireRecord, EndManaged,
       Answer
<1>4. ChildInv(p)'
  <2> USE DEF ChildInv, OsInv, CustodyInv, StopInv, Held, Running
  <2>1. \A d \in Callers : d # c => call'[d][p] = call[d][p]
    BY <1>1, AnswerIsLocal
  <2>2. CASE p \notin live /\ ~OwnsGroup(p)
    <3>1. call'[c][p] = "stopped" /\ Release(p, "stopped") /\ ~Running(p)
      BY <2>2, AnswerIsLocal DEF OwnsGroup
    <3> QED BY <2>1, <2>2, <3>1, SMTT(30) DEF TypeOK, Release, ExitReason, RetireRecord,
                   OwnsGroup
  <2>3. CASE p \in live /\ p \notin stops
    <3>1. call'[c][p] = "unknown"
      BY <2>3, AnswerIsLocal DEF OwnsGroup
    <3> QED BY <2>1, <2>3, <3>1, SMTT(30) DEF TypeOK, OwnsGroup
  <2>4. CASE p \in stops /\ group[p] # "none"
    <3>1. call'[c][p] = "attempt" /\ phase[p] = "started"
      BY <2>4, AnswerIsLocal DEF OwnsGroup
    <3>2. /\ attempt'[p] = IF attempt[p] = "none" THEN "deferred" ELSE attempt[p]
          /\ UNCHANGED <<host, phase, os, events, custody, group, record,
                         listening>>
      BY <2>4 DEF TypeOK, OwnsGroup
    <3> QED BY <2>1, <2>4, <3>1, <3>2
  <2>5. CASE p \in stops /\ group[p] = "none" /\ StopConfirmed(c, p)
             /\ (p \in closed \/ "dead" \in Probe(p))
    <3>1. call'[c][p] = "stopped" /\ ~Running(p)
      BY <2>5, AnswerIsLocal DEF Probe
    <3> QED BY <2>1, <2>5, <3>1 DEF TypeOK, Release, ExitReason, RetireRecord,
                   EndManaged
  <2>6. CASE /\ p \in stops /\ group[p] = "none"
             /\ Answer(c, p, "killing") \/ Answer(c, p, "unknown")
             /\ UNCHANGED <<attempt, custody, record, reason>>
    <3>1. call'[c][p] \in {"killing", "unknown"}
      BY <2>6, AnswerIsLocal
    <3> QED BY <2>1, <2>6, <3>1 DEF TypeOK
  <2> QED BY <2>2, <2>3, <2>4, <2>5, <2>6 DEF Probe
<1> QED BY <1>2, <1>3, <1>4, UntouchedKeeps

\* The second look of a root's stop lets go only of what is dead.
LEMMA StopEndsKeeps ==
    ASSUME NEW p \in Starts, NEW c \in Callers, IndInv, StopEnds(c, p)
    PROVE  IndInv'
<1> USE DEF IndInv, StopEnds, StopConfirmed
<1>1. PICK a \in {"stopped", "unknown"} : Answer(c, p, a)
  OBVIOUS
<1>2. TypeOK'
  <2>1. call' \in [Callers -> [Starts ->
                {"idle", "handoff", "attempt", "killing", "stopped", "unknown"}]]
    BY <1>1, AnswerIsLocal
  <2> QED BY <2>1, ReleaseIsTyped DEF TypeOK, EndManaged
<1>3. ASSUME NEW q \in Starts, q # p PROVE Untouched(q)
  BY <1>3 DEF TypeOK, Untouched, Release, ExitReason, RetireRecord, EndManaged,
       Answer
<1>4. ChildInv(p)'
  <2> USE DEF ChildInv, OsInv, CustodyInv, StopInv, Held, Running
  <2>1. \A d \in Callers : d # c => call'[d][p] = call[d][p]
    BY <1>1, AnswerIsLocal
  <2>2. CASE StopConfirmed(c, p) /\ (p \in closed \/ "dead" \in Probe(p))
    <3>1. call'[c][p] = "stopped" /\ ~Running(p)
      BY <2>2, AnswerIsLocal DEF Probe
    <3> QED BY <2>1, <2>2, <3>1 DEF TypeOK, Release, ExitReason, RetireRecord,
                   EndManaged
  <2>3. CASE Answer(c, p, "unknown") /\ UNCHANGED <<attempt, custody, record,
                                                    reason>>
    <3>1. call'[c][p] = "unknown"
      BY <2>3, AnswerIsLocal
    <3> QED BY <2>1, <2>3, <3>1 DEF TypeOK
  <2> QED BY <2>2, <2>3 DEF Probe
<1> QED BY <1>2, <1>3, <1>4, UntouchedKeeps

\* A TERM begins only before the exit is seen, so never at a stranger.
LEMMA GroupTermKeeps ==
    ASSUME NEW p \in Starts, IndInv, GroupTerm(p)
    PROVE  IndInv'
<1>1. TypeOK'
  BY DEF IndInv, TypeOK, GroupTerm, Signal, Deferred
<1>2. ASSUME NEW q \in Starts, q # p PROVE Untouched(q)
  BY <1>2 DEF IndInv, TypeOK, Untouched, GroupTerm, Signal, Deferred
<1>3. ChildInv(p)'
  BY DEF IndInv, TypeOK, ChildInv, OsInv, CustodyInv, StopInv, Held, Running,
         GroupTerm, Signal, Deferred, GroupPresent
<1>4. struck' = {}
  BY DEF IndInv, TypeOK, ChildInv, OsInv, StopInv, GroupTerm, Signal, Deferred
<1> QED BY <1>1, <1>2, <1>3, <1>4, UntouchedKeeps DEF IndInv

\* A KILL follows a TERM of the same attempt, so never at a stranger.
LEMMA GroupKillKeeps ==
    ASSUME NEW p \in Starts, IndInv, GroupKill(p)
    PROVE  IndInv'
<1>1. TypeOK'
  BY DEF IndInv, TypeOK, GroupKill, Signal
<1>2. ASSUME NEW q \in Starts, q # p PROVE Untouched(q)
  BY <1>2 DEF IndInv, TypeOK, Untouched, GroupKill, Signal
<1>3. ChildInv(p)'
  BY DEF IndInv, TypeOK, ChildInv, OsInv, CustodyInv, StopInv, Held, Running,
         GroupKill, Signal, GroupPresent
<1>4. struck' = {}
  BY DEF IndInv, TypeOK, ChildInv, OsInv, StopInv, GroupKill, Signal
<1> QED BY <1>1, <1>2, <1>3, <1>4, UntouchedKeeps DEF IndInv

\* An attempt that saw ESRCH lets go of an empty group.
LEMMA GroupGoneKeeps ==
    ASSUME NEW p \in Starts, IndInv, GroupGone(p)
    PROVE  IndInv'
<1>1. TypeOK'
  BY DEF IndInv, TypeOK, GroupGone, Release, ExitReason, RetireRecord,
       EndManaged, Settle
<1>2. ASSUME NEW q \in Starts, q # p PROVE Untouched(q)
  BY <1>2 DEF IndInv, TypeOK, Untouched, GroupGone, Release, ExitReason,
       RetireRecord, EndManaged, Settle
<1>3. ChildInv(p)'
  BY DEF IndInv, TypeOK, ChildInv, OsInv, CustodyInv, StopInv, Held, Running,
         GroupGone, Release, ExitReason, RetireRecord, EndManaged, Settle, Observed,
         GroupPresent, Deferred
<1>4. struck' = {}
  BY DEF IndInv, TypeOK, ChildInv, OsInv, StopInv, GroupGone, Release,
       ExitReason, RetireRecord, EndManaged, Settle
<1> QED BY <1>1, <1>2, <1>3, <1>4, UntouchedKeeps DEF IndInv

\* An attempt that proved nothing lets go of nothing.
LEMMA GroupUnresolvedKeeps ==
    ASSUME NEW p \in Starts, IndInv, GroupUnresolved(p)
    PROVE  IndInv'
<1>1. TypeOK'
  BY DEF IndInv, TypeOK, GroupUnresolved, Settle
<1>2. ASSUME NEW q \in Starts, q # p PROVE Untouched(q)
  BY <1>2 DEF IndInv, TypeOK, Untouched, GroupUnresolved, Settle
<1>3. ChildInv(p)'
  BY DEF IndInv, TypeOK, ChildInv, OsInv, CustodyInv, StopInv, Held, Running,
         GroupUnresolved, Settle, Deferred
<1>4. struck' = {}
  BY DEF IndInv, TypeOK, ChildInv, OsInv, StopInv, GroupUnresolved, Settle
<1> QED BY <1>1, <1>2, <1>3, <1>4, UntouchedKeeps DEF IndInv

\* The sweep lets go only of a dead root whose group, if owned, is empty.
LEMMA SweepKeeps ==
    ASSUME NEW p \in Starts, IndInv, Sweep(p)
    PROVE  IndInv'
<1>1. TypeOK'
  BY DEF IndInv, TypeOK, Sweep, Release, ExitReason, RetireRecord, EndManaged,
       TellListeners, OwnsGroup, CanRelease, Observed
<1>2. ASSUME NEW q \in Starts, q # p PROVE Untouched(q)
  BY <1>2 DEF IndInv, TypeOK, Untouched, Sweep, Release, ExitReason,
       RetireRecord, EndManaged, TellListeners, OwnsGroup, CanRelease, Observed
<1>3. ChildInv(p)'
  BY DEF IndInv, TypeOK, ChildInv, OsInv, CustodyInv, StopInv, Held, Running,
         Sweep, Release, ExitReason, RetireRecord, EndManaged, TellListeners,
         OwnsGroup, CanRelease, Observed, GroupPresent, Probe
<1>4. struck' = {}
  BY DEF IndInv, TypeOK, ChildInv, OsInv, StopInv, Sweep, Release, ExitReason,
       RetireRecord, EndManaged, TellListeners, OwnsGroup, CanRelease, Observed
<1> QED BY <1>1, <1>2, <1>3, <1>4, UntouchedKeeps DEF IndInv

\* The processes of the operating system take no step that starts something
\* again where nothing ran.
LEMMA WorldKeeps ==
    ASSUME NEW p \in Starts, IndInv, World(p)
    PROVE  IndInv'
<1> USE DEF World, Dies, Reaped, WorkerBegins, WorkersEnd, Reused, StrangerLeaves
<1>1. TypeOK' /\ struck' = {}
  BY DEF IndInv, TypeOK
<1>2. ASSUME NEW q \in Starts, q # p PROVE Untouched(q)
  BY <1>2 DEF IndInv, TypeOK, Untouched
<1>3. ChildInv(p)'
  BY DEF IndInv, TypeOK, ChildInv, OsInv, CustodyInv, StopInv, Held, Running
<1> QED BY <1>1, <1>2, <1>3, UntouchedKeeps DEF IndInv

-----------------------------------------------------------------------------
\* Nothing has been started: every part of the invariant holds at once.
LEMMA InitHolds == Init => IndInv
BY DEF Init, IndInv, TypeOK, ChildInv, OsInv, CustodyInv, StopInv, Running

LEMMA StutterKeeps == IndInv /\ UNCHANGED vars => IndInv'
BY DEF vars, IndInv, TypeOK, ChildInv, OsInv, CustodyInv, StopInv, Held, Running

LEMMA NextKeeps == IndInv /\ [Next]_vars => IndInv'
<1> SUFFICES ASSUME IndInv, [Next]_vars PROVE IndInv'
  OBVIOUS
<1>1. CASE UNCHANGED vars BY <1>1, StutterKeeps
<1>2. ASSUME NEW p \in Starts, Start(p) PROVE IndInv'
  BY <1>2, StartKeeps
<1>3. ASSUME NEW p \in Starts, Own(p) PROVE IndInv'
  <2>1. ASSUME Spawn(p) PROVE IndInv'
    BY <2>1, SpawnTerminalKeeps, SpawnPipedKeeps, HandoffKeeps, SpawnFailsKeeps
         DEF Spawn
  <2>2. ASSUME AttemptStep(p) PROVE IndInv'
    BY <2>2, GroupTermKeeps, GroupKillKeeps, GroupGoneKeeps, GroupUnresolvedKeeps
       DEF AttemptStep
  <2> QED BY <1>3, <2>1, <2>2, RefuseKeeps, ExitEventKeeps, CloseKeeps, SweepKeeps,
             StopEndsKeeps DEF Own
<1>4. ASSUME NEW p \in Starts, World(p) PROVE IndInv'
  BY <1>4, WorldKeeps
<1>5. ASSUME NEW p \in Starts, NEW c \in Requests, Stop(c, p) PROVE IndInv'
  BY <1>5, StopKeeps, RequestsAssumption
<1> QED BY <1>1, <1>2, <1>3, <1>4, <1>5 DEF Next

\* The inductive invariant holds in every behaviour, whatever the fairness.
THEOREM Invariance == Spec => []IndInv
BY InitHolds, NextKeeps, PTL DEF Spec

-----------------------------------------------------------------------------
\* Every variable keeps its type.
THEOREM TypeCorrect == Spec => []TypeOK
<1>1. IndInv => TypeOK BY DEF IndInv
<1> QED BY <1>1, Invariance, PTL

\* For any number of children and callers: what still runs is still held, and
\* its row is not retired.
THEOREM CustodyIsKept == Spec => []CustodyKept
<1>1. IndInv => CustodyKept
  BY DEF IndInv, TypeOK, ChildInv, OsInv, CustodyInv, Held, Running, CustodyKept
<1> QED BY <1>1, Invariance, PTL

\* For any number of children and callers: "stopped" is said only of what is
\* dead, with its group empty.
THEOREM StoppedIsTrue == Spec => []StoppedIsGone
<1>1. IndInv => StoppedIsGone
  BY DEF IndInv, ChildInv, StopInv, StoppedIsGone
<1> QED BY <1>1, Invariance, PTL

\* No group signal reaches a stranger, given that a number is not handed out
\* again while an attempt is polling it.
THEOREM StrangersAreSafe == Spec => []NoStrangerSignalled
<1>1. IndInv => NoStrangerSignalled BY DEF IndInv, NoStrangerSignalled
<1> QED BY <1>1, Invariance, PTL

\* An exit listener is told only of a death.
THEOREM TellingIsTrue == Spec => []ToldOnlyOfDeaths
<1>1. IndInv => ToldOnlyOfDeaths
  BY DEF IndInv, ChildInv, CustodyInv, ToldOnlyOfDeaths
<1> QED BY <1>1, Invariance, PTL

\* The four together.
THEOREM CustodyHolds == Spec => []CustodyIsTrue
BY CustodyIsKept, StoppedIsTrue, StrangersAreSafe, TellingIsTrue, PTL DEF CustodyIsTrue

\* Whoever takes a child whose stop was asked for out of the registry says so.
LEMMA RemovalIsOnRecord ==
    ASSUME IndInv, NEW p \in Starts,
           \/ Start(p) \/ Own(p) \/ World(p)
           \/ \E c \in Callers : Stop(c, p),
           NEW q \in Starts, q \in requested, q \in registry \ registry'
    PROVE  reason'[q] = "stopped"
<1>1. q \in stops
  BY DEF IndInv, ChildInv, CustodyInv
<1>2. ASSUME NEW why, Release(p, why)
      PROVE  reason'[q] = "stopped"
  BY <1>1, <1>2 DEF Release, ExitReason, IndInv, TypeOK
<1> QED
  BY <1>2 DEF Own, Spawn, AttemptStep, World, Start, Refuse, SpawnTerminal,
       SpawnPiped, Handoff, SpawnFails, Admit, ExitEvent, Close, Stop, StopRoot,
       StopGroup, StopConfirmed, StopEnds, GroupTerm, GroupKill, Signal,
       GroupGone, GroupUnresolved, Settle, Sweep, Dies, Reaped, WorkerBegins,
       WorkersEnd, Reused, StrangerLeaves

\* A removal after a stop was asked for is recorded as "stopped".
THEOREM StopsAreOnRecord == Spec => StopIsOnRecord
<1>1. IndInv /\ [Next]_vars =>
        [\A p \in Starts :
          p \in requested /\ p \in registry \ registry'
            => reason'[p] = "stopped"]_vars
  BY RemovalIsOnRecord, RequestsAssumption DEF Next
<1> QED BY <1>1, Invariance, PTL DEF Spec, StopIsOnRecord

-----------------------------------------------------------------------------
(***************************************************************************)
(* The teardown.                                                           *)
(***************************************************************************)
\* What the race's end has established of the snapshot.
EndInv ==
    /\ ending = "none" <=> stage # "exited"
    /\ stage \in {"up", "before", "entering", "stopping"} => stuck = {}
    /\ ending = "complete" => stuck = {}
    /\ stage = "retiring" \/ (stage = "exited" /\ ending # "cut") =>
         \A p \in snapshot : call[Teardown][p] = "stopped" \/ p \in stuck

TeardownInv == IndInv /\ ShutdownTypeOK /\ EndInv

USE CallersAssumption

-----------------------------------------------------------------------------
\* Only the teardown's variables move: the Runner's invariant is untouched.
LEMMA RunnerUnchanged == IndInv /\ UNCHANGED vars => IndInv'
BY StutterKeeps

\* An answer of the teardown's call keeps the Runner's invariant when
\* "stopped" is said only of a start that failed or of what was confirmed.
LEMMA AnswerTeardownKeeps ==
    ASSUME IndInv, NEW p \in Starts, NEW a \in {"stopped", "unknown"},
           AnswerTeardown(p, a),
           a = "stopped" => phase[p] \in {"started", "refused"} /\ ~Running(p)
    PROVE  IndInv'
<1>1. Answer(Teardown, p, a)
  BY DEF AnswerTeardown, Answer
<1>2. TypeOK'
  <2>1. call' \in [Callers -> [Starts ->
                {"idle", "handoff", "attempt", "killing", "stopped", "unknown"}]]
    BY <1>1, AnswerIsLocal DEF IndInv
  <2> QED BY <2>1 DEF IndInv, TypeOK, AnswerTeardown
<1>3. ASSUME NEW q \in Starts, q # p PROVE Untouched(q)
  BY <1>3 DEF AnswerTeardown, Untouched, IndInv, TypeOK
<1>4. ChildInv(p)'
  <2>1. \A d \in Callers : d # Teardown => call'[d][p] = call[d][p]
    BY <1>1, AnswerIsLocal DEF IndInv
  <2>2. call'[Teardown][p] = a
    BY <1>1, AnswerIsLocal DEF IndInv
  <2> QED BY <2>1, <2>2 DEF AnswerTeardown, IndInv, ChildInv, OsInv, CustodyInv, StopInv,
             Held, Running
<1>5. struck' = {}
  BY DEF AnswerTeardown, IndInv
<1> QED BY <1>2, <1>3, <1>4, <1>5, UntouchedKeeps DEF IndInv

\* A pending child's stop starts a wait: nothing else of the Runner changes.
LEMMA EnterStopKeeps ==
    ASSUME IndInv, NEW p \in Starts, EnterStop(p)
    PROVE  IndInv'
<1>1. CASE inFlight[p] # "pending"
  BY <1>1, StopKeeps DEF EnterStop
<1>2. CASE inFlight[p] = "pending"
  <2>1. Answer(Teardown, p, "handoff")
    BY <1>2 DEF EnterStop, Answer
  <2>2. UNCHANGED <<host, phase, os, events, custody, group, record, requested,
                    attempt, told, struck>>
    BY <1>2 DEF EnterStop
  <2>3. TypeOK'
    <3>1. call' \in [Callers -> [Starts ->
                {"idle", "handoff", "attempt", "killing", "stopped", "unknown"}]]
      BY <2>1, AnswerIsLocal DEF IndInv
    <3> QED BY <2>2, <3>1 DEF IndInv, TypeOK
  <2>4. ASSUME NEW q \in Starts, q # p PROVE Untouched(q)
    BY <2>1, <2>2, <2>4 DEF Answer, Untouched, IndInv, TypeOK
  <2>5. ChildInv(p)'
    <3>1. \A d \in Callers : d # Teardown => call'[d][p] = call[d][p]
      BY <2>1, AnswerIsLocal DEF IndInv
    <3>2. call'[Teardown][p] = "handoff"
      BY <2>1, AnswerIsLocal DEF IndInv
    <3> QED BY <2>2, <3>1, <3>2 DEF IndInv, ChildInv, OsInv, CustodyInv, StopInv, Held,
               Running
  <2> QED BY <2>2, <2>3, <2>4, <2>5, UntouchedKeeps DEF IndInv
<1> QED BY <1>1, <1>2

\* Retiring the rows of what is not live retires no row of what still runs.
LEMMA ExitKeeps ==
    ASSUME IndInv, Exit
    PROVE  IndInv'
<1>1. TypeOK' /\ struck' = {}
  BY DEF IndInv, TypeOK, Exit, RetireEndedRecords, Ended
<1>2. ASSUME NEW q \in Starts PROVE ChildInv(q)'
  BY DEF IndInv, TypeOK, Exit, RetireEndedRecords, Ended, ChildInv, OsInv,
         CustodyInv, StopInv, Held, Running
<1> QED BY <1>1, <1>2 DEF IndInv

LEMMA TeardownStepKeeps == IndInv /\ TeardownStep => IndInv'
<1> SUFFICES ASSUME IndInv, TeardownStep PROVE IndInv'
  OBVIOUS
<1>1. CASE FirstSignal \/ BeginStops \/ AllEntered \/ StopsEnd \/ CutShort
  BY <1>1, RunnerUnchanged DEF FirstSignal, BeginStops, AllEntered, StopsEnd, CutShort
<1>2. CASE Exit
  BY <1>2, ExitKeeps
<1>3. ASSUME NEW p \in Starts, EnterStop(p) PROVE IndInv'
  BY <1>3, EnterStopKeeps
<1>4. ASSUME NEW p \in Starts, EnterOwed(p) PROVE IndInv'
  BY <1>4, StopKeeps DEF EnterOwed
<1>5. ASSUME NEW p \in Starts, OwedFailed(p) PROVE IndInv'
  <2>1. CASE call[Teardown][p] = "handoff"
    <3>1. ~Running(p)
      BY <1>5 DEF OwedFailed, IndInv, ChildInv, OsInv, Running
    <3> QED BY <1>5, <2>1, <3>1, AnswerTeardownKeeps DEF OwedFailed
  <2>2. CASE call[Teardown][p] # "handoff"
    <3>1. call' = call
      BY <1>5, <2>2 DEF OwedFailed, AnswerTeardown, IndInv, TypeOK
    <3> QED BY <1>5, <3>1, RunnerUnchanged DEF OwedFailed, AnswerTeardown, vars
  <2> QED BY <2>1, <2>2
<1>6. ASSUME NEW p \in Starts, OwedAnswered(p) PROVE IndInv'
  <2>1. call[Continuation][p] = "stopped" =>
          phase[p] \in {"started", "refused"} /\ ~Running(p)
    BY DEF IndInv, ChildInv, StopInv
  <2> QED BY <1>6, <2>1, AnswerTeardownKeeps DEF OwedAnswered
<1>7. ASSUME NEW p \in Starts, OwedTimesOut(p) PROVE IndInv'
  BY <1>7, AnswerTeardownKeeps DEF OwedTimesOut
<1> QED BY <1>1, <1>2, <1>3, <1>4, <1>5, <1>6, <1>7 DEF TeardownStep

LEMMA RunnerStepKeeps == IndInv /\ RunnerStep => IndInv'
<1> SUFFICES ASSUME IndInv, RunnerStep PROVE IndInv'
  OBVIOUS
<1>1. ASSUME NEW p \in Starts, Start(p) \/ Own(p) \/ World(p) PROVE IndInv'
  BY <1>1, NextKeeps DEF Next
<1>2. ASSUME NEW p \in Starts, NEW c \in Requests, Stop(c, p) PROVE IndInv'
  BY <1>2, NextKeeps DEF Next
<1> QED BY <1>1, <1>2 DEF RunnerStep

-----------------------------------------------------------------------------
\* Once the teardown has been told "stopped" of a child it is told nothing else.
LEMMA RunnerLeavesAnswer ==
    ASSUME TypeOK, NEW q \in Starts, call[Teardown][q] = "stopped",
           NEW p \in Starts, Start(p) \/ Own(p) \/ World(p)
    PROVE  call'[Teardown][q] = "stopped"
<1> USE DEF TypeOK
<1>1. CASE Start(p) \/ Refuse(p) \/ ExitEvent(p) \/ Close(p) \/ Sweep(p) \/ World(p)
  BY <1>1 DEF Start, Refuse, ExitEvent, Close, Sweep, World
<1>2. CASE Spawn(p)
  BY <1>2 DEF Spawn, SpawnTerminal, SpawnPiped, Handoff, SpawnFails, Admit
<1>3. CASE GroupTerm(p) \/ GroupKill(p)
  BY <1>3 DEF GroupTerm, GroupKill, Signal
<1>4. CASE GroupGone(p) \/ GroupUnresolved(p)
  BY <1>4 DEF GroupGone, GroupUnresolved, Settle
<1>5. ASSUME NEW c \in Callers, StopEnds(c, p)
      PROVE  call'[Teardown][q] = "stopped"
  BY <1>5 DEF StopEnds, StopConfirmed, Answer
<1> QED BY <1>1, <1>2, <1>3, <1>4, <1>5 DEF Own, AttemptStep

LEMMA StopLeavesAnswer ==
    ASSUME TypeOK, NEW q \in Starts, call[Teardown][q] = "stopped",
           NEW p \in Starts, NEW c \in Callers, Stop(c, p)
    PROVE  call'[Teardown][q] = "stopped"
<1>1. PICK a : Answer(c, p, a)
  BY DEF Stop, StopRoot, StopGroup, StopConfirmed
<1>2. c # Teardown \/ p # q
  BY DEF Stop
<1> QED BY <1>1, <1>2 DEF Answer, TypeOK

LEMMA StoppedStays ==
    ASSUME TypeOK, ShutdownNext, NEW q \in Starts, call[Teardown][q] = "stopped"
    PROVE  call'[Teardown][q] = "stopped"
<1>1. CASE RunnerStep
  BY <1>1, RunnerLeavesAnswer, StopLeavesAnswer, RequestsAssumption DEF RunnerStep
<1>2. CASE FirstSignal \/ BeginStops \/ AllEntered \/ StopsEnd \/ CutShort \/ Exit
  BY <1>2 DEF FirstSignal, BeginStops, AllEntered, StopsEnd, CutShort, Exit, vars
<1>3. ASSUME NEW p \in Starts, EnterStop(p) PROVE call'[Teardown][q] = "stopped"
  BY <1>3, StopLeavesAnswer DEF EnterStop, TypeOK
<1>4. ASSUME NEW p \in Starts, EnterOwed(p) PROVE call'[Teardown][q] = "stopped"
  BY <1>4, StopLeavesAnswer DEF EnterOwed
<1>5. ASSUME NEW p \in Starts, OwedFailed(p) \/ OwedAnswered(p) \/ OwedTimesOut(p)
      PROVE  call'[Teardown][q] = "stopped"
  BY <1>5 DEF OwedFailed, OwedAnswered, OwedTimesOut, AnswerTeardown, TypeOK
<1> QED BY <1>1, <1>2, <1>3, <1>4, <1>5 DEF ShutdownNext, TeardownStep

\* The teardown's own variables keep their types.
LEMMA TeardownTyped == TeardownInv /\ ShutdownNext /\ TypeOK' => ShutdownTypeOK'
<1> SUFFICES ASSUME TeardownInv, ShutdownNext, TypeOK' PROVE ShutdownTypeOK'
  OBVIOUS
<1> USE DEF TeardownInv, ShutdownTypeOK, end
<1>1. CASE RunnerStep
  BY <1>1 DEF RunnerStep
<1>2. CASE FirstSignal \/ BeginStops \/ AllEntered \/ StopsEnd \/ CutShort \/ Exit
  BY <1>2 DEF FirstSignal, BeginStops, AllEntered, StopsEnd, Stuck, CutShort, Exit,
              TypeOK, EndInv
<1>3. ASSUME NEW p \in Starts, EnterStop(p) \/ EnterOwed(p) PROVE ShutdownTypeOK'
  BY <1>3 DEF EnterStop, EnterOwed
<1>4. ASSUME NEW p \in Starts, OwedFailed(p) \/ OwedAnswered(p) \/ OwedTimesOut(p)
      PROVE  ShutdownTypeOK'
  BY <1>4 DEF OwedFailed, OwedAnswered, OwedTimesOut, AnswerTeardown
<1> QED BY <1>1, <1>2, <1>3, <1>4 DEF ShutdownNext, TeardownStep

\* What the race established of the snapshot stays established until the exit.
LEMMA EndKeeps == TeardownInv /\ ShutdownNext => EndInv'
<1> SUFFICES ASSUME TeardownInv, ShutdownNext PROVE EndInv'
  OBVIOUS
<1>1. \A q \in Starts : call[Teardown][q] = "stopped" => call'[Teardown][q] = "stopped"
  BY StoppedStays DEF TeardownInv, IndInv
<1> USE <1>1 DEF TeardownInv, ShutdownTypeOK, EndInv, end
<1>2. CASE RunnerStep
  BY <1>2 DEF RunnerStep
<1>3. CASE StopsEnd
  BY <1>3 DEF StopsEnd, Stuck, vars
<1>4. CASE FirstSignal \/ BeginStops \/ AllEntered \/ CutShort \/ Exit
  BY <1>4 DEF FirstSignal, BeginStops, AllEntered, CutShort, Exit
<1>5. ASSUME NEW p \in Starts, EnterStop(p) \/ EnterOwed(p) PROVE EndInv'
  BY <1>5 DEF EnterStop, EnterOwed
<1>6. ASSUME NEW p \in Starts, OwedFailed(p) \/ OwedAnswered(p) \/ OwedTimesOut(p)
      PROVE  EndInv'
  BY <1>6 DEF OwedFailed, OwedAnswered, OwedTimesOut, AnswerTeardown
<1> QED BY <1>2, <1>3, <1>4, <1>5, <1>6 DEF ShutdownNext, TeardownStep

LEMMA ShutdownInitHolds == ShutdownInit => TeardownInv
<1>1. ShutdownInit => IndInv
  BY InitHolds DEF ShutdownInit
<1> QED BY <1>1 DEF ShutdownInit, TeardownInv, IndInv, ShutdownTypeOK, EndInv

LEMMA ShutdownNextKeeps == TeardownInv /\ [ShutdownNext]_allVars => TeardownInv'
<1> SUFFICES ASSUME TeardownInv, [ShutdownNext]_allVars PROVE TeardownInv'
  OBVIOUS
<1>1. CASE UNCHANGED allVars
  <2>1. IndInv'
    BY <1>1, StutterKeeps DEF allVars, TeardownInv
  <2> QED BY <1>1, <2>1 DEF allVars, vars, end, TeardownInv, IndInv, ShutdownTypeOK, EndInv
<1>2. CASE ShutdownNext
  <2>1. IndInv'
    BY <1>2, TeardownStepKeeps, RunnerStepKeeps DEF ShutdownNext, TeardownInv
  <2>2. ShutdownTypeOK'
    BY <1>2, <2>1, TeardownTyped DEF IndInv
  <2>3. EndInv'
    BY <1>2, EndKeeps
  <2> QED BY <2>1, <2>2, <2>3 DEF TeardownInv
<1> QED BY <1>1, <1>2

\* The invariant of the Runner and of the teardown holds in every behaviour,
\* whatever the fairness.
THEOREM TeardownInvariance == ShutdownSpec => []TeardownInv
BY ShutdownInitHolds, ShutdownNextKeeps, PTL DEF ShutdownSpec

-----------------------------------------------------------------------------
\* Every variable of the environment and of its teardown keeps its type.
THEOREM ShutdownTypeCorrect == ShutdownSpec => []ShutdownTypeOK
<1>1. TeardownInv => ShutdownTypeOK BY DEF TeardownInv
<1> QED BY <1>1, TeardownInvariance, PTL

\* Through signals, deadlines, crashes and the final clearing of the record,
\* for any number of children: what still runs is still held, and its row is
\* not retired.
THEOREM CustodyOutlivesShutdown == ShutdownSpec => []CustodyKept
<1>1. TeardownInv => CustodyKept
  BY DEF TeardownInv, IndInv, TypeOK, ChildInv, OsInv, CustodyInv, Held, Running,
         CustodyKept
<1> QED BY <1>1, TeardownInvariance, PTL

\* For any number of children: an exit that cleared the record left nothing of
\* its snapshot running.
THEOREM CompleteIsComplete == ShutdownSpec => []CompleteExitLeftNothing
<1>1. TeardownInv => CompleteExitLeftNothing
  BY DEF TeardownInv, EndInv, IndInv, ChildInv, StopInv, ShutdownTypeOK,
         CompleteExitLeftNothing
<1> QED BY <1>1, TeardownInvariance, PTL

\* The teardown's answers and the late stops are true as well.
THEOREM ShutdownStoppedIsTrue == ShutdownSpec => []StoppedIsGone
<1>1. TeardownInv => StoppedIsGone
  BY DEF TeardownInv, IndInv, ChildInv, StopInv, StoppedIsGone
<1> QED BY <1>1, TeardownInvariance, PTL

\* The snapshot misses no child that runs when the stops begin.
THEOREM SnapshotIsComplete == ShutdownSpec => SnapshotMissesNothing
<1>1. TeardownInv =>
        [BeginStops => \A p \in Starts : Running(p) => p \in snapshot']_allVars
  BY DEF TeardownInv, IndInv, TypeOK, ChildInv, OsInv, CustodyInv, Held, Running,
         BeginStops
<1> QED BY <1>1, TeardownInvariance, PTL DEF SnapshotMissesNothing

-----------------------------------------------------------------------------
(* Every child of the snapshot is told, or ended, or owed its stop. *)

\* Nothing of p will run again.
Over(p) == phase[p] \in {"started", "refused"} /\ ~Running(p)

ToldInv ==
    /\ \A p \in Starts : call[Teardown][p] # "idle" =>
         p \in owed \/ p \in requested \/ Over(p)
    /\ stage \in {"stopping", "retiring"} \/ ending \in {"complete", "stuck"} =>
         \A p \in snapshot : call[Teardown][p] # "idle"
    /\ ending \in {"complete", "stuck"} => \A p \in Starts : ~HandoffDue(p)

\* What a step of the Runner leaves of it: it enters no stop of the teardown,
\* forgets no request and revives no child.
Kept ==
    /\ \A q \in Starts : call'[Teardown][q] = "idle" <=> call[Teardown][q] = "idle"
    /\ requested \subseteq requested'
    /\ \A q \in Starts : Over(q) => Over(q)'

LEMMA OwnKept ==
    ASSUME IndInv, NEW p \in Starts, Start(p) \/ Own(p) \/ World(p)
    PROVE  Kept
<1> USE DEF IndInv, TypeOK, Kept, Over, Running
<1>1. CASE Start(p) \/ Refuse(p) \/ ExitEvent(p) \/ Close(p) \/ Sweep(p)
  BY <1>1 DEF Start, Refuse, ExitEvent, Close, Sweep
<1>2. CASE World(p)
  BY <1>2 DEF World, Dies, Reaped, WorkerBegins, WorkersEnd, Reused, StrangerLeaves
<1>3. CASE Spawn(p)
  BY <1>3 DEF Spawn, SpawnTerminal, SpawnPiped, Handoff, SpawnFails, Admit
<1>4. CASE GroupTerm(p) \/ GroupKill(p)
  BY <1>4 DEF GroupTerm, GroupKill, Signal
<1>5. CASE GroupGone(p) \/ GroupUnresolved(p)
  BY <1>5 DEF GroupGone, GroupUnresolved, Settle
<1>6. ASSUME NEW c \in Callers, StopEnds(c, p) PROVE Kept
  BY <1>6 DEF StopEnds, StopConfirmed, Answer
<1> QED BY <1>1, <1>2, <1>3, <1>4, <1>5, <1>6 DEF Own, AttemptStep

\* A stop tells its child, unless there is nothing left of it to tell.
LEMMA StopTells ==
    ASSUME IndInv, NEW p \in Starts, NEW c \in Callers, Stop(c, p)
    PROVE  /\ \A q \in Starts, d \in Callers :
                d # c \/ q # p => call'[d][q] = call[d][q]
           /\ call'[c][p] # "idle"
           /\ requested \subseteq requested'
           /\ \A q \in Starts : Over(q) => Over(q)'
           /\ p \in requested' \/ Over(p)'
<1>1. PICK a \in {"stopped", "unknown", "attempt", "killing"} : Answer(c, p, a)
  BY DEF Stop, StopRoot, StopGroup, StopConfirmed
<1>2. /\ \A q \in Starts, d \in Callers :
           d # c \/ q # p => call'[d][q] = call[d][q]
      /\ call'[c][p] # "idle"
  BY <1>1 DEF Answer, IndInv, TypeOK
<1>3. phase' = phase /\ os' = os /\ phase[p] = "started"
  BY DEF Stop
<1>4. requested \subseteq requested'
  BY DEF Stop
<1>5. \A q \in Starts : Over(q) => Over(q)'
  BY <1>3 DEF Over, Running
<1>6. p \in requested' \/ Over(p)'
  <2>1. CASE p \in live \cap stops
    BY <2>1 DEF Stop
  <2>2. CASE p \notin live \cap stops
    <3>1. ~Running(p)
      BY <1>3, <2>2 DEF IndInv, ChildInv, CustodyInv, Held
    <3> QED BY <1>3, <3>1 DEF Over, Running
  <2> QED BY <2>1, <2>2
<1> QED BY <1>2, <1>4, <1>5, <1>6

LEMMA RunnerKeepsTold == TeardownInv /\ ToldInv /\ RunnerStep => ToldInv'
<1> SUFFICES ASSUME TeardownInv, ToldInv, RunnerStep PROVE ToldInv'
  OBVIOUS
<1>1. PICK p \in Starts : \/ Accepting /\ Start(p)
                          \/ Awake /\ Own(p)
                          \/ World(p)
                          \/ \E c \in Requests : Accepting /\ Stop(c, p)
  BY DEF RunnerStep
<1>2. Kept
  <2>1. CASE Start(p) \/ Own(p) \/ World(p)
    BY <2>1, OwnKept DEF TeardownInv
  <2>2. ASSUME NEW c \in Requests, Stop(c, p) PROVE Kept
    BY <2>2, StopTells, RequestsAssumption DEF Kept, TeardownInv
  <2> QED BY <1>1, <2>1, <2>2
<1>3. UNCHANGED end
  BY DEF RunnerStep
<1>4. ending \in {"complete", "stuck"} => phase' = phase
  <2>1. ending \in {"complete", "stuck"} => ~Accepting /\ ~Awake
    BY DEF TeardownInv, EndInv, Accepting, Awake
  <2> QED BY <1>1, <2>1 DEF World
<1> QED BY <1>2, <1>3, <1>4
       DEF ToldInv, Kept, end, HandoffDue, TeardownInv, ShutdownTypeOK

LEMMA TeardownKeepsTold == TeardownInv /\ ToldInv /\ TeardownStep => ToldInv'
<1> SUFFICES ASSUME TeardownInv, ToldInv, TeardownStep PROVE ToldInv'
  OBVIOUS
<1> USE DEF ToldInv, TeardownInv, ShutdownTypeOK, EndInv
<1>1. CASE FirstSignal \/ BeginStops \/ AllEntered \/ StopsEnd \/ CutShort
  BY <1>1 DEF FirstSignal, BeginStops, AllEntered, StopsEnd, CutShort, vars, Over,
              Running
<1>2. CASE Exit
  <2>1. \A p \in Starts : ~HandoffDue(p)
    BY <1>2 DEF Exit, Awake
  <2> QED BY <1>2, <2>1 DEF Exit, HandoffDue, Over, Running
<1>3. ASSUME NEW p \in Starts, EnterStop(p) PROVE ToldInv'
  <2>1. CASE inFlight[p] = "pending"
    BY <1>3, <2>1 DEF EnterStop, IndInv, TypeOK, Over, Running
  <2>2. CASE inFlight[p] # "pending"
    BY <1>3, <2>2, StopTells DEF EnterStop
  <2> QED BY <2>1, <2>2
<1>4. ASSUME NEW p \in Starts, EnterOwed(p) PROVE ToldInv'
  BY <1>4, StopTells DEF EnterOwed
<1>5. ASSUME NEW p \in Starts, OwedFailed(p) \/ OwedAnswered(p) \/ OwedTimesOut(p)
      PROVE  ToldInv'
  <2>1. phase[p] = "refused" => Over(p)
    BY DEF IndInv, ChildInv, OsInv, Over, Running
  <2>2. /\ UNCHANGED <<phase, os, requested, stage, snapshot, ending>>
        /\ owed' = owed \/ (phase[p] = "refused" /\ owed' = owed \ {p})
    BY <1>5 DEF OwedFailed, OwedAnswered, OwedTimesOut, AnswerTeardown
  <2>3. \A q \in Starts : call'[Teardown][q] = "idle" <=> call[Teardown][q] = "idle"
    BY <1>5 DEF OwedFailed, OwedAnswered, OwedTimesOut, AnswerTeardown, IndInv, TypeOK
  <2>4. \A q \in Starts : Over(q) => Over(q)'
    BY <2>2 DEF Over, Running
  <2>5. \A q \in Starts : HandoffDue(q)' => HandoffDue(q)
    BY <2>2 DEF HandoffDue
  <2> QED BY <2>1, <2>2, <2>3, <2>4, <2>5
<1> QED BY <1>1, <1>2, <1>3, <1>4, <1>5 DEF TeardownStep

\* For any number of children: an environment that leaves of its own accord has
\* told every child it listed, whenever the child's handoff came.
THEOREM ListedAreTold == ShutdownSpec => []ListedChildWasTold
<1>1. ShutdownInit => ToldInv
  BY DEF ShutdownInit, Init, ToldInv
<1>2. TeardownInv /\ ToldInv /\ [ShutdownNext]_allVars => ToldInv'
  <2> SUFFICES ASSUME TeardownInv, ToldInv, [ShutdownNext]_allVars PROVE ToldInv'
    OBVIOUS
  <2>1. CASE UNCHANGED allVars
    BY <2>1 DEF allVars, vars, end, ToldInv, HandoffDue, Over, Running
  <2> QED BY <2>1, RunnerKeepsTold, TeardownKeepsTold DEF ShutdownNext
<1>3. TeardownInv /\ ToldInv => ListedChildWasTold
  BY DEF TeardownInv, ShutdownTypeOK, ToldInv, Over, HandoffDue, ListedChildWasTold
<1> QED BY <1>1, <1>2, <1>3, TeardownInvariance, PTL DEF ShutdownSpec

-----------------------------------------------------------------------------
(* What the runs check of a child's custody and of its teardown. *)

\* Under a teardown as well: custody is kept, a "stopped" is true, no stranger
\* is signalled and listeners hear only of deaths.
THEOREM CustodyIsTrueThroughout == ShutdownSpec => []CustodyIsTrue
<1>1. TeardownInv => NoStrangerSignalled /\ ToldOnlyOfDeaths
  BY DEF TeardownInv, IndInv, ChildInv, CustodyInv, NoStrangerSignalled, ToldOnlyOfDeaths
<1> QED BY <1>1, CustodyOutlivesShutdown, ShutdownStoppedIsTrue, TeardownInvariance, PTL
        DEF CustodyIsTrue

\* A complete exit left nothing it had listed, and any exit of its own accord
\* had told every child it listed.
THEOREM TeardownHolds == ShutdownSpec => []TeardownIsTrue
BY ShutdownTypeCorrect, CompleteIsComplete, ListedAreTold, PTL DEF TeardownIsTrue

\* Nothing the teardown does of itself takes a child out of the registry.
LEMMA TeardownRemovesByStop ==
    ASSUME TeardownStep, NEW q \in Starts, q \in registry \ registry'
    PROVE  \E p \in Starts, c \in Callers : Stop(c, p)
BY DEF TeardownStep, FirstSignal, BeginStops, AllEntered, StopsEnd, Exit, CutShort,
       EnterStop, EnterOwed, OwedFailed, OwedAnswered, OwedTimesOut, AnswerTeardown,
       vars

\* The snapshot misses no child that runs, and a stop that was asked for is what
\* the registry records, during a teardown as before it.
THEOREM StopsAreRecordedThroughout == ShutdownSpec => StopsAreRecorded
<1>1. TeardownInv /\ [ShutdownNext]_allVars =>
        [\A p \in Starts :
          p \in requested /\ p \in registry \ registry'
            => reason'[p] = "stopped"]_vars
  <2> SUFFICES ASSUME TeardownInv, ShutdownNext, NEW q \in Starts,
                      q \in requested, q \in registry \ registry'
               PROVE  reason'[q] = "stopped"
    BY DEF allVars
  <2>1. IndInv
    BY DEF TeardownInv
  <2>2. CASE TeardownStep
    BY <2>1, <2>2, TeardownRemovesByStop, RemovalIsOnRecord
  <2>3. CASE RunnerStep
    BY <2>1, <2>3, RemovalIsOnRecord, RequestsAssumption DEF RunnerStep
  <2> QED BY <2>2, <2>3 DEF ShutdownNext
<1>2. ShutdownSpec => StopIsOnRecord
  BY <1>1, TeardownInvariance, PTL DEF ShutdownSpec, StopIsOnRecord
<1> QED BY <1>2, SnapshotIsComplete, PTL DEF StopsAreRecorded

-----------------------------------------------------------------------------
(* The takeover. *)

\* Once the plan is made, every remembered row is confirmed, unresolved, still
\* to be reaped, or being ended: none is dropped on the way to the two deltas.
PlanCovers ==
    takeover \in {"reaping", "held"} =>
        remembered \subseteq confirmed \cup unresolved \cup todo \cup beingEnded

\* What is on the reap list may be reaped: its owner is not alive, or is the
\* one being displaced.  Owners do not come back, and a crash forgets the list.
ReapableAreOrphans ==
    \A k \in todo : owner[ownerOf[k]] # "alive" \/ (displaced /\ ownerOf[k] = Predecessor)

\* #ownerGone is remembered only of a predecessor that is gone.
GoneIsGone == ownerGone => owner[Predecessor] # "alive"

\* A start is admitted by a successor that is ready, and nothing leaves that
\* state but a crash, which forgets the admission.
AdmittedIsReady == admitted => takeover = "ready"

TakeoverInv ==
    /\ TakeoverTypeOK
    /\ RowsOutliveTrees /\ ClearedRowsComeBack /\ ConfirmedIsGone
    /\ OnlyOrphansAreStruck /\ FenceHolds
    /\ PlanCovers /\ ReapableAreOrphans /\ GoneIsGone /\ AdmittedIsReady

-----------------------------------------------------------------------------
\* A probe that says the owner is gone, or that somebody else has its number,
\* says so of an owner that is not alive.
LEMMA AnswersAreTrue ==
  ASSUME NEW o \in Owners, NEW a \in OwnerAnswers(o), a \in {"gone", "other"}
  PROVE  owner[o] # "alive"
BY DEF OwnerAnswers

\* A permission to reap rests on an owner that is not alive or is displaced
\* (orphan-reap.mjs, ownerReapState).
LEMMA AllowedIsOrphan ==
  ASSUME NEW k \in Kids, NEW a \in OwnerAnswers(ownerOf[k]), ownerOf[k] \in Owners,
         owner[ownerOf[k]] \in {"alive", "gone", "reused"},
         Permission(k, a) = "allowed"
  PROVE  owner[ownerOf[k]] # "alive" \/ (displaced /\ ownerOf[k] = Predecessor)
<1>1. CASE evidence[k] = "malformed"
  BY <1>1 DEF Permission
<1>2. CASE evidence[k] = "birth" /\ displaced /\ ownerOf[k] = Predecessor
  BY <1>2
<1>3. CASE evidence[k] # "malformed" /\ ~(evidence[k] = "birth" /\ displaced /\ ownerOf[k] = Predecessor)
  <2>1. a \in {"unknown", "same", "gone", "other"}
    BY DEF OwnerAnswers
  <2>2. a \notin {"unknown", "same"}
    BY <1>3 DEF Permission
  <2>3. QED BY <2>1, <2>2, AnswersAreTrue
<1>4. QED BY <1>1, <1>2, <1>3

LEMMA TakeoverStarts == TakeoverInit => TakeoverInv
<1> SUFFICES ASSUME TakeoverInit PROVE TakeoverInv
  OBVIOUS
<1>1. TakeoverTypeOK
  <2>1. port \in BOOLEAN
    BY DEF TakeoverInit
  <2>2. owner \in [Owners -> {"alive", "gone", "reused"}]
    BY DEF TakeoverInit
  <2>3. scoped \subseteq Kids
    BY DEF TakeoverInit
  <2>4. crashes \in 0..MaxCrashes
    BY CrashesAssumption DEF TakeoverInit
  <2>5. QED BY <2>1, <2>2, <2>3, <2>4 DEF TakeoverInit, TakeoverTypeOK
<1>2. QED
  BY <1>1 DEF TakeoverInit, TakeoverInv, RowsOutliveTrees, ClearedRowsComeBack, ConfirmedIsGone,
       OnlyOrphansAreStruck, FenceHolds, PlanCovers, ReapableAreOrphans, GoneIsGone, AdmittedIsReady

-----------------------------------------------------------------------------
(* The successor's steps. *)

LEMMA PlanKeeps ==
  ASSUME TakeoverInv, Plan
  PROVE  TakeoverInv'
<1> USE DEF TakeoverInv
<1>1. PICK loaded \in {{}, file} :
        LET rows == remembered \cup loaded
            entries == rows \ confirmed
        IN  \E kid \in [entries -> {"same", "gone", "other", "unknown"}],
              own \in [Owners -> {"same", "gone", "other", "unknown"}] :
             /\ \A k \in entries : kid[k] \in KidAnswers(k)
             /\ \A o \in Owners : own[o] \in OwnerAnswers(o)
             /\ LET allowed == {k \in entries : Permission(k, own[ownerOf[k]]) = "allowed"}
                    reap == {k \in allowed : kid[k] = "same"}
                    absent == {k \in allowed : kid[k] = "gone" /\ GroupIsGone(k)}
                IN  /\ remembered' = rows
                    /\ todo' = reap
                    /\ confirmed' = confirmed \cup absent
                    /\ unresolved' = entries \ (reap \cup absent)
  BY DEF Plan
<1> DEFINE rows == remembered \cup loaded
           entries == rows \ confirmed
<1>2. PICK kid \in [entries -> {"same", "gone", "other", "unknown"}],
           own \in [Owners -> {"same", "gone", "other", "unknown"}] :
        /\ \A k \in entries : kid[k] \in KidAnswers(k)
        /\ \A o \in Owners : own[o] \in OwnerAnswers(o)
        /\ LET allowed == {k \in entries : Permission(k, own[ownerOf[k]]) = "allowed"}
               reap == {k \in allowed : kid[k] = "same"}
               absent == {k \in allowed : kid[k] = "gone" /\ GroupIsGone(k)}
           IN  /\ remembered' = rows
               /\ todo' = reap
               /\ confirmed' = confirmed \cup absent
               /\ unresolved' = entries \ (reap \cup absent)
  BY <1>1
<1> DEFINE allowed == {k \in entries : Permission(k, own[ownerOf[k]]) = "allowed"}
           reap == {k \in allowed : kid[k] = "same"}
           absent == {k \in allowed : kid[k] = "gone" /\ GroupIsGone(k)}
<1>3. /\ remembered' = rows /\ todo' = reap /\ confirmed' = confirmed \cup absent
      /\ unresolved' = entries \ (reap \cup absent)
  BY <1>2
<1>4. /\ UNCHANGED <<facts, world, file, displaced, ownerGone, beingEnded, saved, admitted, wronged, crashes>>
      /\ takeover = "loading" /\ takeover' = "reaping"
  BY DEF Plan
<1>5. entries \subseteq Kids
  BY DEF TakeoverTypeOK
<1>6. TakeoverTypeOK'
  BY <1>3, <1>4, <1>5 DEF TakeoverTypeOK, facts, world
<1>7. ConfirmedIsGone'
  BY <1>3, <1>4, <1>5 DEF ConfirmedIsGone, Alive, GroupIsGone, facts, world
<1>8. ReapableAreOrphans'
  <2>1. \A k \in reap : /\ k \in Kids /\ ownerOf[k] \in Owners
                        /\ own[ownerOf[k]] \in OwnerAnswers(ownerOf[k])
                        /\ owner[ownerOf[k]] \in {"alive", "gone", "reused"}
                        /\ Permission(k, own[ownerOf[k]]) = "allowed"
    BY <1>2, <1>5 DEF TakeoverTypeOK
  <2>2. \A k \in reap : owner[ownerOf[k]] # "alive" \/ (displaced /\ ownerOf[k] = Predecessor)
    BY <2>1, AllowedIsOrphan
  <2>3. QED BY <2>2, <1>3, <1>4 DEF ReapableAreOrphans, facts, world
<1>9. PlanCovers'
  BY <1>3 DEF PlanCovers
<1>10. QED
  BY <1>4, <1>6, <1>7, <1>8, <1>9
     DEF RowsOutliveTrees, ClearedRowsComeBack, OnlyOrphansAreStruck, FenceHolds, GoneIsGone,
         AdmittedIsReady, RowOwed, ScopeRuns, Alive, facts, world

\* Every kill is of what the list may be reaped of, and every end moves the row
\* to what is confirmed only when nothing of it runs.
LEMMA ReapKeeps ==
  ASSUME TakeoverInv, Reap
  PROVE  TakeoverInv'
<1> USE DEF TakeoverInv, TakeoverTypeOK, RowsOutliveTrees, ClearedRowsComeBack, ConfirmedIsGone,
      OnlyOrphansAreStruck, FenceHolds, PlanCovers, ReapableAreOrphans, GoneIsGone,
      AdmittedIsReady, RowOwed, ScopeRuns, Alive, facts, world, memory
<1>1. PICK k \in Kids : BeginEnd(k) \/ RefuseEnd(k) \/ FinishEnd(k)
  BY DEF Reap
<1>2. CASE BeginEnd(k)
  BY <1>2 DEF BeginEnd
<1>3. CASE RefuseEnd(k)
  BY <1>3 DEF RefuseEnd, GroupIsGone
<1>4. CASE FinishEnd(k)
  BY <1>4 DEF FinishEnd
<1>5. QED BY <1>1, <1>2, <1>3, <1>4

\* The fence opens for a displaced owner that is gone, and the rows written then
\* hold every remembered child of which something runs.
LEMMA OpenKeeps ==
  ASSUME TakeoverInv, Open
  PROVE  TakeoverInv'
<1> USE DEF TakeoverInv
<1>1. /\ takeover = "reaping" /\ todo = {} /\ beingEnded = {} /\ takeover' = "ready"
      /\ ownerGone' = (displaced \/ ownerGone)
      /\ UNCHANGED <<facts, world, displaced, remembered, confirmed, unresolved, todo, beingEnded,
                     admitted, wronged, crashes>>
  BY DEF Open
<1>2. PICK retained \in BOOLEAN, retired \in BOOLEAN :
        file' = RowsAfter(retained, retired) /\ saved' = (retained /\ retired)
  BY DEF Open
<1>3. displaced => owner[Predecessor] # "alive"
  BY AnswersAreTrue DEF Open, FenceOpen, GoneIsGone, Owners
<1>4. /\ file' \subseteq file \cup unresolved
      /\ file \ confirmed \subseteq file'
      /\ saved' => unresolved \ confirmed \subseteq file'
  BY <1>2 DEF RowsAfter
<1>5. TakeoverTypeOK'
  BY <1>1, <1>2, <1>4 DEF TakeoverTypeOK, facts, world
<1>6. RowsOutliveTrees'
  BY <1>1, <1>4 DEF RowsOutliveTrees, ConfirmedIsGone, RowOwed, ScopeRuns, Alive, facts, world
<1>7. ClearedRowsComeBack'
  BY <1>1, <1>4 DEF ClearedRowsComeBack, ConfirmedIsGone, PlanCovers, RowOwed, ScopeRuns, Alive, facts, world
<1>8. ConfirmedIsGone'
  BY <1>1 DEF ConfirmedIsGone, Alive, facts, world
<1>9. (FenceHolds /\ GoneIsGone)'
  BY <1>1, <1>3 DEF FenceHolds, GoneIsGone, facts, world
<1>10. (OnlyOrphansAreStruck /\ PlanCovers /\ ReapableAreOrphans /\ AdmittedIsReady)'
  BY <1>1 DEF OnlyOrphansAreStruck, PlanCovers, ReapableAreOrphans, AdmittedIsReady, facts, world
<1>11. QED BY <1>5, <1>6, <1>7, <1>8, <1>9, <1>10

LEMMA SuccessorKeeps ==
  ASSUME TakeoverInv, Successor
  PROVE  TakeoverInv'
<1>1. CASE Plan
  BY <1>1, PlanKeeps
<1>2. CASE Reap
  BY <1>2, ReapKeeps
<1>3. CASE Open
  BY <1>3, OpenKeeps
<1> USE DEF TakeoverInv, TakeoverTypeOK, RowsOutliveTrees, ClearedRowsComeBack, ConfirmedIsGone,
      OnlyOrphansAreStruck, FenceHolds, PlanCovers, ReapableAreOrphans, GoneIsGone,
      AdmittedIsReady, RowOwed, ScopeRuns, Alive, facts, world, memory
<1>4. CASE Bind
  BY <1>4 DEF Bind
<1>5. CASE Supersede
  <2>1. CASE takeover' = "exited" /\ UNCHANGED memory
    BY <1>5, <2>1 DEF Supersede
  <2>2. CASE takeover' # "exited"
    <3>1. /\ takeover' = "superseding" /\ displaced' = TRUE /\ takeover = "boot"
          /\ remembered' = remembered \/ remembered' = remembered \cup file
          /\ UNCHANGED <<facts, world, file, admitted, wronged, crashes>>
          /\ UNCHANGED <<ownerGone, confirmed, unresolved, todo, beingEnded, saved>>
      BY <1>5, <2>2 DEF Supersede
    <3>2. QED BY <3>1
  <2>3. QED BY <1>5, <2>1, <2>2 DEF Supersede
<1>6. CASE SignalIncumbent
  BY <1>6 DEF SignalIncumbent
<1>7. CASE GiveUp
  BY <1>7 DEF GiveUp
<1>8. CASE Hold
  BY <1>8 DEF Hold
<1>9. CASE RequestAgain
  BY <1>9 DEF RequestAgain
<1>10. CASE AdmitStart
  BY <1>10 DEF AdmitStart
<1>11. CASE Crash
  <2>1. crashes' \in 0..MaxCrashes
    BY <1>11, CrashesAssumption DEF Crash
  <2>2. QED BY <1>11, <2>1 DEF Crash
<1>12. QED
  BY <1>1, <1>2, <1>3, <1>4, <1>5, <1>6, <1>7, <1>8, <1>9, <1>10, <1>11 DEF Successor

-----------------------------------------------------------------------------
(* What the owners, the children and the operating system do meanwhile: *)
(* nothing comes to life again, and only a legacy predecessor takes     *)
(* away the row of what still runs.                                     *)

LEMMA ElsewhereKeeps ==
  ASSUME TakeoverInv, Elsewhere
  PROVE  TakeoverInv'
<1> USE DEF TakeoverInv, TakeoverTypeOK, RowsOutliveTrees, ClearedRowsComeBack, ConfirmedIsGone,
      OnlyOrphansAreStruck, FenceHolds, PlanCovers, ReapableAreOrphans, GoneIsGone,
      AdmittedIsReady, RowOwed, ScopeRuns, Alive, facts, memory, Owners
<1>1. UNCHANGED <<facts, takeover, memory, admitted, wronged, crashes>>
  BY DEF Elsewhere
<1>2. CASE PortCloses
  BY <1>1, <1>2 DEF PortCloses
<1>3. CASE LegacyClears
  BY <1>1, <1>3 DEF LegacyClears, world
<1>4. CASE \E o \in Owners : OwnerDies(o) \/ OwnerReused(o)
  BY <1>1, <1>4 DEF OwnerDies, OwnerReused
<1>5. ASSUME NEW k \in Kids, OwnerRetires(k)
      PROVE  TakeoverInv'
  BY <1>1, <1>5 DEF OwnerRetires, world
<1>6. ASSUME NEW k \in Kids, KidForks(k)
      PROVE  TakeoverInv'
  BY <1>1, <1>6 DEF KidForks
<1>7. ASSUME NEW k \in Kids, KidDies(k)
      PROVE  TakeoverInv'
  BY <1>1, <1>7 DEF KidDies
<1>8. ASSUME NEW k \in Kids, TreeEnds(k)
      PROVE  TakeoverInv'
  BY <1>1, <1>8 DEF TreeEnds
<1>9. ASSUME NEW k \in Kids, KidReused(k)
      PROVE  TakeoverInv'
  BY <1>1, <1>9 DEF KidReused
<1>10. QED
  BY <1>2, <1>3, <1>4, <1>5, <1>6, <1>7, <1>8, <1>9 DEF Elsewhere

LEMMA TakeoverInvHolds == TakeoverSpec => []TakeoverInv
<1>1. TakeoverInit => TakeoverInv
  BY TakeoverStarts
<1>2. TakeoverInv /\ [TakeoverNext]_takeoverVars => TakeoverInv'
  <2> SUFFICES ASSUME TakeoverInv, [TakeoverNext]_takeoverVars
               PROVE  TakeoverInv'
    OBVIOUS
  <2>1. CASE Successor
    BY <2>1, SuccessorKeeps
  <2>2. CASE Elsewhere
    BY <2>2, ElsewhereKeeps
  <2>3. CASE UNCHANGED takeoverVars
    BY <2>3 DEF TakeoverInv, TakeoverTypeOK, RowsOutliveTrees, ClearedRowsComeBack,
         ConfirmedIsGone, OnlyOrphansAreStruck, FenceHolds, PlanCovers, ReapableAreOrphans,
         GoneIsGone, AdmittedIsReady, RowOwed, ScopeRuns, Alive, takeoverVars, facts, world, memory
  <2>4. QED BY <2>1, <2>2, <2>3 DEF TakeoverNext
<1>3. QED BY <1>1, <1>2, PTL DEF TakeoverSpec

\* However the takeover, a crash of it, a legacy clear and the predecessor's end
\* interleave, for any children and environments: no row is lost while what it
\* records runs, nor, but by its own living owner, while anything of its child
\* does; cleared rows come back, only orphans are signalled, what was confirmed gone
\* is gone, and nothing is admitted while the displaced owner could still write.
THEOREM TakeoverHolds == TakeoverSpec => []TakeoverIsSafe
<1>1. TakeoverInv => TakeoverIsSafe
  BY DEF TakeoverInv, TakeoverIsSafe
<1>2. QED BY <1>1, TakeoverInvHolds, PTL

-----------------------------------------------------------------------------
(***************************************************************************)
(* The record they write, for every set of rows and of writers.            *)
(***************************************************************************)
Pages == [state : {"readable", "damaged"}, rows : SUBSET (Rows \cup {Alien}), bytes : Nat]

Errands ==
  {AtRest} \cup
  [at : {"preserving", "writing", "syncing"}, change : Changes, seen : Pages, alone : BOOLEAN]

RecordTypeOK ==
  /\ page \in Pages /\ settled \in Pages
  /\ errand \in [Writers -> Errands]
  /\ word \in Changes \cup {NoWord}
  /\ blots \in Nat

\* What a change has made of the rows: those it retires are not among them,
\* those it brings are.
Holds(change, rows) ==
  IF change.kind = "retire" THEN rows \cap change.rows = {} ELSE change.rows \subseteq rows

\* Damaged bytes a writer is about to replace are kept aside.
DamageIsKept ==
  \A w \in Writers : (errand[w].at = "writing" /\ errand[w].seen.state = "damaged")
    => errand[w].seen.bytes \in asides

\* A change that is still alone has no other beside it.
AloneIsAlone ==
  \A w, v \in Writers : (errand[w].at # "rest" /\ errand[w].alone /\ v # w) => errand[v].at = "rest"

\* A word stands only while no change is under way, and holds of what the file
\* says now and of what it says after a power cut; a change alone that is about
\* to be answered holds of what it wrote.
WordIsTrue ==
  /\ word # NoWord => \A w \in Writers : errand[w].at = "rest"
  /\ (blots = 0 /\ word # NoWord) => Holds(word, page.rows) /\ Holds(word, settled.rows)
  /\ \A w \in Writers :
       (blots = 0 /\ errand[w].at = "syncing" /\ errand[w].alone) => Holds(errand[w].change, page.rows)

RecordInv == RecordTypeOK /\ DamageIsKept /\ AloneIsAlone /\ WordIsTrue

\* A change leaves the rows as it says, takes out only rows it names, and adds
\* only its own.
LEMMA ComposeDoes ==
  ASSUME NEW change \in Changes, NEW rows \in SUBSET (Rows \cup {Alien})
  PROVE  /\ Compose(change, rows) \in SUBSET (Rows \cup {Alien})
         /\ Holds(change, Compose(change, rows))
         /\ rows \ Compose(change, rows) \subseteq Names(change, rows)
         /\ Compose(change, rows) \ rows \subseteq change.rows
<1>1. change.kind \in {"started", "retain", "retire"} /\ change.rows \subseteq Rows
  BY DEF Changes
<1>2. CASE change.kind = "started"
  BY <1>1, <1>2 DEF Compose, Holds, Names
<1>3. CASE change.kind = "retain"
  BY <1>1, <1>3 DEF Compose, Holds, Names
<1>4. CASE change.kind = "retire"
  BY <1>1, <1>4 DEF Compose, Holds, Names
<1>5. QED BY <1>1, <1>2, <1>3, <1>4

\* The record of an empty host is kept.
LEMMA RecordStarts == RecordInit => RecordInv
<1> SUFFICES ASSUME RecordInit PROVE RecordInv
  OBVIOUS
<1>1. page \in Pages
  <2>1. {Alien} \cup {Row(i, 1) : i \in RowIds} \subseteq Rows \cup {Alien}
    BY RevisionAssumption DEF Row, Rows
  <2>2. QED BY <2>1 DEF RecordInit, Pages, Readable
<1>2. \A w \in Writers : errand[w] = AtRest
  BY DEF RecordInit
<1>3. RecordTypeOK
  BY <1>1 DEF RecordInit, RecordTypeOK, Errands
<1>4. QED
  BY <1>2, <1>3 DEF RecordInv, RecordInit, DamageIsKept, AloneIsAlone, WordIsTrue, AtRest

\* A change that begins is the only one alone, and the last word is taken back.
LEMMA BeginsKeeps ==
  ASSUME RecordInv, NEW w \in Writers, NEW change \in Changes, NEW begun \in {"preserving", "writing"},
         errand[w].at = "rest", Begins(w, begun, change), word' = NoWord,
         begun = "writing" => page.state = "readable",
         UNCHANGED <<page, settled, asides, blots, slips>>
  PROVE  RecordInv'
<1> USE DEF RecordInv
<1> DEFINE fresh == [at |-> begun, change |-> change, seen |-> page,
                     alone |-> \A u \in Writers : errand[u].at = "rest"]
<1>1. /\ errand' \in [Writers -> Errands] /\ errand'[w] = fresh /\ fresh \in Errands
      /\ \A v \in Writers \ {w} : /\ errand'[v].at = errand[v].at
                                  /\ errand[v].at # "rest" =>
                                       /\ ~errand'[v].alone /\ errand'[v].change = errand[v].change
                                       /\ errand'[v].seen = errand[v].seen
  <2>1. fresh \in Errands
    BY DEF Errands, RecordTypeOK
  <2>2. ASSUME NEW v \in Writers \ {w}
        PROVE  /\ errand'[v] \in Errands /\ errand'[v].at = errand[v].at
               /\ errand[v].at # "rest" => /\ ~errand'[v].alone /\ errand'[v].change = errand[v].change
                                           /\ errand'[v].seen = errand[v].seen
    <3>1. errand[v] \in Errands
      BY DEF RecordTypeOK
    <3>2. CASE errand[v].at = "rest"
      BY <3>1, <3>2 DEF Begins, Errands, AtRest
    <3>3. CASE errand[v].at # "rest"
      <4>1. errand[v] \in [at : {"preserving", "writing", "syncing"}, change : Changes, seen : Pages, alone : BOOLEAN]
        BY <3>1, <3>3 DEF Errands, AtRest
      <4>2. errand'[v] = [errand[v] EXCEPT !.alone = FALSE]
        BY <3>3 DEF Begins
      <4>3. QED BY <4>1, <4>2 DEF Errands
    <3>4. QED BY <3>2, <3>3
  <2>3. errand'[w] = fresh
    BY DEF Begins
  <2>4. errand' = [v \in Writers |-> errand'[v]]
    BY DEF Begins
  <2>5. QED BY <2>1, <2>2, <2>3, <2>4
<1>2. RecordTypeOK'
  BY <1>1 DEF RecordTypeOK
<1>3. DamageIsKept'
  BY <1>1 DEF DamageIsKept
<1>4. AloneIsAlone'
  BY <1>1 DEF AloneIsAlone
<1>5. WordIsTrue'
  BY <1>1 DEF WordIsTrue
<1>6. QED BY <1>2, <1>3, <1>4, <1>5

\* A change that begins, of any kind a writer makes, keeps the invariant.
LEMMA BeginKeeps ==
  ASSUME RecordInv, NEW w \in Writers, Begin(w)
  PROVE  RecordInv'
<1>1. PICK change \in Changes : /\ errand[w].at = "rest"
                                /\ ReadFails(w, change) \/ OnDamage(w, change) \/ ReadsRows(w, change)
  BY DEF Begin
<1>2. CASE word' = NoWord /\ UNCHANGED <<page, settled, asides, errand, blots>>
  BY <1>2 DEF RecordInv, RecordTypeOK, DamageIsKept, AloneIsAlone, WordIsTrue
<1>3. CASE ReadFails(w, change)
  BY <1>2, <1>3 DEF ReadFails, Answers
<1>4. CASE OnDamage(w, change)
  <2>1. CASE change.kind = "retire"
    BY <1>2, <1>4, <2>1 DEF OnDamage, Answers
  <2>2. CASE change.kind # "retire"
    BY <1>1, <1>4, <2>2, BeginsKeeps DEF OnDamage
  <2>3. QED BY <2>1, <2>2
<1>5. CASE ReadsRows(w, change)
  <2>1. CASE change.kind # "started" /\ Compose(change, page.rows) = page.rows
    BY <1>2, <1>5, <2>1 DEF ReadsRows
  <2>2. CASE ~(change.kind # "started" /\ Compose(change, page.rows) = page.rows)
    BY <1>1, <1>5, <2>2, BeginsKeeps DEF ReadsRows
  <2>3. QED BY <2>1, <2>2
<1>6. QED BY <1>1, <1>3, <1>4, <1>5

\* A change that is given up leaves the file as it is, and no word.
LEMMA RestKeeps ==
  ASSUME RecordInv, NEW w \in Writers, errand' = [errand EXCEPT ![w] = AtRest], word' = NoWord,
         UNCHANGED <<page, settled, asides, blots>>
  PROVE  RecordInv'
BY DEF RecordInv, RecordTypeOK, Errands, AtRest, DamageIsKept, AloneIsAlone, WordIsTrue

\* A step of a change under way, its copy, its rename, its sync or its failure,
\* keeps the invariant.
LEMMA WriterKeeps ==
  ASSUME RecordInv, NEW w \in Writers,
         Begin(w) \/ Preserves(w) \/ GivesUp(w) \/ Replaces(w) \/ Syncs(w) \/ SyncFails(w) \/ WriterDies(w)
  PROVE  RecordInv'
<1>1. CASE Begin(w)
  BY <1>1, BeginKeeps
<1>2. CASE GivesUp(w) \/ SyncFails(w) \/ WriterDies(w)
  BY <1>2, RestKeeps DEF GivesUp, SyncFails, WriterDies, Answers
<1>0. /\ errand[w] \in Errands
      /\ errand[w].at # "rest" =>
           errand[w] \in [at : {"preserving", "writing", "syncing"}, change : Changes, seen : Pages, alone : BOOLEAN]
  BY DEF RecordInv, RecordTypeOK, Errands, AtRest
<1>3. CASE Preserves(w)
  <2>1. /\ errand' \in [Writers -> Errands] /\ errand'[w].at = "writing"
        /\ errand'[w].seen = errand[w].seen /\ errand'[w].alone = errand[w].alone
        /\ \A v \in Writers \ {w} : errand'[v] = errand[v]
    BY <1>0, <1>3 DEF Preserves, Errands, RecordInv, RecordTypeOK
  <2>2. RecordTypeOK'
    BY <1>3, <2>1 DEF Preserves, RecordInv, RecordTypeOK
  <2>3. DamageIsKept'
    BY <1>3, <2>1 DEF Preserves, RecordInv, DamageIsKept
  <2>4. AloneIsAlone' /\ WordIsTrue'
    BY <1>3, <2>1 DEF Preserves, RecordInv, AloneIsAlone, WordIsTrue
  <2>5. QED BY <2>2, <2>3, <2>4 DEF RecordInv
<1>4. CASE Replaces(w)
  <2>1. /\ errand' \in [Writers -> Errands] /\ errand'[w].at = "syncing"
        /\ errand'[w].change = errand[w].change /\ errand'[w].alone = errand[w].alone
        /\ \A v \in Writers \ {w} : errand'[v] = errand[v]
    BY <1>0, <1>4 DEF Replaces, Errands, RecordInv, RecordTypeOK
  <2>2. /\ errand[w].change \in Changes /\ errand[w].seen.rows \in SUBSET (Rows \cup {Alien})
    BY <1>0, <1>4 DEF Replaces, Pages
  <2>3. /\ page' \in Pages /\ Holds(errand[w].change, page'.rows)
    BY <1>4, <2>2, ComposeDoes DEF Replaces, Readable, Pages
  <2>4. RecordTypeOK'
    BY <1>4, <2>1, <2>3 DEF Replaces, RecordInv, RecordTypeOK
  <2>5. DamageIsKept' /\ AloneIsAlone'
    BY <1>4, <2>1 DEF Replaces, RecordInv, DamageIsKept, AloneIsAlone
  <2>6. WordIsTrue'
    <3>1. word = NoWord
      BY <1>4 DEF Replaces, RecordInv, WordIsTrue
    <3>2. \A v \in Writers \ {w} : errand[w].alone => errand[v].at = "rest"
      BY <1>4 DEF Replaces, RecordInv, AloneIsAlone
    <3>3. \A v \in Writers \ {w} : errand[v].at # "rest" /\ errand[v].alone => FALSE
      BY <1>4 DEF Replaces, RecordInv, AloneIsAlone
    <3>4. QED BY <1>4, <2>1, <2>3, <3>1, <3>3 DEF Replaces, WordIsTrue
  <2>7. QED BY <2>4, <2>5, <2>6 DEF RecordInv
<1>5. CASE Syncs(w)
  <2>1. CASE ~errand[w].alone
    <3>1. errand' = [errand EXCEPT ![w] = AtRest] /\ word' = NoWord /\ settled' = page
          /\ UNCHANGED <<page, asides, blots>>
      BY <1>5, <2>1 DEF Syncs, Answers
    <3>2. QED BY <3>1
       DEF RecordInv, RecordTypeOK, Errands, AtRest, DamageIsKept, AloneIsAlone, WordIsTrue
  <2>2. CASE errand[w].alone
    <3>1. errand' = [errand EXCEPT ![w] = AtRest] /\ word' = errand[w].change /\ settled' = page
          /\ UNCHANGED <<page, asides, blots>> /\ errand[w].at = "syncing" /\ errand[w].change \in Changes
      BY <1>0, <1>5, <2>2 DEF Syncs, Answers
    <3>2. \A v \in Writers : errand'[v].at = "rest"
      BY <3>1, <2>2 DEF RecordInv, RecordTypeOK, AloneIsAlone, AtRest
    <3>3. RecordTypeOK'
      BY <3>1 DEF RecordInv, RecordTypeOK, Errands
    <3>4. WordIsTrue'
      BY <2>2, <3>1, <3>2 DEF RecordInv, WordIsTrue
    <3>5. DamageIsKept' /\ AloneIsAlone'
      BY <3>2 DEF DamageIsKept, AloneIsAlone
    <3>6. QED BY <3>3, <3>4, <3>5 DEF RecordInv
  <2>3. QED BY <2>1, <2>2
<1>6. QED BY <1>1, <1>2, <1>3, <1>4, <1>5

\* The invariant of the record holds throughout.
LEMMA RecordInvHolds == RecordSpec => []RecordInv
<1>1. RecordInv /\ [RecordNext]_recordVars => RecordInv'
  <2> SUFFICES ASSUME RecordInv, [RecordNext]_recordVars PROVE RecordInv'
    OBVIOUS
  <2>1. ASSUME NEW w \in Writers,
               Begin(w) \/ Preserves(w) \/ GivesUp(w) \/ Replaces(w) \/ Syncs(w) \/ SyncFails(w) \/ WriterDies(w)
        PROVE  RecordInv'
    BY <2>1, WriterKeeps
  <2>2. CASE PowerCut
    <3>1. /\ errand' \in [Writers -> Errands] /\ \A w \in Writers : errand'[w].at = "rest"
      BY <2>2 DEF PowerCut, Errands, AtRest
    <3>2. QED
      BY <2>2, <3>1 DEF PowerCut, RecordInv, RecordTypeOK, DamageIsKept, AloneIsAlone, WordIsTrue
  <2>3. CASE Blotted
    BY <2>3 DEF Blotted, Damaged, Pages, RecordInv, RecordTypeOK, DamageIsKept, AloneIsAlone, WordIsTrue
  <2>4. CASE UNCHANGED recordVars
    BY <2>4 DEF recordVars, RecordInv, RecordTypeOK, DamageIsKept, AloneIsAlone, WordIsTrue
  <2>5. QED BY <2>1, <2>2, <2>3, <2>4 DEF RecordNext
<1>2. QED BY <1>1, RecordStarts, PTL DEF RecordSpec

\* The only step that takes a writer to its sync is its own rename.
LEMMA OnlyItsRename ==
  ASSUME RecordInv, RecordNext, NEW w \in Writers, errand[w].at = "writing", errand'[w].at = "syncing"
  PROVE  Replaces(w)
<1>1. ASSUME NEW v \in Writers, Begin(v) PROVE FALSE
  <2>1. PICK change \in Changes : /\ errand[v].at = "rest"
                                  /\ ReadFails(v, change) \/ OnDamage(v, change) \/ ReadsRows(v, change)
    BY <1>1 DEF Begin
  <2>2. errand[w] \in [at : {"preserving", "writing", "syncing"}, change : Changes, seen : Pages, alone : BOOLEAN]
    BY DEF RecordInv, RecordTypeOK, Errands, AtRest
  <2>3. ASSUME NEW begun, Begins(v, begun, change) PROVE errand'[w].at = errand[w].at
    BY <2>1, <2>2, <2>3 DEF Begins
  <2>4. QED
    BY <2>1, <2>3 DEF ReadFails, OnDamage, ReadsRows
<1>2. ASSUME NEW v \in Writers,
             Preserves(v) \/ GivesUp(v) \/ Syncs(v) \/ SyncFails(v) \/ WriterDies(v)
      PROVE  FALSE
  <2>1. errand \in [Writers -> Errands]
    BY DEF RecordInv, RecordTypeOK
  <2>2. CASE errand' = [errand EXCEPT ![v] = AtRest]
    BY <2>1, <2>2 DEF AtRest
  <2>3. CASE errand[v].at = "preserving" /\ errand' = [errand EXCEPT ![v].at = "writing"]
    BY <2>1, <2>3
  <2>4. QED BY <1>2, <2>2, <2>3 DEF Preserves, GivesUp, Syncs, SyncFails, WriterDies
<1>3. ASSUME NEW v \in Writers, Replaces(v) PROVE v = w
  BY <1>3 DEF Replaces, RecordInv, RecordTypeOK
<1>4. CASE PowerCut
  BY <1>4 DEF PowerCut, AtRest
<1>5. CASE Blotted
  BY <1>5 DEF Blotted
<1>6. QED BY <1>1, <1>2, <1>3, <1>4, <1>5 DEF RecordNext

\* Whatever two environments' changes do to each other, a change alone that was
\* answered stands in the file and after a power cut, and a damaged record is put
\* aside before it is replaced (owned-processes.mjs).
THEOREM RecordHolds == RecordSpec => RecordIsKept
<1>1. RecordInv => AnsweredIsKept
  BY DEF RecordInv, WordIsTrue, AnsweredIsKept, Holds, NoWord
<1>2. RecordInv /\ [RecordNext]_recordVars => [OnlyNamedRowsGo /\ AnsweredIsKept]_recordVars
  <2> SUFFICES ASSUME RecordInv, RecordNext, NEW w \in Writers, Undisturbed(w), errand'[w].at = "syncing"
               PROVE  /\ page.rows \ page'.rows \subseteq Names(errand[w].change, page.rows)
                      /\ page'.rows \ page.rows \subseteq errand[w].change.rows
                      /\ page.state = "damaged" => page.bytes \in asides
    BY <1>1 DEF OnlyNamedRowsGo
  <2>1. Replaces(w)
    BY OnlyItsRename DEF Undisturbed
  <2>2. errand[w].change \in Changes /\ page.rows \in SUBSET (Rows \cup {Alien})
    BY DEF Undisturbed, RecordInv, RecordTypeOK, Errands, AtRest, Pages
  <2>3. page'.rows = Compose(errand[w].change, page.rows)
    BY <2>1 DEF Replaces, Readable, Undisturbed
  <2>4. QED BY <2>2, <2>3, ComposeDoes DEF Undisturbed, RecordInv, DamageIsKept
<1>3. QED BY <1>2, RecordInvHolds, PTL DEF RecordSpec, RecordIsKept
=============================================================================
