-------------------------- MODULE LifecycleProofs --------------------------
(***************************************************************************)
(* One actor at a time, one execution for each request, a hold that holds   *)
(* and answers that are true, for any number of requests, automatic starts  *)
(* and daemons that follow each other.                                      *)
(*                                                                         *)
(* The first inductive invariant says who holds the pending record: an      *)
(* actor at work holds it under its own daemon, a daemon with an actor at   *)
(* work is not gone, and there is only one.  The second, which rests on it, *)
(* says which ids have made a worker.  The third says what each place of an *)
(* actor at work has seen to, and what a record that ended as done has      *)
(* done; from it come the hold and the truth of the answers.  The last adds *)
(* the rest of the types.                                                   *)
(***************************************************************************)
EXTENDS Lifecycle, TLAPS, FiniteSetTheorems, SequenceTheorems

Stages == {"off", "up", "draining", "gone"}
Rows == [phase : {"none", "pending", "terminal"}, owner : 0 .. LastDaemon,
         result : Answers \cup {"none"}]
Jobs == [at : Places, id : Ids \cup {NoOne}, answer : Answers \cup {"none"}]

\* The ids an actor may work on.
Own(a) == IF a[2] = "automatic" THEN Automatics ELSE Requests

Shape ==
    /\ stage \in [Daemons -> Stages]
    /\ row \in [Ids -> Rows]
    /\ job \in [Actors -> Jobs]
    /\ \A a \in Actors : job[a].at # "idle" => job[a].id \in Own(a)

Custody == \A a \in Actors : Acting(a) => row[job[a].id] = Pending(a[1])

OnePending == \A i, j \in Ids : row[i].phase = "pending" /\ row[j].phase = "pending" => i = j

Runs == \A a \in Actors : job[a].at # "idle" => stage[a[1]] \in {"up", "draining"}

IndInv == Shape /\ Custody /\ OnePending /\ Runs

LEMMA ActorsAreDaemons ==
    ASSUME NEW a \in Actors
    PROVE  a[1] \in Daemons /\ a[2] \in {"lifecycle", "automatic"} /\ Own(a) \subseteq Ids
  BY DEF Actors, Own, Ids

\* The strengthened invariant implies the property: two actors at work would
\* hold one record, in one daemon, and a request is not an automatic start.
LEMMA OneActs == IndInv => OneActor
  <1> SUFFICES ASSUME IndInv, NEW a \in Actors, Acting(a)
               PROVE  /\ row[job[a].id] = Pending(a[1])
                      /\ \A b \in Actors \ {a} : ~Acting(b)
    BY DEF OneActor
  <1>1. row[job[a].id] = Pending(a[1])
    BY DEF IndInv, Custody
  <1>2. ASSUME NEW b \in Actors, Acting(b)  PROVE b = a
    <2>1. row[job[b].id] = Pending(b[1])
      BY <1>2 DEF IndInv, Custody
    <2>2. job[a].id \in Own(a) /\ job[b].id \in Own(b) /\ Own(a) \subseteq Ids /\ Own(b) \subseteq Ids
      BY <1>2, ActorsAreDaemons DEF IndInv, Shape, Acting
    <2>3. job[a].id = job[b].id
      BY <1>1, <2>1, <2>2 DEF IndInv, OnePending, Pending
    <2>4. a[1] = b[1]
      BY <1>1, <2>1, <2>3 DEF Pending
    <2>5. a[2] = b[2]
      BY <2>2, <2>3, ConstantsAssumption, ActorsAreDaemons DEF Own
    <2> QED BY <2>4, <2>5 DEF Actors
  <1> QED BY <1>1, <1>2

LEMMA InitHolds == Init => IndInv
  <1> SUFFICES ASSUME Init PROVE IndInv
    OBVIOUS
  <1>1. Shape
    <2>1. NoRow \in Rows
      BY ConstantsAssumption DEF NoRow, Rows, Answers
    <2>2. Idle \in Jobs /\ Idle.at = "idle"
      BY DEF Idle, Jobs, Places
    <2> QED BY <2>1, <2>2 DEF Init, Shape, Stages
  <1>2. \A a \in Actors : job[a].at = "idle"
    BY DEF Init, Idle
  <1>3. \A i \in Ids : row[i].phase = "none"
    BY DEF Init, NoRow
  <1> QED BY <1>1, <1>2, <1>3 DEF IndInv, Custody, OnePending, Runs, Acting

\* An actor that goes on keeps what it holds.
LEMMA GoingOn ==
    ASSUME IndInv, NEW a \in Actors, Acting(a), NEW place \in Places \ {"idle"},
           Goto(a, place), UNCHANGED <<stage, row>>
    PROVE  IndInv'
  <1>1. job' = [job EXCEPT ![a].at = place]
    BY DEF Goto
  <1>2. /\ job' \in [Actors -> Jobs]
        /\ \A b \in Actors : job'[b].id = job[b].id
        /\ \A b \in Actors \ {a} : job'[b] = job[b]
        /\ job[a].at # "idle"
    BY <1>1 DEF IndInv, Shape, Jobs, Acting
  <1>3. \A b \in Actors : Acting(b)' => Acting(b)
    BY <1>2 DEF Acting
  <1> QED BY <1>2, <1>3 DEF IndInv, Shape, Custody, OnePending, Runs

\* An actor that ends its work, whatever it answers, takes nothing with it.
LEMMA Ending ==
    ASSUME IndInv, NEW a \in Actors, NEW i \in Own(a), NEW answer \in Answers \cup {"none"},
           stage[a[1]] \in {"up", "draining"}, End(a, i, answer), UNCHANGED <<stage, row>>
    PROVE  IndInv'
  <1> DEFINE ended == IF a[2] = "automatic" THEN Idle
                      ELSE [at |-> "reporting", id |-> i, answer |-> answer]
  <1>1. job' = [job EXCEPT ![a] = ended]
    BY DEF End
  <1>2. ended \in Jobs /\ ended.at \in {"idle", "reporting"} /\ (ended.at # "idle" => ended.id \in Own(a))
    BY ActorsAreDaemons DEF Jobs, Places, Idle
  <1> HIDE DEF ended
  <1>3. /\ job' \in [Actors -> Jobs]
        /\ \A b \in Actors \ {a} : job'[b] = job[b]
        /\ job'[a] = ended
    BY <1>1, <1>2 DEF IndInv, Shape
  <1>4. \A b \in Actors : Acting(b)' => b # a /\ Acting(b)
    BY <1>2, <1>3 DEF Acting
  <1> QED BY <1>2, <1>3, <1>4 DEF IndInv, Shape, Custody, OnePending, Runs

\* Finishing a record that is pending makes it terminal and ends the work.
LEMMA Finishing ==
    ASSUME IndInv, NEW a \in Actors, Acting(a), NEW result \in Answers,
           Finish(a, result), UNCHANGED stage
    PROVE  IndInv'
  <1> DEFINE i == job[a].id
             ended == IF a[2] = "automatic" THEN Idle
                      ELSE [at |-> "reporting", id |-> i, answer |-> result]
  <1>1. /\ i \in Own(a) /\ i \in Ids
        /\ row[i] = Pending(a[1])
        /\ stage[a[1]] \in {"up", "draining"}
    BY ActorsAreDaemons DEF IndInv, Shape, Custody, Runs, Acting
  <1>2. /\ row' = [row EXCEPT ![i] = Terminal(a[1], result)]
        /\ job' = [job EXCEPT ![a] = ended]
    BY <1>1 DEF Finish, End, Pending
  <1>3. Terminal(a[1], result) \in Rows
    BY ActorsAreDaemons, ConstantsAssumption DEF Terminal, Rows, Daemons
  <1>4. ended \in Jobs /\ ended.at \in {"idle", "reporting"} /\ (ended.at # "idle" => ended.id = i)
    BY <1>1 DEF Jobs, Places, Idle
  <1>5. /\ \A b \in Actors \ {a} : job'[b] = job[b]
        /\ job'[a] = ended
        /\ job' \in [Actors -> Jobs]
    BY <1>2, <1>4 DEF IndInv, Shape
  <1>6. /\ \A j \in Ids \ {i} : row'[j] = row[j]
        /\ row'[i].phase = "terminal"
        /\ row' \in [Ids -> Rows]
    BY <1>1, <1>2, <1>3 DEF IndInv, Shape, Terminal
  <1> HIDE DEF ended
  <1>7. \A b \in Actors : ~Acting(b)'
    <2> SUFFICES ASSUME NEW b \in Actors, Acting(b)' PROVE FALSE
      OBVIOUS
    <2>1. b # a
      BY <1>4, <1>5 DEF Acting
    <2>2. Acting(b)
      BY <1>5, <2>1 DEF Acting
    <2> QED BY <2>1, <2>2, OneActs DEF OneActor
  <1>8. Shape'
    BY <1>1, <1>4, <1>5, <1>6 DEF IndInv, Shape
  <1>9. OnePending'
    <2>1. \A j \in Ids : row'[j].phase # "pending"
      BY <1>1, <1>6 DEF IndInv, OnePending, Pending
    <2> QED BY <2>1 DEF OnePending
  <1>10. Runs'
    BY <1>1, <1>5 DEF IndInv, Runs
  <1> QED BY <1>7, <1>8, <1>9, <1>10 DEF IndInv, Custody

\* An actor that leaves its record as it is ends its work all the same.
LEMMA LeavingUnknown ==
    ASSUME IndInv, NEW a \in Actors, job[a].at # "idle", LeaveUnknown(a), UNCHANGED stage
    PROVE  IndInv'
  <1>1. job[a].id \in Own(a) /\ stage[a[1]] \in {"up", "draining"}
    BY DEF IndInv, Shape, Runs
  <1> QED BY <1>1, Ending DEF LeaveUnknown, Answers

\* A record made terminal at once, for an actor that then works no more.
LEMMA Refusing ==
    ASSUME IndInv, NEW a \in Actors, NEW i \in Own(a), stage[a[1]] \in {"up", "draining"},
           row' = [row EXCEPT ![i] = Terminal(a[1], "refused")],
           End(a, i, "refused"), ~Acting(a), row[i].phase = "none", UNCHANGED stage
    PROVE  IndInv'
  <1> DEFINE ended == IF a[2] = "automatic" THEN Idle
                      ELSE [at |-> "reporting", id |-> i, answer |-> "refused"]
  <1>1. i \in Ids /\ job' = [job EXCEPT ![a] = ended]
    BY ActorsAreDaemons DEF End
  <1>2. Terminal(a[1], "refused") \in Rows
    BY ActorsAreDaemons, ConstantsAssumption DEF Terminal, Rows, Daemons, Answers
  <1>3. ended \in Jobs /\ ended.at \in {"idle", "reporting"} /\ (ended.at # "idle" => ended.id = i)
    BY <1>1 DEF Jobs, Places, Idle, Answers
  <1>4. /\ \A b \in Actors \ {a} : job'[b] = job[b]
        /\ job'[a] = ended
        /\ job' \in [Actors -> Jobs]
    BY <1>1, <1>3 DEF IndInv, Shape
  <1>5. /\ \A j \in Ids \ {i} : row'[j] = row[j]
        /\ row'[i].phase = "terminal"
        /\ row' \in [Ids -> Rows]
    BY <1>1, <1>2 DEF IndInv, Shape, Terminal
  <1> HIDE DEF ended
  <1>6. \A b \in Actors : Acting(b)' => b # a /\ Acting(b)
    BY <1>3, <1>4 DEF Acting
  <1>7. Custody'
    <2> SUFFICES ASSUME NEW b \in Actors, Acting(b)' PROVE row'[job'[b].id] = Pending(b[1])
      BY DEF Custody
    <2>1. b # a /\ Acting(b) /\ row[job[b].id] = Pending(b[1])
      BY <1>6 DEF IndInv, Custody
    <2>2. job[b].id \in Ids /\ job[b].id # i
      BY <2>1, ActorsAreDaemons DEF IndInv, Shape, Acting, Pending
    <2> QED BY <1>4, <1>5, <2>1, <2>2
  <1>8. OnePending'
    BY <1>1, <1>5 DEF IndInv, OnePending
  <1>9. Shape' /\ Runs'
    BY <1>3, <1>4, <1>5 DEF IndInv, Shape, Runs
  <1> QED BY <1>7, <1>8, <1>9 DEF IndInv

\* A reservation, made only while nothing is pending: nobody else is at work.
LEMMA Reserving ==
    ASSUME IndInv, NEW a \in Actors, NEW i \in Own(a), stage[a[1]] \in {"up", "draining"},
           ~Reserved, row' = [row EXCEPT ![i] = Pending(a[1])],
           job' \in [Actors -> Jobs], \A b \in Actors \ {a} : job'[b] = job[b],
           job'[a].at # "idle", job'[a].id = i, UNCHANGED stage
    PROVE  IndInv'
  <1>1. i \in Ids /\ Pending(a[1]) \in Rows
    BY ActorsAreDaemons, ConstantsAssumption DEF Pending, Rows, Daemons
  <1>2. /\ \A j \in Ids \ {i} : row'[j] = row[j]
        /\ row'[i] = Pending(a[1])
        /\ row' \in [Ids -> Rows]
    BY <1>1 DEF IndInv, Shape
  <1>3. \A j \in Ids : row[j].phase # "pending"
    BY DEF Reserved
  <1>4. \A b \in Actors : ~Acting(b)
    <2> SUFFICES ASSUME NEW b \in Actors, Acting(b) PROVE FALSE
      OBVIOUS
    <2>1. job[b].id \in Own(b)
      BY DEF IndInv, Shape, Acting
    <2>2. job[b].id \in Ids
      BY <2>1, ActorsAreDaemons
    <2>3. row[job[b].id] = Pending(b[1])
      BY DEF IndInv, Custody
    <2>4. row[job[b].id].phase = "pending"
      BY <2>3 DEF Pending
    <2> QED BY <1>3, <2>2, <2>4
  <1>5. Custody'
    <2> SUFFICES ASSUME NEW b \in Actors, Acting(b)' PROVE row'[job'[b].id] = Pending(b[1])
      BY DEF Custody
    <2>1. b = a
      BY <1>4 DEF Acting
    <2> QED BY <1>2, <2>1
  <1>6. OnePending'
    BY <1>2, <1>3 DEF OnePending
  <1>7. Shape' /\ Runs'
    BY <1>2 DEF IndInv, Shape, Runs
  <1> QED BY <1>5, <1>6, <1>7 DEF IndInv

\* An actor that leaves its place for rest holds nothing there.
LEMMA Resting ==
    ASSUME IndInv, NEW a \in Actors, job' = [job EXCEPT ![a] = Idle], UNCHANGED <<stage, row>>
    PROVE  IndInv'
  <1>1. Idle \in Jobs /\ Idle.at = "idle"
    BY DEF Idle, Jobs, Places
  <1>2. /\ job' \in [Actors -> Jobs]
        /\ \A b \in Actors \ {a} : job'[b] = job[b]
        /\ job'[a].at = "idle"
    BY <1>1 DEF IndInv, Shape
  <1>3. \A b \in Actors : Acting(b)' => b # a /\ Acting(b)
    BY <1>2 DEF Acting
  <1> QED BY <1>2, <1>3 DEF IndInv, Shape, Custody, OnePending, Runs

LEMMA ClaimStep ==
    ASSUME IndInv, NEW d \in Daemons, NEW r \in Requests, Claim(d, r)  PROVE IndInv'
  <1> DEFINE a == <<d, "lifecycle">>
             next == [at |-> "reading", id |-> r, answer |-> "none"]
  <1>1. a \in Actors /\ a[1] = d /\ a[2] = "lifecycle" /\ r \in Own(a) /\ r \in Ids
    BY DEF Actors, Own, Ids
  <1>2. stage[a[1]] \in {"up", "draining"} /\ job[a] = Idle /\ UNCHANGED stage /\ ~Acting(a)
    BY <1>1 DEF Claim, world, Acting, Idle
  <1>3. CASE ~Fresh(r) /\ End(a, r, Receipt(r)) /\ UNCHANGED row
    <2>1. row[r] \in Rows
      BY <1>1 DEF IndInv, Shape
    <2>2. Receipt(r) \in Answers \cup {"none"}
      BY <2>1 DEF Receipt, Rows, Answers
    <2> HIDE DEF a
    <2> QED BY <1>1, <1>2, <1>3, <2>2, Ending
  <1>4. CASE /\ Fresh(r) /\ ReserveRefuses(r)
             /\ row' = [row EXCEPT ![r] = Terminal(d, "refused")]
             /\ End(a, r, "refused")
    <2>1. row[r].phase = "none" /\ row' = [row EXCEPT ![r] = Terminal(a[1], "refused")]
      BY <1>1, <1>4 DEF Fresh
    <2> HIDE DEF a
    <2> QED BY <1>1, <1>2, <1>4, <2>1, Refusing
  <1>5. CASE /\ Fresh(r) /\ ~ReserveRefuses(r)
             /\ row' = [row EXCEPT ![r] = Pending(d)]
             /\ job' = [job EXCEPT ![a] = next]
    <2>1. ~Reserved /\ row' = [row EXCEPT ![r] = Pending(a[1])]
      BY <1>1, <1>5 DEF ReserveRefuses
    <2>2. next \in Jobs /\ next.at # "idle" /\ next.id = r
      BY <1>1 DEF Jobs, Places
    <2> HIDE DEF a, next
    <2>3. /\ job' \in [Actors -> Jobs] /\ \A b \in Actors \ {a} : job'[b] = job[b]
          /\ job'[a].at # "idle" /\ job'[a].id = r
      BY <1>1, <1>5, <2>2 DEF IndInv, Shape
    <2> QED BY <1>1, <1>2, <1>5, <2>1, <2>3, Reserving
  <1> QED BY <1>3, <1>4, <1>5 DEF Claim

LEMMA AutomaticTakeStep ==
    ASSUME IndInv, NEW d \in Daemons, NEW i \in Automatics, AutomaticTake(d, i)  PROVE IndInv'
  <1> DEFINE a == <<d, "automatic">>
             next == [at |-> "admitting", id |-> i, answer |-> "none"]
  <1>1. a \in Actors /\ a[1] = d /\ a[2] = "automatic" /\ i \in Own(a) /\ i \in Ids
    BY DEF Actors, Own, Ids
  <1>2. stage[a[1]] = "up" /\ UNCHANGED <<stage, row>>
    BY <1>1 DEF AutomaticTake
  <1>3. job' = [job EXCEPT ![a] = next] \/ job' = [job EXCEPT ![a] = Idle]
    BY DEF AutomaticTake
  <1>4. CASE job' = [job EXCEPT ![a] = Idle]
    <2> HIDE DEF a
    <2> QED BY <1>1, <1>2, <1>4, Resting
  <1>5. CASE job' = [job EXCEPT ![a] = next]
    <2>1. next \in Jobs /\ next.at = "admitting" /\ next.id = i
      BY <1>1 DEF Jobs, Places
    <2> HIDE DEF a, next
    <2>2. /\ job' \in [Actors -> Jobs]
          /\ \A b \in Actors \ {a} : job'[b] = job[b]
          /\ job'[a] = next
      BY <1>1, <1>5, <2>1 DEF IndInv, Shape
    <2>3. \A b \in Actors : Acting(b)' => b # a /\ Acting(b)
      BY <1>1, <2>1, <2>2 DEF Acting
    <2> QED BY <1>1, <1>2, <2>1, <2>2, <2>3 DEF IndInv, Shape, Custody, OnePending, Runs
  <1> QED BY <1>3, <1>4, <1>5

LEMMA AutomaticAdmitStep ==
    ASSUME IndInv, NEW a \in Actors, AutomaticAdmit(a)  PROVE IndInv'
  <1> DEFINE i == job[a].id
  <1>1. /\ a[2] = "automatic" /\ job[a].at = "admitting" /\ ~Acting(a)
        /\ i \in Own(a) /\ stage[a[1]] \in {"up", "draining"} /\ UNCHANGED stage
    BY DEF AutomaticAdmit, Acting, IndInv, Shape, Runs, world
  <1>2. CASE End(a, i, "refused") /\ UNCHANGED row
    <2> HIDE DEF i
    <2> QED BY <1>1, <1>2, Ending DEF Answers
  <1>3. CASE Fresh(i) /\ row' = [row EXCEPT ![i] = Terminal(a[1], "refused")] /\ End(a, i, "refused")
    <2>1. row[i].phase = "none"
      BY <1>3 DEF Fresh
    <2> HIDE DEF i
    <2> QED BY <1>1, <1>3, <2>1, Refusing
  <1>4. CASE ~ReserveRefuses(i) /\ row' = [row EXCEPT ![i] = Pending(a[1])] /\ Goto(a, "producing")
    <2>1. ~Reserved
      BY <1>4 DEF ReserveRefuses
    <2>2. /\ job' \in [Actors -> Jobs] /\ \A b \in Actors \ {a} : job'[b] = job[b]
          /\ job'[a].at # "idle" /\ job'[a].id = i
      BY <1>4 DEF Goto, IndInv, Shape, Jobs, Places
    <2> HIDE DEF i
    <2> QED BY <1>1, <1>4, <2>1, <2>2, Reserving
  <1> QED BY <1>2, <1>3, <1>4 DEF AutomaticAdmit

\* The work of an actor at its place, one step for each.
LEMMA WorkStep ==
    ASSUME IndInv, NEW a \in Actors, Work(a)  PROVE IndInv'
  <1>1. CASE Read(a)
    <2>1. Acting(a) /\ UNCHANGED stage
      BY <1>1 DEF Read, Acting, world
    <2>2. CASE Finish(a, "refused")
      BY <2>1, <2>2, Finishing DEF Answers
    <2>3. CASE UNCHANGED row /\ Goto(a, IF UnderLock(a) THEN "locking" ELSE "building")
      BY <2>1, <2>3, GoingOn DEF Places
    <2> QED BY <1>1, <2>2, <2>3 DEF Read
  <1>2. CASE Locked(a)
    <2>1. Acting(a) /\ UNCHANGED stage
      BY <1>2 DEF Locked, Acting, world
    <2>2. CASE \E result \in Answers : Finish(a, result)
      BY <2>1, <2>2, Finishing
    <2>3. CASE UNCHANGED row /\ \E place \in {"stopped", "killing"} : Goto(a, place)
      BY <2>1, <2>3, GoingOn DEF Places
    <2> QED BY <1>2, <2>2, <2>3 DEF Locked, Answers
  <1>3. CASE Kill(a)
    <2>1. Acting(a) /\ job[a].at # "idle" /\ UNCHANGED stage
      BY <1>3 DEF Kill, Acting, world
    <2>2. CASE LeaveUnknown(a)
      BY <2>1, <2>2, LeavingUnknown
    <2>3. CASE UNCHANGED row /\ Goto(a, "stopped")
      BY <2>1, <2>3, GoingOn DEF Places
    <2> QED BY <1>3, <2>2, <2>3 DEF Kill
  <1>4. CASE AfterStop(a)
    <2>1. Acting(a) /\ UNCHANGED stage
      BY <1>4 DEF AfterStop, Acting, world
    <2>2. CASE Finish(a, "done")
      BY <2>1, <2>2, Finishing DEF Answers
    <2>3. CASE UNCHANGED row /\ \E place \in {"removing", "building"} : Goto(a, place)
      BY <2>1, <2>3, GoingOn DEF Places
    <2> QED BY <1>4, <2>2, <2>3 DEF AfterStop
  <1>5. CASE Remove(a)
    <2>1. Acting(a) /\ UNCHANGED stage
      BY <1>5 DEF Remove, Acting
    <2>2. CASE Finish(a, "refused")
      BY <2>1, <2>2, Finishing DEF Answers
    <2>3. CASE UNCHANGED row /\ Goto(a, "removed")
      BY <2>1, <2>3, GoingOn DEF Places
    <2> QED BY <1>5, <2>2, <2>3 DEF Remove
  <1>6. CASE Removed(a)
    <2>1. Acting(a) /\ UNCHANGED stage
      BY <1>6 DEF Removed, Acting, world
    <2> QED BY <1>6, <2>1, Finishing DEF Removed, Answers
  <1>7. CASE Build(a)
    <2>1. Acting(a) /\ UNCHANGED stage
      BY <1>7 DEF Build, Acting, world
    <2>2. CASE Finish(a, "refused")
      BY <2>1, <2>2, Finishing DEF Answers
    <2>3. CASE UNCHANGED row /\ Goto(a, "admitting")
      BY <2>1, <2>3, GoingOn DEF Places
    <2> QED BY <1>7, <2>2, <2>3 DEF Build
  <1>8. CASE Admit(a)
    <2>1. Acting(a) /\ UNCHANGED stage
      BY <1>8 DEF Admit, Acting, world
    <2>2. CASE Finish(a, "refused")
      BY <2>1, <2>2, Finishing DEF Answers
    <2>3. CASE UNCHANGED row /\ Goto(a, "producing")
      BY <2>1, <2>3, GoingOn DEF Places
    <2> QED BY <1>8, <2>2, <2>3 DEF Admit
  <1>9. CASE AutomaticAdmit(a)
    BY <1>9, AutomaticAdmitStep
  <1>10. CASE Produce(a)
    <2>1. Acting(a) /\ job[a].at # "idle" /\ UNCHANGED stage
      BY <1>10 DEF Produce, Acting, world
    <2>2. CASE Finish(a, "refused")
      BY <2>1, <2>2, Finishing DEF Answers
    <2>3. CASE UNCHANGED row /\ Goto(a, "attaching")
      BY <2>1, <2>3, GoingOn DEF Places
    <2>4. CASE LeaveUnknown(a)
      BY <2>1, <2>4, LeavingUnknown
    <2> QED BY <1>10, <2>2, <2>3, <2>4 DEF Produce
  <1>11. CASE Attach(a)
    <2>1. Acting(a) /\ job[a].at # "idle" /\ UNCHANGED stage
      BY <1>11 DEF Attach, Acting, world
    <2>2. CASE Finish(a, "done")
      BY <2>1, <2>2, Finishing DEF Answers
    <2>3. CASE LeaveUnknown(a)
      BY <2>1, <2>3, LeavingUnknown
    <2> QED BY <1>11, <2>2, <2>3 DEF Attach
  <1>12. CASE LockTimeout(a)
    <2>1. job[a].at # "idle" /\ UNCHANGED stage
      BY <1>12 DEF LockTimeout, world
    <2>2. CASE job[a].at = "locking" /\ Finish(a, "refused")
      BY <2>1, <2>2, Finishing DEF Acting, Answers
    <2>3. CASE LeaveUnknown(a)
      BY <2>1, <2>3, LeavingUnknown
    <2> QED BY <1>12, <2>2, <2>3 DEF LockTimeout
  <1>13. CASE Report(a)
    <2>1. job' = [job EXCEPT ![a] = Idle] /\ UNCHANGED <<stage, row>>
      BY <1>13 DEF Report
    <2> QED BY <2>1, Resting
  <1> QED BY <1>1, <1>2, <1>3, <1>4, <1>5, <1>6, <1>7, <1>8, <1>9, <1>10, <1>11, <1>12, <1>13 DEF Work

\* A daemon that starts to drain keeps what it has in hand.
LEMMA DrainStep ==
    ASSUME IndInv, NEW d \in Daemons, Drain(d)  PROVE IndInv'
  <1>1. stage' = [stage EXCEPT ![d] = "draining"] /\ stage \in [Daemons -> Stages] /\ UNCHANGED <<row, job>>
    BY DEF Drain, IndInv, Shape
  <1>2. stage' \in [Daemons -> Stages]
    BY <1>1 DEF Stages
  <1>3. Runs'
    BY <1>1, ActorsAreDaemons DEF IndInv, Runs
  <1>4. \A a \in Actors : Acting(a)' => Acting(a)
    BY <1>1 DEF Acting
  <1> QED BY <1>1, <1>2, <1>3, <1>4 DEF IndInv, Shape, Custody, OnePending

\* A daemon that dies takes its actors with it; their record stays.
LEMMA LeaveStep ==
    ASSUME IndInv, NEW d \in Daemons, Leave(d)  PROVE IndInv'
  <1>1. /\ stage' = [stage EXCEPT ![d] = "gone"] /\ stage \in [Daemons -> Stages]
        /\ job' = [a \in Actors |-> IF a[1] = d THEN Idle ELSE job[a]] /\ UNCHANGED row
    BY DEF Leave, IndInv, Shape
  <1>2. stage' \in [Daemons -> Stages]
    BY <1>1 DEF Stages
  <1>3. Idle \in Jobs /\ Idle.at = "idle"
    BY DEF Idle, Jobs, Places
  <1>4. /\ job' \in [Actors -> Jobs]
        /\ \A a \in Actors : job'[a].at # "idle" => a[1] # d /\ job'[a] = job[a]
    BY <1>1, <1>3 DEF IndInv, Shape
  <1>5. \A a \in Actors : Acting(a)' => Acting(a) /\ job'[a] = job[a]
    BY <1>4 DEF Acting
  <1>6. Shape' /\ Custody' /\ OnePending'
    BY <1>1, <1>2, <1>4, <1>5 DEF IndInv, Shape, Custody, OnePending
  <1>7. Runs'
    BY <1>1, <1>4, ActorsAreDaemons DEF IndInv, Runs
  <1> QED BY <1>6, <1>7 DEF IndInv

\* A successor settles only what no actor holds: an actor at work holds a
\* record of its own daemon, and that daemon is not gone.
LEMMA BootStep ==
    ASSUME IndInv, NEW d \in Daemons, Boot(d)  PROVE IndInv'
  <1>1. /\ stage[d] = "off" /\ stage' = [stage EXCEPT ![d] = "up"]
        /\ stage \in [Daemons -> Stages] /\ UNCHANGED job
    BY DEF Boot, IndInv, Shape
  <1>2. row' = Settled \/ UNCHANGED row
    BY DEF Boot
  <1>3. /\ row' \in [Ids -> Rows]
        /\ \A i \in Ids : row'[i].phase = "pending" => row[i].phase = "pending"
        /\ \A i \in Ids : stage[row[i].owner] # "gone" => row'[i] = row[i]
    <2>1. \A i \in Ids : row[i] \in Rows /\ Terminal(row[i].owner, "unknown") \in Rows
      BY DEF IndInv, Shape, Rows, Terminal, Answers
    <2>2. \A i \in Ids : Terminal(row[i].owner, "unknown").phase = "terminal"
      BY DEF Terminal
    <2>3. row \in [Ids -> Rows]
      BY DEF IndInv, Shape
    <2>4. CASE row' = Settled
      BY <2>1, <2>2, <2>3, <2>4 DEF Settled, ObsoleteOwner
    <2>5. CASE UNCHANGED row
      BY <2>3, <2>5
    <2> QED BY <1>2, <2>4, <2>5
  <1>4. \A a \in Actors : Acting(a)' => Acting(a)
    BY <1>1 DEF Acting
  <1>5. Custody'
    <2> SUFFICES ASSUME NEW a \in Actors, Acting(a)  PROVE row'[job[a].id] = Pending(a[1])
      BY <1>1, <1>4 DEF Custody
    <2>1. row[job[a].id] = Pending(a[1]) /\ job[a].at # "idle"
      BY DEF IndInv, Custody, Acting
    <2>2. job[a].id \in Ids
      BY <2>1, ActorsAreDaemons DEF IndInv, Shape
    <2>3. row[job[a].id].owner = a[1] /\ stage[a[1]] # "gone"
      BY <2>1 DEF Pending, IndInv, Runs
    <2> QED BY <1>3, <2>1, <2>2, <2>3
  <1>6. Runs'
    BY <1>1, ActorsAreDaemons DEF IndInv, Runs
  <1>7. Shape' /\ OnePending'
    BY <1>1, <1>3 DEF IndInv, Shape, OnePending, Stages
  <1> QED BY <1>5, <1>6, <1>7 DEF IndInv

LEMMA StutterStep ==
    ASSUME IndInv, UNCHANGED <<stage, row, job>>  PROVE IndInv'
  <1>1. \A a \in Actors : Acting(a)' => Acting(a)
    BY DEF Acting
  <1> QED BY <1>1 DEF IndInv, Shape, Custody, OnePending, Runs

LEMMA StepHolds == IndInv /\ [Next]_vars => IndInv'
  <1> SUFFICES ASSUME IndInv, [Next]_vars  PROVE IndInv'
    OBVIOUS
  <1>1. ASSUME NEW i \in Ids, Ask(i)  PROVE IndInv'
    BY <1>1, StutterStep DEF Ask
  <1>2. ASSUME NEW l \in DOMAIN workers, WorkerExits(l) \/ ObserveExit(l)  PROVE IndInv'
    BY <1>2, StutterStep DEF WorkerExits, ObserveExit, world
  <1>3. CASE Edit
    BY <1>3, StutterStep DEF Edit
  <1>4. CASE UNCHANGED vars
    BY <1>4, StutterStep DEF vars
  <1> QED BY <1>1, <1>2, <1>3, <1>4, ClaimStep, AutomaticTakeStep, WorkStep, DrainStep, LeaveStep, BootStep
          DEF Next

\* At every moment at most one actor of all the daemons that overlap starts or
\* stops the agent, and it holds the journal's one pending record.
THEOREM OneActorHolds == Spec => []OneActor
  <1>1. Spec => []IndInv
    BY InitHolds, StepHolds, PTL DEF Spec
  <1> QED BY <1>1, OneActs, PTL

-----------------------------------------------------------------------------
(* One execution for each request. *)

Worker == [by : Daemons, id : Ids, live : BOOLEAN, managed : BOOLEAN]

\* The ids that made a worker.
Made == {workers[l].id : l \in DOMAIN workers}

\* At work, and its worker not made yet.
Before(a) == Acting(a) /\ job[a].at # "attaching"

Ended(i, result) == row[i].phase = "terminal" /\ row[i].result = result

\* The same, after the step.
EndedNext(i, result) == row'[i].phase = "terminal" /\ row'[i].result = result

Final == {"done", "refused"}

TypesOfOnce == workers \in Seq(Worker) /\ told \in [Ids -> SUBSET (Answers \cup {"none"})]

Single == \A l, m \in DOMAIN workers : workers[l].id = workers[m].id => l = m

Spent == \A i \in Made : row[i].phase # "none" /\ ~Ended(i, "refused")

Unspent == \A a \in Actors : Before(a) => job[a].id \notin Made

ReportsAreTrue ==
    \A a \in Actors, r \in Final :
        job[a].at = "reporting" /\ job[a].answer = r => Ended(job[a].id, r)

ToldIsTrue == \A i \in Ids, r \in Final : r \in told[i] => Ended(i, r)

OnceInv ==
    IndInv /\ TypesOfOnce /\ Single /\ Spent /\ Unspent /\ ReportsAreTrue /\ ToldIsTrue

\* The workers are the same ones, whatever became of them.
SameWorkers ==
    /\ workers' \in Seq(Worker) /\ DOMAIN workers' = DOMAIN workers
    /\ \A l \in DOMAIN workers : workers'[l].id = workers[l].id

\* A record that ended stays as it is, and only one that made no worker is
\* called refused.
RowsGoOn ==
    \A i \in Ids :
        \/ row'[i] = row[i]
        \/ /\ row[i].phase # "terminal" /\ row'[i].phase # "none"
           /\ EndedNext(i, "refused") => i \notin Made

\* What an actor takes up, or reports, is in order.
JobsGoOn ==
    \A a \in Actors :
        \/ job'[a] = job[a]
        \/ /\ Before(a)' => job'[a].id \notin Made
           /\ \A r \in Final : job'[a].at = "reporting" /\ job'[a].answer = r
                               => EndedNext(job'[a].id, r)

\* A step that makes no worker and tells nobody anything.
LEMMA QuietStep ==
    ASSUME OnceInv, IndInv', SameWorkers, UNCHANGED told, RowsGoOn, JobsGoOn
    PROVE  OnceInv'
  <1>1. Made' = Made
    BY DEF SameWorkers, Made
  <1>2. Made \subseteq Ids
    <2>1. \A l \in DOMAIN workers : workers[l] \in Worker
      BY ElementOfSeq, LenProperties DEF OnceInv, TypesOfOnce
    <2> QED BY <2>1 DEF Made, Worker
  <1>3. TypesOfOnce' /\ Single'
    BY DEF OnceInv, TypesOfOnce, SameWorkers, Single
  <1>4. Spent'
    BY <1>1, <1>2 DEF OnceInv, Spent, RowsGoOn, Ended, EndedNext
  <1>5. \A i \in Ids, r \in Final : Ended(i, r) => EndedNext(i, r)
    BY DEF RowsGoOn, Ended, EndedNext
  <1>6. ToldIsTrue'
    BY <1>5 DEF OnceInv, ToldIsTrue, Ended, EndedNext
  <1>7. ASSUME NEW a \in Actors, job'[a] = job[a]
        PROVE  /\ Before(a)' => Before(a)
               /\ job[a].at = "reporting" => job[a].id \in Ids
    BY <1>7, ActorsAreDaemons DEF Before, Acting, OnceInv, IndInv, Shape
  <1>8. Unspent'
    BY <1>1, <1>7 DEF OnceInv, Unspent, JobsGoOn
  <1>9. ReportsAreTrue'
    BY <1>5, <1>7 DEF OnceInv, ReportsAreTrue, JobsGoOn, Ended, EndedNext
  <1> QED BY <1>3, <1>4, <1>6, <1>8, <1>9 DEF OnceInv

LEMMA UnchangedWorkers == OnceInv /\ UNCHANGED workers => SameWorkers
  BY DEF OnceInv, TypesOfOnce, SameWorkers

LEMMA OnceSteady ==
    ASSUME OnceInv, IndInv', SameWorkers, UNCHANGED <<row, job, told>>
    PROVE  OnceInv'
  BY QuietStep DEF RowsGoOn, JobsGoOn

LEMMA OnceGoingOn ==
    ASSUME OnceInv, IndInv', SameWorkers, NEW a \in Actors, Before(a),
           NEW place \in Places \ {"reporting"}, Goto(a, place), UNCHANGED <<row, told>>
    PROVE  OnceInv'
  <1>1. /\ \A b \in Actors \ {a} : job'[b] = job[b]
        /\ job'[a].at = place /\ job'[a].id = job[a].id
    BY DEF Goto, OnceInv, IndInv, Shape, Jobs
  <1>2. job[a].id \notin Made
    BY DEF OnceInv, Unspent
  <1>3. JobsGoOn
    BY <1>1, <1>2 DEF JobsGoOn
  <1> QED BY <1>3, QuietStep DEF RowsGoOn

LEMMA OnceFinishing ==
    ASSUME OnceInv, IndInv', SameWorkers, NEW a \in Actors, Acting(a), NEW result \in Answers,
           result = "refused" => Before(a), Finish(a, result), UNCHANGED told
    PROVE  OnceInv'
  <1> DEFINE i == job[a].id
             ended == IF a[2] = "automatic" THEN Idle
                      ELSE [at |-> "reporting", id |-> i, answer |-> result]
  <1>1. i \in Ids /\ row[i] = Pending(a[1]) /\ (result = "refused" => i \notin Made)
    BY ActorsAreDaemons DEF OnceInv, IndInv, Shape, Custody, Unspent, Acting
  <1>2. /\ row' = [row EXCEPT ![i] = Terminal(a[1], result)]
        /\ job' = [job EXCEPT ![a] = ended]
    BY <1>1 DEF Finish, End, Pending
  <1>3. /\ \A b \in Actors \ {a} : job'[b] = job[b]
        /\ job'[a] = ended
        /\ \A j \in Ids \ {i} : row'[j] = row[j]
        /\ row'[i].phase = "terminal" /\ row'[i].result = result
    BY <1>1, <1>2 DEF OnceInv, IndInv, Shape, Terminal
  <1>4. RowsGoOn
    BY <1>1, <1>3 DEF RowsGoOn, EndedNext, Pending
  <1>5. /\ ended.at \in {"idle", "reporting"}
        /\ ended.at = "reporting" => ended.id = i /\ ended.answer = result
    BY DEF Idle
  <1> HIDE DEF ended
  <1>6. JobsGoOn
    BY <1>3, <1>5 DEF JobsGoOn, Before, Acting, EndedNext
  <1> QED BY <1>4, <1>6, QuietStep

\* An answer that is neither done nor refused, or that the record bears out.
LEMMA OnceEnding ==
    ASSUME OnceInv, IndInv', SameWorkers, NEW a \in Actors, NEW i, NEW answer,
           End(a, i, answer), answer \in Final => EndedNext(i, answer), RowsGoOn, UNCHANGED told
    PROVE  OnceInv'
  <1> DEFINE ended == IF a[2] = "automatic" THEN Idle
                      ELSE [at |-> "reporting", id |-> i, answer |-> answer]
  <1>1. job' = [job EXCEPT ![a] = ended]
    BY DEF End
  <1>2. /\ \A b \in Actors \ {a} : job'[b] = job[b]
        /\ job'[a] = ended
    BY <1>1 DEF OnceInv, IndInv, Shape
  <1>3. /\ ended.at \in {"idle", "reporting"}
        /\ ended.at = "reporting" => ended.id = i /\ ended.answer = answer
    BY DEF Idle
  <1> HIDE DEF ended
  <1>4. JobsGoOn
    BY <1>2, <1>3 DEF JobsGoOn, Before, Acting
  <1> QED BY <1>4, QuietStep

\* What becomes of the workers there are.
LEMMA AlteredWorkers ==
    ASSUME OnceInv, workers' \in [DOMAIN workers -> Worker],
           \A l \in DOMAIN workers : workers'[l].id = workers[l].id
    PROVE  SameWorkers
  <1>1. DOMAIN workers = 1 .. Len(workers) /\ Len(workers) \in Nat
    BY LenProperties DEF OnceInv, TypesOfOnce
  <1>2. workers' \in Seq(Worker)
    BY <1>1, SeqDef
  <1> QED BY <1>2 DEF SameWorkers

LEMMA WorkersOnFile == OnceInv => \A l \in DOMAIN workers : workers[l] \in Worker
  BY ElementOfSeq, LenProperties DEF OnceInv, TypesOfOnce

LEMMA KillAlters == ASSUME OnceInv, NEW a \in Actors, Kill(a)  PROVE SameWorkers
  <1>1. CASE UNCHANGED workers
    BY <1>1, UnchangedWorkers
  <1>2. ASSUME NEW l, workers' = [workers EXCEPT ![l].live = FALSE, ![l].managed = FALSE]
        PROVE  SameWorkers
    <2>1. workers \in [DOMAIN workers -> Worker]
      BY LenProperties DEF OnceInv, TypesOfOnce
    <2>2. \A k \in DOMAIN workers : workers[k] \in Worker
      BY WorkersOnFile
    <2>3. workers' \in [DOMAIN workers -> Worker] /\ \A k \in DOMAIN workers : workers'[k].id = workers[k].id
      BY <1>2, <2>1, <2>2 DEF Worker
    <2> QED BY <2>3, AlteredWorkers
  <1> QED BY <1>1, <1>2 DEF Kill

LEMMA WorldAlters ==
    ASSUME OnceInv, NEW l \in DOMAIN workers, WorkerExits(l) \/ ObserveExit(l)  PROVE SameWorkers
  <1>1. workers \in [DOMAIN workers -> Worker]
    BY LenProperties DEF OnceInv, TypesOfOnce
  <1>2. \A k \in DOMAIN workers : workers[k] \in Worker
    BY WorkersOnFile
  <1>3. CASE workers' = [workers EXCEPT ![l].live = FALSE]
    <2>1. workers' \in [DOMAIN workers -> Worker] /\ \A k \in DOMAIN workers : workers'[k].id = workers[k].id
      BY <1>1, <1>2, <1>3 DEF Worker
    <2> QED BY <2>1, AlteredWorkers
  <1>4. CASE workers' = [workers EXCEPT ![l].managed = FALSE]
    <2>1. workers' \in [DOMAIN workers -> Worker] /\ \A k \in DOMAIN workers : workers'[k].id = workers[k].id
      BY <1>1, <1>2, <1>4 DEF Worker
    <2> QED BY <2>1, AlteredWorkers
  <1> QED BY <1>3, <1>4 DEF WorkerExits, ObserveExit

LEMMA BootAlters == ASSUME OnceInv, NEW d \in Daemons, Boot(d)  PROVE SameWorkers
  <1>1. \A l \in DOMAIN workers : workers[l] \in Worker
    BY WorkersOnFile
  <1>2. \A l \in DOMAIN workers : [workers[l] EXCEPT !.live = FALSE] \in Worker
                                 /\ [workers[l] EXCEPT !.live = FALSE].id = workers[l].id
    BY <1>1 DEF Worker
  <1>3. workers' = [l \in DOMAIN workers |->
                      IF stage[workers[l].by] = "gone" THEN [workers[l] EXCEPT !.live = FALSE] ELSE workers[l]]
    BY DEF Boot
  <1>4. workers' \in [DOMAIN workers -> Worker] /\ \A k \in DOMAIN workers : workers'[k].id = workers[k].id
    BY <1>1, <1>2, <1>3
  <1> QED BY <1>4, AlteredWorkers

LEMMA OnceLeaving ==
    ASSUME OnceInv, IndInv', SameWorkers, NEW a \in Actors, LeaveUnknown(a), UNCHANGED told
    PROVE  OnceInv'
  BY OnceEnding DEF LeaveUnknown, Final, RowsGoOn

\* The one step that makes a worker: its actor had made none, nor had its id.
LEMMA OnceProducing ==
    ASSUME OnceInv, IndInv', NEW a \in Actors, job[a].at = "producing", Goto(a, "attaching"),
           workers' = Append(workers, [by |-> a[1], id |-> job[a].id, live |-> TRUE, managed |-> TRUE]),
           UNCHANGED <<row, told>>
    PROVE  OnceInv'
  <1> DEFINE i == job[a].id
             new == [by |-> a[1], id |-> i, live |-> TRUE, managed |-> TRUE]
             n == Len(workers)
  <1>1. Acting(a) /\ Before(a) /\ i \in Ids /\ i \notin Made /\ row[i] = Pending(a[1])
    BY ActorsAreDaemons DEF Acting, Before, OnceInv, Unspent, IndInv, Shape, Custody
  <1>2. new \in Worker /\ new.id = i
    BY <1>1, ActorsAreDaemons DEF Worker
  <1>3. workers \in Seq(Worker) /\ n \in Nat /\ DOMAIN workers = 1 .. n
    BY LenProperties DEF OnceInv, TypesOfOnce
  <1> HIDE DEF new
  <1>4. /\ workers' \in Seq(Worker) /\ DOMAIN workers' = 1 .. n + 1
        /\ workers'[n + 1] = new
        /\ \A l \in 1 .. n : workers'[l] = workers[l]
    BY <1>2, <1>3 DEF new
  <1> HIDE DEF n
  <1>5. DOMAIN workers' = DOMAIN workers \cup {n + 1} /\ n + 1 \notin DOMAIN workers
    BY <1>3, <1>4
  <1>6. Made' = Made \cup {i}
    BY <1>2, <1>3, <1>4, <1>5 DEF Made
  <1>7. Single'
    <2>1. \A l \in DOMAIN workers : workers'[l].id = workers[l].id /\ workers[l].id # i
      BY <1>1, <1>3, <1>4 DEF Made
    <2> QED BY <1>2, <1>4, <1>5, <2>1 DEF OnceInv, Single
  <1>8. Spent'
    BY <1>1, <1>6 DEF OnceInv, Spent, Ended, Pending
  <1>9. /\ \A b \in Actors \ {a} : job'[b] = job[b]
        /\ job'[a].at = "attaching"
    BY DEF Goto, OnceInv, IndInv, Shape, Jobs
  <1>10. Unspent'
    <2> SUFFICES ASSUME NEW b \in Actors, Before(b)'  PROVE job'[b].id \notin Made'
      BY DEF Unspent
    <2>1. b # a /\ Before(b) /\ Acting(b) /\ job'[b] = job[b]
      BY <1>9 DEF Before, Acting
    <2>2. FALSE
      BY <1>1, <2>1, OneActs DEF OneActor, OnceInv
    <2> QED BY <2>2
  <1>11. ReportsAreTrue' /\ ToldIsTrue'
    BY <1>9 DEF OnceInv, ReportsAreTrue, ToldIsTrue, Ended
  <1>12. TypesOfOnce'
    BY <1>4 DEF OnceInv, TypesOfOnce
  <1> QED BY <1>7, <1>8, <1>10, <1>11, <1>12 DEF OnceInv

LEMMA OnceClaim ==
    ASSUME OnceInv, IndInv', NEW d \in Daemons, NEW r \in Requests, Claim(d, r)  PROVE OnceInv'
  <1> DEFINE a == <<d, "lifecycle">>
             next == [at |-> "reading", id |-> r, answer |-> "none"]
  <1>1. a \in Actors /\ r \in Ids /\ row \in [Ids -> Rows] /\ job \in [Actors -> Jobs]
    BY DEF Actors, Ids, OnceInv, IndInv, Shape
  <1>2. SameWorkers /\ UNCHANGED told
    BY UnchangedWorkers DEF Claim, world
  <1>3. CASE ~Fresh(r) /\ End(a, r, Receipt(r)) /\ UNCHANGED row
    <2>1. Receipt(r) \in Final => EndedNext(r, Receipt(r))
      BY <1>1, <1>3 DEF Receipt, Final, EndedNext, Rows, Fresh
    <2>2. RowsGoOn
      BY <1>3 DEF RowsGoOn
    <2> HIDE DEF a
    <2> QED BY <1>1, <1>2, <1>3, <2>1, <2>2, OnceEnding
  <1>4. CASE /\ Fresh(r) /\ ReserveRefuses(r)
             /\ row' = [row EXCEPT ![r] = Terminal(d, "refused")]
             /\ End(a, r, "refused")
    <2>1. /\ EndedNext(r, "refused") /\ row[r].phase = "none"
          /\ \A j \in Ids \ {r} : row'[j] = row[j]
      BY <1>1, <1>4 DEF EndedNext, Terminal, Fresh
    <2>2. RowsGoOn
      BY <1>1, <2>1 DEF RowsGoOn, EndedNext, OnceInv, Spent
    <2> HIDE DEF a
    <2> QED BY <1>1, <1>2, <1>4, <2>1, <2>2, OnceEnding
  <1>5. CASE /\ Fresh(r) /\ ~ReserveRefuses(r)
             /\ row' = [row EXCEPT ![r] = Pending(d)]
             /\ job' = [job EXCEPT ![a] = next]
    <2>1. /\ row[r].phase = "none" /\ row'[r].phase = "pending"
          /\ \A j \in Ids \ {r} : row'[j] = row[j]
      BY <1>1, <1>5 DEF Pending, Fresh
    <2>2. RowsGoOn /\ r \notin Made
      BY <2>1 DEF RowsGoOn, EndedNext, OnceInv, Spent
    <2>3. JobsGoOn
      BY <1>1, <1>5, <2>2 DEF JobsGoOn
    <2> QED BY <1>2, <2>2, <2>3, QuietStep
  <1> QED BY <1>3, <1>4, <1>5 DEF Claim

LEMMA OnceAutomaticTake ==
    ASSUME OnceInv, IndInv', NEW d \in Daemons, NEW i \in Automatics, AutomaticTake(d, i)  PROVE OnceInv'
  <1> DEFINE a == <<d, "automatic">>
             next == [at |-> "admitting", id |-> i, answer |-> "none"]
  <1>1. a \in Actors /\ a[2] = "automatic" /\ job \in [Actors -> Jobs]
    BY DEF Actors, OnceInv, IndInv, Shape
  <1>2. SameWorkers /\ UNCHANGED <<told, row>>
    BY UnchangedWorkers DEF AutomaticTake
  <1>3. job' = [job EXCEPT ![a] = next] \/ job' = [job EXCEPT ![a] = Idle]
    BY DEF AutomaticTake
  <1>4. /\ \A b \in Actors \ {a} : job'[b] = job[b]
        /\ job'[a].at = "admitting" \/ job'[a].at = "idle"
    BY <1>1, <1>3 DEF Idle
  <1> HIDE DEF a
  <1>5. JobsGoOn
    BY <1>1, <1>4 DEF JobsGoOn, Before, Acting
  <1> QED BY <1>2, <1>5, QuietStep DEF RowsGoOn

LEMMA OnceAutomaticAdmit ==
    ASSUME OnceInv, IndInv', NEW a \in Actors, AutomaticAdmit(a)  PROVE OnceInv'
  <1> DEFINE i == job[a].id
  <1>1. /\ a[2] = "automatic" /\ job[a].at = "admitting" /\ i \in Ids
        /\ row \in [Ids -> Rows] /\ job \in [Actors -> Jobs]
    BY ActorsAreDaemons DEF AutomaticAdmit, OnceInv, IndInv, Shape
  <1>2. SameWorkers /\ UNCHANGED told
    BY UnchangedWorkers DEF AutomaticAdmit, world
  \* An automatic start that ends reports to nobody.
  <1>3. CASE End(a, i, "refused") /\ RowsGoOn
    <2>1. /\ \A b \in Actors \ {a} : job'[b] = job[b]
          /\ job'[a].at = "idle"
      BY <1>1, <1>3 DEF End, Idle
    <2>2. JobsGoOn
      BY <2>1 DEF JobsGoOn, Before, Acting
    <2> QED BY <1>2, <1>3, <2>2, QuietStep
  <1>4. UNCHANGED row => RowsGoOn
    BY DEF RowsGoOn
  <1>5. ASSUME Fresh(i), row' = [row EXCEPT ![i] = Terminal(a[1], "refused")]  PROVE RowsGoOn
    <2>1. /\ row[i].phase = "none" /\ row'[i].phase = "terminal"
          /\ \A j \in Ids \ {i} : row'[j] = row[j]
      BY <1>1, <1>5 DEF Terminal, Fresh
    <2> QED BY <2>1 DEF RowsGoOn, OnceInv, Spent
  <1>6. CASE Fresh(i) /\ row' = [row EXCEPT ![i] = Pending(a[1])] /\ Goto(a, "producing")
    <2>1. /\ row[i].phase = "none" /\ row'[i].phase = "pending"
          /\ \A j \in Ids \ {i} : row'[j] = row[j]
      BY <1>1, <1>6 DEF Pending, Fresh
    <2>2. RowsGoOn /\ i \notin Made
      BY <2>1 DEF RowsGoOn, EndedNext, OnceInv, Spent
    <2>3. /\ \A b \in Actors \ {a} : job'[b] = job[b]
          /\ job'[a].at = "producing" /\ job'[a].id = i
      BY <1>1, <1>6 DEF Goto, Jobs
    <2>4. JobsGoOn
      BY <2>2, <2>3 DEF JobsGoOn
    <2> QED BY <1>2, <2>2, <2>4, QuietStep
  <1> QED BY <1>3, <1>4, <1>5, <1>6 DEF AutomaticAdmit

LEMMA OnceReport == ASSUME OnceInv, IndInv', NEW a \in Actors, Report(a)  PROVE OnceInv'
  <1> DEFINE i == job[a].id
             r == job[a].answer
  <1>1. /\ job' = [job EXCEPT ![a] = Idle] /\ UNCHANGED <<workers, row>>
        /\ job[a].at = "reporting" /\ i \in Ids /\ r \in Answers \cup {"none"}
    BY ActorsAreDaemons DEF Report, OnceInv, IndInv, Shape, Jobs
  <1>2. /\ \A b \in Actors \ {a} : job'[b] = job[b]
        /\ job'[a].at = "idle"
    BY <1>1 DEF OnceInv, IndInv, Shape, Idle
  <1>3. CASE UNCHANGED told
    <2>1. SameWorkers
      BY <1>1, UnchangedWorkers
    <2>2. JobsGoOn /\ RowsGoOn
      BY <1>1, <1>2 DEF JobsGoOn, RowsGoOn, Before, Acting
    <2> QED BY <1>3, <2>1, <2>2, QuietStep
  <1>4. CASE told' = [told EXCEPT ![i] = @ \cup {r}]
    <2>1. \A b \in Actors : (Before(b)' => Before(b) /\ b # a) /\ (job'[b].at = "reporting" => b # a)
      BY <1>2 DEF Before, Acting
    <2>2. Made' = Made
      BY <1>1 DEF Made
    <2>3. Single' /\ Spent' /\ Unspent' /\ ReportsAreTrue'
      BY <1>1, <1>2, <2>1, <2>2 DEF OnceInv, Single, Spent, Unspent, ReportsAreTrue, Ended
    <2>4. \A q \in Final : r = q => Ended(i, q)
      BY <1>1 DEF OnceInv, ReportsAreTrue
    <2>5. ToldIsTrue'
      BY <1>1, <1>4, <2>4 DEF OnceInv, TypesOfOnce, ToldIsTrue, Ended
    <2>6. TypesOfOnce'
      BY <1>1, <1>4 DEF OnceInv, TypesOfOnce
    <2> QED BY <2>3, <2>5, <2>6 DEF OnceInv
  <1> QED BY <1>3, <1>4 DEF Report

LEMMA OnceWork == ASSUME OnceInv, IndInv', NEW a \in Actors, Work(a)  PROVE OnceInv'
  <1>1. CASE Read(a)
    <2>1. Before(a) /\ Acting(a) /\ SameWorkers /\ UNCHANGED told
      BY <1>1, UnchangedWorkers DEF Read, Before, Acting, world
    <2>2. CASE \E result \in Answers : Finish(a, result)
      BY <2>1, <2>2, OnceFinishing
    <2>3. CASE UNCHANGED row /\ \E place \in {"locking", "building"} : Goto(a, place)
      BY <2>1, <2>3, OnceGoingOn DEF Places
    <2> QED BY <1>1, <2>2, <2>3 DEF Read, Answers
  <1>2. CASE Locked(a)
    <2>1. Before(a) /\ Acting(a) /\ SameWorkers /\ UNCHANGED told
      BY <1>2, UnchangedWorkers DEF Locked, Before, Acting, world
    <2>2. CASE \E result \in Answers : Finish(a, result)
      BY <2>1, <2>2, OnceFinishing
    <2>3. CASE UNCHANGED row /\ \E place \in {"stopped", "killing"} : Goto(a, place)
      BY <2>1, <2>3, OnceGoingOn DEF Places
    <2> QED BY <1>2, <2>2, <2>3 DEF Locked, Answers
  <1>3. CASE Kill(a)
    <2>1. Before(a) /\ SameWorkers /\ UNCHANGED told
      BY <1>3, KillAlters DEF Kill, Before, Acting, world
    <2>2. CASE UNCHANGED row /\ Goto(a, "stopped")
      BY <2>1, <2>2, OnceGoingOn DEF Places
    <2>3. CASE LeaveUnknown(a)
      BY <2>1, <2>3, OnceLeaving
    <2> QED BY <1>3, <2>2, <2>3 DEF Kill
  <1>4. CASE AfterStop(a)
    <2>1. Before(a) /\ Acting(a) /\ SameWorkers /\ UNCHANGED told
      BY <1>4, UnchangedWorkers DEF AfterStop, Before, Acting, world
    <2>2. CASE \E result \in Answers : Finish(a, result)
      BY <2>1, <2>2, OnceFinishing
    <2>3. CASE UNCHANGED row /\ \E place \in {"removing", "building"} : Goto(a, place)
      BY <2>1, <2>3, OnceGoingOn DEF Places
    <2> QED BY <1>4, <2>2, <2>3 DEF AfterStop, Answers
  <1>5. CASE Remove(a)
    <2>1. Before(a) /\ Acting(a) /\ SameWorkers /\ UNCHANGED told
      BY <1>5, UnchangedWorkers DEF Remove, Before, Acting, world
    <2>2. CASE \E result \in Answers : Finish(a, result)
      BY <2>1, <2>2, OnceFinishing
    <2>3. CASE UNCHANGED row /\ \E place \in {"removed"} : Goto(a, place)
      BY <2>1, <2>3, OnceGoingOn DEF Places
    <2> QED BY <1>5, <2>2, <2>3 DEF Remove, Answers
  <1>6. CASE Removed(a)
    <2>1. Before(a) /\ Acting(a) /\ SameWorkers /\ UNCHANGED told
      BY <1>6, UnchangedWorkers DEF Removed, Before, Acting, world
    <2>2. CASE \E result \in Answers : Finish(a, result)
      BY <2>1, <2>2, OnceFinishing
    <2> QED BY <1>6, <2>2 DEF Removed, Answers
  <1>7. CASE Build(a)
    <2>1. Before(a) /\ Acting(a) /\ SameWorkers /\ UNCHANGED told
      BY <1>7, UnchangedWorkers DEF Build, Before, Acting, world
    <2>2. CASE \E result \in Answers : Finish(a, result)
      BY <2>1, <2>2, OnceFinishing
    <2>3. CASE UNCHANGED row /\ \E place \in {"admitting"} : Goto(a, place)
      BY <2>1, <2>3, OnceGoingOn DEF Places
    <2> QED BY <1>7, <2>2, <2>3 DEF Build, Answers
  <1>8. CASE Admit(a)
    <2>1. Before(a) /\ Acting(a) /\ SameWorkers /\ UNCHANGED told
      BY <1>8, UnchangedWorkers DEF Admit, Before, Acting, world
    <2>2. CASE \E result \in Answers : Finish(a, result)
      BY <2>1, <2>2, OnceFinishing
    <2>3. CASE UNCHANGED row /\ \E place \in {"producing"} : Goto(a, place)
      BY <2>1, <2>3, OnceGoingOn DEF Places
    <2> QED BY <1>8, <2>2, <2>3 DEF Admit, Answers
  <1>9. CASE AutomaticAdmit(a)
    BY <1>9, OnceAutomaticAdmit
  <1>10. CASE Produce(a)
    <2>1. Before(a) /\ Acting(a) /\ UNCHANGED told /\ job[a].at = "producing"
      BY <1>10 DEF Produce, Before, Acting, world
    <2>2. CASE UNCHANGED workers /\ Finish(a, "refused")
      BY <2>1, <2>2, UnchangedWorkers, OnceFinishing DEF Answers
    <2>3. CASE UNCHANGED workers /\ LeaveUnknown(a)
      BY <2>1, <2>3, UnchangedWorkers, OnceLeaving
    <2>4. CASE /\ workers' = Append(workers, [by |-> a[1], id |-> job[a].id, live |-> TRUE, managed |-> TRUE])
               /\ Goto(a, "attaching") /\ UNCHANGED row
      BY <2>1, <2>4, OnceProducing
    <2> QED BY <1>10, <2>2, <2>3, <2>4 DEF Produce
  <1>11. CASE Attach(a)
    <2>1. Acting(a) /\ SameWorkers /\ UNCHANGED told
      BY <1>11, UnchangedWorkers DEF Attach, Acting, world
    <2>2. CASE Finish(a, "done")
      BY <2>1, <2>2, OnceFinishing DEF Answers
    <2>3. CASE LeaveUnknown(a)
      BY <2>1, <2>3, OnceLeaving
    <2> QED BY <1>11, <2>2, <2>3 DEF Attach
  <1>12. CASE LockTimeout(a)
    <2>1. SameWorkers /\ UNCHANGED told
      BY <1>12, UnchangedWorkers DEF LockTimeout, world
    <2>2. CASE job[a].at = "locking" /\ Finish(a, "refused")
      BY <2>1, <2>2, OnceFinishing DEF Before, Acting, Answers
    <2>3. CASE LeaveUnknown(a)
      BY <2>1, <2>3, OnceLeaving
    <2> QED BY <1>12, <2>2, <2>3 DEF LockTimeout
  <1>13. CASE Report(a)
    BY <1>13, OnceReport
  <1> QED BY <1>1, <1>2, <1>3, <1>4, <1>5, <1>6, <1>7, <1>8, <1>9, <1>10, <1>11, <1>12, <1>13 DEF Work

LEMMA OnceLeave == ASSUME OnceInv, IndInv', NEW d \in Daemons, Leave(d)  PROVE OnceInv'
  <1>1. /\ job' = [a \in Actors |-> IF a[1] = d THEN Idle ELSE job[a]]
        /\ UNCHANGED <<row, told>> /\ SameWorkers
    BY UnchangedWorkers DEF Leave
  <1>2. \A a \in Actors : job'[a] = job[a] \/ job'[a].at = "idle"
    BY <1>1 DEF Idle
  <1>3. JobsGoOn /\ RowsGoOn
    BY <1>1, <1>2 DEF JobsGoOn, RowsGoOn, Before, Acting
  <1> QED BY <1>1, <1>3, QuietStep

LEMMA OnceBoot == ASSUME OnceInv, IndInv', NEW d \in Daemons, Boot(d)  PROVE OnceInv'
  <1>1. SameWorkers /\ UNCHANGED <<job, told>> /\ (row' = Settled \/ UNCHANGED row)
    BY BootAlters DEF Boot
  <1>2. RowsGoOn
    BY <1>1 DEF RowsGoOn, Settled, Terminal, EndedNext
  <1> QED BY <1>1, <1>2, QuietStep DEF JobsGoOn

LEMMA OnceInit == Init => OnceInv
  <1> SUFFICES ASSUME Init PROVE OnceInv
    OBVIOUS
  <1>1. workers = <<>> /\ workers \in Seq(Worker) /\ Made = {}
    BY DEF Init, Made
  <1>2. \A a \in Actors : job[a].at = "idle"
    BY DEF Init, Idle
  <1>3. told \in [Ids -> SUBSET (Answers \cup {"none"})] /\ \A i \in Ids : told[i] = {}
    BY DEF Init
  <1>4. Single
    BY <1>1 DEF Single
  <1> QED BY <1>1, <1>2, <1>3, <1>4, InitHolds
          DEF OnceInv, TypesOfOnce, Spent, Unspent, ReportsAreTrue, ToldIsTrue, Before, Acting

LEMMA OnceStep == OnceInv /\ [Next]_vars => OnceInv'
  <1> SUFFICES ASSUME OnceInv, [Next]_vars  PROVE OnceInv'
    OBVIOUS
  <1>1. IndInv'
    BY StepHolds DEF OnceInv
  <1>2. ASSUME NEW i \in Ids, Ask(i)  PROVE OnceInv'
    BY <1>1, <1>2, UnchangedWorkers, OnceSteady DEF Ask
  <1>3. ASSUME NEW l \in DOMAIN workers, WorkerExits(l) \/ ObserveExit(l)  PROVE OnceInv'
    BY <1>1, <1>3, WorldAlters, OnceSteady DEF WorkerExits, ObserveExit, world
  <1>4. CASE Edit
    BY <1>1, <1>4, UnchangedWorkers, OnceSteady DEF Edit
  <1>5. ASSUME NEW d \in Daemons, Drain(d)  PROVE OnceInv'
    BY <1>1, <1>5, UnchangedWorkers, OnceSteady DEF Drain
  <1>6. CASE UNCHANGED vars
    BY <1>1, <1>6, UnchangedWorkers, OnceSteady DEF vars
  <1> QED BY <1>1, <1>2, <1>3, <1>4, <1>5, <1>6,
             OnceClaim, OnceAutomaticTake, OnceWork, OnceLeave, OnceBoot DEF Next

LEMMA OnceImplies == OnceInv => ExecutedOnce
  <1> SUFFICES ASSUME OnceInv, NEW i \in Ids
               PROVE  LET made == {l \in DOMAIN workers : workers[l].id = i} IN
                      /\ Cardinality(made) <= 1
                      /\ "refused" \in told[i] => made = {} /\ "done" \notin told[i]
    BY DEF ExecutedOnce
  <1> DEFINE made == {l \in DOMAIN workers : workers[l].id = i}
  <1>1. Cardinality(made) <= 1
    <2>1. CASE made = {}
      BY <2>1, FS_EmptySet
    <2>2. ASSUME NEW l \in made  PROVE made = {l}
      BY DEF OnceInv, Single
    <2>3. ASSUME NEW l \in made  PROVE Cardinality(made) = 1
      BY <2>2, FS_Singleton
    <2> QED BY <2>1, <2>3
  <1>2. ASSUME "refused" \in told[i]  PROVE made = {} /\ "done" \notin told[i]
    <2>1. Ended(i, "refused")
      BY <1>2 DEF OnceInv, ToldIsTrue, Final
    <2>2. i \notin Made
      BY <2>1 DEF OnceInv, Spent
    <2>3. made = {}
      BY <2>2 DEF Made
    <2>4. "done" \notin told[i]
      BY <2>1 DEF OnceInv, ToldIsTrue, Final, Ended
    <2> QED BY <2>3, <2>4
  <1> QED BY <1>1, <1>2

\* A request makes at most one worker, however often and by whichever daemon it
\* is claimed; one that was refused made none and is never also called done.
THEOREM ExecutesOnce == Spec => []ExecutedOnce
  <1>1. Spec => []OnceInv
    BY OnceInit, OnceStep, PTL DEF Spec
  <1> QED BY <1>1, OnceImplies, PTL

-----------------------------------------------------------------------------
(* The operator is obeyed. *)

\* No worker under a daemon that runs.
Halted == \A l \in DOMAIN workers : workers[l].live => stage[workers[l].by] # "up"

OffDuty == held \/ definition = 0

\* What was asked is of a definition, and of one lifetime or none.
IsAsked(i) ==
    /\ ask[i].revision \in Nat \ {0}
    /\ ask[i].action \in (IF i \in Automatics THEN {"automatic"} ELSE Actions)
    /\ ask[i].lifetime \subseteq DOMAIN workers
    /\ \A l, m \in ask[i].lifetime : l = m

AskedIsWhole ==
    /\ ask = [i \in Ids |-> ask[i]] /\ open = [i \in Ids |-> open[i]] /\ definition \in Nat
    /\ \A i \in Ids : open[i] # "unasked" => IsAsked(i)
    /\ \A i \in Ids : row[i].phase # "none" => open[i] # "unasked"
    /\ \A a \in Actors : job[a].at # "idle" => open[job[a].id] # "unasked"

\* A daemon that came up has no predecessor that runs; only those that came up
\* have workers, and of those none that lives is unknown to its host.
DaemonsFollow ==
    \A d \in Daemons : stage[d] # "off" => \A e \in Daemons : e < d => stage[e] \in {"draining", "gone"}

WorkersAreKnown ==
    \A l \in DOMAIN workers : stage[workers[l].by] # "off" /\ (workers[l].live => workers[l].managed)

\* While a request is pending no later daemon makes a worker.
PendingIsLatest ==
    \A i \in Requests : row[i].phase = "pending" =>
        \A l \in DOMAIN workers : workers[l].by <= row[i].owner

Lifetime(a) == ask[job[a].id].lifetime
AfterEffect == {"stopped", "removing", "removed", "building", "admitting", "producing"}

\* What an actor that acts has seen to so far.
Works(a) ==
    /\ a[2] = "automatic" =>
         job[a].at \in {"producing", "attaching"} /\ ~ held /\ definition # 0
    /\ a[2] = "lifecycle" =>
         /\ job[a].at \in {"reading", "locking", "killing"} => (OffDuty => Halted)
         /\ job[a].at \in AfterEffect => Halted
         /\ job[a].at \in {"producing", "attaching"} => definition # 0
         /\ job[a].at = "killing" => Known(a[1]) \subseteq Lifetime(a)
         /\ job[a].at \in {"killing", "stopped"} => Action(a) \in StopActions
         /\ job[a].at \in {"removing", "removed"} => Action(a) = "delete"
         /\ job[a].at \in {"building", "admitting", "producing", "attaching"} => Action(a) \in {"start", "restart"}
         /\ job[a].at \in AfterEffect \cup {"attaching"} /\ Action(a) \in StopActions =>
              \A l \in Lifetime(a) : ~ workers[l].live
         /\ job[a].at = "attaching" => job[a].id \in Made
         /\ job[a].at = "removed" => definition = 0

WorkIsInOrder == \A a \in Actors : Acting(a) => Works(a)

\* What a request that is done has done.
WasDone(i) ==
    /\ ask[i].action \in StopActions => \A l \in ask[i].lifetime : ~ workers[l].live
    /\ ask[i].action = "restart" => i \in Made
    /\ ask[i].action = "delete" => definition = 0

DoneIsDone == \A i \in Ids : Ended(i, "done") => WasDone(i)

ObeyInv ==
    /\ OnceInv /\ AskedIsWhole /\ DaemonsFollow /\ WorkersAreKnown /\ PendingIsLatest
    /\ WorkIsInOrder /\ DoneIsDone /\ HeldIsStopped

World == AskedIsWhole /\ DaemonsFollow /\ WorkersAreKnown /\ PendingIsLatest

\* Nobody is made, nobody comes back to life, and who lives is still known.
WorkersGoOn ==
    /\ DOMAIN workers' = DOMAIN workers
    /\ \A l \in DOMAIN workers :
         /\ workers'[l].by = workers[l].by /\ workers'[l].id = workers[l].id
         /\ workers'[l].live => workers[l].live /\ workers'[l].managed
         /\ workers'[l].managed => workers[l].managed

LEMMA ObeyUnchangedWorkers == ObeyInv /\ UNCHANGED workers => WorkersGoOn
  BY DEF ObeyInv, WorkersAreKnown, WorkersGoOn

\* What an actor at work may rely on.
LEMMA AtWork ==
    ASSUME ObeyInv, NEW a \in Actors, Acting(a)
    PROVE  /\ a[1] \in Daemons /\ a[2] \in {"lifecycle", "automatic"}
           /\ job[a].id \in Own(a) /\ job[a].id \in Ids
           /\ row[job[a].id] = Pending(a[1]) /\ Reserved
           /\ stage[a[1]] \in {"up", "draining"}
           /\ open[job[a].id] # "unasked" /\ IsAsked(job[a].id)
           /\ Works(a)
           /\ \A b \in Actors \ {a} : ~Acting(b)
  <1>1. a[1] \in Daemons /\ a[2] \in {"lifecycle", "automatic"} /\ Own(a) \subseteq Ids
    BY ActorsAreDaemons
  <1>2. IndInv /\ AskedIsWhole /\ WorkIsInOrder /\ job[a].at # "idle"
    BY DEF ObeyInv, OnceInv, Acting
  <1>3. job[a].id \in Own(a) /\ job[a].id \in Ids /\ stage[a[1]] \in {"up", "draining"}
    BY <1>1, <1>2 DEF IndInv, Shape, Runs
  <1>4. row[job[a].id] = Pending(a[1]) /\ \A b \in Actors \ {a} : ~Acting(b)
    BY <1>2, OneActs DEF OneActor
  <1>5. Reserved
    BY <1>3, <1>4 DEF Reserved, Pending
  <1>6. open[job[a].id] # "unasked" /\ IsAsked(job[a].id)
    BY <1>2, <1>3 DEF AskedIsWhole
  <1> QED BY <1>1, <1>2, <1>3, <1>4, <1>5, <1>6 DEF WorkIsInOrder

\* A request in hand: what lives under a daemon that runs, the host of the
\* actor's own daemon knows, since no later daemon made a worker meanwhile.
LEMMA OnlyKnownLive ==
    ASSUME ObeyInv, NEW a \in Actors, Acting(a), a[2] = "lifecycle",
           NEW l \in DOMAIN workers, workers[l].live, stage[workers[l].by] = "up"
    PROVE  l \in Known(a[1])
  <1> DEFINE o == workers[l].by
             d == a[1]
  <1>1. d \in Daemons /\ job[a].id \in Requests /\ row[job[a].id] = Pending(d) /\ stage[d] # "off"
    BY AtWork DEF Own
  <1>2. o \in Daemons
    BY WorkersOnFile DEF ObeyInv, Worker
  <1>3. workers[l].managed
    BY DEF ObeyInv, WorkersAreKnown
  <1>4. o <= d
    BY <1>1 DEF ObeyInv, PendingIsLatest, Pending
  <1>5. o # d => o < d
    BY <1>1, <1>2, <1>4, ConstantsAssumption DEF Daemons
  <1>6. o < d => stage[o] \in {"draining", "gone"}
    BY <1>1, <1>2 DEF ObeyInv, DaemonsFollow
  <1>7. o = d
    BY <1>5, <1>6
  <1> QED BY <1>3, <1>7 DEF Known

LEMMA NobodyKnown ==
    ASSUME ObeyInv, NEW a \in Actors, Acting(a), a[2] = "lifecycle", Known(a[1]) = {}
    PROVE  Halted
  BY OnlyKnownLive DEF Halted

\* What was done stays done.
LEMMA DoneStays ==
    ASSUME ObeyInv, NEW i \in Ids, IsAsked(i), WasDone(i), ask'[i] = ask[i],
           DOMAIN workers \subseteq DOMAIN workers',
           \A l \in DOMAIN workers : workers'[l].id = workers[l].id /\ (workers'[l].live => workers[l].live),
           definition = 0 => definition' = 0
    PROVE  WasDone(i)'
  <1>1. Made \subseteq Made'
    BY DEF Made
  <1>2. ask[i].lifetime \subseteq DOMAIN workers
    BY DEF IsAsked
  <1> QED BY <1>1, <1>2 DEF WasDone

\* Work in hand is in order as long as nothing it has seen to is undone.
LEMMA WorkStays ==
    ASSUME ObeyInv, NEW a \in Actors, Acting(a), job'[a] = job[a], ask'[job[a].id] = ask[job[a].id],
           WorkersGoOn, UNCHANGED held, definition = 0 <=> definition' = 0, Halted => Halted'
    PROVE  Works(a)'
  <1>1. Works(a) /\ IsAsked(job[a].id)
    BY AtWork
  <1>2. OffDuty' => OffDuty
    BY DEF OffDuty
  <1>3. Known(a[1])' \subseteq Known(a[1])
    BY DEF Known, WorkersGoOn
  <1>4. Action(a)' = Action(a) /\ Lifetime(a)' = Lifetime(a)
    BY DEF Action, Lifetime
  <1>5. \A l \in Lifetime(a) : ~ workers[l].live => ~ workers'[l].live
    BY <1>1 DEF Lifetime, IsAsked, WorkersGoOn
  <1>6. Made' = Made
    BY DEF Made, WorkersGoOn
  <1>7. ASSUME a[2] = "automatic"
        PROVE  job'[a].at \in {"producing", "attaching"} /\ ~ held' /\ definition' # 0
    BY <1>1, <1>7 DEF Works
  <1>8. ASSUME a[2] = "lifecycle"
        PROVE  /\ job'[a].at \in {"reading", "locking", "killing"} => (OffDuty' => Halted')
               /\ job'[a].at \in AfterEffect => Halted'
               /\ job'[a].at \in {"producing", "attaching"} => definition' # 0
               /\ job'[a].at = "killing" => Known(a[1])' \subseteq Lifetime(a)'
               /\ job'[a].at = "attaching" => job'[a].id \in Made'
               /\ job'[a].at = "removed" => definition' = 0
    BY <1>1, <1>2, <1>3, <1>4, <1>6, <1>8 DEF Works
  <1>9. ASSUME a[2] = "lifecycle"
        PROVE  /\ job'[a].at \in {"killing", "stopped"} => Action(a)' \in StopActions
               /\ job'[a].at \in {"removing", "removed"} => Action(a)' = "delete"
               /\ job'[a].at \in {"building", "admitting", "producing", "attaching"} => Action(a)' \in {"start", "restart"}
    BY <1>1, <1>4, <1>9 DEF Works
  <1>10. ASSUME a[2] = "lifecycle", job'[a].at \in AfterEffect \cup {"attaching"}, Action(a)' \in StopActions
         PROVE  \A l \in Lifetime(a)' : ~ workers'[l].live
    BY <1>1, <1>4, <1>5, <1>10 DEF Works
  <1> QED BY <1>7, <1>8, <1>9, <1>10 DEF Works, AfterEffect

\* A step of the world, or of an actor that is not at work.
LEMMA Around ==
    ASSUME ObeyInv, OnceInv', World', WorkersGoOn, UNCHANGED held,
           definition = 0 <=> definition' = 0, Halted => Halted',
           \A i \in Ids : open[i] # "unasked" => ask'[i] = ask[i],
           \A a \in Actors : Acting(a)' => job'[a] = job[a] /\ Acting(a),
           \A i \in Ids : Ended(i, "done")' => Ended(i, "done"),
           Reserved => Reserved' \/ Halted'
    PROVE  ObeyInv'
  <1>1. WorkIsInOrder'
    <2> SUFFICES ASSUME NEW a \in Actors, Acting(a)'  PROVE Works(a)'
      BY DEF WorkIsInOrder
    <2>1. Acting(a) /\ job'[a] = job[a]
      OBVIOUS
    <2>2. ask'[job[a].id] = ask[job[a].id]
      BY <2>1, AtWork
    <2> QED BY <2>1, <2>2, WorkStays
  <1>2. DoneIsDone'
    <2> SUFFICES ASSUME NEW i \in Ids, Ended(i, "done")'  PROVE WasDone(i)'
      BY DEF DoneIsDone
    <2>1. Ended(i, "done") /\ WasDone(i)
      BY DEF ObeyInv, DoneIsDone
    <2>2. open[i] # "unasked" /\ IsAsked(i)
      BY <2>1 DEF ObeyInv, AskedIsWhole, Ended
    <2>3. /\ DOMAIN workers \subseteq DOMAIN workers'
          /\ \A l \in DOMAIN workers : workers'[l].id = workers[l].id /\ (workers'[l].live => workers[l].live)
      BY DEF WorkersGoOn
    <2>4. ask'[i] = ask[i]
      BY <2>2
    <2> QED BY <2>1, <2>2, <2>3, <2>4, DoneStays
  <1>3. HeldIsStopped'
    <2>1. HeldIsStopped <=> (OffDuty /\ ~Reserved => Halted)
      BY DEF HeldIsStopped, OffDuty, Halted
    <2>2. HeldIsStopped' <=> (OffDuty' /\ ~Reserved' => Halted')
      BY DEF HeldIsStopped, OffDuty, Halted
    <2>3. OffDuty' => OffDuty
      BY DEF OffDuty
    <2> QED BY <2>1, <2>2, <2>3 DEF ObeyInv
  <1> QED BY <1>1, <1>2, <1>3 DEF ObeyInv, World
\* Nobody is at work while no record is pending.
LEMMA NobodyActs == ASSUME IndInv, ~Reserved  PROVE \A b \in Actors : ~Acting(b)
  <1> SUFFICES ASSUME NEW b \in Actors, Acting(b) PROVE FALSE
    OBVIOUS
  <1>1. job[b].id \in Ids
    BY ActorsAreDaemons DEF IndInv, Shape, Acting
  <1>2. row[job[b].id] = Pending(b[1])
    BY DEF IndInv, Custody
  <1>3. row[job[b].id].phase = "pending"
    BY <1>2 DEF Pending
  <1> QED BY <1>1, <1>3 DEF Reserved

\* A step of the one actor at work, or of one that takes a request up.
LEMMA Ours ==
    ASSUME ObeyInv, OnceInv', World', NEW a \in Actors, \A b \in Actors \ {a} : ~Acting(b) /\ job'[b] = job[b],
           UNCHANGED ask, definition = 0 => definition' = 0,
           DOMAIN workers \subseteq DOMAIN workers',
           \A l \in DOMAIN workers : workers'[l].id = workers[l].id /\ (workers'[l].live => workers[l].live),
           Acting(a)' => Works(a)',
           \A i \in Ids : Ended(i, "done")' => Ended(i, "done") \/ WasDone(i)',
           Reserved' \/ (OffDuty' => Halted')
    PROVE  ObeyInv'
  <1>1. WorkIsInOrder'
    <2> SUFFICES ASSUME NEW b \in Actors, Acting(b)'  PROVE Works(b)'
      BY DEF WorkIsInOrder
    <2>1. b = a
      BY DEF Acting
    <2> QED BY <2>1
  <1>2. DoneIsDone'
    <2> SUFFICES ASSUME NEW i \in Ids, Ended(i, "done")'  PROVE WasDone(i)'
      BY DEF DoneIsDone
    <2>1. CASE WasDone(i)'
      BY <2>1
    <2>2. CASE Ended(i, "done")
      <3>1. WasDone(i)
        BY <2>2 DEF ObeyInv, DoneIsDone
      <3>2. open[i] # "unasked" /\ IsAsked(i)
        BY <2>2 DEF ObeyInv, AskedIsWhole, Ended
      <3> QED BY <3>1, <3>2, DoneStays
    <2> QED BY <2>1, <2>2
  <1>3. HeldIsStopped'
    BY DEF HeldIsStopped, OffDuty, Halted
  <1> QED BY <1>1, <1>2, <1>3 DEF ObeyInv, World

\* The world through a step that changes no daemon and makes no worker.  A
\* request is reserved only by a daemon that is up: no later one came up yet.
LEMMA WorldGoesOn ==
    ASSUME ObeyInv, UNCHANGED <<stage, ask>>, WorkersGoOn, definition' \in Nat,
           open' = [i \in Ids |-> open'[i]], \A i \in Ids : open'[i] = "unasked" <=> open[i] = "unasked",
           \A i \in Ids : row'[i].phase # "none" => row[i].phase # "none" \/ open[i] # "unasked",
           \A i \in Requests : row'[i].phase = "pending" =>
                row'[i] = row[i] \/ (row'[i].owner \in Daemons /\ stage[row'[i].owner] = "up"),
           IndInv', \A a \in Actors : job'[a].at # "idle" =>
                \/ job'[a].id = job[a].id /\ job[a].at # "idle"
                \/ open[job'[a].id] # "unasked"
    PROVE  World'
  <1>1. \A i \in Ids : IsAsked(i) => IsAsked(i)'
    BY DEF IsAsked, WorkersGoOn
  <1>2. AskedIsWhole'
    <2>1. \A a \in Actors : job'[a].at # "idle" => job'[a].id \in Ids
      BY ActorsAreDaemons DEF IndInv, Shape
    <2>2. \A a \in Actors : job'[a].at # "idle" => open'[job'[a].id] # "unasked"
      BY <2>1, ZenonT(30) DEF ObeyInv, AskedIsWhole
    <2>3. \A i \in Ids : open'[i] # "unasked" => IsAsked(i)'
      BY <1>1 DEF ObeyInv, AskedIsWhole
    <2>4. \A i \in Ids : row'[i].phase # "none" => open'[i] # "unasked"
      BY DEF ObeyInv, AskedIsWhole
    <2> QED BY <2>2, <2>3, <2>4 DEF ObeyInv, AskedIsWhole
  <1>3. DaemonsFollow'
    BY DEF ObeyInv, DaemonsFollow
  <1>4. WorkersAreKnown'
    BY DEF ObeyInv, WorkersAreKnown, WorkersGoOn
  <1>5. PendingIsLatest'
    <2> SUFFICES ASSUME NEW i \in Requests, row'[i].phase = "pending", NEW l \in DOMAIN workers
                 PROVE  workers[l].by <= row'[i].owner
      BY DEF PendingIsLatest, WorkersGoOn
    <2>1. CASE row'[i] = row[i]
      BY <2>1 DEF ObeyInv, PendingIsLatest
    <2>2. CASE row'[i].owner \in Daemons /\ stage[row'[i].owner] = "up"
      <3>1. workers[l].by \in Daemons /\ stage[workers[l].by] # "off"
        BY WorkersOnFile DEF ObeyInv, Worker, WorkersAreKnown
      <3>2. ~(row'[i].owner < workers[l].by)
        BY <2>2, <3>1 DEF ObeyInv, DaemonsFollow
      <3> QED BY <2>2, <3>1, <3>2, ConstantsAssumption DEF Daemons
    <2> QED BY <2>1, <2>2
  <1> QED BY <1>2, <1>3, <1>4, <1>5 DEF World

\* An actor that goes on: what its new place calls for is in order.
LEMMA ObeyGoingOn ==
    ASSUME ObeyInv, OnceInv', NEW a \in Actors, Acting(a), NEW place \in Places \ {"idle", "reporting"},
           Goto(a, place), WorkersGoOn, definition' \in Nat, definition = 0 => definition' = 0,
           UNCHANGED <<stage, ask, open, row>>, Works(a)'
    PROVE  ObeyInv'
  <1>1. job \in [Actors -> Jobs] /\ IndInv /\ IndInv'
    BY DEF ObeyInv, OnceInv, IndInv, Shape
  <1>2. /\ \A b \in Actors \ {a} : job'[b] = job[b]
        /\ job'[a].at = place /\ job'[a].id = job[a].id /\ job[a].at # "idle"
    BY <1>1 DEF Goto, Jobs, Acting
  <1>3. World'
    <2>1. open' = [i \in Ids |-> open'[i]]
      BY DEF ObeyInv, AskedIsWhole
    <2>2. \A b \in Actors : job'[b].at # "idle" => job'[b].id = job[b].id /\ job[b].at # "idle"
      BY <1>2
    <2> QED BY <1>1, <2>1, <2>2, WorldGoesOn
  <1>4. Reserved'
    BY AtWork DEF Reserved
  <1>5. \A b \in Actors \ {a} : ~Acting(b) /\ job'[b] = job[b]
    BY <1>2, AtWork
  <1>6. \A i \in Ids : Ended(i, "done")' => Ended(i, "done")
    BY DEF Ended
  <1>7. /\ DOMAIN workers \subseteq DOMAIN workers'
        /\ \A l \in DOMAIN workers : workers'[l].id = workers[l].id /\ (workers'[l].live => workers[l].live)
    BY DEF WorkersGoOn
  <1> QED BY <1>3, <1>4, <1>5, <1>6, <1>7, Ours

\* An actor that ends its work, its record as it was.
LEMMA ObeyLeaving ==
    ASSUME ObeyInv, OnceInv', NEW a \in Actors, Acting(a), LeaveUnknown(a), WorkersGoOn,
           UNCHANGED <<stage, ask, open, definition>>
    PROVE  ObeyInv'
  <1> DEFINE ended == IF a[2] = "automatic" THEN Idle
                      ELSE [at |-> "reporting", id |-> job[a].id, answer |-> "unknown"]
  <1>1. job \in [Actors -> Jobs] /\ IndInv' /\ job' = [job EXCEPT ![a] = ended] /\ UNCHANGED row
    BY DEF ObeyInv, OnceInv, IndInv, Shape, LeaveUnknown, End
  <1>2. /\ \A b \in Actors \ {a} : job'[b] = job[b]
        /\ job'[a] = ended /\ job[a].at # "idle"
    BY <1>1 DEF Acting
  <1>3. ended.at \in {"idle", "reporting"} /\ (ended.at # "idle" => ended.id = job[a].id)
    BY DEF Idle
  <1> HIDE DEF ended
  <1>4. World'
    <2>1. open' = [i \in Ids |-> open'[i]] /\ definition' \in Nat
      BY DEF ObeyInv, AskedIsWhole
    <2>2. \A b \in Actors : job'[b].at # "idle" => job'[b].id = job[b].id /\ job[b].at # "idle"
      BY <1>2, <1>3
    <2> QED BY <1>1, <2>1, <2>2, WorldGoesOn
  <1>5. Reserved' /\ ~Acting(a)'
    BY <1>1, <1>2, <1>3, AtWork DEF Reserved, Acting
  <1>6. \A b \in Actors \ {a} : ~Acting(b) /\ job'[b] = job[b]
    BY <1>2, AtWork
  <1>7. \A i \in Ids : Ended(i, "done")' => Ended(i, "done")
    BY <1>1 DEF Ended
  <1>8. /\ DOMAIN workers \subseteq DOMAIN workers'
        /\ \A l \in DOMAIN workers : workers'[l].id = workers[l].id /\ (workers'[l].live => workers[l].live)
    BY DEF WorkersGoOn
  <1> QED BY <1>4, <1>5, <1>6, <1>7, <1>8, Ours

\* An actor that finishes its record: done is done, and who is off duty is halted.
LEMMA ObeyFinishing ==
    ASSUME ObeyInv, OnceInv', NEW a \in Actors, Acting(a), NEW result \in Answers, Finish(a, result),
           UNCHANGED <<stage, ask, open, definition, workers>>,
           result = "done" => WasDone(job[a].id), OffDuty' => Halted
    PROVE  ObeyInv'
  <1>0. PICK i \in Ids : i = job[a].id
    BY AtWork
  <1> DEFINE ended == IF a[2] = "automatic" THEN Idle
                      ELSE [at |-> "reporting", id |-> i, answer |-> result]
  <1>1. job \in [Actors -> Jobs] /\ row \in [Ids -> Rows] /\ IndInv'
    BY DEF ObeyInv, OnceInv, IndInv, Shape
  <1>2. row[i] = Pending(a[1]) /\ job[a].at # "idle" /\ open[i] # "unasked"
    BY <1>0, AtWork DEF Acting
  <1>3. /\ row' = [row EXCEPT ![i] = Terminal(a[1], result)]
        /\ job' = [job EXCEPT ![a] = ended]
    BY <1>0, <1>2 DEF Finish, End, Pending
  <1>4. /\ \A b \in Actors \ {a} : job'[b] = job[b]
        /\ job'[a] = ended
        /\ \A j \in Ids \ {i} : row'[j] = row[j]
        /\ row'[i].phase = "terminal" /\ row'[i].result = result
    BY <1>1, <1>2, <1>3 DEF Terminal
  <1>5. ended.at \in {"idle", "reporting"} /\ (ended.at # "idle" => ended.id = i)
    BY DEF Idle
  <1> HIDE DEF ended
  <1>6. WorkersGoOn
    BY ObeyUnchangedWorkers
  <1>7. World'
    <2>1. open' = [j \in Ids |-> open'[j]] /\ definition' \in Nat
      BY DEF ObeyInv, AskedIsWhole
    <2>2. \A b \in Actors : job'[b].at # "idle" => job'[b].id = job[b].id /\ job[b].at # "idle"
      BY <1>0, <1>2, <1>4, <1>5
    <2>3. \A j \in Ids : row'[j].phase # "none" => row[j].phase # "none" \/ open[j] # "unasked"
      BY <1>2, <1>4
    <2>4. \A j \in Requests : row'[j].phase = "pending" => row'[j] = row[j]
      BY <1>4 DEF Ids
    <2> QED BY <1>1, <1>6, <2>1, <2>2, <2>3, <2>4, WorldGoesOn
  <1>8. ~Acting(a)'
    BY <1>4, <1>5 DEF Acting
  <1>9. \A b \in Actors \ {a} : ~Acting(b) /\ job'[b] = job[b]
    BY <1>4, AtWork
  <1>10. result = "done" => WasDone(i)'
    <2>1. Made' = Made
      BY DEF Made
    <2>2. result = "done" => WasDone(i)
      BY <1>0
    <2> QED BY <2>1, <2>2 DEF WasDone
  <1>11. \A j \in Ids : Ended(j, "done")' => Ended(j, "done") \/ WasDone(j)'
    <2> SUFFICES ASSUME NEW j \in Ids, Ended(j, "done")'  PROVE Ended(j, "done") \/ WasDone(j)'
      OBVIOUS
    <2>1. CASE j = i
      BY <1>4, <1>10, <2>1 DEF Ended
    <2>2. CASE j # i
      BY <1>4, <2>2 DEF Ended
    <2> QED BY <2>1, <2>2
  <1>12. Halted => Halted'
    BY DEF Halted
  <1>13. /\ DOMAIN workers \subseteq DOMAIN workers'
         /\ \A l \in DOMAIN workers : workers'[l].id = workers[l].id /\ (workers'[l].live => workers[l].live)
    OBVIOUS
  <1> QED BY <1>7, <1>8, <1>9, <1>11, <1>12, <1>13, Ours

\* A step of an actor that is not at work: a request looked at, refused at
\* once, answered again or reported.
LEMMA ObeyIdling ==
    ASSUME ObeyInv, OnceInv', NEW a \in Actors, ~Acting(a), ~Acting(a)',
           \A b \in Actors \ {a} : job'[b] = job[b],
           job'[a].at # "idle" => open[job'[a].id] # "unasked",
           UNCHANGED <<stage, ask, definition, workers, held>>,
           open' = [i \in Ids |-> open'[i]], \A i \in Ids : open'[i] = "unasked" <=> open[i] = "unasked",
           \A i \in Ids : row'[i] = row[i] \/ (Fresh(i) /\ Ended(i, "refused")' /\ open[i] # "unasked")
    PROVE  ObeyInv'
  <1>1. WorkersGoOn /\ IndInv'
    BY ObeyUnchangedWorkers DEF OnceInv
  <1>2. World'
    <2>1. definition' \in Nat
      BY DEF ObeyInv, AskedIsWhole
    <2>2. \A b \in Actors : job'[b].at # "idle" =>
               \/ job'[b].id = job[b].id /\ job[b].at # "idle"
               \/ open[job'[b].id] # "unasked"
      OBVIOUS
    <2>3. \A j \in Ids : row'[j].phase # "none" => row[j].phase # "none" \/ open[j] # "unasked"
      OBVIOUS
    <2>4. \A j \in Requests : row'[j].phase = "pending" => row'[j] = row[j]
      BY DEF Ids, Ended
    <2> QED BY <1>1, <2>1, <2>2, <2>3, <2>4, WorldGoesOn
  <1>3. \A b \in Actors : Acting(b)' => job'[b] = job[b] /\ Acting(b)
    <2> SUFFICES ASSUME NEW b \in Actors, Acting(b)'  PROVE job'[b] = job[b] /\ Acting(b)
      OBVIOUS
    <2>1. b # a
      OBVIOUS
    <2> QED BY <2>1 DEF Acting
  <1>4. \A i \in Ids : Ended(i, "done")' => Ended(i, "done")
    BY DEF Ended
  <1>5. Reserved => Reserved'
    BY DEF Reserved, Fresh
  <1>6. Halted => Halted'
    BY DEF Halted
  <1> QED BY <1>1, <1>2, <1>3, <1>4, <1>5, <1>6, Around

\* A request is taken up while nothing is pending.
LEMMA ObeyTaking ==
    ASSUME ObeyInv, OnceInv', NEW a \in Actors, NEW i \in Own(a), ~Reserved,
           \A b \in Actors \ {a} : job'[b] = job[b], job'[a].id = i, open[i] # "unasked",
           row' = [row EXCEPT ![i] = Pending(a[1])], i \in Requests => stage[a[1]] = "up",
           UNCHANGED <<stage, ask, open, definition, workers, held>>, Works(a)'
    PROVE  ObeyInv'
  <1>1. WorkersGoOn /\ IndInv' /\ IndInv /\ row \in [Ids -> Rows] /\ i \in Ids /\ a[1] \in Daemons
    BY ObeyUnchangedWorkers, ActorsAreDaemons DEF ObeyInv, OnceInv, IndInv, Shape
  <1>2. row'[i] = Pending(a[1]) /\ \A j \in Ids \ {i} : row'[j] = row[j]
    BY <1>1
  <1>3. World'
    <2>1. open' = [j \in Ids |-> open'[j]] /\ definition' \in Nat
      BY DEF ObeyInv, AskedIsWhole
    <2>2. \A b \in Actors : job'[b].at # "idle" =>
               \/ job'[b].id = job[b].id /\ job[b].at # "idle"
               \/ open[job'[b].id] # "unasked"
      OBVIOUS
    <2>3. \A j \in Ids : row'[j].phase # "none" => row[j].phase # "none" \/ open[j] # "unasked"
      BY <1>2
    <2>4. \A j \in Requests : row'[j].phase = "pending" =>
               row'[j] = row[j] \/ (row'[j].owner \in Daemons /\ stage[row'[j].owner] = "up")
      BY <1>1, <1>2 DEF Ids, Pending
    <2> QED BY <1>1, <2>1, <2>2, <2>3, <2>4, WorldGoesOn
  <1>4. \A b \in Actors \ {a} : ~Acting(b) /\ job'[b] = job[b]
    BY <1>1, NobodyActs
  <1>5. \A j \in Ids : Ended(j, "done")' => Ended(j, "done")
    BY <1>2 DEF Ended, Pending
  <1>6. Reserved'
    BY <1>1, <1>2 DEF Reserved, Pending
  <1>7. /\ DOMAIN workers \subseteq DOMAIN workers'
        /\ \A l \in DOMAIN workers : workers'[l].id = workers[l].id /\ (workers'[l].live => workers[l].live)
    OBVIOUS
  <1> QED BY <1>3, <1>4, <1>5, <1>6, <1>7, Ours

LEMMA ObeyClaim ==
    ASSUME ObeyInv, OnceInv', NEW d \in Daemons, NEW r \in Requests, Claim(d, r)  PROVE ObeyInv'
  <1> DEFINE next == [at |-> "reading", id |-> r, answer |-> "none"]
  <1>0. PICK a \in Actors : a = <<d, "lifecycle">>
    BY DEF Actors
  <1>1. a[1] = d /\ a[2] = "lifecycle" /\ r \in Own(a) /\ r \in Ids
    BY <1>0 DEF Own, Ids
  <1>2. /\ stage[d] = "up" /\ job[a] = Idle /\ open[r] = "open" /\ ~Acting(a)
        /\ UNCHANGED <<stage, ask, open, definition, workers, held>>
    BY <1>0 DEF Claim, world, Acting, Idle
  <1>3. /\ job \in [Actors -> Jobs] /\ row \in [Ids -> Rows]
        /\ open' = [i \in Ids |-> open'[i]]
    BY <1>2 DEF ObeyInv, OnceInv, IndInv, Shape, AskedIsWhole
  <1>4. ASSUME NEW answer, End(a, r, answer), \/ UNCHANGED row
                                              \/ Fresh(r) /\ row' = [row EXCEPT ![r] = Terminal(d, "refused")]
        PROVE  ObeyInv'
    <2>1. job'[a] = [at |-> "reporting", id |-> r, answer |-> answer] /\ \A b \in Actors \ {a} : job'[b] = job[b]
      BY <1>1, <1>3, <1>4 DEF End
    <2>2. job'[a].at = "reporting" /\ job'[a].id = r
      BY <2>1
    <2>3. ~Acting(a)'
      BY <2>2 DEF Acting
    <2>4. \A i \in Ids : row'[i] = row[i] \/ (Fresh(i) /\ Ended(i, "refused")' /\ open[i] # "unasked")
      BY <1>1, <1>2, <1>3, <1>4 DEF Ended, Terminal
    <2> QED BY <1>2, <1>3, <2>1, <2>2, <2>3, <2>4, ObeyIdling
  <1>5. CASE /\ Fresh(r) /\ ~ReserveRefuses(r)
             /\ row' = [row EXCEPT ![r] = Pending(d)]
             /\ job' = [job EXCEPT ![a] = next]
    <2>1. job'[a].at = "reading" /\ job'[a].id = r /\ \A b \in Actors \ {a} : job'[b] = job[b]
      BY <1>3, <1>5
    <2>2. ~Reserved
      BY <1>5 DEF ReserveRefuses
    <2>3. OffDuty => Halted
      BY <2>2 DEF ObeyInv, HeldIsStopped, OffDuty, Halted
    <2>4. OffDuty' => Halted'
      BY <1>2, <2>3 DEF OffDuty, Halted
    <2>5. Works(a)'
      BY <1>1, <2>1, <2>4 DEF Works, AfterEffect
    <2> QED BY <1>1, <1>2, <1>5, <2>1, <2>2, <2>5, ObeyTaking
  <1> QED BY <1>0, <1>4, <1>5 DEF Claim

LEMMA ObeyAutomaticTake ==
    ASSUME ObeyInv, OnceInv', NEW d \in Daemons, NEW i \in Automatics, AutomaticTake(d, i)  PROVE ObeyInv'
  <1>1. PICK a \in Actors : a = <<d, "automatic">>
    BY DEF Actors
  <1>2. a[2] = "automatic" /\ i \in Ids
    BY <1>1 DEF Ids
  <1>3. /\ job[a] = Idle /\ open[i] = "open"
        /\ UNCHANGED <<stage, ask, definition, workers, held, row>>
        /\ open' = [open EXCEPT ![i] = "closed"]
    BY <1>1 DEF AutomaticTake
  <1>4. job' = [job EXCEPT ![a] = [at |-> "admitting", id |-> i, answer |-> "none"]] \/ job' = [job EXCEPT ![a] = Idle]
    BY <1>1 DEF AutomaticTake
  <1>5. ~Acting(a)
    BY <1>3 DEF Acting, Idle
  <1>6. job \in [Actors -> Jobs] /\ open = [j \in Ids |-> open[j]]
    BY DEF ObeyInv, OnceInv, IndInv, Shape, AskedIsWhole
  <1>7. open' = [j \in Ids |-> open'[j]] /\ \A j \in Ids : open'[j] = "unasked" <=> open[j] = "unasked"
    <2>1. \A j \in Ids : open'[j] = IF j = i THEN "closed" ELSE open[j]
      BY <1>2, <1>3, <1>6
    <2>2. open' = [j \in Ids |-> open'[j]]
      BY <1>3, <1>6
    <2> QED BY <1>3, <2>1, <2>2
  <1>8. /\ \A b \in Actors \ {a} : job'[b] = job[b]
        /\ job'[a].at = "idle" \/ (job'[a].at = "admitting" /\ job'[a].id = i)
    BY <1>6, <1>4 DEF Idle
  <1>9. ~Acting(a)'
    BY <1>2, <1>8 DEF Acting
  <1> QED BY <1>3, <1>7, <1>8, <1>9, <1>5, ObeyIdling

LEMMA ObeyReport == ASSUME ObeyInv, OnceInv', NEW a \in Actors, Report(a)  PROVE ObeyInv'
  <1>1. PICK i \in Ids : i = job[a].id
    BY ActorsAreDaemons DEF Report, ObeyInv, OnceInv, IndInv, Shape
  <1>2. /\ job[a].at = "reporting" /\ ~Acting(a) /\ open[i] # "unasked"
        /\ UNCHANGED <<stage, ask, definition, workers, held, row>>
        /\ open' = [open EXCEPT ![i] = "closed"] \/ UNCHANGED open
        /\ job' = [job EXCEPT ![a] = Idle]
    BY <1>1 DEF Report, Acting, ObeyInv, AskedIsWhole
  <1>3. job \in [Actors -> Jobs] /\ open = [j \in Ids |-> open[j]]
    BY DEF ObeyInv, OnceInv, IndInv, Shape, AskedIsWhole
  <1>4. open' = [j \in Ids |-> open'[j]] /\ \A j \in Ids : open'[j] = "unasked" <=> open[j] = "unasked"
    <2>1. CASE UNCHANGED open
      BY <1>3, <2>1
    <2>2. CASE open' = [open EXCEPT ![i] = "closed"]
      <3>1. \A j \in Ids : open'[j] = IF j = i THEN "closed" ELSE open[j]
        BY <1>3, <2>2
      <3>2. open' = [j \in Ids |-> open'[j]]
        BY <1>3, <2>2
      <3> QED BY <1>2, <3>1, <3>2
    <2> QED BY <1>2, <2>1, <2>2
  <1>5. (\A b \in Actors \ {a} : job'[b] = job[b]) /\ job'[a].at = "idle"
    BY <1>2, <1>3 DEF Idle
  <1>6. ~Acting(a)'
    BY <1>5 DEF Acting
  <1> QED BY <1>2, <1>4, <1>5, <1>6, ObeyIdling

\* Where an actor at work goes, and on whose behalf.
LEMMA Placed ==
    ASSUME ObeyInv, NEW a \in Actors, Acting(a), NEW place \in Places, Goto(a, place), UNCHANGED ask
    PROVE  job'[a].at = place /\ job'[a].id = job[a].id /\ Action(a)' = Action(a) /\ Lifetime(a)' = Lifetime(a)
  <1>1. job \in [Actors -> Jobs]
    BY DEF ObeyInv, OnceInv, IndInv, Shape
  <1>2. job'[a].at = place /\ job'[a].id = job[a].id
    BY <1>1 DEF Goto, Jobs
  <1> QED BY <1>2 DEF Action, Lifetime

\* What a request may ask.
LEMMA Asked ==
    ASSUME ObeyInv, NEW a \in Actors, Acting(a)
    PROVE  /\ a[2] = "lifecycle" => Action(a) \in {"start", "restart", "stop", "kill", "delete", "release"}
           /\ a[2] = "automatic" => Action(a) = "automatic"
           /\ ask[job[a].id].revision # 0
           /\ Lifetime(a) \subseteq DOMAIN workers /\ \A l, m \in Lifetime(a) : l = m
  <1>1. IsAsked(job[a].id) /\ job[a].id \in Own(a)
    BY AtWork
  <1>2. a[2] = "automatic" => job[a].id \in Automatics
    BY <1>1 DEF Own
  <1>3. a[2] = "lifecycle" => job[a].id \notin Automatics
    BY <1>1, ConstantsAssumption DEF Own
  <1> QED BY <1>1, <1>2, <1>3, ConstantsAssumption DEF IsAsked, Action, Lifetime, LIFECYCLE_ACTIONS

\* The stop fact, once an actor at work finishes.
LEMMA FactKept ==
    ASSUME ObeyInv, NEW a \in Actors, Acting(a), NEW result, Finish(a, result)
    PROVE  /\ held' => held
           /\ result = "done" /\ Action(a) \in {"start", "restart", "release"} => ~ held'
  <1>1. row[job[a].id] = Pending(a[1])
    BY AtWork
  <1>2. row[job[a].id].phase = "pending"
    BY <1>1 DEF Pending
  <1>3. held' = FactAfter(job[a].id, result)
    BY <1>2 DEF Finish
  <1> QED BY <1>3 DEF FactAfter, Action

\* Nothing is done yet: a refusal leaves the stop fact as it was.
LEMMA ObeyRefusing ==
    ASSUME ObeyInv, OnceInv', NEW a \in Actors, Acting(a), Finish(a, "refused"),
           UNCHANGED <<stage, ask, open, definition, workers>>, OffDuty => Halted
    PROVE  ObeyInv'
  <1>1. held' => held
    BY FactKept
  <1> QED BY <1>1, ObeyFinishing DEF OffDuty, Answers

LEMMA ObeyRead == ASSUME ObeyInv, OnceInv', NEW a \in Actors, Read(a)  PROVE ObeyInv'
  <1>1. /\ Acting(a) /\ job[a].at = "reading"
        /\ UNCHANGED <<stage, ask, open, definition, workers>>
    BY DEF Read, Acting, world
  <1>2. a[2] = "lifecycle" /\ (OffDuty => Halted)
    BY <1>1, AtWork DEF Works
  <1>3. CASE Finish(a, "refused")
    BY <1>1, <1>2, <1>3, ObeyRefusing
  <1>4. WorkersGoOn /\ definition' \in Nat
    BY <1>1, ObeyUnchangedWorkers DEF ObeyInv, AskedIsWhole
  <1>5. CASE Goto(a, "locking") /\ UNCHANGED <<row, held>>
    <2>1. job'[a].at = "locking"
      BY <1>1, <1>5, Placed DEF Places
    <2>2. OffDuty' => Halted'
      BY <1>1, <1>2, <1>5 DEF OffDuty, Halted
    <2>3. Works(a)'
      BY <1>2, <2>1, <2>2 DEF Works, AfterEffect
    <2> QED BY <1>1, <1>4, <1>5, <2>3, ObeyGoingOn DEF Places
  <1>6. CASE ~Refused(a) /\ ~UnderLock(a) /\ Goto(a, "building") /\ UNCHANGED <<row, held>>
    <2>1. job'[a].at = "building" /\ Action(a)' = Action(a)
      BY <1>1, <1>6, Placed DEF Places
    <2>2. Action(a) = "start" /\ Known(a[1]) = {}
      BY <1>1, <1>2, <1>6, Asked DEF UnderLock, Refused, StopActions, Lifetime
    <2>3. Halted
      BY <1>1, <1>2, <2>2, NobodyKnown
    <2>4. Halted'
      BY <1>1, <2>3 DEF Halted
    <2>5. Works(a)'
      BY <1>2, <2>1, <2>2, <2>4 DEF Works, AfterEffect, StopActions
    <2> QED BY <1>1, <1>4, <1>6, <2>5, ObeyGoingOn DEF Places
  <1> QED BY <1>3, <1>5, <1>6 DEF Read

LEMMA ObeyLocked == ASSUME ObeyInv, OnceInv', NEW a \in Actors, Locked(a)  PROVE ObeyInv'
  <1>1. /\ Acting(a) /\ job[a].at = "locking"
        /\ UNCHANGED <<stage, ask, open, definition, workers>>
    BY DEF Locked, Acting, world
  <1>2. a[2] = "lifecycle" /\ (OffDuty => Halted)
    BY <1>1, AtWork DEF Works
  <1>3. CASE Finish(a, "refused")
    BY <1>1, <1>2, <1>3, ObeyRefusing
  <1>4. WorkersGoOn /\ definition' \in Nat
    BY <1>1, ObeyUnchangedWorkers DEF ObeyInv, AskedIsWhole
  <1>5. CASE Action(a) \in {"start", "release"} /\ Finish(a, "done")
    <2>1. WasDone(job[a].id)
      BY <1>5 DEF WasDone, Action, StopActions
    <2>2. ~ held'
      BY <1>1, <1>5, FactKept
    <2>3. OffDuty' => Halted
      BY <1>1, <1>2, <2>2 DEF OffDuty
    <2> QED BY <1>1, <1>5, <2>1, <2>3, ObeyFinishing DEF Answers
  <1>6. CASE /\ ~Refused(a) /\ Action(a) \in StopActions /\ ask[job[a].id].lifetime = {}
             /\ Goto(a, "stopped") /\ UNCHANGED row
    <2>1. job'[a].at = "stopped" /\ Action(a)' = Action(a) /\ Lifetime(a)' = {}
      BY <1>1, <1>6, Placed DEF Places, Lifetime
    <2>2. Known(a[1]) = {}
      BY <1>6 DEF Refused
    <2>3. Halted'
      BY <1>1, <1>2, <2>2, NobodyKnown DEF Halted
    <2>4. Works(a)'
      BY <1>2, <1>6, <2>1, <2>3 DEF Works, AfterEffect
    <2> QED BY <1>1, <1>4, <1>6, <2>4, ObeyGoingOn DEF Places
  <1>7. CASE /\ ~Refused(a) /\ Action(a) \in StopActions /\ Goto(a, "killing") /\ UNCHANGED <<row, held>>
    <2>1. job'[a].at = "killing" /\ Action(a)' = Action(a) /\ Lifetime(a)' = Lifetime(a)
      BY <1>1, <1>7, Placed DEF Places
    <2>2. Known(a[1])' \subseteq Lifetime(a)'
      BY <1>1, <1>7, <2>1 DEF Refused, Known, Lifetime
    <2>3. OffDuty' => Halted'
      BY <1>1, <1>2, <1>7 DEF OffDuty, Halted
    <2>4. Works(a)'
      BY <1>2, <1>7, <2>1, <2>2, <2>3 DEF Works, AfterEffect
    <2> QED BY <1>1, <1>4, <1>7, <2>4, ObeyGoingOn DEF Places
  <1> QED BY <1>3, <1>5, <1>6, <1>7 DEF Locked

\* The lifetime asked for is dead, and with it the last worker of the agent
\* under a daemon that runs.
LEMMA ObeyKill == ASSUME ObeyInv, OnceInv', NEW a \in Actors, Kill(a)  PROVE ObeyInv'
  <1>1. Acting(a) /\ job[a].at = "killing" /\ UNCHANGED <<stage, ask, open, definition>>
    BY DEF Kill, Acting, world
  <1>2. a[2] = "lifecycle" /\ Known(a[1]) \subseteq Lifetime(a) /\ Action(a) \in StopActions
    BY <1>1, AtWork DEF Works
  <1>3. CASE LeaveUnknown(a) /\ UNCHANGED workers
    BY <1>1, <1>3, ObeyUnchangedWorkers, ObeyLeaving
  <1>4. ASSUME NEW l \in Lifetime(a), workers' = [workers EXCEPT ![l].live = FALSE, ![l].managed = FALSE],
               Goto(a, "stopped"), UNCHANGED row
        PROVE  ObeyInv'
    <2>1. job'[a].at = "stopped" /\ Action(a)' = Action(a) /\ Lifetime(a)' = Lifetime(a)
      BY <1>1, <1>4, Placed DEF Places
    <2>2. \A k \in DOMAIN workers : workers[k] \in Worker
      BY WorkersOnFile DEF ObeyInv
    <2>3. /\ DOMAIN workers' = DOMAIN workers
          /\ workers'[l].live = FALSE /\ workers'[l].by = workers[l].by
          /\ workers'[l].id = workers[l].id /\ workers'[l].managed = FALSE
          /\ \A k \in DOMAIN workers \ {l} : workers'[k] = workers[k]
      BY <1>1, <1>4, <2>2, Asked DEF Worker
    <2>4. WorkersGoOn
      BY <2>3 DEF WorkersGoOn, ObeyInv, WorkersAreKnown
    <2>5. Lifetime(a) = {l}
      BY <1>1, <1>4, Asked
    <2>6. Halted'
      <3> SUFFICES ASSUME NEW k \in DOMAIN workers, workers'[k].live, stage[workers'[k].by] = "up"  PROVE FALSE
        BY <1>1, <2>3 DEF Halted
      <3>1. k # l /\ workers[k].live /\ stage[workers[k].by] = "up"
        BY <2>3
      <3>2. k \in Known(a[1])
        BY <1>1, <1>2, <3>1, OnlyKnownLive
      <3> QED BY <1>2, <2>5, <3>1, <3>2
    <2>7. \A k \in Lifetime(a)' : ~ workers'[k].live
      BY <2>1, <2>3, <2>5
    <2>8. Works(a)'
      BY <1>2, <2>1, <2>6, <2>7 DEF Works, AfterEffect
    <2>9. definition' \in Nat
      BY <1>1 DEF ObeyInv, AskedIsWhole
    <2> QED BY <1>1, <1>4, <2>4, <2>8, <2>9, ObeyGoingOn DEF Places
  <1> QED BY <1>3, <1>4 DEF Kill, Lifetime

LEMMA ObeyAfterStop == ASSUME ObeyInv, OnceInv', NEW a \in Actors, AfterStop(a)  PROVE ObeyInv'
  <1>1. Acting(a) /\ job[a].at = "stopped" /\ UNCHANGED <<stage, ask, open, definition, workers>>
    BY DEF AfterStop, Acting, world
  <1>2. /\ a[2] = "lifecycle" /\ Halted /\ Action(a) \in StopActions
        /\ \A l \in Lifetime(a) : ~ workers[l].live
    BY <1>1, AtWork DEF Works, AfterEffect
  <1>3. WorkersGoOn /\ definition' \in Nat
    BY <1>1, ObeyUnchangedWorkers DEF ObeyInv, AskedIsWhole
  <1>4. CASE Action(a) \in {"stop", "kill"} /\ Finish(a, "done")
    <2>1. WasDone(job[a].id)
      BY <1>2, <1>4 DEF WasDone, Action, Lifetime
    <2> QED BY <1>1, <1>2, <1>4, <2>1, ObeyFinishing DEF Answers
  <1>5. Halted' /\ \A l \in Lifetime(a) : ~ workers'[l].live
    BY <1>1, <1>2 DEF Halted
  <1>6. CASE Action(a) = "delete" /\ Goto(a, "removing") /\ UNCHANGED <<row, held>>
    <2>1. job'[a].at = "removing" /\ Action(a)' = Action(a) /\ Lifetime(a)' = Lifetime(a)
      BY <1>1, <1>6, Placed DEF Places
    <2>2. Works(a)'
      BY <1>2, <1>5, <1>6, <2>1 DEF Works, AfterEffect
    <2> QED BY <1>1, <1>3, <1>6, <2>2, ObeyGoingOn DEF Places
  <1>7. CASE Action(a) = "restart" /\ Goto(a, "building") /\ UNCHANGED <<row, held>>
    <2>1. job'[a].at = "building" /\ Action(a)' = Action(a) /\ Lifetime(a)' = Lifetime(a)
      BY <1>1, <1>7, Placed DEF Places
    <2>2. Works(a)'
      BY <1>2, <1>5, <1>7, <2>1 DEF Works, AfterEffect
    <2> QED BY <1>1, <1>3, <1>7, <2>2, ObeyGoingOn DEF Places
  <1> QED BY <1>4, <1>6, <1>7 DEF AfterStop

LEMMA ObeyRemove == ASSUME ObeyInv, OnceInv', NEW a \in Actors, Remove(a)  PROVE ObeyInv'
  <1>1. Acting(a) /\ job[a].at = "removing" /\ UNCHANGED <<stage, ask, open, workers>>
    BY DEF Remove, Acting
  <1>2. /\ a[2] = "lifecycle" /\ Halted /\ Action(a) = "delete"
        /\ \A l \in Lifetime(a) : ~ workers[l].live
    BY <1>1, AtWork DEF Works, AfterEffect, StopActions
  <1>3. CASE Finish(a, "refused") /\ UNCHANGED definition
    BY <1>1, <1>2, <1>3, ObeyRefusing
  <1>4. CASE definition' = 0 /\ Goto(a, "removed") /\ UNCHANGED <<row, held>>
    <2>1. job'[a].at = "removed" /\ Action(a)' = Action(a) /\ Lifetime(a)' = Lifetime(a)
      BY <1>1, <1>4, Placed DEF Places
    <2>2. Halted' /\ \A l \in Lifetime(a) : ~ workers'[l].live
      BY <1>1, <1>2 DEF Halted
    <2>3. Works(a)'
      BY <1>2, <1>4, <2>1, <2>2 DEF Works, AfterEffect
    <2>4. WorkersGoOn
      BY <1>1, ObeyUnchangedWorkers
    <2> QED BY <1>1, <1>4, <2>3, <2>4, ObeyGoingOn DEF Places
  <1> QED BY <1>3, <1>4 DEF Remove

LEMMA ObeyRemoved == ASSUME ObeyInv, OnceInv', NEW a \in Actors, Removed(a)  PROVE ObeyInv'
  <1>1. /\ Acting(a) /\ job[a].at = "removed" /\ Finish(a, "done")
        /\ UNCHANGED <<stage, ask, open, definition, workers>>
    BY DEF Removed, Acting, world
  <1>2. /\ Halted /\ Action(a) = "delete" /\ definition = 0
        /\ \A l \in Lifetime(a) : ~ workers[l].live
    BY <1>1, AtWork DEF Works, AfterEffect, StopActions
  <1>3. WasDone(job[a].id)
    BY <1>2 DEF WasDone, Action, Lifetime
  <1> QED BY <1>1, <1>2, <1>3, ObeyFinishing DEF Answers

LEMMA ObeyBuild == ASSUME ObeyInv, OnceInv', NEW a \in Actors, Build(a)  PROVE ObeyInv'
  <1>1. Acting(a) /\ job[a].at = "building" /\ UNCHANGED <<stage, ask, open, definition, workers>>
    BY DEF Build, Acting, world
  <1>2. /\ a[2] = "lifecycle" /\ Halted /\ Action(a) \in {"start", "restart"}
        /\ Action(a) \in StopActions => \A l \in Lifetime(a) : ~ workers[l].live
    BY <1>1, AtWork DEF Works, AfterEffect
  <1>3. CASE Finish(a, "refused")
    BY <1>1, <1>2, <1>3, ObeyRefusing
  <1>4. CASE Goto(a, "admitting") /\ UNCHANGED <<row, held>>
    <2>1. job'[a].at = "admitting" /\ Action(a)' = Action(a) /\ Lifetime(a)' = Lifetime(a)
      BY <1>1, <1>4, Placed DEF Places
    <2>2. Halted' /\ (Action(a) \in StopActions => \A l \in Lifetime(a) : ~ workers'[l].live)
      BY <1>1, <1>2 DEF Halted
    <2>3. Works(a)'
      BY <1>2, <2>1, <2>2 DEF Works, AfterEffect
    <2>4. WorkersGoOn /\ definition' \in Nat
      BY <1>1, ObeyUnchangedWorkers DEF ObeyInv, AskedIsWhole
    <2> QED BY <1>1, <1>4, <2>3, <2>4, ObeyGoingOn DEF Places
  <1> QED BY <1>3, <1>4 DEF Build

LEMMA ObeyAdmit == ASSUME ObeyInv, OnceInv', NEW a \in Actors, Admit(a)  PROVE ObeyInv'
  <1>1. /\ Acting(a) /\ a[2] = "lifecycle" /\ job[a].at = "admitting"
        /\ UNCHANGED <<stage, ask, open, definition, workers>>
    BY DEF Admit, Acting, world
  <1>2. /\ Halted /\ Action(a) \in {"start", "restart"}
        /\ Action(a) \in StopActions => \A l \in Lifetime(a) : ~ workers[l].live
    BY <1>1, AtWork DEF Works, AfterEffect
  <1>3. CASE Finish(a, "refused")
    BY <1>1, <1>2, <1>3, ObeyRefusing
  <1>4. CASE ~Unadmitted(a) /\ Goto(a, "producing") /\ UNCHANGED <<row, held>>
    <2>1. job'[a].at = "producing" /\ Action(a)' = Action(a) /\ Lifetime(a)' = Lifetime(a)
      BY <1>1, <1>4, Placed DEF Places
    <2>2. definition' # 0
      BY <1>1, <1>4, Asked DEF Unadmitted
    <2>3. Halted' /\ (Action(a) \in StopActions => \A l \in Lifetime(a) : ~ workers'[l].live)
      BY <1>1, <1>2 DEF Halted
    <2>4. Works(a)'
      BY <1>1, <1>2, <2>1, <2>2, <2>3 DEF Works, AfterEffect
    <2>5. WorkersGoOn /\ definition' \in Nat
      BY <1>1, ObeyUnchangedWorkers DEF ObeyInv, AskedIsWhole
    <2> QED BY <1>1, <1>4, <2>4, <2>5, ObeyGoingOn DEF Places
  <1> QED BY <1>3, <1>4 DEF Admit

\* An automatic start takes its record up only where no operator holds the
\* agent stopped, and its definition is there.
LEMMA ObeyAutomaticAdmit == ASSUME ObeyInv, OnceInv', NEW a \in Actors, AutomaticAdmit(a)  PROVE ObeyInv'
  <1>1. PICK i \in Ids : i = job[a].id
    BY ActorsAreDaemons DEF AutomaticAdmit, ObeyInv, OnceInv, IndInv, Shape
  <1>2. /\ a[2] = "automatic" /\ job[a].at = "admitting" /\ ~Acting(a)
        /\ UNCHANGED <<stage, ask, open, definition, workers, held>>
    BY DEF AutomaticAdmit, Acting, world
  <1>3. /\ job \in [Actors -> Jobs] /\ row \in [Ids -> Rows] /\ i \in Own(a) /\ open[i] # "unasked"
        /\ open' = [j \in Ids |-> open'[j]]
    BY <1>1, <1>2 DEF ObeyInv, OnceInv, IndInv, Shape, AskedIsWhole
  <1>4. CASE End(a, i, "refused") /\ (UNCHANGED row \/ (Fresh(i) /\ row' = [row EXCEPT ![i] = Terminal(a[1], "refused")]))
    <2>1. job'[a].at = "idle" /\ \A b \in Actors \ {a} : job'[b] = job[b]
      BY <1>2, <1>3, <1>4 DEF End, Idle
    <2>2. ~Acting(a)'
      BY <2>1 DEF Acting
    <2>3. \A j \in Ids : row'[j] = row[j] \/ (Fresh(j) /\ Ended(j, "refused")' /\ open[j] # "unasked")
      BY <1>3, <1>4 DEF Ended, Terminal
    <2> QED BY <1>2, <1>3, <2>1, <2>2, <2>3, ObeyIdling
  <1>5. CASE ~Unadmitted(a) /\ ~ReserveRefuses(i) /\ row' = [row EXCEPT ![i] = Pending(a[1])] /\ Goto(a, "producing")
    <2>1. ~Reserved /\ ~ held /\ i \notin Requests
      BY <1>2, <1>3, <1>5, ConstantsAssumption DEF ReserveRefuses, Own
    <2>2. definition # 0
      BY <1>1, <1>3, <1>5 DEF Unadmitted, ObeyInv, AskedIsWhole, IsAsked
    <2>3. job'[a].at = "producing" /\ job'[a].id = i /\ \A b \in Actors \ {a} : job'[b] = job[b]
      BY <1>1, <1>3, <1>5 DEF Goto, Jobs
    <2>4. Works(a)'
      BY <1>2, <2>1, <2>2, <2>3 DEF Works
    <2> QED BY <1>2, <1>3, <1>5, <2>1, <2>3, <2>4, ObeyTaking
  <1> QED BY <1>1, <1>4, <1>5 DEF AutomaticAdmit

\* The one step that makes a worker: nobody else's record is pending, and the
\* actor goes on to its end with the record in hand.
LEMMA ObeyProducing ==
    ASSUME ObeyInv, OnceInv', NEW a \in Actors, Acting(a), job[a].at = "producing", Goto(a, "attaching"),
           workers' = Append(workers, [by |-> a[1], id |-> job[a].id, live |-> TRUE, managed |-> TRUE]),
           UNCHANGED <<stage, ask, open, definition, row, held>>
    PROVE  ObeyInv'
  <1>1. PICK n \in Nat : n = Len(workers)
    BY LenProperties DEF ObeyInv, OnceInv, TypesOfOnce
  <1>2. PICK new : new = [by |-> a[1], id |-> job[a].id, live |-> TRUE, managed |-> TRUE]
    OBVIOUS
  <1>3. workers \in Seq(Worker) /\ DOMAIN workers = 1 .. n
    BY <1>1, LenProperties DEF ObeyInv, OnceInv, TypesOfOnce
  <1>4. new \in Worker /\ new.by = a[1] /\ new.id = job[a].id /\ new.managed
    BY <1>2, AtWork DEF Worker
  <1>5. workers' = Append(workers, new)
    BY <1>2
  <1>6. /\ DOMAIN workers' = (1 .. n) \cup {n + 1}
        /\ workers'[n + 1] = new
        /\ \A l \in 1 .. n : workers'[l] = workers[l]
    BY <1>1, <1>3, <1>4, <1>5
  <1>7. /\ job[a].id \in Own(a) /\ job[a].id \in Ids /\ row[job[a].id] = Pending(a[1])
        /\ stage[a[1]] \in {"up", "draining"} /\ a[1] \in Daemons
        /\ \A b \in Actors \ {a} : ~Acting(b)
    BY AtWork
  <1>8. job'[a].at = "attaching" /\ job'[a].id = job[a].id /\ Action(a)' = Action(a) /\ Lifetime(a)' = Lifetime(a)
    BY Placed DEF Places
  <1>9. \A b \in Actors \ {a} : job'[b] = job[b]
    BY DEF Goto, ObeyInv, OnceInv, IndInv, Shape
  <1>10. \A i \in Ids : IsAsked(i) => IsAsked(i)'
    BY <1>3, <1>6 DEF IsAsked
  <1>11. AskedIsWhole'
    <2>1. \A b \in Actors : job'[b].at # "idle" => job'[b].id = job[b].id /\ job[b].at # "idle"
      BY <1>8, <1>9
    <2> QED BY <1>10, <2>1 DEF ObeyInv, AskedIsWhole
  <1>12. DaemonsFollow'
    BY DEF ObeyInv, DaemonsFollow
  <1>13. WorkersAreKnown'
    BY <1>3, <1>4, <1>6, <1>7 DEF ObeyInv, WorkersAreKnown
  <1>14. PendingIsLatest'
    <2> SUFFICES ASSUME NEW i \in Requests, row[i].phase = "pending", NEW l \in DOMAIN workers'
                 PROVE  workers'[l].by <= row[i].owner
      BY DEF PendingIsLatest
    <2>1. CASE l \in 1 .. n
      BY <1>3, <1>6, <2>1 DEF ObeyInv, PendingIsLatest
    <2>2. CASE l = n + 1
      <3>1. row[job[a].id].phase = "pending" /\ row[job[a].id].owner = a[1]
        BY <1>7 DEF Pending
      <3>2. i = job[a].id
        BY <1>7, <3>1 DEF ObeyInv, OnceInv, IndInv, OnePending, Ids
      <3> QED BY <1>4, <1>6, <1>7, <2>2, <3>1, <3>2 DEF Daemons
    <2> QED BY <1>6, <2>1, <2>2
  <1>15. Works(a)'
    <2>1. Works(a) /\ a[2] \in {"lifecycle", "automatic"}
      BY AtWork
    <2>2. CASE a[2] = "automatic"
      BY <1>8, <2>1, <2>2 DEF Works
    <2>3. CASE a[2] = "lifecycle"
      <3>1. Action(a) \in {"start", "restart"} /\ definition # 0
        BY <2>1, <2>3 DEF Works
      <3>2. Action(a) \in StopActions => \A l \in Lifetime(a) : ~ workers[l].live
        BY <2>1, <2>3 DEF Works, AfterEffect
      <3>3. Lifetime(a) \subseteq 1 .. n
        BY <1>3, Asked
      <3>4. Action(a)' \in StopActions => \A l \in Lifetime(a)' : ~ workers'[l].live
        BY <1>6, <1>8, <3>2, <3>3
      <3>5. job'[a].id \in Made'
        BY <1>4, <1>6, <1>8 DEF Made
      <3> QED BY <1>8, <2>3, <3>1, <3>4, <3>5 DEF Works, AfterEffect
    <2> QED BY <2>1, <2>2, <2>3
  <1>16. Reserved'
    BY <1>7 DEF Reserved, Pending
  <1>17. \A i \in Ids : Ended(i, "done")' => Ended(i, "done")
    BY DEF Ended
  <1>18. /\ DOMAIN workers \subseteq DOMAIN workers'
         /\ \A l \in DOMAIN workers : workers'[l].id = workers[l].id /\ (workers'[l].live => workers[l].live)
    BY <1>3, <1>6
  <1>19. World'
    BY <1>11, <1>12, <1>13, <1>14 DEF World
  <1> QED BY <1>7, <1>9, <1>15, <1>16, <1>17, <1>18, <1>19, Ours

LEMMA ObeyProduce == ASSUME ObeyInv, OnceInv', NEW a \in Actors, Produce(a)  PROVE ObeyInv'
  <1>1. Acting(a) /\ job[a].at = "producing" /\ UNCHANGED <<stage, ask, open, definition>>
    BY DEF Produce, Acting, world
  <1>2. OffDuty => Halted
    BY <1>1, AtWork DEF Works, AfterEffect, OffDuty
  <1>3. CASE UNCHANGED workers /\ Finish(a, "refused")
    BY <1>1, <1>2, <1>3, ObeyRefusing
  <1>4. CASE UNCHANGED workers /\ LeaveUnknown(a)
    BY <1>1, <1>4, ObeyUnchangedWorkers, ObeyLeaving
  <1>5. CASE /\ workers' = Append(workers, [by |-> a[1], id |-> job[a].id, live |-> TRUE, managed |-> TRUE])
             /\ Goto(a, "attaching") /\ UNCHANGED <<row, held>>
    BY <1>1, <1>5, ObeyProducing
  <1> QED BY <1>3, <1>4, <1>5 DEF Produce

LEMMA ObeyAttach == ASSUME ObeyInv, OnceInv', NEW a \in Actors, Attach(a)  PROVE ObeyInv'
  <1>1. Acting(a) /\ job[a].at = "attaching" /\ UNCHANGED <<stage, ask, open, definition, workers>>
    BY DEF Attach, Acting, world
  <1>2. Works(a) /\ a[2] \in {"lifecycle", "automatic"}
    BY <1>1, AtWork
  <1>3. CASE LeaveUnknown(a)
    BY <1>1, <1>3, ObeyUnchangedWorkers, ObeyLeaving
  <1>4. CASE Finish(a, "done")
    <2>1. CASE a[2] = "lifecycle"
      <3>1. /\ Action(a) \in {"start", "restart"} /\ definition # 0 /\ job[a].id \in Made
            /\ Action(a) \in StopActions => \A l \in Lifetime(a) : ~ workers[l].live
        BY <1>1, <1>2, <2>1 DEF Works, AfterEffect
      <3>2. WasDone(job[a].id)
        BY <3>1 DEF WasDone, Action, Lifetime
      <3>3. ~ held'
        BY <1>1, <1>4, <3>1, FactKept
      <3>4. ~ OffDuty'
        BY <1>1, <3>1, <3>3 DEF OffDuty
      <3> QED BY <1>1, <1>4, <3>2, <3>4, ObeyFinishing DEF Answers
    <2>2. CASE a[2] = "automatic"
      <3>1. ~ held /\ definition # 0 /\ Action(a) = "automatic"
        BY <1>1, <1>2, <2>2, Asked DEF Works
      <3>2. WasDone(job[a].id)
        BY <3>1 DEF WasDone, Action, StopActions
      <3>3. ~ held'
        BY <1>1, <1>4, <3>1, FactKept
      <3>4. ~ OffDuty'
        BY <1>1, <3>1, <3>3 DEF OffDuty
      <3> QED BY <1>1, <1>4, <3>2, <3>4, ObeyFinishing DEF Answers
    <2> QED BY <1>2, <2>1, <2>2
  <1> QED BY <1>3, <1>4 DEF Attach

LEMMA ObeyLockTimeout == ASSUME ObeyInv, OnceInv', NEW a \in Actors, LockTimeout(a)  PROVE ObeyInv'
  <1>1. UNCHANGED <<stage, ask, open, definition, workers>> /\ job[a].at \in {"locking", "removing", "admitting"}
    BY DEF LockTimeout, world
  <1>2. CASE job[a].at = "locking" /\ Finish(a, "refused")
    <2>1. Acting(a)
      BY <1>2 DEF Acting
    <2>2. OffDuty => Halted
      BY <1>2, <2>1, AtWork DEF Works
    <2> QED BY <1>1, <1>2, <2>1, <2>2, ObeyRefusing
  <1>3. CASE LeaveUnknown(a) /\ Acting(a)
    BY <1>1, <1>3, ObeyUnchangedWorkers, ObeyLeaving
  <1>4. CASE LeaveUnknown(a) /\ ~Acting(a)
    <2>1. a[2] = "automatic"
      BY <1>1, <1>4 DEF Acting
    <2>2. job' = [job EXCEPT ![a] = Idle] /\ job \in [Actors -> Jobs] /\ UNCHANGED <<row, held>>
      BY <1>4, <2>1 DEF LeaveUnknown, End, ObeyInv, OnceInv, IndInv, Shape
    <2>3. job'[a].at = "idle" /\ \A b \in Actors \ {a} : job'[b] = job[b]
      BY <2>2 DEF Idle
    <2>4. ~Acting(a)'
      BY <2>3 DEF Acting
    <2>5. open' = [i \in Ids |-> open'[i]]
      BY <1>1 DEF ObeyInv, AskedIsWhole
    <2> QED BY <1>1, <1>4, <2>2, <2>3, <2>4, <2>5, ObeyIdling
  <1> QED BY <1>2, <1>3, <1>4 DEF LockTimeout

LEMMA ObeyWork == ASSUME ObeyInv, OnceInv', NEW a \in Actors, Work(a)  PROVE ObeyInv'
  BY ObeyRead, ObeyLocked, ObeyKill, ObeyAfterStop, ObeyRemove, ObeyRemoved, ObeyBuild, ObeyAdmit,
     ObeyAutomaticAdmit, ObeyProduce, ObeyAttach, ObeyLockTimeout, ObeyReport DEF Work

LEMMA ObeyAsk == ASSUME ObeyInv, OnceInv', NEW i \in Ids, Ask(i)  PROVE ObeyInv'
  <1>1. PICK action \in (IF i \in Automatics THEN {"automatic"} ELSE Actions),
             lifetime \in (IF i \in Automatics THEN {{}} ELSE {{}, {Len(workers)} \ {0}}) :
               ask' = [ask EXCEPT ![i] = [action |-> action, revision |-> definition, lifetime |-> lifetime]]
    BY DEF Ask
  <1>2. /\ open[i] = "unasked" /\ definition > 0 /\ open' = [open EXCEPT ![i] = "open"]
        /\ UNCHANGED <<stage, definition, workers, row, held, job>>
    BY DEF Ask
  <1>3. /\ ask = [j \in Ids |-> ask[j]] /\ open = [j \in Ids |-> open[j]] /\ definition \in Nat
        /\ DOMAIN workers = 1 .. Len(workers) /\ Len(workers) \in Nat
    BY LenProperties DEF ObeyInv, AskedIsWhole, OnceInv, TypesOfOnce
  <1>4. /\ ask'[i] = [action |-> action, revision |-> definition, lifetime |-> lifetime]
        /\ open'[i] = "open"
        /\ \A j \in Ids \ {i} : ask'[j] = ask[j] /\ open'[j] = open[j]
    BY <1>1, <1>2, <1>3
  <1>5. lifetime \subseteq DOMAIN workers /\ \A l, m \in lifetime : l = m
    BY <1>3
  <1>6. IsAsked(i)'
    <2>1. /\ ask'[i].action = action /\ ask'[i].revision = definition /\ ask'[i].lifetime = lifetime
      BY <1>4
    <2>2. definition \in Nat \ {0}
      BY <1>2, <1>3
    <2> QED BY <1>2, <1>5, <2>1, <2>2 DEF IsAsked
  <1>7. \A j \in Ids \ {i} : IsAsked(j) => IsAsked(j)'
    BY <1>2, <1>4 DEF IsAsked
  <1>8. WorkersGoOn
    BY <1>2, ObeyUnchangedWorkers
  <1>9. World'
    <2>1. \A j \in Ids : open'[j] # "unasked" => IsAsked(j)'
      BY <1>4, <1>6, <1>7 DEF ObeyInv, AskedIsWhole
    <2>2. \A j \in Ids : open[j] # "unasked" => open'[j] # "unasked"
      BY <1>4
    <2>3. \A a \in Actors : job'[a].at # "idle" => job'[a].id \in Ids
      BY ActorsAreDaemons DEF OnceInv, IndInv, Shape
    <2>4. (\A a \in Actors : job'[a].at # "idle" => open'[job'[a].id] # "unasked")
      BY <1>2, <2>2, <2>3 DEF ObeyInv, AskedIsWhole
    <2>5. (\A j \in Ids : row'[j].phase # "none" => open'[j] # "unasked")
      BY <1>2, <2>2 DEF ObeyInv, AskedIsWhole
    <2>6. ask' = [j \in Ids |-> ask'[j]] /\ open' = [j \in Ids |-> open'[j]] /\ definition' \in Nat
      BY <1>1, <1>2, <1>3
    <2>7. AskedIsWhole'
      BY <2>1, <2>4, <2>5, <2>6 DEF AskedIsWhole
    <2> QED BY <1>2, <2>7 DEF World, ObeyInv, DaemonsFollow, WorkersAreKnown, PendingIsLatest
  <1>10. \A j \in Ids : open[j] # "unasked" => ask'[j] = ask[j]
    BY <1>2, <1>4
  <1>11. /\ \A a \in Actors : Acting(a)' => job'[a] = job[a] /\ Acting(a)
         /\ \A j \in Ids : Ended(j, "done")' => Ended(j, "done")
         /\ Halted => Halted'
         /\ Reserved => Reserved'
    BY <1>2 DEF Acting, Ended, Halted, Reserved
  <1>12. UNCHANGED held /\ (definition = 0 <=> definition' = 0)
    BY <1>2
  <1> QED BY <1>8, <1>9, <1>10, <1>11, <1>12, Around

\* What becomes of a worker, or of the definition, at nobody's request.
LEMMA ObeyMishap ==
    ASSUME ObeyInv, OnceInv', WorkersGoOn, definition' \in Nat, definition = 0 <=> definition' = 0,
           UNCHANGED <<stage, ask, open, row, held, job>>
    PROVE  ObeyInv'
  <1>1. World'
    <2>1. IndInv' /\ open' = [i \in Ids |-> open'[i]]
      BY DEF ObeyInv, OnceInv, AskedIsWhole
    <2> QED BY <2>1, WorldGoesOn
  <1>2. /\ \A a \in Actors : Acting(a)' => job'[a] = job[a] /\ Acting(a)
        /\ \A j \in Ids : Ended(j, "done")' => Ended(j, "done")
        /\ (Reserved => Reserved')
    BY DEF Acting, Ended, Reserved
  <1>3. Halted => Halted'
    BY DEF Halted, WorkersGoOn
  <1> QED BY <1>1, <1>2, <1>3, Around

LEMMA ObeyExit ==
    ASSUME ObeyInv, OnceInv', NEW l \in DOMAIN workers, WorkerExits(l) \/ ObserveExit(l)  PROVE ObeyInv'
  <1>1. UNCHANGED <<stage, ask, open, definition, row, held, job>>
    BY DEF WorkerExits, ObserveExit, world
  <1>2. \A k \in DOMAIN workers : workers[k] \in Worker
    BY WorkersOnFile DEF ObeyInv
  <1>3. ASSUME WorkerExits(l)  PROVE WorkersGoOn
    <2>1. /\ DOMAIN workers' = DOMAIN workers
          /\ workers'[l].live = FALSE /\ workers'[l].by = workers[l].by
          /\ workers'[l].id = workers[l].id /\ workers'[l].managed = workers[l].managed
          /\ \A k \in DOMAIN workers \ {l} : workers'[k] = workers[k]
      BY <1>2, <1>3 DEF WorkerExits, Worker
    <2> QED BY <2>1 DEF WorkersGoOn, ObeyInv, WorkersAreKnown
  <1>4. ASSUME ObserveExit(l)  PROVE WorkersGoOn
    <2>1. /\ DOMAIN workers' = DOMAIN workers
          /\ workers'[l].live = FALSE /\ workers'[l].by = workers[l].by
          /\ workers'[l].id = workers[l].id /\ workers'[l].managed = FALSE
          /\ \A k \in DOMAIN workers \ {l} : workers'[k] = workers[k]
      BY <1>2, <1>4 DEF ObserveExit, Worker
    <2> QED BY <2>1 DEF WorkersGoOn, ObeyInv, WorkersAreKnown
  <1>5. definition' \in Nat /\ (definition = 0 <=> definition' = 0)
    BY <1>1 DEF ObeyInv, AskedIsWhole
  <1> QED BY <1>1, <1>3, <1>4, <1>5, ObeyMishap

LEMMA ObeyEdit == ASSUME ObeyInv, OnceInv', Edit  PROVE ObeyInv'
  <1>1. definition \in Nat /\ definition > 0 /\ definition' = definition + 1
    BY DEF Edit, ObeyInv, AskedIsWhole
  <1>2. definition' \in Nat /\ (definition = 0 <=> definition' = 0)
    BY <1>1
  <1> QED BY <1>2, ObeyUnchangedWorkers, ObeyMishap DEF Edit

\* A daemon that goes, or starts to.
LEMMA ObeyGoing ==
    ASSUME ObeyInv, OnceInv', NEW d \in Daemons, Drain(d) \/ Leave(d)  PROVE ObeyInv'
  <1>1. /\ stage' = [stage EXCEPT ![d] = "draining"] \/ stage' = [stage EXCEPT ![d] = "gone"]
        /\ stage[d] # "off" /\ stage \in [Daemons -> Stages]
        /\ UNCHANGED <<ask, open, definition, workers, row, held>>
    BY DEF Drain, Leave, ObeyInv, OnceInv, IndInv, Shape
  <1>2. \A a \in Actors : job'[a] = job[a] \/ job'[a].at = "idle"
    BY DEF Drain, Leave, Idle
  <1>3. /\ stage'[d] \in {"draining", "gone"} /\ \A e \in Daemons \ {d} : stage'[e] = stage[e]
    BY <1>1
  <1>4. \A l \in DOMAIN workers : workers[l].by \in Daemons
    BY WorkersOnFile DEF ObeyInv, Worker
  <1>5. World'
    <2>1. \A a \in Actors : job'[a].at # "idle" => open'[job'[a].id] # "unasked"
      BY <1>1, <1>2 DEF ObeyInv, AskedIsWhole
    <2>2. \A i \in Ids : IsAsked(i) => IsAsked(i)'
      BY <1>1 DEF IsAsked
    <2>3. AskedIsWhole'
      BY <1>1, <2>1, <2>2 DEF ObeyInv, AskedIsWhole
    <2>4. DaemonsFollow'
      BY <1>1, <1>3 DEF ObeyInv, DaemonsFollow
    <2>5. WorkersAreKnown'
      BY <1>1, <1>3, <1>4 DEF ObeyInv, WorkersAreKnown
    <2>6. PendingIsLatest'
      BY <1>1 DEF ObeyInv, PendingIsLatest
    <2> QED BY <2>3, <2>4, <2>5, <2>6 DEF World
  <1>6. Halted => Halted'
    BY <1>1, <1>3, <1>4 DEF Halted
  <1>7. \A a \in Actors : Acting(a)' => job'[a] = job[a] /\ Acting(a)
    <2> SUFFICES ASSUME NEW a \in Actors, Acting(a)'  PROVE job'[a] = job[a] /\ Acting(a)
      OBVIOUS
    <2>1. job'[a] = job[a]
      BY <1>2 DEF Acting
    <2> QED BY <2>1 DEF Acting
  <1>8. /\ \A j \in Ids : Ended(j, "done")' => Ended(j, "done")
        /\ Reserved => Reserved'
    BY <1>1 DEF Ended, Reserved
  <1>9. WorkersGoOn
    BY <1>1, ObeyUnchangedWorkers
  <1>10. UNCHANGED held /\ (definition = 0 <=> definition' = 0) /\ \A i \in Ids : open[i] # "unasked" => ask'[i] = ask[i]
    BY <1>1
  <1> QED BY <1>5, <1>6, <1>7, <1>8, <1>9, <1>10, Around

\* A successor that boots has no worker yet, and its predecessors run no more.
LEMMA ObeyBoot == ASSUME ObeyInv, OnceInv', NEW d \in Daemons, Boot(d)  PROVE ObeyInv'
  <1>1. /\ stage[d] = "off" /\ d > 1 /\ stage[d - 1] \in {"draining", "gone"}
        /\ stage' = [stage EXCEPT ![d] = "up"] /\ stage \in [Daemons -> Stages]
        /\ UNCHANGED <<ask, open, definition, held, job>>
    BY DEF Boot, ObeyInv, OnceInv, IndInv, Shape
  <1>2. stage'[d] = "up" /\ \A e \in Daemons \ {d} : stage'[e] = stage[e]
    BY <1>1
  <1>3. \A l \in DOMAIN workers : workers[l] \in Worker
    BY WorkersOnFile DEF ObeyInv
  <1>4. /\ DOMAIN workers' = DOMAIN workers
        /\ \A l \in DOMAIN workers : /\ workers'[l].by = workers[l].by /\ workers'[l].id = workers[l].id
                                     /\ workers'[l].managed = workers[l].managed
                                     /\ workers'[l].live => workers[l].live
    BY <1>3 DEF Boot, Worker
  <1>5. WorkersGoOn
    BY <1>4 DEF WorkersGoOn, ObeyInv, WorkersAreKnown
  <1>6. /\ \A i \in Ids : row'[i] = row[i] \/ (row[i].phase # "none" /\ Ended(i, "unknown")')
    BY DEF Boot, Settled, Terminal, Ended
  <1>7. \A e \in Daemons : (e < d => stage[e] \in {"draining", "gone"}) /\ (d < e => stage[e] = "off")
    <2>1. d - 1 \in Daemons /\ d \in Nat
      BY <1>1, ConstantsAssumption DEF Daemons
    <2>2. \A e \in Daemons : e < d => e = d - 1 \/ e < d - 1
      BY <2>1, ConstantsAssumption DEF Daemons
    <2>3. \A e \in Daemons : e < d - 1 => stage[e] \in {"draining", "gone"}
      BY <1>1, <2>1 DEF ObeyInv, DaemonsFollow
    <2>4. \A e \in Daemons : d < e => stage[e] = "off"
      BY <1>1 DEF ObeyInv, DaemonsFollow
    <2> QED BY <1>1, <2>2, <2>3, <2>4
  <1>8. World'
    <2>1. \A i \in Ids : IsAsked(i) => IsAsked(i)'
      BY <1>1, <1>4 DEF IsAsked
    <2>2. AskedIsWhole'
      <3>1. \A i \in Ids : row'[i].phase # "none" => row[i].phase # "none"
        BY <1>6
      <3> QED BY <1>1, <2>1, <3>1 DEF ObeyInv, AskedIsWhole
    <2>3. DaemonsFollow'
      <3> SUFFICES ASSUME NEW b \in Daemons, stage'[b] # "off", NEW e \in Daemons, e < b
                   PROVE  stage'[e] \in {"draining", "gone"}
        BY DEF DaemonsFollow
      <3>1. CASE b = d
        BY <1>2, <1>7, <3>1, ConstantsAssumption DEF Daemons
      <3>2. CASE b # d
        <4>1. stage[b] # "off" /\ stage[e] \in {"draining", "gone"}
          BY <1>2, <3>2 DEF ObeyInv, DaemonsFollow
        <4> QED BY <1>1, <1>2, <4>1
      <3> QED BY <3>1, <3>2
    <2>4. WorkersAreKnown'
      <3>1. \A l \in DOMAIN workers : stage[workers[l].by] # "off" /\ workers[l].by \in Daemons
        BY <1>3 DEF ObeyInv, WorkersAreKnown, Worker
      <3>2. \A l \in DOMAIN workers : stage'[workers[l].by] # "off"
        BY <1>1, <1>2, <3>1
      <3> QED BY <1>4, <1>5, <3>2 DEF WorkersAreKnown, WorkersGoOn
    <2>5. PendingIsLatest'
      <3>1. \A i \in Requests : row'[i].phase = "pending" => row'[i] = row[i]
        BY <1>6 DEF Ended, Ids
      <3> QED BY <1>4, <3>1 DEF ObeyInv, PendingIsLatest
    <2> QED BY <2>2, <2>3, <2>4, <2>5 DEF World
  <1>9. Halted'
    <2> SUFFICES ASSUME NEW l \in DOMAIN workers, stage'[workers[l].by] = "up"  PROVE FALSE
      BY <1>4 DEF Halted
    <2>1. workers[l].by \in Daemons /\ stage[workers[l].by] # "off"
      BY <1>3 DEF Worker, ObeyInv, WorkersAreKnown
    <2>2. workers[l].by # d
      BY <1>1, <2>1
    <2>3. stage[workers[l].by] = "up"
      BY <1>2, <2>1, <2>2
    <2> QED BY <1>7, <2>1, <2>2, <2>3, ConstantsAssumption DEF Daemons
  <1>10. /\ \A a \in Actors : Acting(a)' => job'[a] = job[a] /\ Acting(a)
         /\ \A i \in Ids : Ended(i, "done")' => Ended(i, "done")
    BY <1>1, <1>6 DEF Acting, Ended
  <1>11. UNCHANGED held /\ (definition = 0 <=> definition' = 0) /\ \A i \in Ids : open[i] # "unasked" => ask'[i] = ask[i]
    BY <1>1
  <1> QED BY <1>5, <1>8, <1>9, <1>10, <1>11, Around

LEMMA ObeyStep == ObeyInv /\ [Next]_vars => ObeyInv'
  <1> SUFFICES ASSUME ObeyInv, [Next]_vars  PROVE ObeyInv'
    OBVIOUS
  <1>1. OnceInv'
    BY OnceStep DEF ObeyInv
  <1>2. CASE UNCHANGED vars
    BY <1>1, <1>2, ObeyUnchangedWorkers, ObeyMishap DEF vars, ObeyInv, AskedIsWhole
  <1> QED BY <1>1, <1>2, ObeyAsk, ObeyClaim, ObeyAutomaticTake, ObeyGoing, ObeyBoot, ObeyWork, ObeyExit, ObeyEdit
          DEF Next

LEMMA ObeyInit == Init => ObeyInv
  <1> SUFFICES ASSUME Init PROVE ObeyInv
    OBVIOUS
  <1>1. OnceInv
    BY OnceInit
  <1>2. workers = <<>> /\ DOMAIN workers = {} /\ held = FALSE /\ definition = 1
    BY DEF Init
  <1>3. (\A a \in Actors : job[a].at = "idle") /\ \A i \in Ids : row[i].phase = "none" /\ open[i] = "unasked"
    BY DEF Init, Idle, NoRow
  <1>4. ask = [i \in Ids |-> ask[i]] /\ open = [i \in Ids |-> open[i]]
    BY DEF Init
  <1>5. AskedIsWhole
    BY <1>2, <1>3, <1>4 DEF AskedIsWhole
  <1>6. DaemonsFollow
    <2>1. \A d \in Daemons : stage[d] # "off" => d = 1
      BY DEF Init
    <2>2. \A e \in Daemons : ~(e < 1)
      BY ConstantsAssumption DEF Daemons
    <2> QED BY <2>1, <2>2 DEF DaemonsFollow
  <1>7. WorkersAreKnown /\ PendingIsLatest /\ HeldIsStopped
    BY <1>2 DEF WorkersAreKnown, PendingIsLatest, HeldIsStopped
  <1>8. WorkIsInOrder /\ DoneIsDone
    BY <1>3 DEF WorkIsInOrder, Acting, DoneIsDone, Ended
  <1> QED BY <1>1, <1>5, <1>6, <1>7, <1>8 DEF ObeyInv

LEMMA ObeyImplies == ObeyInv => HeldIsStopped /\ DoneWasDone
  <1> SUFFICES ASSUME ObeyInv, NEW i \in Ids, "done" \in told[i]
               PROVE  /\ ask[i].action \in StopActions => \A l \in ask[i].lifetime : ~workers[l].live
                      /\ ask[i].action = "restart" => \E l \in DOMAIN workers : workers[l].id = i
                      /\ ask[i].action = "delete" => definition = 0
    BY DEF ObeyInv, DoneWasDone
  <1>1. Ended(i, "done")
    BY DEF ObeyInv, OnceInv, ToldIsTrue, Final
  <1>2. WasDone(i)
    BY <1>1 DEF ObeyInv, DoneIsDone
  <1> QED BY <1>2 DEF WasDone, Made

\* While nothing is pending, an agent held stopped or deleted has no worker under
\* a daemon that runs; and what the service is told was done was done.
THEOREM OperatorIsObeyed == Spec => [](HeldIsStopped /\ DoneWasDone)
  <1>1. Spec => []ObeyInv
    BY ObeyInit, ObeyStep, PTL DEF Spec
  <1> QED BY <1>1, ObeyImplies, PTL

-----------------------------------------------------------------------------
(* The types. *)

\* An answer that is kept, or on its way, is an answer.
AnswersAreSome ==
    /\ \A i \in Ids : row[i].phase = "terminal" => row[i].result \in Answers
    /\ \A a \in Actors : job[a].at = "reporting" => job[a].answer \in Answers

AnswersGoOn ==
    /\ \A i \in Ids : row'[i] = row[i] \/ row'[i].phase # "terminal" \/ row'[i].result \in Answers
    /\ \A a \in Actors : job'[a] = job[a] \/ job'[a].at # "reporting" \/ job'[a].answer \in Answers

TypesOfAll ==
    /\ ObeyInv /\ AnswersAreSome
    /\ held \in BOOLEAN /\ lock \in Actors \cup {NoOne} /\ definition \in 0 .. MaxEdits + 1 /\ faults \in 0 .. MaxFaults
    /\ \A i \in Ids : ask[i].revision \in 0 .. MaxEdits + 1 /\ (open[i] = "unasked" => ask[i] = NoAsk)
    /\ open \in [Ids -> {"unasked", "open", "closed"}]
    /\ told \in [Ids -> SUBSET Answers]

\* The variables that only take one of a few values at each step.
FewValues ==
    /\ lock' \in {lock, NoOne} \cup Actors
    /\ definition' \in {definition, 0} \/ (definition \in 1 .. MaxEdits /\ definition' = definition + 1)
    /\ faults' = faults \/ Fault

LEMMA FactIsBoolean == ASSUME held \in BOOLEAN, [Next]_vars  PROVE held' \in BOOLEAN
  <1>1. ASSUME NEW a \in Actors, NEW result, Finish(a, result)  PROVE held' \in {held, FALSE}
    BY <1>1 DEF Finish, FactAfter
  <1>2. ASSUME NEW a \in Actors, Work(a)
        PROVE  \/ held' \in {held, FALSE}
               \/ held' = (held \/ Action(a) # "kill")
    <2>1. CASE Read(a) \/ Locked(a)
      BY <1>1, <2>1 DEF Read, Locked
    <2>2. CASE Kill(a) \/ Produce(a) \/ Attach(a) \/ LockTimeout(a)
      BY <1>1, <2>2 DEF Kill, Produce, Attach, LockTimeout, LeaveUnknown
    <2>3. CASE AfterStop(a) \/ Remove(a) \/ Removed(a) \/ Build(a) \/ Admit(a)
      BY <1>1, <2>3 DEF AfterStop, Remove, Removed, Build, Admit
    <2>4. CASE AutomaticAdmit(a) \/ Report(a)
      BY <2>4 DEF AutomaticAdmit, Report
    <2> QED BY <1>2, <2>1, <2>2, <2>3, <2>4 DEF Work
  <1>3. ASSUME NEW a \in Actors, Work(a)  PROVE held' \in BOOLEAN
    BY <1>2, <1>3
  <1>4. ASSUME NEW d \in Daemons, NEW i, Claim(d, i) \/ AutomaticTake(d, i)  PROVE held' = held
    BY <1>4 DEF Claim, AutomaticTake
  <1>5. ASSUME NEW d \in Daemons, Drain(d) \/ Leave(d) \/ Boot(d)  PROVE held' = held
    BY <1>5 DEF Drain, Leave, Boot
  <1>6. ASSUME NEW i \in Ids, Ask(i)  PROVE held' = held
    BY <1>6 DEF Ask
  <1>7. ASSUME NEW l, WorkerExits(l) \/ ObserveExit(l)  PROVE held' = held
    BY <1>7 DEF WorkerExits, ObserveExit
  <1>8. ASSUME Edit \/ UNCHANGED vars  PROVE held' = held
    BY <1>8 DEF Edit, vars
  <1> QED BY <1>3, <1>4, <1>5, <1>6, <1>7, <1>8 DEF Next

LEMMA AnswersOfWork ==
    ASSUME ObeyInv, AnswersAreSome, NEW a \in Actors,
           (\E place \in Places \ {"reporting"} : Goto(a, place) /\ UNCHANGED row)
              \/ (\E i : End(a, i, "refused") /\ UNCHANGED row)
              \/ LeaveUnknown(a)
              \/ (Acting(a) /\ \E result \in {"done", "refused"} : Finish(a, result))
    PROVE  AnswersGoOn
  <1>1. job \in [Actors -> Jobs] /\ row \in [Ids -> Rows]
    BY DEF ObeyInv, OnceInv, IndInv, Shape
  <1>2. ASSUME NEW place \in Places \ {"reporting"}, Goto(a, place), UNCHANGED row  PROVE AnswersGoOn
    <2>1. job'[a].at = place /\ \A b \in Actors \ {a} : job'[b] = job[b]
      BY <1>1, <1>2 DEF Goto, Jobs
    <2> QED BY <1>2, <2>1 DEF AnswersGoOn
  <1>3. ASSUME NEW i, NEW answer \in Answers, End(a, i, answer)
        PROVE  \A b \in Actors : job'[b] = job[b] \/ job'[b].at # "reporting" \/ job'[b].answer \in Answers
    <2>1. /\ job'[a] = (IF a[2] = "automatic" THEN Idle ELSE [at |-> "reporting", id |-> i, answer |-> answer])
          /\ \A b \in Actors \ {a} : job'[b] = job[b]
      BY <1>1, <1>3 DEF End
    <2>2. job'[a].at # "reporting" \/ job'[a].answer \in Answers
      BY <2>1 DEF Idle
    <2> QED BY <2>1, <2>2
  <1>4. CASE (\E i : End(a, i, "refused") /\ UNCHANGED row) \/ LeaveUnknown(a)
    <2>1. (\E i, answer : answer \in Answers /\ End(a, i, answer)) /\ UNCHANGED row
      BY <1>4 DEF LeaveUnknown, Answers
    <2> QED BY <1>3, <2>1 DEF AnswersGoOn
  <1>5. ASSUME Acting(a), NEW result \in {"done", "refused"}, Finish(a, result)  PROVE AnswersGoOn
    <2>1. PICK i \in Ids : i = job[a].id /\ row[i] = Pending(a[1])
      BY <1>5, AtWork
    <2>2. row' = [row EXCEPT ![i] = Terminal(a[1], result)] /\ End(a, i, result)
      BY <1>5, <2>1 DEF Finish, Pending
    <2>3. \A j \in Ids : row'[j] = row[j] \/ row'[j].result \in Answers
      BY <1>1, <2>2 DEF Terminal, Answers
    <2>4. result \in Answers
      BY DEF Answers
    <2> QED BY <1>3, <2>2, <2>3, <2>4 DEF AnswersGoOn
  <1> QED BY <1>2, <1>4, <1>5

LEMMA WorkKeepsTypes ==
    ASSUME TypesOfAll, NEW a \in Actors, Work(a), ~Report(a)
    PROVE  FewValues /\ AnswersGoOn /\ UNCHANGED <<ask, open, told>>
  <1> USE DEF Places
  <1>1. CASE Read(a)
    <2>1. FewValues /\ UNCHANGED <<ask, open, told>>
      BY <1>1 DEF Read, FewValues, world
    <2>2. Acting(a)
      BY <1>1 DEF Read, Acting
    <2> QED BY <1>1, <2>1, <2>2, AnswersOfWork DEF Read, TypesOfAll
  <1>2. CASE Locked(a)
    <2>1. FewValues /\ UNCHANGED <<ask, open, told>>
      BY <1>2 DEF Locked, FewValues, world
    <2>2. Acting(a)
      BY <1>2 DEF Locked, Acting
    <2> QED BY <1>2, <2>1, <2>2, AnswersOfWork DEF Locked, TypesOfAll
  <1>3. CASE Kill(a)
    <2>1. FewValues /\ UNCHANGED <<ask, open, told>>
      BY <1>3 DEF Kill, FewValues, world
    <2> QED BY <1>3, <2>1, AnswersOfWork DEF Kill, TypesOfAll
  <1>4. CASE AfterStop(a)
    <2>1. FewValues /\ UNCHANGED <<ask, open, told>>
      BY <1>4 DEF AfterStop, FewValues, world
    <2>2. Acting(a)
      BY <1>4 DEF AfterStop, Acting
    <2> QED BY <1>4, <2>1, <2>2, AnswersOfWork DEF AfterStop, TypesOfAll
  <1>5. CASE Remove(a)
    <2>1. FewValues /\ UNCHANGED <<ask, open, told>>
      BY <1>5 DEF Remove, FewValues
    <2>2. Acting(a)
      BY <1>5 DEF Remove, Acting
    <2> QED BY <1>5, <2>1, <2>2, AnswersOfWork DEF Remove, TypesOfAll
  <1>6. CASE Removed(a)
    <2>1. FewValues /\ UNCHANGED <<ask, open, told>>
      BY <1>6 DEF Removed, FewValues, world
    <2>2. Acting(a)
      BY <1>6 DEF Removed, Acting
    <2> QED BY <1>6, <2>1, <2>2, AnswersOfWork DEF Removed, TypesOfAll
  <1>7. CASE Build(a)
    <2>1. FewValues /\ UNCHANGED <<ask, open, told>>
      BY <1>7 DEF Build, FewValues, world
    <2>2. Acting(a)
      BY <1>7 DEF Build, Acting
    <2> QED BY <1>7, <2>1, <2>2, AnswersOfWork DEF Build, TypesOfAll
  <1>8. CASE Admit(a)
    <2>1. FewValues /\ UNCHANGED <<ask, open, told>>
      BY <1>8 DEF Admit, FewValues, world
    <2>2. Acting(a)
      BY <1>8 DEF Admit, Acting
    <2> QED BY <1>8, <2>1, <2>2, AnswersOfWork DEF Admit, TypesOfAll
  <1>9. CASE AutomaticAdmit(a)
    <2>1. FewValues /\ UNCHANGED <<ask, open, told>>
      BY <1>9 DEF AutomaticAdmit, FewValues, world
    <2>2. PICK i \in Ids : i = job[a].id
      BY <1>9, ActorsAreDaemons DEF AutomaticAdmit, TypesOfAll, ObeyInv, OnceInv, IndInv, Shape
    <2>3. row \in [Ids -> Rows]
      BY DEF TypesOfAll, ObeyInv, OnceInv, IndInv, Shape
    <2>4. CASE End(a, i, "refused") /\ UNCHANGED row
      BY <2>1, <2>4, AnswersOfWork DEF TypesOfAll
    <2>5. CASE End(a, i, "refused") /\ row' = [row EXCEPT ![i] = Terminal(a[1], "refused")]
      <3>1. \A j \in Ids : row'[j] = row[j] \/ row'[j].result \in Answers
        BY <2>3, <2>5 DEF Terminal, Answers
      <3>2. job' = [job EXCEPT ![a] = Idle] /\ job \in [Actors -> Jobs]
        BY <1>9, <2>5 DEF End, AutomaticAdmit, TypesOfAll, ObeyInv, OnceInv, IndInv, Shape
      <3>3. \A b \in Actors : job'[b] = job[b] \/ job'[b].at # "reporting"
        BY <3>2 DEF Idle
      <3> QED BY <2>1, <3>1, <3>3 DEF AnswersGoOn
    <2>6. CASE row' = [row EXCEPT ![i] = Pending(a[1])] /\ Goto(a, "producing")
      <3>1. \A j \in Ids : row'[j] = row[j] \/ row'[j].phase # "terminal"
        BY <2>3, <2>6 DEF Pending
      <3>2. \A b \in Actors : job'[b] = job[b] \/ job'[b].at # "reporting"
        BY <2>6 DEF Goto, TypesOfAll, ObeyInv, OnceInv, IndInv, Shape, Jobs
      <3> QED BY <2>1, <3>1, <3>2 DEF AnswersGoOn
    <2> QED BY <1>9, <2>2, <2>4, <2>5, <2>6 DEF AutomaticAdmit
  <1>10. CASE Produce(a)
    <2>1. FewValues /\ UNCHANGED <<ask, open, told>>
      BY <1>10 DEF Produce, FewValues, world
    <2>2. Acting(a)
      BY <1>10 DEF Produce, Acting
    <2> QED BY <1>10, <2>1, <2>2, AnswersOfWork DEF Produce, TypesOfAll
  <1>11. CASE Attach(a)
    <2>1. FewValues /\ UNCHANGED <<ask, open, told>>
      BY <1>11 DEF Attach, FewValues, world
    <2>2. Acting(a)
      BY <1>11 DEF Attach, Acting
    <2> QED BY <1>11, <2>1, <2>2, AnswersOfWork DEF Attach, TypesOfAll
  <1>12. CASE LockTimeout(a)
    <2>1. FewValues /\ UNCHANGED <<ask, open, told>>
      BY <1>12 DEF LockTimeout, FewValues, world
    <2>2. LeaveUnknown(a) \/ (Acting(a) /\ Finish(a, "refused"))
      BY <1>12 DEF LockTimeout, Acting
    <2> QED BY <2>1, <2>2, AnswersOfWork DEF TypesOfAll
  <1> QED BY <1>1, <1>2, <1>3, <1>4, <1>5, <1>6, <1>7, <1>8, <1>9, <1>10, <1>11, <1>12 DEF Work

LEMMA TypesKept ==
    ASSUME TypesOfAll, ObeyInv', held' \in BOOLEAN, FewValues, AnswersGoOn, UNCHANGED <<ask, open, told>>
    PROVE  TypesOfAll'
  <1>1. AnswersAreSome'
    BY DEF TypesOfAll, AnswersAreSome, AnswersGoOn
  <1>2. lock' \in Actors \cup {NoOne}
    BY DEF TypesOfAll, FewValues
  <1>3. definition' \in 0 .. MaxEdits + 1
    BY ConstantsAssumption DEF TypesOfAll, FewValues
  <1>4. faults' \in 0 .. MaxFaults
    BY ConstantsAssumption DEF TypesOfAll, FewValues, Fault
  <1> QED BY <1>1, <1>2, <1>3, <1>4 DEF TypesOfAll

LEMMA TypesReport == ASSUME TypesOfAll, ObeyInv', held' \in BOOLEAN, NEW a \in Actors, Report(a)  PROVE TypesOfAll'
  <1>1. PICK i \in Ids : i = job[a].id
    BY ActorsAreDaemons DEF Report, TypesOfAll, ObeyInv, OnceInv, IndInv, Shape
  <1>2. PICK answer \in Answers : answer = job[a].answer
    BY DEF Report, TypesOfAll, AnswersAreSome
  <1>3. /\ UNCHANGED <<lock, definition, row, ask, workers>>
        /\ job' = [job EXCEPT ![a] = Idle]
        /\ open[i] # "unasked"
    BY <1>1 DEF Report, TypesOfAll, ObeyInv, AskedIsWhole
  <1>4. \/ /\ open' = [open EXCEPT ![i] = "closed"]
           /\ told' = [told EXCEPT ![i] = @ \cup {answer}]
           /\ UNCHANGED faults
        \/ Fault /\ UNCHANGED <<open, told>>
    BY <1>1, <1>2 DEF Report
  <1>5. AnswersAreSome'
    <2>1. \A b \in Actors : job'[b] = job[b] \/ job'[b].at = "idle"
      BY <1>3 DEF Idle, TypesOfAll, ObeyInv, OnceInv, IndInv, Shape
    <2> QED BY <1>3, <2>1 DEF TypesOfAll, AnswersAreSome
  <1>6. faults' \in 0 .. MaxFaults
    BY <1>4, ConstantsAssumption DEF TypesOfAll, Fault
  <1>7. /\ open' \in [Ids -> {"unasked", "open", "closed"}]
        /\ \A j \in Ids : open'[j] = "unasked" => open[j] = "unasked"
    BY <1>3, <1>4 DEF TypesOfAll
  <1>8. told' \in [Ids -> SUBSET Answers]
    BY <1>4 DEF TypesOfAll
  <1> QED BY <1>3, <1>5, <1>6, <1>7, <1>8 DEF TypesOfAll

LEMMA TypesAsk == ASSUME TypesOfAll, ObeyInv', held' \in BOOLEAN, NEW i \in Ids, Ask(i)  PROVE TypesOfAll'
  <1>1. PICK asked : ask' = [ask EXCEPT ![i] = asked] /\ asked.revision = definition
    <2>1. PICK action, lifetime :
             ask' = [ask EXCEPT ![i] = [action |-> action, revision |-> definition, lifetime |-> lifetime]]
      BY DEF Ask
    <2> WITNESS [action |-> action, revision |-> definition, lifetime |-> lifetime]
    <2> QED BY <2>1
  <1>2. /\ open' = [open EXCEPT ![i] = "open"]
        /\ UNCHANGED <<lock, definition, workers, row, told, job, faults>>
    BY DEF Ask
  <1>3. ask = [j \in Ids |-> ask[j]] /\ open \in [Ids -> {"unasked", "open", "closed"}]
    BY DEF TypesOfAll, ObeyInv, AskedIsWhole
  <1>4. /\ ask'[i].revision = definition /\ open'[i] = "open"
        /\ \A j \in Ids \ {i} : ask'[j] = ask[j] /\ open'[j] = open[j]
        /\ open' \in [Ids -> {"unasked", "open", "closed"}]
    BY <1>1, <1>2, <1>3
  <1>5. \A j \in Ids : ask'[j].revision \in 0 .. MaxEdits + 1 /\ (open'[j] = "unasked" => ask'[j] = NoAsk)
    BY <1>4 DEF TypesOfAll
  <1>6. AnswersAreSome'
    BY <1>2 DEF TypesOfAll, AnswersAreSome
  <1> QED BY <1>2, <1>4, <1>5, <1>6 DEF TypesOfAll

LEMMA TypesClaim ==
    ASSUME TypesOfAll, ObeyInv', held' \in BOOLEAN, NEW d \in Daemons, NEW r \in Requests, Claim(d, r)  PROVE TypesOfAll'
  <1>1. PICK a \in Actors : a = <<d, "lifecycle">>
    BY DEF Actors
  <1>2. /\ job \in [Actors -> Jobs] /\ row \in [Ids -> Rows] /\ r \in Ids /\ AnswersAreSome
        /\ a[2] = "lifecycle"
    BY <1>1 DEF Ids, TypesOfAll, ObeyInv, OnceInv, IndInv, Shape
  <1>3. FewValues /\ UNCHANGED <<ask, open, told>>
    BY DEF Claim, world, FewValues
  <1>4. ASSUME NEW answer \in Answers, End(a, r, answer)
        PROVE  \A b \in Actors : job'[b] = job[b] \/ job'[b].answer \in Answers
    BY <1>2, <1>4 DEF End
  <1>5. CASE ~Fresh(r) /\ End(a, r, Receipt(r)) /\ UNCHANGED row
    <2>1. row[r] \in Rows
      BY <1>2
    <2>2. Receipt(r) \in Answers
      BY <1>2, <1>5, <2>1 DEF AnswersAreSome, Receipt, Fresh, Answers, Rows
    <2> QED BY <1>3, <1>4, <1>5, <2>2, TypesKept DEF AnswersGoOn
  <1>6. CASE row' = [row EXCEPT ![r] = Terminal(d, "refused")] /\ End(a, r, "refused")
    <2>1. \A j \in Ids : row'[j] = row[j] \/ row'[j].result \in Answers
      BY <1>2, <1>6 DEF Terminal, Answers
    <2>2. "refused" \in Answers
      BY DEF Answers
    <2> QED BY <1>3, <1>4, <1>6, <2>1, <2>2, TypesKept DEF AnswersGoOn
  <1>7. CASE /\ row' = [row EXCEPT ![r] = Pending(d)]
             /\ job' = [job EXCEPT ![a] = [at |-> "reading", id |-> r, answer |-> "none"]]
    <2>1. \A j \in Ids : row'[j] = row[j] \/ row'[j].phase # "terminal"
      BY <1>2, <1>7 DEF Pending
    <2>2. \A b \in Actors : job'[b] = job[b] \/ job'[b].at # "reporting"
      BY <1>2, <1>7
    <2> QED BY <1>3, <2>1, <2>2, TypesKept DEF AnswersGoOn
  <1> QED BY <1>1, <1>5, <1>6, <1>7 DEF Claim

LEMMA TypesAutomaticTake ==
    ASSUME TypesOfAll, ObeyInv', held' \in BOOLEAN, NEW d \in Daemons, NEW i \in Automatics, AutomaticTake(d, i)  PROVE TypesOfAll'
  <1>1. PICK a \in Actors : a = <<d, "automatic">>
    BY DEF Actors
  <1>2. /\ UNCHANGED <<lock, definition, workers, row, ask, told, faults>>
        /\ open' = [open EXCEPT ![i] = "closed"] /\ i \in Ids /\ open[i] = "open"
    BY DEF AutomaticTake, Ids
  <1>3. job' = [job EXCEPT ![a] = [at |-> "admitting", id |-> i, answer |-> "none"]] \/ job' = [job EXCEPT ![a] = Idle]
    BY <1>1 DEF AutomaticTake
  <1>4. \A b \in Actors : job'[b] = job[b] \/ job'[b].at # "reporting"
    BY <1>3 DEF Idle, TypesOfAll, ObeyInv, OnceInv, IndInv, Shape
  <1>5. AnswersAreSome'
    BY <1>2, <1>4 DEF TypesOfAll, AnswersAreSome
  <1>6. /\ open' \in [Ids -> {"unasked", "open", "closed"}]
        /\ \A j \in Ids : open'[j] = "unasked" => open[j] = "unasked"
    BY <1>2 DEF TypesOfAll
  <1> QED BY <1>2, <1>5, <1>6 DEF TypesOfAll

LEMMA TypesStep == TypesOfAll /\ [Next]_vars => TypesOfAll'
  <1> SUFFICES ASSUME TypesOfAll, [Next]_vars  PROVE TypesOfAll'
    OBVIOUS
  <1>1. ObeyInv' /\ held' \in BOOLEAN
    BY ObeyStep, FactIsBoolean DEF TypesOfAll
  <1>2. ASSUME NEW a \in Actors, Work(a)  PROVE TypesOfAll'
    BY <1>1, <1>2, TypesReport, WorkKeepsTypes, TypesKept
  <1>3. ASSUME NEW d \in Daemons, Drain(d) \/ Leave(d)  PROVE TypesOfAll'
    <2>1. FewValues /\ UNCHANGED <<ask, open, told, row>>
      BY <1>3 DEF Drain, Leave, FewValues
    <2>2. \A a \in Actors : job'[a] = job[a] \/ job'[a].at = "idle"
      BY <1>3 DEF Drain, Leave, Idle
    <2> QED BY <1>1, <2>1, <2>2, TypesKept DEF AnswersGoOn
  <1>4. ASSUME NEW d \in Daemons, Boot(d)  PROVE TypesOfAll'
    <2>1. FewValues /\ UNCHANGED <<ask, open, told, job>>
      BY <1>4 DEF Boot, FewValues
    <2>2. \A i \in Ids : row'[i] = row[i] \/ row'[i].result \in Answers
      BY <1>4 DEF Boot, Settled, Terminal, Answers
    <2> QED BY <1>1, <2>1, <2>2, TypesKept DEF AnswersGoOn
  <1>5. ASSUME NEW l \in DOMAIN workers, WorkerExits(l) \/ ObserveExit(l)  PROVE TypesOfAll'
    BY <1>1, <1>5, TypesKept DEF WorkerExits, ObserveExit, world, FewValues, AnswersGoOn
  <1>6. CASE Edit
    BY <1>1, <1>6, TypesKept DEF Edit, FewValues, AnswersGoOn
  <1>7. CASE UNCHANGED vars
    BY <1>1, <1>7, TypesKept DEF vars, FewValues, AnswersGoOn
  <1> QED BY <1>1, <1>2, <1>3, <1>4, <1>5, <1>6, <1>7, TypesAsk, TypesClaim, TypesAutomaticTake DEF Next

LEMMA TypesInit == Init => TypesOfAll
  <1> SUFFICES ASSUME Init  PROVE TypesOfAll
    OBVIOUS
  <1>1. AnswersAreSome
    BY DEF Init, AnswersAreSome, NoRow, Idle
  <1>2. \A i \in Ids : ask[i] = NoAsk /\ NoAsk.revision = 0
    BY DEF Init, NoAsk
  <1>3. definition \in 0 .. MaxEdits + 1 /\ 0 \in 0 .. MaxEdits + 1 /\ faults \in 0 .. MaxFaults
    BY ConstantsAssumption DEF Init
  <1>4. open \in [Ids -> {"unasked", "open", "closed"}] /\ told \in [Ids -> SUBSET Answers] /\ lock = NoOne /\ held \in BOOLEAN
    BY DEF Init
  <1> QED BY <1>1, <1>2, <1>3, <1>4, ObeyInit DEF TypesOfAll

LEMMA TypesImply == TypesOfAll => LifecycleTypeOK
  <1> SUFFICES ASSUME TypesOfAll  PROVE LifecycleTypeOK
    OBVIOUS
  <1>1. stage \in [Daemons -> {"off", "up", "draining", "gone"}]
    BY DEF TypesOfAll, ObeyInv, OnceInv, IndInv, Shape, Stages
  <1>2. row \in [Ids -> Rows] /\ job \in [Actors -> Jobs]
    BY DEF TypesOfAll, ObeyInv, OnceInv, IndInv, Shape
  <1>3. \A l \in DOMAIN workers : workers[l] \in Worker
    BY WorkersOnFile DEF TypesOfAll, ObeyInv
  <1>4. \A i \in Ids : /\ ask[i].action \in Actions \cup {"automatic", "none"}
                       /\ ask[i].lifetime \subseteq DOMAIN workers
    <2> SUFFICES ASSUME NEW i \in Ids  PROVE /\ ask[i].action \in Actions \cup {"automatic", "none"}
                                             /\ ask[i].lifetime \subseteq DOMAIN workers
      OBVIOUS
    <2>1. CASE open[i] = "unasked"
      BY <2>1 DEF TypesOfAll, NoAsk
    <2>2. CASE open[i] # "unasked"
      <3>1. IsAsked(i)
        BY <2>2 DEF TypesOfAll, ObeyInv, AskedIsWhole
      <3> QED BY <3>1 DEF IsAsked
    <2> QED BY <2>1, <2>2
  <1> QED BY <1>1, <1>2, <1>3, <1>4 DEF LifecycleTypeOK, TypesOfAll, Rows, Jobs, Worker

\* Every variable keeps its type.
THEOREM TypesHold == Spec => []LifecycleTypeOK
  <1>1. Spec => []TypesOfAll
    BY TypesInit, TypesStep, PTL DEF Spec
  <1> QED BY <1>1, TypesImply, PTL

\* All of them together, for any number of daemons, requests and automatic starts.
THEOREM LifecycleHolds == Spec => []LifecycleIsSafe
  BY OneActorHolds, ExecutesOnce, OperatorIsObeyed, TypesHold, PTL DEF LifecycleIsSafe

=============================================================================
