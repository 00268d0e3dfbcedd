---------------------------- MODULE GatewayBook ----------------------------
(***************************************************************************)
(* One hermes gateway for each agent (lib/hermes-gateway-book.mjs, behind  *)
(* the route of lib/agent-gateways.mjs).  A launcher asks `prepare` for a  *)
(* port or for the gateway its lifetime has, starts one, and registers its *)
(* pid; the record outlives the environment that wrote it, and the         *)
(* residents' role says which environment may write.                       *)
(*                                                                         *)
(* Every await of `prepare` is a step of its own: the system's answer      *)
(* about a pid, what answers on its port, the kill, the proof that it      *)
(* took, and the look for a free port.  The role's and the lifetime's      *)
(* fence is asked where the code asks it, in the same turn as the effect   *)
(* that follows.                                                           *)
(***************************************************************************)
EXTENDS Naturals, FiniteSets

CONSTANTS Owners,        \* environments that may hold the residents' role
          Agents,
          GatewayPorts,  \* each agent tries them in an order of its own
          GatewayPids,
          MaxLifetimes,  \* launches of an agent
          MaxLaunches,   \* launches of all, and requests made again
          MaxMoves,      \* how often the role moves
          MaxFaults      \* answers the system does not give, kills that fail

\* A port and a pid are positive numbers.
GatewaysAreNumbered == GatewayPorts \subseteq Nat \ {0} /\ GatewayPids \subseteq Nat \ {0} /\ MaxLifetimes \in Nat

NoRecord == [port |-> 0, pid |-> 0, lifetime |-> 0]
NoProcess == [agent |-> "none", lifetime |-> 0, port |-> 0]
AtRest == [stage |-> "rest", lifetime |-> 0, record |-> NoRecord, others |-> {}, entered |-> FALSE, seen |-> FALSE]
NotLaunched == [stage |-> "none", port |-> 0, pid |-> 0]

VARIABLES
  owner,     \* who holds the residents' role
  current,   \* each agent's current lifetime; 0 before the first
  records,   \* the record file of each agent
  task,      \* the request each environment serves for each agent; (history) whether its gateway was seen
  launcher,  \* each launcher: what it was given, what it started
  process,   \* the gateway each pid is, if it is one
  launches, moves, faults,
  handed,    \* (history) live gateways handed back: to whom, whose, and what was known of them
  unheard    \* (history) pids whose record went unanswered for

gateVars == <<owner, current, records, task, launcher, process, launches, moves, faults, handed, unheard>>

BookInit ==
  /\ owner \in Owners
  /\ current = [a \in Agents |-> 0]
  /\ records = [a \in Agents |-> NoRecord]
  /\ task = [e \in Owners |-> [a \in Agents |-> AtRest]]
  /\ launcher = [a \in Agents |-> [l \in 1 .. MaxLifetimes |-> NotLaunched]]
  /\ process = [p \in GatewayPids |-> NoProcess]
  /\ launches = 0 /\ moves = 0 /\ faults = 0 /\ handed = {} /\ unheard = {}

----------------------------------------------------------------------------
(* Outside: launches, the role, and the gateways themselves. *)

\* An agent is launched anew: the lifetime before is no longer current.
Launches(a) ==
  /\ current[a] < MaxLifetimes /\ launches < MaxLaunches
  /\ launches' = launches + 1
  /\ current' = [current EXCEPT ![a] = @ + 1]
  /\ launcher' = [launcher EXCEPT ![a][current[a] + 1].stage = "asks"]
  /\ UNCHANGED <<owner, records, task, process, moves, faults, handed, unheard>>

\* The role is released or lost: what entered under it is entered no more, and
\* the role's return does not enter it again.
RoleMoves ==
  /\ moves < MaxMoves
  /\ \E e \in Owners \ {owner} : owner' = e
  /\ task' = [task EXCEPT ![owner] = [a \in Agents |-> [task[owner][a] EXCEPT !.entered = FALSE]]]
  /\ moves' = moves + 1
  /\ UNCHANGED <<current, records, launcher, process, launches, faults, handed, unheard>>

Listening(port) == \E p \in GatewayPids : process[p].port = port

\* The launcher starts its gateway on the port it was given; one that finds
\* the port taken ends.  The system gives it a pid that no gateway of that
\* port is known by: the check goes by pid and port.
HadPort(p, port) ==
  \E b \in Agents :
    \/ records[b].pid = p /\ records[b].port = port
    \/ \E m \in 1 .. MaxLifetimes : launcher[b][m] = [stage |-> "started", pid |-> p, port |-> port]

StartsGateway(a, l) ==
  /\ launcher[a][l].stage = "given" /\ ~ Listening(launcher[a][l].port)
  /\ \E p \in {q \in GatewayPids : process[q] = NoProcess /\ ~ HadPort(q, launcher[a][l].port)} :
       /\ process' = [process EXCEPT ![p] = [agent |-> a, lifetime |-> l, port |-> launcher[a][l].port]]
       /\ launcher' = [launcher EXCEPT ![a][l].stage = "started", ![a][l].pid = p]
       /\ unheard' = unheard \ {p}
  /\ UNCHANGED <<owner, current, records, task, launches, moves, faults, handed>>

\* A gateway ends by itself; its pid is free for another.
GatewayEnds(p) ==
  /\ process[p] # NoProcess
  /\ process' = [process EXCEPT ![p] = NoProcess]
  /\ UNCHANGED <<owner, current, records, task, launcher, launches, moves, faults, handed, unheard>>

----------------------------------------------------------------------------
(* The route and the book. *)

\* Whether this environment may act for this lifetime, and whether the request
\* it serves may still: under the tenure it entered in.
MayAct(e, a, l) == owner = e /\ current[a] = l
Acts(e, a) == task[e][a].entered /\ MayAct(e, a, task[e][a].lifetime)

\* What the system says of a record's pid: it is that gateway, it is not, or
\* it gave no answer.
Confirms(r) == r.pid > 0 /\ process[r.pid] # NoProcess /\ process[r.pid].port = r.port
MayFail == faults < MaxFaults
Fault == MayFail /\ faults' = faults + 1

Sets(e, a, t) == task' = [task EXCEPT ![e][a] = t]
Refuses(e, a) == task' = [task EXCEPT ![e][a] = AtRest]

\* The request is admitted, and the agent's record read.
PrepareBegins(e, a, l) ==
  /\ launcher[a][l].stage = "asks" /\ task[e][a].stage = "rest" /\ MayAct(e, a, l)
  /\ Sets(e, a, [stage |-> IF records[a] = NoRecord THEN "choose" ELSE IF records[a].lifetime = l THEN "adopt" ELSE "end",
                 lifetime |-> l, record |-> records[a], others |-> {}, entered |-> TRUE, seen |-> FALSE])
  /\ UNCHANGED <<owner, current, records, launcher, process, launches, moves, faults, handed, unheard>>

\* This lifetime's own gateway: asked for its token only when the system says
\* the recorded pid is it.
PrepareConfirms(e, a) ==
  LET t == task[e][a] IN
  /\ t.stage = "adopt"
  /\ \/ Confirms(t.record) /\ Sets(e, a, [t EXCEPT !.stage = "probe", !.seen = TRUE]) /\ UNCHANGED faults
     \/ (IF Confirms(t.record) THEN Fault ELSE UNCHANGED faults) /\ Sets(e, a, [t EXCEPT !.stage = "end"])
  /\ UNCHANGED <<owner, current, records, launcher, process, launches, moves, handed, unheard>>

\* Whatever answers on its port by then is handed back.
AtPort(port) == {p \in GatewayPids : process[p].port = port}
Handed(a, t, p) ==
  [agent |-> a, lifetime |-> t.lifetime, gateway |-> process[p],
   left |-> t.seen /\ ~ Confirms(t.record),
   named |-> \E b \in Agents : records[b].pid = p /\ records[b].port = t.record.port]

PrepareAdopts(e, a) ==
  LET t == task[e][a] IN
  /\ t.stage = "probe"
  /\ \/ ~ Acts(e, a) /\ Refuses(e, a) /\ UNCHANGED <<launcher, faults, handed>>
     \/ /\ Acts(e, a) /\ Listening(t.record.port)
        /\ handed' = handed \cup {Handed(a, t, p) : p \in AtPort(t.record.port)}
        /\ launcher' = [launcher EXCEPT ![a][t.lifetime].stage = "done"]
        /\ Refuses(e, a) /\ UNCHANGED faults
     \/ /\ Acts(e, a) /\ IF Listening(t.record.port) THEN Fault ELSE UNCHANGED faults
        /\ Sets(e, a, [t EXCEPT !.stage = "end", !.seen = FALSE]) /\ UNCHANGED <<launcher, handed>>
  /\ UNCHANGED <<owner, current, records, process, launches, moves, unheard>>

\* Any other recorded gateway, and this lifetime's that gave no token, is to
\* be ended, once the system says the pid is it.  Unconfirmed, its record is
\* dropped and the process left alone.
PrepareEnds(e, a) ==
  LET t == task[e][a] IN
  /\ t.stage = "end"
  /\ UNCHANGED <<owner, current, launcher, process, launches, moves, handed>>
  /\ \/ ~ Acts(e, a) /\ Refuses(e, a) /\ UNCHANGED <<records, faults, unheard>>
     \/ /\ Acts(e, a) /\ Confirms(t.record)
        /\ Sets(e, a, [t EXCEPT !.stage = "kill"]) /\ UNCHANGED <<records, faults, unheard>>
     \/ /\ Acts(e, a)
        /\ IF Confirms(t.record) THEN Fault /\ unheard' = unheard \cup {t.record.pid} ELSE UNCHANGED <<faults, unheard>>
        /\ records' = [records EXCEPT ![a] = NoRecord]
        /\ Sets(e, a, [t EXCEPT !.stage = "choose"])

\* The kill takes whatever has the pid by then, or fails.
PrepareKills(e, a) ==
  LET t == task[e][a] IN
  /\ t.stage = "kill"
  /\ Sets(e, a, [t EXCEPT !.stage = "proof"])
  /\ \/ process' = [process EXCEPT ![t.record.pid] = NoProcess] /\ UNCHANGED faults
     \/ process[t.record.pid] # NoProcess /\ Fault /\ UNCHANGED process
  /\ UNCHANGED <<owner, current, records, launcher, launches, moves, handed, unheard>>

\* The system is asked again: only its word that the gateway is gone drops the
\* record, and only for a request that may still act.
\* (Mutant: the kill's own word is the proof.)
ProvenByKill(r) == TRUE
Proven(r) == ~ Confirms(r)

PrepareProves(e, a) ==
  LET t == task[e][a] IN
  /\ t.stage = "proof"
  /\ \/ /\ Proven(t.record) /\ Acts(e, a)
        /\ records' = [records EXCEPT ![a] = NoRecord] /\ Sets(e, a, [t EXCEPT !.stage = "choose"])
        /\ UNCHANGED faults
     \/ /\ IF Proven(t.record) /\ Acts(e, a) THEN Fault ELSE UNCHANGED faults
        /\ UNCHANGED records /\ Refuses(e, a)
  /\ UNCHANGED <<owner, current, launcher, process, launches, moves, handed, unheard>>

\* One choice at a time in an environment: the ports other agents' records
\* hold are read when its turn has come.
ItsTurn(e) == \A b \in Agents : task[e][b].stage # "look"

PrepareChooses(e, a) ==
  /\ task[e][a].stage = "choose" /\ ItsTurn(e)
  /\ Sets(e, a, [task[e][a] EXCEPT !.stage = "look", !.others = {records[b].port : b \in Agents \ {a}}])
  /\ UNCHANGED <<owner, current, records, launcher, process, launches, moves, faults, handed, unheard>>

\* A port that no record held and that was free when it was asked; the agent's
\* own is asked first, each in its turn, so that any may have been busy when
\* its turn was.  None is refused.
Usable(t) == {p \in GatewayPorts : p \notin t.others /\ ~ Listening(p)}

PrepareAnswers(e, a) ==
  LET t == task[e][a] IN
  /\ t.stage = "look"
  /\ Refuses(e, a)
  /\ \/ /\ Acts(e, a)
        /\ \E port \in Usable(t) :
             /\ records' = [records EXCEPT ![a] = [port |-> port, pid |-> 0, lifetime |-> t.lifetime]]
             /\ launcher' = [launcher EXCEPT ![a][t.lifetime] = [stage |-> "given", port |-> port, pid |-> 0]]
     \/ UNCHANGED <<records, launcher>>
  /\ UNCHANGED <<owner, current, process, launches, moves, faults, handed, unheard>>

\* The pid is recorded for the lifetime and the port that were prepared.
Accepts(r, l, port) == r.lifetime = l /\ r.port = port

Register(e, a, l) ==
  /\ launcher[a][l].stage = "started" /\ task[e][a].stage = "rest" /\ MayAct(e, a, l)
  /\ records' = IF Accepts(records[a], l, launcher[a][l].port) THEN [records EXCEPT ![a].pid = launcher[a][l].pid] ELSE records
  /\ launcher' = [launcher EXCEPT ![a][l].stage = "done"]
  /\ UNCHANGED <<owner, current, task, process, launches, moves, faults, handed, unheard>>

\* The delivery loop cannot reach the gateway and asks for it again.
AsksAgain(a, l) ==
  /\ launcher[a][l].stage = "done" /\ l = current[a] /\ launches < MaxLaunches
  /\ launches' = launches + 1
  /\ launcher' = [launcher EXCEPT ![a][l] = [NotLaunched EXCEPT !.stage = "asks"]]
  /\ UNCHANGED <<owner, current, records, task, process, moves, faults, handed, unheard>>

BookNext ==
  \/ RoleMoves
  \/ \E p \in GatewayPids : GatewayEnds(p)
  \/ \E a \in Agents :
       \/ Launches(a)
       \/ \E l \in 1 .. MaxLifetimes : StartsGateway(a, l) \/ AsksAgain(a, l)
       \/ \E e \in Owners :
            \/ PrepareConfirms(e, a) \/ PrepareAdopts(e, a) \/ PrepareEnds(e, a) \/ PrepareKills(e, a) \/ PrepareProves(e, a)
            \/ PrepareChooses(e, a) \/ PrepareAnswers(e, a)
            \/ \E l \in 1 .. MaxLifetimes : PrepareBegins(e, a, l) \/ Register(e, a, l)

BookSpec == BookInit /\ [][BookNext]_gateVars

----------------------------------------------------------------------------
(* Properties. *)

\* No two agents are recorded on one port.
PortsAreApart ==
  \A a, b \in Agents : a # b /\ records[a].port = records[b].port => records[a].port = 0

\* The gateway handed back to a lifetime was started for it: its token is
\* never another agent's.  Between the system's word and the port's answer the
\* lifetime's gateway may end and another's take the port; one that any record
\* names is not handed to another even then.
HandsBackItsOwn ==
  \A h \in handed :
    \/ h.gateway.agent = h.agent /\ h.gateway.lifetime = h.lifetime
    \/ h.left /\ ~ h.named

\* A gateway the book knew is not forgotten while it runs, unless the system
\* gave no answer for it.
KnownIsNotForgotten ==
  \A a \in Agents :
    Confirms(records[a]) /\ process[records[a].pid].agent = a /\ records'[a].pid # records[a].pid
      => \/ records[a].pid \in unheard'
         \/ process'[records[a].pid] = NoProcess

GatewaysAreKept == [][PortsAreApart' /\ HandsBackItsOwn' /\ KnownIsNotForgotten]_gateVars
=============================================================================
