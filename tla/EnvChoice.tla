----------------------------- MODULE EnvChoice -----------------------------
(***************************************************************************)
(* Which environment a command talks to, and which process it then acts    *)
(* on.  An ordinary environment serves the default port; each launch of    *)
(* `herdr-aify env` runs one on a port the system picks and leaves a       *)
(* receipt in its invocation's folder that outlives it                     *)
(* (lib/instance-bootstrap.mjs).  A command looks at the default port, at  *)
(* the receipts, at the processes they name and at who answers there       *)
(* (lib/serving-endpoint.mjs); it lists the processes, resolves the name   *)
(* it was given (lib/attach-target.mjs) and acts on the handle it found    *)
(* (lib/process-registry.mjs).  Environments start and end meanwhile;      *)
(* ports and pids are used again.                                          *)
(***************************************************************************)
EXTENDS Naturals, FiniteSets

CONSTANTS Ports,          \* ports a dedicated environment may be given
          EnvPids,        \* process numbers
          Invocations,    \* herdr-aify env launches, 1 .. n, the newest last
          MaxEnvs,        \* bound: environments started
          ReceiptLimit,   \* ACTION_RECEIPT_LIMIT: receipts a command opens
          MaxBirths,      \* bound: processes started
          MaxUnheard      \* bound: answers lost and looks that fail

DefaultPort == 0

VARIABLES
  envs,      \* environments running: [instance, pid, port, count]
  minted,    \* environments started so far, and the next instance
  strangers, \* pids used by processes that are no environment
  receipts,  \* ready.json of an invocation: pid, port, instance
  hosted,    \* processes: [handle, label, born]
  births,    \* processes started so far
  command,   \* the command: where it stands and what it knows
  unheard    \* answers lost so far

envVars == <<envs, minted, strangers, receipts, hosted, births>>
choiceVars == <<envs, minted, strangers, receipts, hosted, births, command, unheard>>

Name == "agent"
AtStart == [at |-> "start"]

ChoiceInit ==
  /\ envs = {} /\ minted = 0 /\ strangers = {}
  /\ receipts = [i \in {} |-> 0]
  /\ hosted = {} /\ births = 0
  /\ command = AtStart /\ unheard = 0

ListensAt(port) == {e \in envs : e.port = port}
PidsInUse == strangers \cup {e.pid : e \in envs}

----------------------------------------------------------------------------
(* Environments *)

EnvStarts(pid, port) ==
  /\ minted < MaxEnvs /\ pid \in EnvPids \ PidsInUse /\ ListensAt(port) = {}
  /\ minted' = minted + 1
  /\ envs' = envs \cup {[instance |-> minted + 1, pid |-> pid, port |-> port, count |-> 0]}

OrdinaryStarts ==
  \E pid \in EnvPids :
    /\ EnvStarts(pid, DefaultPort)
    /\ UNCHANGED <<strangers, receipts, hosted, births, command, unheard>>

\* publishInstanceReady: claimed once, after the port is bound; a second daemon of
\* the same invocation gets no receipt and ends.
DedicatedStarts ==
  \E pid \in EnvPids, port \in Ports, i \in Invocations \ DOMAIN receipts :
    /\ EnvStarts(pid, port)
    /\ receipts' = [j \in DOMAIN receipts \cup {i} |->
         IF j = i THEN [pid |-> pid, port |-> port, instance |-> minted + 1] ELSE receipts[j]]
    /\ UNCHANGED <<strangers, hosted, births, command, unheard>>

\* An environment ends, and what it hosts with it; its pid and port are free again.
EnvEnds ==
  \E e \in envs :
    /\ envs' = envs \ {e}
    /\ hosted' = {p \in hosted : p.handle.instance # e.instance}
    /\ UNCHANGED <<minted, strangers, receipts, births, command, unheard>>

StrangerTakesPid ==
  \E pid \in EnvPids \ PidsInUse :
    /\ strangers = {}
    /\ strangers' = {pid}
    /\ UNCHANGED <<envs, minted, receipts, hosted, births, command, unheard>>

\* (Mutant: handles are counted from one by every environment.)
HandleUnqualified(e) == [instance |-> 0, number |-> e.count + 1]

\* ProcessRegistry.#nextId: the instance is part of the handle.
Handle(e) == [instance |-> e.instance, number |-> e.count + 1]

ProcessStarts ==
  \E e \in envs :
    /\ births < MaxBirths
    /\ births' = births + 1
    /\ envs' = (envs \ {e}) \cup {[e EXCEPT !.count = @ + 1]}
    /\ hosted' = hosted \cup {[handle |-> Handle(e), host |-> e.instance, label |-> Name, born |-> births + 1]}
    /\ UNCHANGED <<minted, strangers, receipts, command, unheard>>

ProcessGoes ==
  \E p \in hosted :
    /\ hosted' = hosted \ {p}
    /\ UNCHANGED <<envs, minted, strangers, receipts, births, command, unheard>>

----------------------------------------------------------------------------
(* Choosing *)

MayMiss == unheard < MaxUnheard

\* A /health answers with the pid and instance of whoever listens there now.
Health(port) == {[pid |-> e.pid, instance |-> e.instance] : e \in ListensAt(port)}

Answered(port, heard) == IF heard THEN Health(port) ELSE {}

Hearing == IF MayMiss THEN BOOLEAN ELSE {TRUE}

Missed(heard) == unheard' = unheard + (IF heard THEN 0 ELSE 1)

\* chooseEnvEndpoint: the default address when an environment answers there.
AsksDefault ==
  \E heard \in Hearing :
    /\ command.at = "start"
    /\ Missed(heard)
    /\ command' = IF Answered(DefaultPort, heard) # {} THEN [at |-> "chosen", port |-> DefaultPort, sure |-> TRUE]
                  ELSE [at |-> "reading"]
    /\ UNCHANGED envVars

Newest(n) == {i \in DOMAIN receipts : Cardinality({j \in DOMAIN receipts : j > i}) < n}

\* readyReceipts and the state of the processes they name: what is left unread, and
\* one that cannot be read or told, is a problem.
ReadsReceipts ==
  \E clear \in Hearing :
    LET opened == Newest(ReceiptLimit)
        left == DOMAIN receipts \ opened
    IN /\ command.at = "reading"
       /\ Missed(clear)
       /\ command' = [at |-> "probing",
                      partial |-> left # {} \/ ~clear,
                      asked |-> {receipts[i] : i \in {j \in opened : receipts[j].pid \in PidsInUse}},
                      live |-> {}, unanswered |-> 0, looked |-> {e.instance : e \in envs}]
       /\ UNCHANGED envVars

Matches(receipt, answer) == answer.pid = receipt.pid /\ answer.instance = receipt.instance

\* The candidates are asked in parallel: their answers come one by one.
ProbeAnswers ==
  \E heard \in Hearing :
    /\ command.at = "probing"
    /\ \E r \in command.asked :
         /\ Missed(heard)
         /\ command' = [command EXCEPT
              !.asked = @ \ {r},
              !.unanswered = @ + (IF heard THEN 0 ELSE 1),
              !.live = IF \E a \in Answered(r.port, heard) : Matches(r, a) THEN @ \cup {r} ELSE @]
    /\ UNCHANGED envVars

OnlyPort(live) == IF Cardinality(live) = 1 THEN {r.port : r \in live} ELSE {}

\* One live daemon is chosen, several or a partial look are a problem, and with
\* none the default address is named.
Chooses ==
  /\ command.at = "probing" /\ command.asked = {}
  /\ command' \in
       IF command.partial THEN {[at |-> "problem"]}
       ELSE IF command.live = {} THEN {[at |-> "chosen", port |-> DefaultPort, sure |-> FALSE]}
       ELSE IF OnlyPort(command.live) = {} THEN {[at |-> "problem"]}
       ELSE {[at |-> "chosen", port |-> p, sure |-> TRUE, unanswered |-> command.unanswered,
              looked |-> command.looked] : p \in OnlyPort(command.live)}
  /\ UNCHANGED <<envVars, unheard>>

----------------------------------------------------------------------------
(* Acting *)

Listed(port) == {p \in hosted : \E e \in ListensAt(port) : p.host = e.instance}

\* resolveAttachTarget: the one process of that name, or nothing.
Lists ==
  /\ command.at = "chosen"
  /\ command' \in LET found == {p \in Listed(command.port) : p.label = Name}
                  IN IF Cardinality(found) = 1
                     THEN {[at |-> "listed", port |-> command.port, handle |-> p.handle, born |-> p.born] : p \in found}
                     ELSE {[at |-> "problem"]}
  /\ UNCHANGED <<envVars, unheard>>

\* A key, a label or a stop for the handle, at the port: an unknown handle is refused.
Acts ==
  /\ command.at = "listed"
  /\ LET found == {p \in Listed(command.port) : p.handle = command.handle}
     IN command' \in IF found = {} THEN {[at |-> "problem"]}
                     ELSE {[at |-> "acted", meant |-> command.born, reached |-> p.born] : p \in found}
  /\ UNCHANGED <<envVars, unheard>>

CommandEnds ==
  /\ command.at \in {"problem", "chosen", "listed", "acted"}
  /\ command' = AtStart
  /\ UNCHANGED <<envVars, unheard>>

ChoiceNext ==
  \/ OrdinaryStarts \/ DedicatedStarts \/ EnvEnds \/ StrangerTakesPid
  \/ ProcessStarts \/ ProcessGoes
  \/ AsksDefault \/ ReadsReceipts \/ ProbeAnswers \/ Chooses
  \/ Lists \/ Acts \/ CommandEnds

ChoiceSpec == ChoiceInit /\ [][ChoiceNext]_choiceVars

----------------------------------------------------------------------------
(* Properties *)

\* A command that acts reaches the process its listing named, or none: a handle held
\* across a restart, on a port another environment has taken, matches no stranger
\* (lib/process-registry.mjs).
ActsOnWhatItMeant == command.at = "acted" => command.meant = command.reached

\* A dedicated environment is chosen only when it is the one: every other dedicated
\* one that ran when the receipts were read has ended since, or left a question
\* unanswered (lib/serving-endpoint.mjs).
ChosenIsTheOnlyOne ==
  (command.at = "chosen" /\ command.sure /\ command.port # DefaultPort /\ command.unanswered = 0) =>
    \A e \in envs :
      (e.instance \in command.looked /\ \E i \in DOMAIN receipts : receipts[i].instance = e.instance)
        => e.port = command.port

ChoiceIsSafe == ActsOnWhatItMeant /\ ChosenIsTheOnlyOne
=============================================================================
