-------- MODULE MCFiles -----------------------------------------------------
(***************************************************************************)
(* Files that several processes write: the definition lock, a folder       *)
(* shared by two callers that may die at any call, one that survives them  *)
(* and one process that runs the operator's unlock; and, side by side with *)
(* it, the records, turns, credentials, receipts and packages that other   *)
(* processes write meanwhile.  A behaviour is one component's, and the     *)
(* others rest.                                                            *)
(***************************************************************************)
EXTENDS DefinitionLock, AgentTurns, EnvChoice, InstallChain, CredentialStore,
    Naturals, Sequences, FiniteSets, TLC

CONSTANTS a, b, c, d, a1, b1, c1, c2, d1, lock, w1, w2, r1

VARIABLES
  part  \* the component this behaviour is of

WriterOf == (a1 :> a) @@ (b1 :> b) @@ (c1 :> c) @@ (c2 :> c) @@ (d1 :> d)

TwoServices == <<"comms", "other">>
OneClient == <<"claude">>
Checkout == [kind |-> "file-set", repo |-> "home", revision |-> "v1"]
Package == [kind |-> "package", repo |-> "home", revision |-> "v1"]
LaterPackage == [Package EXCEPT !.revision = "v2"]
Served == {Checkout, Package, LaterPackage}
SomePlans ==
  [noPrompt : BOOLEAN, approve : {{Package}, {Checkout}}, checkouts : {{}}, supplied : {{}}]

\* Of one lifetime alone every kind of event comes; of two, each begins a turn.  A
\* second host boots after a failure, where the second lifetime has no record.
SmallTurns ==
  /\ fired[1] # <<>> => fired[1][1].kind = "turn-start"
  /\ fired[1] # <<>> /\ fired[2] # <<>> => fired[2][1].kind = "turn-start"
  /\ Len(fired[2]) = 2 => fired[2][2].kind \in {"turn-end", "unblocked"}
  /\ reboots = 2 => troubles = 1 /\ wrote \subseteq {1}

own == <<run, stage, path, text, depth, mine, file>>

\* The components at rest are where they begin.
AllInit ==
  /\ part \in {"lock", "turns", "choice", "install", "credentials"}
  /\ Init
  /\ TurnsInit
  /\ part # "turns" => pidOf[2] = 1
  /\ ChoiceInit
  /\ ChainInit
  /\ part # "install" => ~ plan.noPrompt /\ plan.approve = {Package} /\ published =
      {} /\ \A s \in Services : serving[s] = NoArtifact
  /\ StoreInit
  /\ part # "credentials" => root = "absent"

LockActs == part = "lock" /\ Next /\ UNCHANGED <<part, turnVars, choiceVars,
    chainVars, storeVars>>
TurnActs == part = "turns" /\ TurnsNext /\ SmallTurns' /\ UNCHANGED <<part,
    own, choiceVars, chainVars, storeVars>>
ChoiceActs == part = "choice" /\ ChoiceNext /\ UNCHANGED <<part, own,
    turnVars, chainVars, storeVars>>
ChainActs == part = "install" /\ ChainNext /\ UNCHANGED <<part, own, turnVars,
    choiceVars, storeVars>>
CredentialActs == part = "credentials" /\ StoreNext /\ UNCHANGED <<part, own,
    turnVars, choiceVars, chainVars>>

AllNext == LockActs \/ TurnActs \/ ChoiceActs \/ ChainActs \/ CredentialActs

AllSpec == AllInit /\ [][AllNext]_<<part, own, turnVars, choiceVars, chainVars, storeVars>>

-----------------------------------------------------------------------------
=============================================================================
