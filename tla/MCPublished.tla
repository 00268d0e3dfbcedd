-------- MODULE MCPublished -------------------------------------------------
(***************************************************************************)
(* What this host publishes of its agents: the store of their definitions, *)
(* for which a behaviour is either deep, with every operation but one body *)
(* and one fault, or wide, with both bodies and two mishaps but one        *)
(* operation less; and, side by side with it, the rows of two targets and  *)
(* the activity two environments ship.  A behaviour is one component's,    *)
(* and the others rest.                                                    *)
(***************************************************************************)
EXTENDS MCDefinitionStore, StatePublication, ActivityLedger, Naturals,
    Sequences, FiniteSets, TLC

CONSTANTS s1, s2

VARIABLES
  part  \* the component this behaviour is of

\* Two bodies are on their way at once, to one target or to one each.
SmallNetwork == Len(net[s1]) + Len(net[s2]) <= 2

\* The components at rest are where they begin.
AllInit ==
  /\ part \in {"store", "retirement", "activity"}
  /\ SmallInit
  /\ part # "store" => used = Bodies
  /\ PublicationInit
  /\ part # "retirement" => row = "cold"
  /\ LedgerInit

StoreActs == part = "store" /\ SmallNext /\ UNCHANGED <<part, publicationVars,
    ledgerVars>>
RetirementActs == part = "retirement" /\ PublicationNext /\ SmallNetwork' /\
    UNCHANGED <<part, storeVars, ledgerVars>>
ActivityActs == part = "activity" /\ LedgerNext /\ UNCHANGED <<part,
    storeVars, publicationVars>>

AllNext == StoreActs \/ RetirementActs \/ ActivityActs

AllSpec == AllInit /\ [][AllNext]_<<part, storeVars, publicationVars, ledgerVars>>

Symmetry == Permutations({b1, b2}) \cup Permutations({s1, s2})

-----------------------------------------------------------------------------
=============================================================================
