------------------------- MODULE MCDefinitionStore -------------------------
(***************************************************************************)
(* One id, one request.  A behaviour is either deep, with every operation  *)
(* but one body and at most one crash or failed listing, which the last    *)
(* operation does not share with a hand edit, or wide, with both bodies    *)
(* and two mishaps of any kind but one operation less.                     *)
(***************************************************************************)
EXTENDS DefinitionStore, TLC

CONSTANTS b1, b2, r1, none

TwoBodies == {b1, b2}
OneRequest == {r1}

BodiesSeen ==
    Bodies \cap ({file.body, temp.body, ledger.file.body, intent.before.body, intent.after.file.body}
                 \cup {asked[r].body : r \in Requests} \cup {s[3] : s \in shown}
                 \cup {p[2].body : p \in snapshots})

VARIABLE used   \* the bodies of this behaviour

storeVars == <<vars, used>>

Deep == used # Bodies

SmallInit == Init /\ used \in {Bodies} \cup {{b} : b \in Bodies}

SmallNext ==
    /\ Next /\ UNCHANGED used
    /\ BodiesSeen' \subseteq used
    /\ Deep => faults' <= 1 /\ faults' + handEdits' + ops' <= MaxOps + 1
    /\ ~Deep => /\ faults' + handEdits' <= 2
                /\ ops' < MaxOps /\ (stage = "free" /\ stage' # "free" => ops + 2 < MaxOps)

BodySymmetry == Permutations({b1, b2})
=============================================================================
