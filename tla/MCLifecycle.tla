---------------------------- MODULE MCLifecycle ----------------------------
(***************************************************************************)
(* Two daemons that follow each other, two requests and one automatic      *)
(* start.  Mishaps are lost calls, edits of the definition and a daemon    *)
(* that goes.  A behaviour is of two requests: then two mishaps where two   *)
(* of the three are asked for, one where all three are, and the second     *)
(* request is made once the first has been executed, or while a successor  *)
(* may claim it.  Or it is of one request, with one lost call more, and    *)
(* then every request is asked to be answered.                             *)
(***************************************************************************)
EXTENDS Lifecycle

CONSTANTS r1, r2, auto

VARIABLE many  \* which of the two this behaviour is

Mishaps == faults + (IF definition > 1 THEN 1 ELSE 0) + (IF stage[1] = "up" THEN 0 ELSE 1)

Asked == {i \in Ids : open[i] # "unasked"}

SecondAsked == r2 \in Asked' \ Asked

Small ==
    /\ Mishaps' + Cardinality(Asked') <= 4
    /\ many => faults' <= 1
    /\ SecondAsked => /\ many /\ r1 \in Asked
                      /\ row[r1].phase = "terminal" \/ stage[1] # "up"

SmallInit == Init /\ many \in BOOLEAN

SmallNext == Next /\ Small /\ UNCHANGED many

SmallSpec == SmallInit /\ [][SmallNext]_<<vars, many>>

\* The fairness of Lifecycle, for the behaviours of one request.
FairOfOne ==
    /\ \A d \in Daemons, r \in Requests : WF_vars(~ many /\ Claim(d, r))
    /\ \A a \in Actors : WF_vars(~ many /\ Work(a))
    /\ \A d \in Daemons : WF_vars(~ many /\ Boot(d))

-----------------------------------------------------------------------------
\* A lifecycle request is answered, across lost reports, a daemon that dies with
\* it in hand and a lock left behind (lifecycle-sync.mjs, agent-lifecycle.mjs).
RequestsAreAnswered == ~ many /\ FairOfOne => RequestIsAnswered

=============================================================================
