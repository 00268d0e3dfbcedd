----------------------------- MODULE Residents -----------------------------
(***************************************************************************)
(* The residents role of one aify home: ResidentsRole (residents-role.mjs), *)
(* what a daemon does while it holds it (daemon-residents.mjs), and the     *)
(* generation that orders successive holders (residents-generation.mjs).    *)
(*                                                                         *)
(* The role endpoint is a kernel lock: one process is bound to it, and a    *)
(* process that ends is not bound to anything.  A daemon has one resident   *)
(* operation entered at a time.  A tenure is a place in the line of binds:  *)
(* a name the model gives a holder, which no code reads.                    *)
(***************************************************************************)
EXTENDS Naturals, FiniteSets

CONSTANTS
    Homesteads,   \* daemons of one home
    Largest,      \* MAX_SAFE_INTEGER: the last generation there can be
    MaxTenures,   \* bound: binds of the endpoint
    MaxMishaps    \* bound: crashes, losses of the generation file, failed writes

Nobody == "nobody"

\* A daemon is somebody, and the last number is one.
HomeAssumption == Nobody \notin Homesteads /\ Largest \in Nat
Missing == 0
Malformed == Largest + 1
NoOperation == [tenure |-> 0, generation |-> 0, kind |-> "none", entered |-> FALSE]
Kinds == {"turn event", "publication"}

VARIABLES
    bound,        \* the process listening on the role endpoint
    tenures,      \* binds so far
    role,         \* each daemon's #state, with the steps of an attempt
    tenure,       \* the bind each daemon's #server comes from
    generation,   \* each daemon's #generation
    operation,    \* each daemon's resident operation in flight
    leaving,      \* DaemonResidents' #releasing
    saved,        \* the generation file
    descriptor,   \* residents.json, or a turns file, exists
    turnsBy,      \* the tenure of the operation that last wrote the turns file
    bodies,       \* publications on their way
    shown,        \* the publication the service took last
    mishaps

roleVars == <<bound, tenures, role, tenure, generation, operation, leaving>>
homeVars == <<saved, descriptor, turnsBy>>
residentsVars == <<roleVars, homeVars, bodies, shown, mishaps>>

ResidentsInit ==
    /\ bound = Nobody /\ tenures = 0
    /\ role = [d \in Homesteads |-> "not-held"]
    /\ tenure = [d \in Homesteads |-> 0] /\ generation = [d \in Homesteads |-> 0]
    /\ operation = [d \in Homesteads |-> NoOperation]
    /\ leaving = {}
    /\ saved = Missing /\ descriptor = FALSE /\ turnsBy = 0
    /\ bodies = {} /\ shown = [tenure |-> 0, generation |-> 0]
    /\ mishaps = 0

Mishap == mishaps < MaxMishaps /\ mishaps' = mishaps + 1

(***************************************************************************)
(* acquire: bind, then the generation, then what the role brings.          *)
(***************************************************************************)
\* A bind that fails is no role, tried again at the next sweep.
TryToBind(d) ==
    /\ role[d] = "not-held" /\ d \notin leaving
    /\ bound = Nobody /\ tenures < MaxTenures
    /\ bound' = d /\ tenures' = tenures + 1
    /\ tenure' = [tenure EXCEPT ![d] = tenures'] /\ role' = [role EXCEPT ![d] = "bound"]
    /\ UNCHANGED <<generation, operation, leaving, homeVars, bodies, shown, mishaps>>

\* residentsStateEvidence.
Evidence == descriptor

\* takeResidentsGeneration's next number: none when the file is spoiled or
\* exhausted, or missing while the home holds residents state.  The first is
\* the clock's.
NextGeneration ==
    CASE saved = Missing /\ ~Evidence -> {1, 2}
      [] saved \in 1 .. Largest - 1 -> {saved + 1}
      [] OTHER -> {}

\* (Mutant: the endpoint stays open.)
KeepEndpoint(d) == UNCHANGED bound

\* The endpoint is closed, and the role is not held: by a refused generation,
\* a failed boot, or at the end of a release.
GiveBack(d) == bound' = (IF bound = d THEN Nobody ELSE bound)

\* The generation is saved durably before it is anything.
TakeGeneration(d) ==
    /\ role[d] = "bound"
    /\ \E g \in NextGeneration :
        /\ saved' = g
        /\ generation' = [generation EXCEPT ![d] = g]
        /\ role' = [role EXCEPT ![d] = "taken"]
    /\ UNCHANGED <<bound, tenures, tenure, operation, leaving, descriptor, turnsBy, bodies, shown, mishaps>>

GenerationRefused(d) ==
    /\ role[d] = "bound"
    /\ (NextGeneration = {} /\ UNCHANGED mishaps) \/ (NextGeneration # {} /\ Mishap)
    /\ role' = [role EXCEPT ![d] = "not-held"]
    /\ GiveBack(d)
    /\ UNCHANGED <<tenures, tenure, generation, operation, leaving, homeVars, bodies, shown>>

\* The host restores the turns, and the descriptor points here; then there is a
\* sender.
Boot(d) ==
    /\ role[d] = "taken"
    /\ descriptor' = TRUE
    /\ role' = [role EXCEPT ![d] = "holding"]
    /\ UNCHANGED <<bound, tenures, tenure, generation, operation, leaving, saved, turnsBy, bodies, shown, mishaps>>

BootFails(d) ==
    /\ role[d] = "taken" /\ Mishap
    /\ role' = [role EXCEPT ![d] = "not-held"]
    /\ GiveBack(d)
    /\ UNCHANGED <<tenures, tenure, generation, operation, leaving, homeVars, bodies, shown>>

(***************************************************************************)
(* A resident operation.                                                   *)
(***************************************************************************)
Holds(d) == role[d] = "holding" /\ bound = d

Enter(d, kind) ==
    /\ Holds(d) /\ operation[d] = NoOperation
    /\ operation' = [operation EXCEPT ![d] =
          [tenure |-> tenure[d], generation |-> generation[d], kind |-> kind, entered |-> TRUE]]
    /\ UNCHANGED <<bound, tenures, role, tenure, generation, leaving, homeVars, bodies, shown, mishaps>>

\* operation.live, asked in the step of the effect.
IsOwned(d) == Holds(d) /\ operation[d].entered

Apply(d) ==
    /\ operation[d] # NoOperation
    /\ LET op == operation[d]
           applies == IsOwned(d)
       IN /\ turnsBy' = IF applies /\ op.kind = "turn event" THEN op.tenure ELSE turnsBy
          /\ bodies' = IF applies /\ op.kind = "publication"
                       THEN bodies \cup {[tenure |-> op.tenure, generation |-> op.generation]} ELSE bodies
    /\ operation' = [operation EXCEPT ![d] = NoOperation]
    /\ UNCHANGED <<bound, tenures, role, tenure, generation, leaving, saved, descriptor, shown, mishaps>>

(***************************************************************************)
(* release.                                                                *)
(***************************************************************************)
\* An attempt under way is waited for first.
BeginRelease(d) ==
    /\ d \notin leaving /\ role[d] \in {"not-held", "holding"}
    /\ leaving' = leaving \cup {d}
    /\ role' = [role EXCEPT ![d] = "releasing"]
    /\ UNCHANGED <<bound, tenures, tenure, generation, operation, homeVars, bodies, shown, mishaps>>

\* The operation is done, or the wait has run out and it is abandoned.
CloseEndpoint(d) ==
    /\ role[d] = "releasing"
    /\ operation' = [operation EXCEPT ![d].entered = FALSE]
    /\ role' = [role EXCEPT ![d] = "not-held"]
    /\ GiveBack(d)
    /\ UNCHANGED <<tenures, tenure, generation, leaving, homeVars, bodies, shown, mishaps>>

(***************************************************************************)
(* Processes, files and the service.                                       *)
(***************************************************************************)
\* A daemon dies, and another starts in its place.
Crash(d) ==
    /\ Mishap
    /\ bound' = IF bound = d THEN Nobody ELSE bound
    /\ role' = [role EXCEPT ![d] = "not-held"]
    /\ operation' = [operation EXCEPT ![d] = NoOperation]
    /\ leaving' = leaving \ {d}
    /\ UNCHANGED <<tenures, tenure, generation, homeVars, bodies, shown>>

FileIsHarmed ==
    /\ Mishap
    /\ saved' \in {Missing, Malformed} /\ saved' # saved
    /\ UNCHANGED <<roleVars, descriptor, turnsBy, bodies, shown>>

\* A service keeps what carries the higher generation.
ServiceTakes(b) ==
    /\ b \in bodies
    /\ bodies' = bodies \ {b}
    /\ shown' = IF b.generation >= shown.generation THEN b ELSE shown
    /\ UNCHANGED <<roleVars, homeVars, mishaps>>

ResidentsNext ==
    \/ \E d \in Homesteads :
        \/ TryToBind(d) \/ TakeGeneration(d) \/ GenerationRefused(d) \/ Boot(d) \/ BootFails(d)
        \/ Apply(d) \/ BeginRelease(d) \/ CloseEndpoint(d) \/ Crash(d)
        \/ \E kind \in Kinds : Enter(d, kind)
    \/ FileIsHarmed
    \/ \E b \in bodies : ServiceTakes(b)

\* A daemon sweeps again and again, and its own steps go on.
ResidentsFairness ==
    \A d \in Homesteads :
        /\ SF_residentsVars(TryToBind(d))
        /\ WF_residentsVars(TakeGeneration(d) \/ GenerationRefused(d) \/ Boot(d) \/ CloseEndpoint(d))

ResidentsSpec == ResidentsInit /\ [][ResidentsNext]_residentsVars /\ ResidentsFairness

(***************************************************************************)
(* Properties.                                                             *)
(***************************************************************************)
\* The turns are written only for an operation of the tenure that holds the
\* endpoint now: never by one its daemon admitted before it gave the role back
\* (residents-role.mjs:10-14).
OnlyTheHolderWrites == [][turnsBy' # turnsBy => bound # Nobody /\ turnsBy' = tenure[bound]]_residentsVars

\* Whatever a predecessor still has on its way, a service never goes back to
\* it once it has been shown a successor's publication
\* (residents-generation.mjs:3-5).
SuccessorSupersedes == [][shown'.tenure >= shown.tenure]_residentsVars

RoleIsExclusive == OnlyTheHolderWrites /\ SuccessorSupersedes

\* A home whose generation file stays good, and with a daemon that stays, comes
\* to have a holder: no attempt that failed and no release keeps the role.
RoleIsTaken ==
    <>[](/\ \E d \in Homesteads : d \notin leaving
         /\ saved < Largest /\ (saved = Missing => ~Evidence) /\ tenures < MaxTenures)
    => []<>(\E d \in Homesteads : role[d] = "holding")

=============================================================================
