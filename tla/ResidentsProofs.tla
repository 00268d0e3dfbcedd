-------------------------- MODULE ResidentsProofs ---------------------------
(***************************************************************************)
(* One daemon of a home at a time acts for its residents, and a service    *)
(* that was shown a holder's publication never goes back to an earlier     *)
(* holder's; for any number of daemons, binds, crashes and harms.          *)
(*                                                                         *)
(* The endpoint gives the first: an operation is entered only under the    *)
(* bind it names, and whatever ends the bind ends the entry.  The second   *)
(* is the generation file's: a number is above every number published      *)
(* while the file stands, and where it does not stand none is taken once   *)
(* something may have been published.                                      *)
(*                                                                         *)
(* What an agent's turns are called, and the end of a provider client with  *)
(* its tree, for any processes whose numbers are given again.               *)
(***************************************************************************)
EXTENDS Residents, AgentTurns, ClientRun, FiniteSetTheorems, TLAPS

Marks == [tenure : Nat, generation : Nat]
Roles == {"not-held", "bound", "taken", "holding", "releasing"}
Operations == [tenure : Nat, generation : Nat, kind : Kinds \cup {"none"}, entered : BOOLEAN]

HomeTypes ==
    /\ bound \in Homesteads \cup {Nobody}
    /\ tenures \in Nat
    /\ role \in [Homesteads -> Roles]
    /\ tenure \in [Homesteads -> Nat]
    /\ generation \in [Homesteads -> Nat]
    /\ operation \in [Homesteads -> Operations]
    /\ saved \in Nat /\ descriptor \in BOOLEAN
    /\ bodies \subseteq Marks /\ shown \in Marks

\* Whose role is under way or held is bound, by the last bind there was, and
\* what is entered was entered under it.
BindingHolds ==
    \A d \in Homesteads :
        /\ bound = d => tenures > 0 /\ tenure[d] = tenures
        /\ role[d] \in {"bound", "taken", "holding"} => bound = d
        /\ operation[d].entered =>
            /\ bound = d /\ role[d] \in {"holding", "releasing"}
            /\ operation[d].tenure = tenure[d] /\ operation[d].generation = generation[d]

Published == bodies \cup {shown}
FileStands == saved \in 1 .. Largest

\* What was published was numbered, in the order of the tenures.
PublishedHolds ==
    /\ \A b \in Published :
        /\ b.tenure <= tenures
        /\ b.tenure > 0 => descriptor
        /\ b.tenure = 0 => b.generation = 0
        /\ FileStands => b.generation <= saved
    /\ \A b, c \in Published : b.tenure < c.tenure => b.generation < c.generation

\* A holder's number is above all that was published before it.
GenerationHolds ==
    \A d \in Homesteads :
        /\ role[d] = "holding" => descriptor
        /\ role[d] \in {"taken", "holding"} =>
            /\ FileStands => generation[d] <= saved
            /\ \A b \in Published : b.tenure < tenures => b.generation < generation[d]

IndInv == HomeTypes /\ BindingHolds /\ PublishedHolds /\ GenerationHolds

-----------------------------------------------------------------------------
LEMMA InitHolds == HomeAssumption /\ ResidentsInit => IndInv
<1> SUFFICES ASSUME HomeAssumption, ResidentsInit PROVE IndInv
    OBVIOUS
<1>1. HomeTypes
    BY DEF ResidentsInit, HomeTypes, Marks, Roles, Operations, NoOperation, Missing
<1>2. BindingHolds
    BY DEF HomeAssumption, ResidentsInit, BindingHolds, NoOperation
<1>3. PublishedHolds
    BY DEF ResidentsInit, PublishedHolds, Published, FileStands, Missing
<1>4. GenerationHolds
    BY DEF ResidentsInit, GenerationHolds
<1> QED
    BY <1>1, <1>2, <1>3, <1>4 DEF IndInv

\* A step that leaves what was published and numbered alone keeps the invariant
\* if it keeps the binding, and brings nobody nearer to a number.
Nearer(d) == role'[d] \in {"taken", "holding"} /\ role'[d] # role[d]

LEMMA RolesKeepIt ==
    ASSUME HomeAssumption, IndInv, HomeTypes', BindingHolds',
           UNCHANGED <<saved, descriptor, bodies, shown>>,
           tenures' >= tenures, tenures' > tenures => bound = Nobody,
           \A d \in Homesteads : ~ Nearer(d),
           \A d \in Homesteads : role'[d] \in {"taken", "holding"} => generation'[d] = generation[d]
    PROVE  IndInv'
<1> USE DEF IndInv, HomeTypes
<1>1. PublishedHolds'
    BY DEF PublishedHolds, Published, FileStands, Marks
<1>2. GenerationHolds'
    <2> SUFFICES ASSUME NEW d \in Homesteads, role'[d] \in {"taken", "holding"}
                 PROVE  /\ role'[d] = "holding" => descriptor'
                        /\ FileStands' => generation'[d] <= saved'
                        /\ \A b \in Published' : b.tenure < tenures' => b.generation < generation'[d]
        BY DEF GenerationHolds
    <2>1. role[d] = role'[d] /\ generation'[d] = generation[d]
        BY DEF Nearer
    <2>2. tenures' = tenures \/ bound = Nobody
        OBVIOUS
    <2>3. CASE tenures' = tenures
        BY <2>1, <2>3 DEF GenerationHolds, Published, FileStands
    <2>4. CASE bound = Nobody
        BY <2>1, <2>4 DEF HomeAssumption, BindingHolds
    <2> QED
        BY <2>2, <2>3, <2>4
<1> QED
    BY <1>1, <1>2

\* The binding, step by step: who is bound, and for what.
LEMMA BindingIsKept ==
    ASSUME HomeAssumption, IndInv, NEW d \in Homesteads,
           \/ TryToBind(d) \/ GenerationRefused(d) \/ BootFails(d)
           \/ BeginRelease(d) \/ CloseEndpoint(d) \/ Crash(d)
           \/ \E kind \in Kinds : Enter(d, kind)
    PROVE  IndInv'
<1> USE DEF IndInv, HomeTypes, BindingHolds, Roles, Operations, homeVars
<1>1. CASE TryToBind(d)
    <2>1. HomeTypes'
        BY <1>1 DEF TryToBind
    <2>2. BindingHolds'
        BY <1>1 DEF TryToBind, HomeAssumption
    <2> QED
        BY <1>1, <2>1, <2>2, RolesKeepIt DEF TryToBind, Nearer
<1>2. CASE GenerationRefused(d) \/ BootFails(d)
    <2>1. HomeTypes'
        BY <1>2 DEF GenerationRefused, BootFails, GiveBack
    <2>2. BindingHolds'
        BY <1>2 DEF GenerationRefused, BootFails, GiveBack, HomeAssumption
    <2> QED
        BY <1>2, <2>1, <2>2, RolesKeepIt DEF GenerationRefused, BootFails, Nearer
<1>3. CASE BeginRelease(d)
    <2>1. HomeTypes'
        BY <1>3 DEF BeginRelease
    <2>2. BindingHolds'
        BY <1>3 DEF BeginRelease
    <2> QED
        BY <1>3, <2>1, <2>2, RolesKeepIt DEF BeginRelease, Nearer
<1>4. CASE CloseEndpoint(d)
    <2>1. HomeTypes'
        BY <1>4 DEF CloseEndpoint, GiveBack
    <2>2. BindingHolds'
        BY <1>4 DEF CloseEndpoint, GiveBack, HomeAssumption
    <2> QED
        BY <1>4, <2>1, <2>2, RolesKeepIt DEF CloseEndpoint, Nearer
<1>5. CASE Crash(d)
    <2>1. HomeTypes'
        BY <1>5 DEF Crash, NoOperation
    <2>2. BindingHolds'
        BY <1>5 DEF Crash, NoOperation, HomeAssumption
    <2> QED
        BY <1>5, <2>1, <2>2, RolesKeepIt DEF Crash, Nearer
<1>6. CASE \E kind \in Kinds : Enter(d, kind)
    <2> PICK kind \in Kinds : Enter(d, kind)
        BY <1>6
    <2>1. HomeTypes'
        BY DEF Enter
    <2>2. BindingHolds'
        BY DEF Enter, Holds
    <2> QED
        BY <2>1, <2>2, RolesKeepIt DEF Enter, Nearer
<1> QED
    BY <1>1, <1>2, <1>3, <1>4, <1>5, <1>6

\* A number is taken: above every one published, or before any was.
LEMMA TakingKeepsIt ==
    ASSUME HomeAssumption, IndInv, NEW d \in Homesteads, TakeGeneration(d)
    PROVE  IndInv'
<1> USE DEF IndInv, HomeTypes
<1>1. PICK g \in NextGeneration :
        /\ saved' = g
        /\ generation' = [generation EXCEPT ![d] = g]
        /\ role' = [role EXCEPT ![d] = "taken"]
    BY DEF TakeGeneration
<1>2. /\ role[d] = "bound" /\ bound = d
      /\ UNCHANGED <<bound, tenures, tenure, operation, descriptor, bodies, shown>>
    BY DEF TakeGeneration, BindingHolds
<1>3. /\ g \in 1 .. Largest \/ (g \in {1, 2} /\ saved = Missing)
      /\ saved # Missing => FileStands /\ g = saved + 1
      /\ saved = Missing => ~ descriptor
      /\ g \in Nat
    BY DEF NextGeneration, Missing, Evidence, FileStands, HomeAssumption
<1>4. \A b \in Published : b.generation < g
    BY <1>3 DEF PublishedHolds, Published, Marks, Missing
<1>5. HomeTypes'
    BY <1>1, <1>2, <1>3 DEF Roles
<1>6. BindingHolds'
    BY <1>1, <1>2 DEF BindingHolds
<1>7. PublishedHolds'
    BY <1>1, <1>2, <1>3, <1>4 DEF PublishedHolds, Published, FileStands, Marks
<1>8. GenerationHolds'
    <2> SUFFICES ASSUME NEW e \in Homesteads
                 PROVE  /\ role'[e] = "holding" => descriptor'
                        /\ role'[e] \in {"taken", "holding"} =>
                            /\ FileStands' => generation'[e] <= saved'
                            /\ \A b \in Published' : b.tenure < tenures' => b.generation < generation'[e]
        BY DEF GenerationHolds
    <2>1. CASE e = d
        BY <1>1, <1>2, <1>3, <1>4, <2>1 DEF Published
    <2>2. CASE e # d
        BY <1>1, <1>2, <2>2 DEF BindingHolds
    <2> QED
        BY <2>1, <2>2
<1> QED
    BY <1>5, <1>6, <1>7, <1>8

\* What is published carries the holder's number, which is above all others.
LEMMA ApplyKeepsIt ==
    ASSUME HomeAssumption, IndInv, NEW d \in Homesteads, Apply(d)
    PROVE  IndInv'
<1> USE DEF IndInv, HomeTypes
<1>1. /\ UNCHANGED <<bound, tenures, role, tenure, generation, saved, descriptor, shown>>
      /\ operation' = [operation EXCEPT ![d] = NoOperation]
    BY DEF Apply
<1>2. HomeTypes' /\ BindingHolds'
    <2>1. bodies' \subseteq Marks
        <3>1. [tenure |-> operation[d].tenure, generation |-> operation[d].generation] \in Marks
            BY DEF Marks, Operations
        <3> QED
            BY <3>1 DEF Apply
    <2>2. operation' \in [Homesteads -> Operations]
        BY <1>1 DEF NoOperation, Operations
    <2>3. BindingHolds'
        BY <1>1 DEF BindingHolds, NoOperation
    <2> QED
        BY <1>1, <2>1, <2>2, <2>3
<1>3. CASE bodies' = bodies
    BY <1>1, <1>2, <1>3, RolesKeepIt DEF Nearer
<1>4. CASE bodies' # bodies
    <2> DEFINE new == [tenure |-> operation[d].tenure, generation |-> operation[d].generation]
    <2>1. bodies' = bodies \cup {new} /\ IsOwned(d)
        BY <1>4 DEF Apply
    <2>2. /\ bound = d /\ role[d] = "holding" /\ descriptor
          /\ tenures > 0 /\ tenure[d] = tenures
          /\ new.tenure = tenures /\ new.generation = generation[d]
        BY <2>1 DEF IsOwned, Holds, BindingHolds, GenerationHolds
    <2>3. \A b \in Published : b.tenure < tenures => b.generation < generation[d]
        BY <2>2 DEF GenerationHolds
    <2>4. FileStands => generation[d] <= saved
        BY <2>2 DEF GenerationHolds
    <2>5. Published' = Published \cup {new} /\ new \in Marks /\ Published \subseteq Marks
        BY <1>1, <2>1 DEF Published, Marks, Operations
    <2> HIDE DEF new
    <2>6. PublishedHolds'
        <3>1. \A b \in Published' :
                /\ b.tenure <= tenures' /\ (b.tenure > 0 => descriptor')
                /\ b.tenure = 0 => b.generation = 0
                /\ FileStands' => b.generation <= saved'
            BY <1>1, <2>2, <2>4, <2>5 DEF PublishedHolds, FileStands
        <3>2. \A b, c \in Published' : b.tenure < c.tenure => b.generation < c.generation
            BY <2>2, <2>3, <2>5 DEF PublishedHolds, Marks
        <3> QED
            BY <3>1, <3>2 DEF PublishedHolds
    <2>7. GenerationHolds'
        BY <1>1, <2>2, <2>5 DEF GenerationHolds, FileStands, Marks
    <2> QED
        BY <1>2, <2>6, <2>7
<1> QED
    BY <1>3, <1>4

LEMMA OthersKeepIt ==
    ASSUME HomeAssumption, IndInv,
           \/ \E d \in Homesteads : Boot(d)
           \/ FileIsHarmed \/ \E b \in bodies : ServiceTakes(b)
    PROVE  IndInv'
<1> USE DEF IndInv, HomeTypes, homeVars, roleVars
<1>1. ASSUME NEW d \in Homesteads, Boot(d) PROVE IndInv'
    <2>1. HomeTypes' /\ BindingHolds'
        BY <1>1 DEF Boot, Roles, BindingHolds
    <2>2. PublishedHolds'
        BY <1>1 DEF Boot, PublishedHolds, Published, FileStands
    <2>3. GenerationHolds'
        BY <1>1 DEF Boot, GenerationHolds, Published, FileStands
    <2> QED
        BY <2>1, <2>2, <2>3
<1>2. CASE FileIsHarmed
    <2>1. ~ FileStands' /\ saved' \in Nat
        BY <1>2 DEF FileIsHarmed, FileStands, Missing, Malformed, HomeAssumption
    <2>2. HomeTypes' /\ BindingHolds'
        BY <1>2, <2>1 DEF FileIsHarmed, BindingHolds
    <2>3. PublishedHolds' /\ GenerationHolds'
        BY <1>2, <2>1 DEF FileIsHarmed, PublishedHolds, GenerationHolds, Published
    <2> QED
        BY <2>2, <2>3
<1>3. ASSUME NEW b \in bodies, ServiceTakes(b) PROVE IndInv'
    <2>1. Published' \subseteq Published /\ UNCHANGED <<roleVars, homeVars>>
        BY <1>3 DEF ServiceTakes, Published
    <2>2. HomeTypes' /\ BindingHolds'
        BY <1>3, <2>1 DEF ServiceTakes, BindingHolds
    <2>3. PublishedHolds' /\ GenerationHolds'
        BY <2>1 DEF PublishedHolds, GenerationHolds, FileStands
    <2> QED
        BY <2>2, <2>3
<1> QED
    BY <1>1, <1>2, <1>3

LEMMA StepHolds == HomeAssumption /\ IndInv /\ [ResidentsNext]_residentsVars => IndInv'
<1> SUFFICES ASSUME HomeAssumption, IndInv, [ResidentsNext]_residentsVars PROVE IndInv'
    OBVIOUS
<1>1. CASE UNCHANGED residentsVars
    BY <1>1 DEF residentsVars, roleVars, homeVars, IndInv, HomeTypes, BindingHolds, PublishedHolds,
                GenerationHolds, Published, FileStands
<1>2. CASE ResidentsNext
    BY <1>2, BindingIsKept, TakingKeepsIt, ApplyKeepsIt, OthersKeepIt DEF ResidentsNext
<1> QED
    BY <1>1, <1>2

-----------------------------------------------------------------------------
\* The turns are written under the bind that holds the endpoint, and by nobody
\* who was admitted before it.
LEMMA OnlyHoldersWrite ==
    ASSUME HomeAssumption, IndInv, [ResidentsNext]_residentsVars, turnsBy' # turnsBy
    PROVE  bound # Nobody /\ turnsBy' = tenure[bound]
<1>1. PICK d \in Homesteads : Apply(d)
    BY DEF ResidentsNext, residentsVars, homeVars, TryToBind, TakeGeneration, GenerationRefused, Boot,
           BootFails, BeginRelease, CloseEndpoint, Crash, Enter, FileIsHarmed, ServiceTakes
<1>2. IsOwned(d) /\ turnsBy' = operation[d].tenure
    BY <1>1 DEF Apply
<1>3. bound = d /\ operation[d].tenure = tenure[d]
    BY <1>2 DEF IsOwned, Holds, IndInv, BindingHolds
<1> QED
    BY <1>2, <1>3 DEF HomeAssumption

\* What a service takes is at least as late a tenure's as what it had.
LEMMA TakesTheLater ==
    ASSUME IndInv, [ResidentsNext]_residentsVars
    PROVE  shown'.tenure >= shown.tenure
<1>1. shown \in Marks /\ bodies \subseteq Marks
    BY DEF IndInv, HomeTypes
<1>2. CASE shown' = shown
    BY <1>1, <1>2 DEF Marks
<1>3. CASE shown' # shown
    <2>1. PICK b \in bodies : ServiceTakes(b)
        BY <1>3 DEF ResidentsNext, residentsVars, roleVars, homeVars, TryToBind, TakeGeneration,
               GenerationRefused, Boot, BootFails, Apply, BeginRelease, CloseEndpoint, Crash, Enter,
               FileIsHarmed
    <2>2. shown' = b /\ b.generation >= shown.generation
        BY <1>3, <2>1 DEF ServiceTakes
    <2>3. ~ b.tenure < shown.tenure
        BY <1>1, <2>2 DEF IndInv, PublishedHolds, Published, Marks
    <2> QED
        BY <1>1, <2>2, <2>3 DEF Marks
<1> QED
    BY <1>2, <1>3

\* Only the daemon that holds the role writes the home's turns, and a service
\* that was shown a holder's publication never goes back to an earlier holder's,
\* through crashes, abandoned operations and a harmed generation file
\* (residents-role.mjs:10, residents-generation.mjs:3).
THEOREM RoleIsExclusiveAlways ==
    ASSUME HomeAssumption
    PROVE  ResidentsSpec => RoleIsExclusive
<1>1. ResidentsInit => IndInv
    BY InitHolds
<1>2. IndInv /\ [ResidentsNext]_residentsVars => IndInv'
    BY StepHolds
<1>3. IndInv /\ [ResidentsNext]_residentsVars =>
        [turnsBy' # turnsBy => bound # Nobody /\ turnsBy' = tenure[bound]]_residentsVars
    BY OnlyHoldersWrite
<1>4. IndInv /\ [ResidentsNext]_residentsVars => [shown'.tenure >= shown.tenure]_residentsVars
    BY TakesTheLater
<1> QED
    BY <1>1, <1>2, <1>3, <1>4, PTL
        DEF ResidentsSpec, RoleIsExclusive, OnlyTheHolderWrites, SuccessorSupersedes

-----------------------------------------------------------------------------
(***************************************************************************)
(* The state and the turns of a resident, for any number of events.        *)
(***************************************************************************)
Whos == 0..3
Turns == [open : BOOLEAN, awaiting : BOOLEAN, last : Nat]
Events == [kind : EventKinds, at : Nat \ {0}]

TurnsTypeOK ==
  /\ pidOf \in [Lifetimes -> Pids]
  /\ holders \in [Pids -> Seq({1, 2, 3})] /\ living \in [Pids -> BOOLEAN]
  /\ wrote \subseteq Lifetimes /\ records \subseteq wrote
  /\ fired \in [Lifetimes -> Seq(Events)] /\ hooks \subseteq Lifetimes \X (Nat \ {0})
  /\ stored \in [Lifetimes -> Turns] /\ turns \in [Lifetimes -> Turns] /\ known \subseteq Lifetimes
  /\ kept \in [Pids -> [who : Whos, seen : SUBSET Lifetimes]]
  /\ asking \in [on : BOOLEAN, who : [Pids -> Whos], seen : SUBSET Lifetimes]
  /\ live \in [current : {0, 1, 2}, unknown : SUBSET Lifetimes, conflict : BOOLEAN]
  /\ acked \in [Lifetimes -> SUBSET (Nat \ {0})]

\* NoOne holds a pid twice, and who wrote a record held its pid.
HeldOnce ==
  /\ \A p \in Pids : \A i, j \in DOMAIN holders[p] : holders[p][i] = holders[p][j] => i = j
  /\ \A p \in Pids : living[p] => holders[p] # <<>>
  /\ \A l \in wrote : \E i \in DOMAIN holders[pidOf[l]] : holders[pidOf[l]][i] = l

\* An answer about l's pid that may judge l's record: it names l as long as l
\* lives, and whoever else it names came after l.
FairTo(l, who) ==
  /\ Lives(l) => who = l
  /\ who \notin {NoOne, l} => Precedes(l, who)

AnswersAreFair ==
  /\ \A p \in Pids : kept[p].seen \subseteq wrote
  /\ \A l \in Lifetimes : l \in kept[pidOf[l]].seen => FairTo(l, kept[pidOf[l]].who)
  /\ asking.on => asking.seen \subseteq wrote
  /\ asking.on => \A l \in asking.seen : FairTo(l, asking.who[pidOf[l]])

PinsAreOwn == \A l \in Lifetimes : pins[l] \in {NoOne, l}

\* An event that is on its way was fired and is not acknowledged; the time of one
\* is before that of any later one, or the same, and then it is no end.
FiredInOrder ==
  /\ \A e \in hooks : e[2] \in DOMAIN fired[e[1]] /\ e[2] \notin acked[e[1]]
  /\ \A l \in Lifetimes : acked[l] \subseteq DOMAIN fired[l]
  /\ \A l \in Lifetimes : \A i, j \in DOMAIN fired[l] :
        i < j => \/ fired[l][i].at < fired[l][j].at
                 \/ /\ fired[l][i].at = fired[l][j].at
                    /\ fired[l][i].kind # "turn-end"

\* What the file and the memory hold of a turn is what its acknowledged events made
\* it, and a turn nothing was acknowledged of is closed.
TurnsAreAcked ==
  \A l \in Lifetimes :
    /\ stored[l].last # 0 => IsMade(l, acked[l], stored[l])
    /\ turns[l].last # 0 => IsMade(l, acked[l], turns[l])
    /\ turns[l].last = 0 => ~ turns[l].open
    /\ l \in known <=> turns[l].last # 0

TurnsInv ==
  TurnsTypeOK /\ HeldOnce /\ AnswersAreFair /\ PinsAreOwn /\ RecordsOutliveTheirProcess
  /\ FiredInOrder /\ TurnsAreAcked

----------------------------------------------------------------------------
USE DEF Lifetimes, Pids, Stranger, NoOne, Unanswered, Gone

\* What an event that was fired carries.
LEMMA EventIs ==
  ASSUME TurnsTypeOK, NEW l \in Lifetimes, NEW n \in DOMAIN fired[l]
  PROVE  n \in Nat \ {0} /\ fired[l][n].at \in Nat \ {0} /\ fired[l][n].kind \in EventKinds
<1>1. fired[l] \in Seq(Events)
  BY DEF TurnsTypeOK
<1>2. n \in 1..Len(fired[l]) /\ fired[l][n] \in Events
  BY <1>1
<1>3. QED BY <1>2 DEF Events

\* The entry of an agent is of the records that were read, and one that was not
\* proved dead keeps the agent live.
LEMMA EntryIs ==
  ASSUME NEW read \in SUBSET Lifetimes, NEW verdict,
         \A l \in read : verdict[l].verified \in {"yes", "no", "unknown"}
  PROVE  /\ Entry(read, verdict) \in [current : {0, 1, 2}, unknown : SUBSET Lifetimes, conflict : BOOLEAN]
         /\ (\E l \in read : verdict[l].verified # "no") => IsLive(Entry(read, verdict))
<1> DEFINE yes == {l \in read : verdict[l].verified = "yes"}
           unknown == {l \in read : verdict[l].verified = "unknown"}
<1>1. IsFiniteSet(yes) /\ Cardinality(yes) \in Nat /\ (Cardinality(yes) = 0 <=> yes = {})
  <2>1. IsFiniteSet({1, 2})
    <3>1. IsFiniteSet(({} \cup {1}) \cup {2})
      BY FS_EmptySet, FS_AddElement
    <3>2. ({} \cup {1}) \cup {2} = {1, 2}
      OBVIOUS
    <3>3. QED BY <3>1, <3>2
  <2>2. IsFiniteSet(yes)
    BY <2>1, FS_Subset
  <2>3. QED BY <2>2, FS_CardinalityType, FS_EmptySet
<1>2. Entry(read, verdict) = [current |-> IF Cardinality(yes) = 1 THEN CHOOSE l \in yes : TRUE ELSE NoOne,
                              unknown |-> unknown, conflict |-> Cardinality(yes) > 1]
  BY DEF Entry
<1>3. yes # {} => (CHOOSE l \in yes : TRUE) \in yes
  OBVIOUS
<1>4. yes \subseteq {1, 2} /\ unknown \subseteq Lifetimes
  OBVIOUS
<1>5. (\E l \in read : verdict[l].verified # "no") => yes # {} \/ unknown # {}
  OBVIOUS
<1> HIDE DEF yes, unknown
<1>6. Cardinality(yes) = 1 => (CHOOSE l \in yes : TRUE) \in {1, 2}
  BY <1>1, <1>3, <1>4
<1>7. Entry(read, verdict).current \in {0, 1, 2} /\ Entry(read, verdict).conflict \in BOOLEAN
  BY <1>2, <1>6
<1>8. Entry(read, verdict).unknown = unknown /\ Entry(read, verdict).conflict = (Cardinality(yes) > 1)
  BY <1>2
<1>9. ASSUME Cardinality(yes) = 1 PROVE Entry(read, verdict).current \in {1, 2}
  <2>1. Entry(read, verdict).current = CHOOSE l \in yes : TRUE
    BY <1>2, <1>9
  <2>2. QED BY <1>6, <1>9, <2>1
<1>10. ASSUME yes # {} PROVE IsLive(Entry(read, verdict))
  <2>1. Cardinality(yes) = 1 \/ Cardinality(yes) > 1
    BY <1>1, <1>10
  <2>2. CASE Cardinality(yes) = 1
    BY <1>9, <2>2 DEF IsLive
  <2>3. CASE Cardinality(yes) > 1
    BY <1>8, <2>3 DEF IsLive
  <2>4. QED BY <2>1, <2>2, <2>3
<1>11. unknown # {} => IsLive(Entry(read, verdict))
  BY <1>8 DEF IsLive
<1>12. Entry(read, verdict) \in [current : {0, 1, 2}, unknown : SUBSET Lifetimes, conflict : BOOLEAN]
  BY <1>2, <1>4, <1>7
<1>13. QED BY <1>5, <1>10, <1>11, <1>12

\* An answer that is fair to l spares l's record while l lives, and pins nobody else.
LEMMA JudgedIs ==
  ASSUME TurnsTypeOK, HeldOnce, NEW l \in Lifetimes, NEW answer \in 0..5, NEW pin \in {NoOne, l},
         answer # NoOne, answer = Gone => ~ Lives(l),
         answer \notin {Gone, Unanswered} => FairTo(l, answer)
  PROVE  /\ Judged(l, answer, pin).verified \in {"yes", "no", "unknown"}
         /\ Judged(l, answer, pin).pin \in {NoOne, l}
         /\ Lives(l) => Judged(l, answer, pin).verified # "no"
<1>1. ~ Precedes(l, l)
  BY DEF Precedes, HeldOnce, TurnsTypeOK
<1>2. CASE answer \in {Gone, Unanswered}
  BY <1>2 DEF Judged, Verdict
<1>3. CASE answer \notin {Gone, Unanswered} /\ pin # NoOne
  BY <1>3 DEF Judged, Verdict, FairTo
<1>4. CASE answer \notin {Gone, Unanswered} /\ pin = NoOne
  BY <1>1, <1>4 DEF Judged, Verdict, FairTo
<1>5. QED BY <1>2, <1>3, <1>4

\* What a cache whose answers are fair says of a record that is read is fair to its
\* lifetime.
LEMMA AnswerIs ==
  ASSUME TurnsInv, NEW read \in SUBSET records, NEW l \in read,
         NEW cache \in [Pids -> [who : Whos, seen : SUBSET Lifetimes]],
         \A x \in Lifetimes : x \in cache[pidOf[x]].seen => FairTo(x, cache[pidOf[x]].who)
  PROVE  LET answer == Answer(cache, read, pidOf[l]) IN
         /\ answer \in 0..5 /\ answer # NoOne /\ (answer = Gone => ~ Lives(l))
         /\ answer \notin {Gone, Unanswered} => FairTo(l, answer)
<1>1. l \in Lifetimes /\ pidOf[l] \in Pids /\ cache[pidOf[l]].who \in 0..3
  BY DEF TurnsInv, TurnsTypeOK, Whos
<1>2. ~ living[pidOf[l]] => ~ Lives(l)
  BY <1>1 DEF Lives, Holder
<1>3. MayJudge(cache, read, pidOf[l]) => /\ cache[pidOf[l]].who # NoOne /\ l \in cache[pidOf[l]].seen
                                         /\ FairTo(l, cache[pidOf[l]].who)
  BY <1>1 DEF MayJudge
<1>4. CASE ~ living[pidOf[l]]
  BY <1>2, <1>4 DEF Answer
<1>5. CASE living[pidOf[l]] /\ MayJudge(cache, read, pidOf[l])
  BY <1>1, <1>3, <1>5 DEF Answer
<1>6. CASE living[pidOf[l]] /\ ~ MayJudge(cache, read, pidOf[l])
  BY <1>6 DEF Answer
<1>7. QED BY <1>4, <1>5, <1>6

\* What a probe hears of a pid: who holds it, or that nobody does.
LEMMA HolderIs ==
  ASSUME TurnsInv, NEW p \in Pids
  PROVE  /\ Holder(p) \in Whos /\ (living[p] <=> Holder(p) # NoOne)
         /\ \A l \in wrote : pidOf[l] = p => FairTo(l, Holder(p))
<1> USE DEF TurnsInv
<1>1. /\ holders[p] \in Seq({1, 2, 3}) /\ living[p] \in BOOLEAN
      /\ living[p] => holders[p] # <<>>
  BY DEF TurnsTypeOK, HeldOnce
<1>2. CASE ~ living[p]
  BY <1>2 DEF Holder, FairTo, Lives, Whos
<1>3. CASE living[p]
  <2>1. Len(holders[p]) \in DOMAIN holders[p] /\ Holder(p) = holders[p][Len(holders[p])]
    BY <1>1, <1>3 DEF Holder, Last
  <2>2. Holder(p) \in {1, 2, 3}
    BY <1>1, <2>1
  <2>3. ASSUME NEW l \in wrote, pidOf[l] = p, Holder(p) # l PROVE Precedes(l, Holder(p))
    <3>1. PICK i \in DOMAIN holders[p] : holders[p][i] = l
      BY <2>3 DEF HeldOnce
    <3>2. i < Len(holders[p])
      BY <1>1, <2>1, <2>3, <3>1
    <3>3. QED BY <2>1, <2>3, <3>1, <3>2 DEF Precedes
  <2>4. QED BY <1>3, <2>2, <2>3 DEF FairTo, Lives, Whos
<1>4. QED BY <1>1, <1>2, <1>3

\* A refresh removes no record of a process that lives, and tells of an end only
\* when every writer of a record has gone.
LEMMA RefreshIs ==
  ASSUME TurnsInv, NEW read \in SUBSET records, NEW trusted \in BOOLEAN, trusted => read = records,
         RefreshReading(read, trusted), UNCHANGED processVars
  PROVE  /\ records' \subseteq records /\ PinsAreOwn' /\ RecordsOutliveTheirProcess'
         /\ live' \in [current : {0, 1, 2}, unknown : SUBSET Lifetimes, conflict : BOOLEAN]
<1> USE DEF TurnsInv
<1> DEFINE verdict == [l \in read |-> Judged(l, Answer(kept, read, pidOf[l]), pins[l])]
           entry == Entry(read, verdict)
<1>1. /\ pins' = [l \in Lifetimes |-> IF l \in read THEN verdict[l].pin ELSE pins[l]]
      /\ records' = records \ {l \in read : verdict[l].verified = "no"}
      /\ live' = entry
      /\ told' = (trusted /\ IsLive(live) /\ ~IsLive(entry))
  BY DEF RefreshReading
<1>2. ASSUME NEW l \in read
      PROVE  /\ verdict[l].verified \in {"yes", "no", "unknown"}
             /\ verdict[l].pin \in {NoOne, l}
             /\ Lives(l) => verdict[l].verified # "no"
  <2>1. l \in Lifetimes /\ l \in records /\ pins[l] \in {NoOne, l}
    BY DEF TurnsTypeOK, PinsAreOwn
  <2>2. verdict[l] = Judged(l, Answer(kept, read, pidOf[l]), pins[l])
    OBVIOUS
  <2>3. /\ kept \in [Pids -> [who : Whos, seen : SUBSET Lifetimes]]
        /\ \A x \in Lifetimes : x \in kept[pidOf[x]].seen => FairTo(x, kept[pidOf[x]].who)
    BY DEF TurnsTypeOK, AnswersAreFair
  <2>4. LET answer == Answer(kept, read, pidOf[l]) IN
        /\ answer \in 0..5 /\ answer # NoOne /\ (answer = Gone => ~ Lives(l))
        /\ answer \notin {Gone, Unanswered} => FairTo(l, answer)
    BY <2>3, AnswerIs
  <2>5. QED BY <2>1, <2>2, <2>4, JudgedIs
<1> HIDE DEF verdict
<1>3. read \in SUBSET Lifetimes
  BY DEF TurnsTypeOK
<1>4. PinsAreOwn'
  BY <1>1, <1>2 DEF PinsAreOwn
<1>5. \A l : Lives(l)' <=> Lives(l)
  BY DEF processVars, Lives, Holder
<1>6. ASSUME NEW l \in wrote, Lives(l) PROVE l \in records' /\ ~ told'
  <2>1. l \in records
    BY <1>6 DEF RecordsOutliveTheirProcess
  <2>2. l \in records'
    BY <1>1, <1>2, <1>6, <2>1
  <2>3. trusted => IsLive(entry)
    BY <1>2, <1>3, <1>6, <2>1, EntryIs
  <2>4. QED BY <1>1, <2>2, <2>3
<1>7. RecordsOutliveTheirProcess'
  BY <1>5, <1>6 DEF RecordsOutliveTheirProcess, processVars
<1>8. QED BY <1>1, <1>2, <1>3, <1>4, <1>7, EntryIs

\* A holder that is born is new to the pid: nobody who wrote a record comes to
\* life again, and who came after whom stays so.
LEMMA BornKeeps ==
  ASSUME TurnsInv, NEW x \in {1, 2, 3}, NEW p \in Pids, Born(x, p)
  PROVE  TurnsInv'
<1> USE DEF TurnsInv
<1>1. /\ ~ living[p] /\ x \notin ToSet(holders[p]) /\ told' = FALSE
      /\ holders' = [holders EXCEPT ![p] = Append(@, x)] /\ living' = [living EXCEPT ![p] = TRUE]
      /\ UNCHANGED <<pidOf, wrote, fired, records, hooks, stored, hostVars, reboots, troubles, acked>>
  BY DEF Born
<1>2. /\ holders \in [Pids -> Seq({1, 2, 3})] /\ living \in [Pids -> BOOLEAN] /\ pidOf \in [Lifetimes -> Pids]
      /\ wrote \subseteq Lifetimes
  BY DEF TurnsTypeOK
<1>3. ASSUME NEW q \in Pids
      PROVE  /\ holders'[q] = (IF q = p THEN Append(holders[p], x) ELSE holders[q])
             /\ holders'[q] \in Seq({1, 2, 3})
             /\ living'[q] = (q = p \/ living[q])
             /\ DOMAIN holders[q] \subseteq DOMAIN holders'[q]
             /\ \A i \in DOMAIN holders[q] : holders'[q][i] = holders[q][i]
             /\ \A i \in DOMAIN holders'[q] : i \in DOMAIN holders[q] \/ (q = p /\ holders'[q][i] = x)
             /\ q = p => holders'[q][Len(holders[p]) + 1] = x /\ Len(holders'[q]) = Len(holders[p]) + 1
  <2>1. holders'[q] = (IF q = p THEN Append(holders[p], x) ELSE holders[q]) /\ living'[q] = (q = p \/ living[q])
    BY <1>1, <1>2
  <2>2. CASE q # p
    <3>1. holders'[q] = holders[q] /\ holders[q] \in Seq({1, 2, 3})
      BY <1>2, <2>1, <2>2
    <3>2. QED BY <2>1, <2>2, <3>1
  <2>3. CASE q = p
    <3>1. holders'[q] = Append(holders[p], x) /\ holders[p] \in Seq({1, 2, 3})
      BY <1>2, <2>1, <2>3
    <3>2. /\ holders'[q] \in Seq({1, 2, 3}) /\ Len(holders'[q]) = Len(holders[p]) + 1
          /\ \A i \in DOMAIN holders[q] : i \in DOMAIN holders'[q] /\ holders'[q][i] = holders[q][i]
          /\ holders'[q][Len(holders[p]) + 1] = x
      BY <2>3, <3>1
    <3>3. \A i \in DOMAIN holders'[q] : i \in DOMAIN holders[q] \/ holders'[q][i] = x
      BY <2>3, <3>1
    <3>4. QED BY <2>1, <2>3, <3>2, <3>3
  <2>4. QED BY <2>2, <2>3
<1>4. x \notin ToSet(holders[p]) <=> \A i \in DOMAIN holders[p] : holders[p][i] # x
  BY DEF ToSet
<1>5. HeldOnce'
  <2>1. ASSUME NEW q \in Pids, NEW i \in DOMAIN holders'[q], NEW j \in DOMAIN holders'[q],
               holders'[q][i] = holders'[q][j]
        PROVE  i = j
    <3>1. CASE i \in DOMAIN holders[q] /\ j \in DOMAIN holders[q]
      BY <1>3, <2>1, <3>1 DEF HeldOnce
    <3>2. CASE q = p /\ ~ (i \in DOMAIN holders[q] /\ j \in DOMAIN holders[q])
      <4>1. holders'[q] = Append(holders[p], x) /\ holders[p] \in Seq({1, 2, 3})
        BY <1>2, <1>3, <3>2
      <4>2. DOMAIN holders'[q] = 1..(Len(holders[p]) + 1) /\ DOMAIN holders[p] = 1..Len(holders[p]) /\ Len(holders[p]) \in Nat
        BY <4>1
      <4>3. QED BY <1>1, <1>3, <1>4, <2>1, <3>2, <4>2
    <3>3. QED BY <1>3, <3>1, <3>2
  <2>2. \A q \in Pids : living'[q] => holders'[q] # <<>>
    BY <1>2, <1>3 DEF HeldOnce
  <2>3. \A l \in wrote' : \E i \in DOMAIN holders'[pidOf'[l]] : holders'[pidOf'[l]][i] = l
    BY <1>1, <1>2, <1>3 DEF HeldOnce
  <2>4. QED BY <2>1, <2>2, <2>3 DEF HeldOnce
<1>6. ASSUME NEW l \in Lifetimes, NEW who, Precedes(l, who)
      PROVE  Precedes(l, who)'
  <2>1. PICK i, j \in DOMAIN holders[pidOf[l]] : i < j /\ holders[pidOf[l]][i] = l /\ holders[pidOf[l]][j] = who
    BY <1>6 DEF Precedes
  <2>2. pidOf[l] \in Pids /\ pidOf'[l] = pidOf[l]
    BY <1>1, <1>2
  <2>3. QED BY <1>3, <2>1, <2>2 DEF Precedes
<1>7. ASSUME NEW l \in wrote, Lives(l)' PROVE Lives(l)
  <2>1. pidOf[l] \in Pids /\ pidOf' = pidOf /\ l \in Lifetimes
    BY <1>1, <1>2
  <2>2. PICK i \in DOMAIN holders[pidOf[l]] : holders[pidOf[l]][i] = l
    BY DEF HeldOnce
  <2>3. l # x \/ pidOf[l] # p
    BY <1>1, <1>4, <2>2
  <2>4. CASE pidOf[l] = p
    <3>1. Holder(p)' = x
      BY <1>3, <2>4 DEF Holder, Last
    <3>2. QED BY <1>7, <2>1, <2>3, <2>4, <3>1 DEF Lives
  <2>5. CASE pidOf[l] # p
    BY <1>3, <1>7, <2>1, <2>5 DEF Lives, Holder
  <2>6. QED BY <2>4, <2>5
<1>8. \A l \in wrote : \A who : FairTo(l, who) => FairTo(l, who)'
  BY <1>2, <1>6, <1>7 DEF FairTo
<1>9. TurnsTypeOK'
  <2>1. holders' \in [Pids -> Seq({1, 2, 3})] /\ living' \in [Pids -> BOOLEAN]
    BY <1>1, <1>2, <1>3
  <2>2. QED BY <1>1, <2>1 DEF TurnsTypeOK, hostVars
<1>10. AnswersAreFair'
  BY <1>1, <1>2, <1>8 DEF AnswersAreFair, hostVars
<1>11. PinsAreOwn' /\ TurnsAreAcked' /\ FiredInOrder'
  BY <1>1 DEF PinsAreOwn, TurnsAreAcked, FiredInOrder, IsMade, IsOpenAfter, hostVars
<1>12. RecordsOutliveTheirProcess'
  BY <1>1, <1>7 DEF RecordsOutliveTheirProcess
<1>13. QED BY <1>5, <1>9, <1>10, <1>11, <1>12

\* A holder that dies frees its pid; nobody else comes to hold it.
LEMMA DiesKeeps ==
  ASSUME TurnsInv, NEW p \in Pids, Dies(p)
  PROVE  TurnsInv'
<1> USE DEF TurnsInv
<1>1. /\ living' = [living EXCEPT ![p] = FALSE] /\ told' = FALSE
      /\ UNCHANGED <<pidOf, holders, wrote, fired, records, hooks, stored, hostVars, reboots, troubles, acked>>
  BY DEF Dies
<1>2. living \in [Pids -> BOOLEAN] /\ pidOf \in [Lifetimes -> Pids] /\ wrote \subseteq Lifetimes
  BY DEF TurnsTypeOK
<1>3. \A q \in Pids : living'[q] => living[q]
  BY <1>1, <1>2
<1>4. \A l \in Lifetimes : Lives(l)' => Lives(l)
  BY <1>1, <1>2, <1>3 DEF Lives, Holder
<1>5. \A l \in Lifetimes : \A who : FairTo(l, who) => FairTo(l, who)'
  BY <1>1, <1>4 DEF FairTo, Precedes
<1>6. TurnsTypeOK'
  BY <1>1, <1>2 DEF TurnsTypeOK, hostVars
<1>7. HeldOnce' /\ PinsAreOwn' /\ TurnsAreAcked' /\ FiredInOrder'
  BY <1>1, <1>3 DEF HeldOnce, PinsAreOwn, TurnsAreAcked, FiredInOrder, IsMade, IsOpenAfter, hostVars
<1>8. AnswersAreFair'
  <2>1. asking.on => asking.seen \subseteq Lifetimes
    BY <1>2 DEF AnswersAreFair
  <2>2. QED BY <1>1, <1>5, <2>1 DEF AnswersAreFair, hostVars
<1>9. RecordsOutliveTheirProcess'
  BY <1>1, <1>2, <1>4 DEF RecordsOutliveTheirProcess
<1>10. QED BY <1>6, <1>7, <1>8, <1>9

\* A step that moves no process and no answer, nor what is known of the turns.
LEMMA QuietKeeps ==
  ASSUME TurnsInv, UNCHANGED <<pidOf, holders, living, wrote, kept, asking>>,
         records' \subseteq wrote, PinsAreOwn', RecordsOutliveTheirProcess', TurnsAreAcked', FiredInOrder',
         fired' \in [Lifetimes -> Seq(Events)], hooks' \subseteq Lifetimes \X (Nat \ {0}),
         stored' \in [Lifetimes -> Turns], turns' \in [Lifetimes -> Turns], known' \subseteq Lifetimes,
         live' \in [current : {0, 1, 2}, unknown : SUBSET Lifetimes, conflict : BOOLEAN],
         acked' \in [Lifetimes -> SUBSET (Nat \ {0})]
  PROVE  TurnsInv'
<1> USE DEF TurnsInv
<1>1. TurnsTypeOK' /\ HeldOnce'
  BY DEF TurnsTypeOK, HeldOnce
<1>2. \A l, who : FairTo(l, who)' <=> FairTo(l, who)
  BY DEF FairTo, Lives, Holder, Precedes
<1>3. AnswersAreFair'
  BY <1>2 DEF AnswersAreFair
<1>4. QED BY <1>1, <1>3

\* Who writes its record holds its pid then, and no answer speaks of it yet.
LEMMA WritesKeeps ==
  ASSUME TurnsInv, NEW l \in Lifetimes, WritesRecord(l)
  PROVE  TurnsInv'
<1> USE DEF TurnsInv
<1>1. /\ Lives(l) /\ l \notin wrote /\ wrote' = wrote \cup {l} /\ records' = records \cup {l} /\ told' = FALSE
      /\ UNCHANGED <<pidOf, holders, living, fired, hooks, stored, hostVars, reboots, troubles, acked>>
  BY DEF WritesRecord
<1>2. pidOf[l] \in Pids /\ pidOf \in [Lifetimes -> Pids]
  BY DEF TurnsTypeOK
<1>3. \E i \in DOMAIN holders[pidOf[l]] : holders[pidOf[l]][i] = l
  <2>1. living[pidOf[l]] /\ Last(holders[pidOf[l]]) = l
    BY <1>1 DEF Lives, Holder
  <2>2. holders[pidOf[l]] \in Seq({1, 2, 3}) /\ holders[pidOf[l]] # <<>>
    BY <1>2, <2>1 DEF TurnsTypeOK, HeldOnce
  <2>3. QED BY <2>1, <2>2 DEF Last
<1>4. TurnsTypeOK' /\ HeldOnce' /\ PinsAreOwn' /\ TurnsAreAcked' /\ FiredInOrder'
  <2>1. TurnsTypeOK' /\ HeldOnce' /\ PinsAreOwn'
    BY <1>1, <1>3 DEF TurnsTypeOK, HeldOnce, PinsAreOwn, hostVars
  <2>2. TurnsAreAcked' /\ FiredInOrder'
    BY <1>1 DEF TurnsAreAcked, FiredInOrder, IsMade, IsOpenAfter, hostVars
  <2>3. QED BY <2>1, <2>2
<1>5. \A x, who : FairTo(x, who)' <=> FairTo(x, who)
  BY <1>1 DEF FairTo, Lives, Holder, Precedes
<1>6. AnswersAreFair'
  BY <1>1, <1>5 DEF AnswersAreFair, hostVars
<1>7. RecordsOutliveTheirProcess'
  BY <1>1 DEF RecordsOutliveTheirProcess, Lives, Holder
<1>8. QED BY <1>4, <1>6, <1>7

\* An event that is fired changes nothing the host knows, and comes after all that
\* were: an end at the time of the event before it ends a turn, so that was none.
LEMMA FiresKeeps ==
  ASSUME TurnsInv, NEW l \in Lifetimes, Fires(l)
  PROVE  TurnsInv'
<1> USE DEF TurnsInv
<1>1. /\ hooks' = hooks \cup {<<l, Len(fired'[l])>>} /\ told' = FALSE
      /\ UNCHANGED <<pidOf, holders, living, wrote, records, stored, hostVars, reboots, troubles, acked>>
  BY DEF Fires
<1>2. PICK kind \in EventKinds :
        /\ MayFire(l, kind)
        /\ fired' = [fired EXCEPT ![l] = Append(@, [kind |-> kind, at |-> Stamp(l, kind)])]
  BY DEF Fires
<1> DEFINE n == Len(fired[l]) + 1
           at == Stamp(l, kind)
<1>3. /\ fired \in [Lifetimes -> Seq(Events)] /\ hooks \subseteq Lifetimes \X (Nat \ {0})
      /\ fired[l] \in Seq(Events) /\ Len(fired[l]) \in Nat /\ DOMAIN fired[l] = 1..Len(fired[l])
  BY DEF TurnsTypeOK
<1>4. ASSUME fired[l] # <<>>
      PROVE  /\ Last(fired[l]) = fired[l][Len(fired[l])] /\ Len(fired[l]) \in DOMAIN fired[l]
             /\ kind = "turn-end" => Last(fired[l]).kind # "turn-end"
  <2>1. Last(fired[l]) = fired[l][Len(fired[l])] /\ Len(fired[l]) \in DOMAIN fired[l]
    BY <1>3, <1>4 DEF Last
  <2>2. ASSUME kind = "turn-end" PROVE Last(fired[l]).kind # "turn-end"
    <3>1. PICK s \in DOMAIN fired[l] : /\ fired[l][s].kind = "turn-start"
                                      /\ \A e \in DOMAIN fired[l] : e > s => fired[l][e].kind # "turn-end"
      BY <1>2, <2>2 DEF MayFire, Busy
    <3>2. s = Len(fired[l]) \/ Len(fired[l]) > s
      BY <1>3, <3>1
    <3>3. QED BY <2>1, <3>1, <3>2
  <2>3. QED BY <2>1, <2>2
<1>5. /\ at \in Nat \ {0}
      /\ \A i \in DOMAIN fired[l] :
            fired[l][i].at < at \/ (fired[l][i].at = at /\ fired[l][i].kind # "turn-end")
  <2>1. CASE fired[l] = <<>>
    <3>1. DOMAIN fired[l] = {}
      BY <2>1
    <3>2. ~ Busy(l)
      BY <3>1 DEF Busy
    <3>3. kind # "turn-end"
      BY <1>2, <3>2 DEF MayFire
    <3>4. at = 1
      BY <2>1, <3>3 DEF Stamp
    <3>5. QED BY <3>1, <3>4
  <2>2. CASE fired[l] # <<>>
    <3> DEFINE last == Len(fired[l])
    <3>1. last \in DOMAIN fired[l] /\ Last(fired[l]) = fired[l][last]
      BY <1>4, <2>2
    <3>2. fired[l][last].at \in Nat \ {0}
      BY <3>1, EventIs
    <3>3. at = fired[l][last].at + 1 \/ (kind = "turn-end" /\ at = fired[l][last].at)
      BY <2>2, <3>1 DEF Stamp
    <3>4. ASSUME NEW i \in DOMAIN fired[l]
          PROVE  fired[l][i].at < at \/ (fired[l][i].at = at /\ fired[l][i].kind # "turn-end")
      <4>1. fired[l][i].at \in Nat
        BY EventIs
      <4>2. CASE i = last
        BY <1>4, <2>2, <3>1, <3>2, <3>3, <4>2
      <4>3. CASE i # last
        <5>1. i < last
          BY <1>3, <4>3
        <5>2. fired[l][i].at < fired[l][last].at
              \/ (fired[l][i].at = fired[l][last].at /\ fired[l][i].kind # "turn-end")
          BY <3>1, <5>1 DEF FiredInOrder
        <5> HIDE DEF last
        <5>3. QED BY <3>2, <3>3, <4>1, <5>2
      <4>4. QED BY <4>2, <4>3
    <3>5. QED BY <3>2, <3>3, <3>4
  <2>3. QED BY <2>1, <2>2
<1> HIDE DEF at
<1>6. /\ fired'[l] = Append(fired[l], [kind |-> kind, at |-> at]) /\ fired' \in [Lifetimes -> Seq(Events)]
      /\ \A x \in Lifetimes : x # l => fired'[x] = fired[x]
  <2>1. [kind |-> kind, at |-> at] \in Events
    BY <1>5 DEF Events
  <2>2. Append(fired[l], [kind |-> kind, at |-> at]) \in Seq(Events)
    BY <1>3, <2>1
  <2>3. QED BY <1>2, <1>3, <2>2 DEF at
<1>7. /\ DOMAIN fired'[l] = DOMAIN fired[l] \cup {n} /\ n \notin DOMAIN fired[l] /\ n \in Nat \ {0} /\ Len(fired'[l]) = n
      /\ \A i \in DOMAIN fired[l] : i \in Nat /\ i < n /\ fired'[l][i] = fired[l][i]
      /\ fired'[l][n].kind = kind /\ fired'[l][n].at = at
  BY <1>3, <1>6
<1>8. \A x \in Lifetimes : \A i \in DOMAIN fired[x] : i \in DOMAIN fired'[x] /\ fired'[x][i] = fired[x][i]
  BY <1>6, <1>7
<1>9. acked \in [Lifetimes -> SUBSET (Nat \ {0})] /\ \A x \in Lifetimes : acked[x] \subseteq DOMAIN fired[x]
  BY DEF TurnsTypeOK, FiredInOrder
<1>10. FiredInOrder'
  <2>1. \A e \in hooks' : e[2] \in DOMAIN fired'[e[1]] /\ e[2] \notin acked'[e[1]]
    BY <1>1, <1>3, <1>7, <1>8, <1>9 DEF FiredInOrder
  <2>2. ASSUME NEW x \in Lifetimes, NEW i \in DOMAIN fired'[x], NEW j \in DOMAIN fired'[x], i < j
        PROVE  \/ fired'[x][i].at < fired'[x][j].at
               \/ /\ fired'[x][i].at = fired'[x][j].at
                  /\ fired'[x][i].kind # "turn-end"
    <3>1. CASE i \in DOMAIN fired[x] /\ j \in DOMAIN fired[x]
      BY <1>8, <2>2, <3>1 DEF FiredInOrder
    <3>2. CASE x = l /\ i \in DOMAIN fired[l] /\ j = n
      BY <1>5, <1>7, <3>2
    <3>3. CASE x = l /\ i = n
      BY <1>7, <2>2, <3>3
    <3>4. QED BY <1>6, <1>7, <3>1, <3>2, <3>3
  <2>3. QED BY <1>1, <1>8, <1>9, <2>1, <2>2 DEF FiredInOrder
<1>11. TurnsAreAcked'
  <2>1. ASSUME NEW x \in Lifetimes, NEW turn, IsMade(x, acked[x], turn) PROVE IsMade(x, acked[x], turn)'
    BY <1>1, <1>8, <1>9, <2>1 DEF IsMade, IsOpenAfter
  <2>2. QED BY <1>1, <2>1 DEF TurnsAreAcked, hostVars
<1>12. hooks' \subseteq Lifetimes \X (Nat \ {0})
  BY <1>1, <1>3, <1>7
<1>13. PinsAreOwn' /\ RecordsOutliveTheirProcess'
  BY <1>1 DEF PinsAreOwn, RecordsOutliveTheirProcess, Lives, Holder, hostVars
<1>14. QED BY <1>1, <1>6, <1>10, <1>11, <1>12, <1>13, QuietKeeps DEF TurnsTypeOK, hostVars

\* What a probe is asked is answered as it is when it starts.
LEMMA ProbesKeep == TurnsInv /\ (ProbeStarts \/ ProbeLands \/ ProbeFails) => TurnsInv'
<1> SUFFICES ASSUME TurnsInv, ProbeStarts \/ ProbeLands \/ ProbeFails PROVE TurnsInv'
  OBVIOUS
<1> USE DEF TurnsInv
<1>1. /\ UNCHANGED <<processVars, records, hooks, stored, turns, known, pins, live, reboots, troubles, acked>>
      /\ told' = FALSE
  BY DEF ProbeStarts, ProbeLands, ProbeFails
<1>2. \A l, who : FairTo(l, who)' <=> FairTo(l, who)
  BY <1>1 DEF FairTo, Lives, Holder, Precedes, processVars
<1>3. HeldOnce' /\ PinsAreOwn' /\ TurnsAreAcked' /\ FiredInOrder' /\ RecordsOutliveTheirProcess'
  BY <1>1 DEF HeldOnce, PinsAreOwn, TurnsAreAcked, FiredInOrder, IsMade, IsOpenAfter, RecordsOutliveTheirProcess,
              Lives, Holder, processVars
<1>4. wrote \subseteq Lifetimes /\ pidOf \in [Lifetimes -> Pids]
  BY DEF TurnsTypeOK
<1>5. CASE ProbeStarts
  <2>1. asking' = [on |-> TRUE, who |-> [p \in Pids |-> Holder(p)], seen |-> wrote] /\ kept' = kept
    BY <1>5 DEF ProbeStarts
  <2>2. asking' \in [on : BOOLEAN, who : [Pids -> Whos], seen : SUBSET Lifetimes]
    BY <1>4, <2>1, HolderIs
  <2>3. \A l \in asking'.seen : FairTo(l, asking'.who[pidOf[l]])
    BY <1>4, <2>1, HolderIs
  <2>4. AnswersAreFair'
    BY <1>1, <1>2, <1>4, <2>1, <2>3 DEF AnswersAreFair, processVars
  <2>5. TurnsTypeOK'
    BY <1>1, <2>1, <2>2 DEF TurnsTypeOK, processVars
  <2>6. QED BY <1>3, <2>4, <2>5
<1>6. CASE ProbeLands
  <2>1. /\ kept' = [p \in Pids |-> [who |-> asking.who[p], seen |-> asking.seen]] /\ asking' = Idle /\ asking.on
    BY <1>6 DEF ProbeLands
  <2>2. asking.who \in [Pids -> Whos] /\ asking.seen \in SUBSET Lifetimes
    BY DEF TurnsTypeOK
  <2>3. kept' \in [Pids -> [who : Whos, seen : SUBSET Lifetimes]]
    BY <2>1, <2>2
  <2>4. asking' \in [on : BOOLEAN, who : [Pids -> Whos], seen : SUBSET Lifetimes] /\ ~ asking'.on
    BY <2>1 DEF Idle, Whos
  <2>5. TurnsTypeOK'
    BY <1>1, <2>3, <2>4 DEF TurnsTypeOK, processVars
  <2>6. AnswersAreFair'
    BY <1>1, <1>2, <1>4, <2>1, <2>4 DEF AnswersAreFair, processVars
  <2>7. QED BY <1>3, <2>5, <2>6
<1>7. CASE ProbeFails
  <2>1. kept' = kept /\ asking' = Idle
    BY <1>7 DEF ProbeFails
  <2>2. asking' \in [on : BOOLEAN, who : [Pids -> Whos], seen : SUBSET Lifetimes] /\ ~ asking'.on
    BY <2>1 DEF Idle, Whos
  <2>3. TurnsTypeOK' /\ AnswersAreFair'
    BY <1>1, <1>2, <1>4, <2>1, <2>2 DEF TurnsTypeOK, AnswersAreFair, processVars
  <2>4. QED BY <1>3, <2>3
<1>8. QED BY <1>5, <1>6, <1>7

\* A refresh, of all records or of those that could be read, keeps the invariant.
LEMMA RefreshKeeps == TurnsInv /\ (Refresh \/ TroubledRefresh) => TurnsInv'
<1> SUFFICES ASSUME TurnsInv, Refresh \/ TroubledRefresh PROVE TurnsInv'
  OBVIOUS
<1>1. /\ \E read \in SUBSET records, trusted \in BOOLEAN : (trusted => read = records) /\ RefreshReading(read, trusted)
      /\ UNCHANGED <<processVars, hooks, stored, turns, known, kept, asking, acked>>
  <2>1. CASE Refresh
    BY <2>1 DEF Refresh
  <2>2. CASE TroubledRefresh
    BY <2>2 DEF TroubledRefresh
  <2>3. QED BY <2>1, <2>2
<1>2. /\ records' \subseteq records /\ PinsAreOwn' /\ RecordsOutliveTheirProcess'
      /\ live' \in [current : {0, 1, 2}, unknown : SUBSET Lifetimes, conflict : BOOLEAN]
  BY <1>1, RefreshIs
<1>3. TurnsAreAcked' /\ FiredInOrder'
  BY <1>1 DEF TurnsInv, TurnsAreAcked, FiredInOrder, IsMade, IsOpenAfter, processVars
<1>4. QED
  BY <1>1, <1>2, <1>3, QuietKeeps DEF TurnsInv, TurnsTypeOK, processVars

\* An event that is taken is the latest of its turn: one that was fired before the
\* latest acknowledged, at its time, is no end, and not taken.
LEMMA TakenIsLatest ==
  ASSUME TurnsInv, NEW l \in Lifetimes, NEW n \in DOMAIN fired[l], n \notin acked[l],
         turns[l].last # 0, ComesAfter(l, fired[l][n])
  PROVE  \A m \in acked[l] : m < n
<1> USE DEF TurnsInv
<1>1. PICK k \in acked[l] : (\A m \in acked[l] : m <= k) /\ turns[l].last = fired[l][k].at
  BY DEF TurnsAreAcked, IsMade
<1>2. k \in DOMAIN fired[l] /\ acked[l] \subseteq DOMAIN fired[l]
  BY DEF FiredInOrder
<1>3. /\ k \in Nat /\ n \in Nat /\ fired[l][k].at \in Nat /\ fired[l][n].at \in Nat
      /\ \A m \in acked[l] : m \in Nat
  BY <1>2, EventIs
<1>4. fired[l][n].at > fired[l][k].at \/ (fired[l][n].at = fired[l][k].at /\ fired[l][n].kind = "turn-end")
  BY <1>1 DEF ComesAfter
<1>5. ~ n < k
  BY <1>2, <1>3, <1>4 DEF FiredInOrder
<1>6. QED BY <1>1, <1>3, <1>5

\* What an event makes of a turn is what the acknowledged events and it make.
LEMMA EffectIsMade ==
  ASSUME TurnsInv, NEW l \in Lifetimes, NEW n \in DOMAIN fired[l], n \notin acked[l],
         ComesAfter(l, fired[l][n]), NEW done, done = (IF l \in known THEN acked[l] ELSE {}) \cup {n}
  PROVE  LET turn == Effect(turns[l], fired[l][n].kind, fired[l][n].at) IN
         turn \in Turns /\ turn.last # 0 /\ IsMade(l, done, turn)
<1> USE DEF TurnsInv
<1> DEFINE event == fired[l][n]
           turn == Effect(turns[l], event.kind, event.at)
<1>1. n \in Nat \ {0} /\ event.at \in Nat \ {0} /\ event.kind \in EventKinds
  BY EventIs
<1>2. turns[l].open \in BOOLEAN
  BY DEF TurnsTypeOK, Turns
<1>3. /\ turn.open = (event.kind = "turn-start" \/ (turns[l].open /\ event.kind # "turn-end"))
      /\ turn.awaiting = (event.kind = "blocked") /\ turn.last = event.at
  BY DEF Effect
<1>4. turn \in Turns /\ turn.last # 0
  BY <1>1 DEF Effect, Turns
<1>5. CASE l \notin known
  <2>1. done = {n} /\ ~ turns[l].open
    BY <1>5 DEF TurnsAreAcked
  <2>2. IsOpenAfter(l, done) <=> (event.kind = "turn-start")
    BY <1>1, <2>1 DEF IsOpenAfter
  <2>3. turn.open <=> IsOpenAfter(l, done)
    BY <1>2, <1>3, <2>1, <2>2 DEF IsOpenAfter
  <2>4. n \in done /\ \A m \in done : m <= n
    BY <1>1, <2>1
  <2>5. turn.awaiting <=> event.kind = "blocked"
    BY <1>3
  <2>6. IsMade(l, done, turn)
    BY <1>3, <2>3, <2>4, <2>5 DEF IsMade
  <2>7. QED BY <1>4, <2>6
<1>6. CASE l \in known
  <2>1. done = acked[l] \cup {n} /\ turns[l].last # 0
    BY <1>6 DEF TurnsAreAcked
  <2>2. \A m \in acked[l] : m < n /\ m \in Nat
    BY <2>1, TakenIsLatest DEF TurnsTypeOK
  <2>3. turns[l].open <=> IsOpenAfter(l, acked[l])
    BY <2>1 DEF TurnsAreAcked, IsMade
  <2>4. IsOpenAfter(l, done) <=> (event.kind = "turn-start" \/ (IsOpenAfter(l, acked[l]) /\ event.kind # "turn-end"))
    <3>1. IsOpenAfter(l, done) <=>
            \E s \in acked[l] \cup {n} : /\ fired[l][s].kind = "turn-start"
                                        /\ \A e \in acked[l] \cup {n} : e > s => fired[l][e].kind # "turn-end"
      BY <2>1 DEF IsOpenAfter
    <3>2. IsOpenAfter(l, acked[l]) <=>
            \E s \in acked[l] : /\ fired[l][s].kind = "turn-start"
                               /\ \A e \in acked[l] : e > s => fired[l][e].kind # "turn-end"
      BY DEF IsOpenAfter
    <3>3. \A e \in acked[l] \cup {n} : ~ e > n
      BY <1>1, <2>2
    <3>4. \A s \in acked[l] : n > s
      BY <1>1, <2>2
    <3>5. QED BY <3>1, <3>2, <3>3, <3>4
  <2>5. turn.open <=> IsOpenAfter(l, done)
    BY <1>2, <1>3, <2>3, <2>4 DEF IsOpenAfter
  <2>6. \A m \in done : m <= n
    BY <1>1, <2>1, <2>2
  <2>7. QED BY <1>3, <1>4, <2>1, <2>5, <2>6 DEF IsMade
<1>7. QED BY <1>5, <1>6

\* An event that arrives is taken after all of its turn's, or changes nothing.
LEMMA ReceiveKeeps ==
  ASSUME TurnsInv, NEW l \in Lifetimes, NEW n \in Nat \ {0}, Receive(l, n)
  PROVE  TurnsInv'
<1> USE DEF TurnsInv
<1> DEFINE event == fired[l][n]
<1>1. /\ <<l, n>> \in hooks /\ hooks' = hooks \ {<<l, n>>} /\ RefreshReading(records, TRUE)
      /\ UNCHANGED <<processVars, kept, asking, reboots>>
      /\ \/ /\ ComesAfter(l, event)
            /\ stored' = [turns EXCEPT ![l] = Effect(@, event.kind, event.at)]
            /\ turns' = stored' /\ known' = known \cup {l}
            /\ acked' = [acked EXCEPT ![l] = (IF l \in known THEN @ ELSE {}) \cup {n}]
         \/ UNCHANGED <<stored, turns, known, acked>>
  BY DEF Receive
<1>2. /\ records' \subseteq records /\ PinsAreOwn' /\ RecordsOutliveTheirProcess'
      /\ live' \in [current : {0, 1, 2}, unknown : SUBSET Lifetimes, conflict : BOOLEAN]
  BY <1>1, RefreshIs
<1>3. /\ records' \subseteq wrote /\ fired' \in [Lifetimes -> Seq(Events)] /\ hooks' \subseteq Lifetimes \X (Nat \ {0})
      /\ UNCHANGED <<pidOf, holders, living, wrote, fired, kept, asking>>
  BY <1>1, <1>2 DEF TurnsTypeOK, processVars
<1>4. n \in DOMAIN fired[l] /\ n \notin acked[l]
  BY <1>1 DEF FiredInOrder
<1>5. CASE UNCHANGED <<stored, turns, known, acked>>
  <2>1. TurnsAreAcked' /\ FiredInOrder'
    BY <1>1, <1>3, <1>5 DEF TurnsAreAcked, FiredInOrder, IsMade, IsOpenAfter
  <2>2. QED BY <1>2, <1>3, <1>5, <2>1, QuietKeeps DEF TurnsTypeOK
<1>6. CASE /\ ComesAfter(l, event)
           /\ stored' = [turns EXCEPT ![l] = Effect(@, event.kind, event.at)]
           /\ turns' = stored' /\ known' = known \cup {l}
           /\ acked' = [acked EXCEPT ![l] = (IF l \in known THEN @ ELSE {}) \cup {n}]
  <2>1. /\ turns \in [Lifetimes -> Turns] /\ acked \in [Lifetimes -> SUBSET (Nat \ {0})] /\ known \subseteq Lifetimes
        /\ hooks \subseteq Lifetimes \X (Nat \ {0})
    BY DEF TurnsTypeOK
  <2>2. /\ acked'[l] = (IF l \in known THEN acked[l] ELSE {}) \cup {n}
        /\ acked' \in [Lifetimes -> SUBSET (Nat \ {0})]
        /\ \A x \in Lifetimes \ {l} : acked'[x] = acked[x]
    BY <1>6, <2>1
  <2>3. Effect(turns[l], event.kind, event.at) \in Turns /\ Effect(turns[l], event.kind, event.at).last # 0
        /\ IsMade(l, acked'[l], Effect(turns[l], event.kind, event.at))
    BY <1>4, <1>6, <2>2, EffectIsMade
  <2>4. /\ turns' \in [Lifetimes -> Turns] /\ turns'[l] = Effect(turns[l], event.kind, event.at)
        /\ \A x \in Lifetimes \ {l} : turns'[x] = turns[x]
    BY <1>6, <2>1, <2>3
  <2>5. \A x \in Lifetimes \ {l} : turns'[x].last # 0 => IsMade(x, acked'[x], turns'[x])
    BY <2>2, <2>4 DEF TurnsAreAcked
  <2>6. /\ IsMade(l, acked'[l], turns'[l]) /\ turns'[l].last # 0 /\ stored' = turns'
        /\ \A x \in Lifetimes \ {l} : (turns'[x].last = 0 => ~ turns'[x].open) /\ (x \in known' <=> turns'[x].last # 0)
    BY <1>6, <2>3, <2>4 DEF TurnsAreAcked
  <2>7. TurnsAreAcked'
    <3>1. \A x \in Lifetimes : IsMade(x, acked[x], turns[x])' <=> IsMade(x, acked'[x], turns'[x])
      BY <1>3 DEF IsMade, IsOpenAfter
    <3>2. l \in known'
      BY <1>6
    <3>3. QED BY <1>6, <2>5, <2>6, <3>1, <3>2 DEF TurnsAreAcked
  <2>8. FiredInOrder'
    <3>1. \A x \in Lifetimes : acked'[x] \subseteq DOMAIN fired[x]
      BY <1>4, <2>2 DEF FiredInOrder
    <3>2. \A e \in hooks' : e[2] \in DOMAIN fired[e[1]] /\ e[2] \notin acked'[e[1]]
      BY <1>1, <2>1, <2>2 DEF FiredInOrder
    <3>3. QED BY <1>3, <3>1, <3>2 DEF FiredInOrder
  <2>9. known' \subseteq Lifetimes /\ stored' \in [Lifetimes -> Turns]
    BY <1>6, <2>1, <2>4
  <2>10. QED
    BY <1>2, <1>3, <2>2, <2>4, <2>7, <2>8, <2>9, QuietKeeps
<1>7. QED BY <1>1, <1>5, <1>6

\* What the cache of a daemon that takes the role holds is fair.
LEMMA CachesAreFair ==
  ASSUME TurnsInv, NEW cache \in Caches
  PROVE  /\ cache \in [Pids -> [who : Whos, seen : SUBSET Lifetimes]]
         /\ \A p \in Pids : cache[p].seen \subseteq wrote
         /\ \A l \in Lifetimes : l \in cache[pidOf[l]].seen => FairTo(l, cache[pidOf[l]].who)
<1> USE DEF TurnsInv
<1>1. wrote \subseteq Lifetimes /\ pidOf \in [Lifetimes -> Pids]
  BY DEF TurnsTypeOK
<1>2. CASE cache = kept
  BY <1>2 DEF TurnsTypeOK, AnswersAreFair
<1>3. CASE cache = [p \in Pids |-> NoAnswer]
  BY <1>1, <1>3 DEF NoAnswer, Whos
<1>4. QED BY <1>2, <1>3 DEF Caches

\* A host that boots judges by answers that are fair, and takes the turns from the
\* file or none.
LEMMA BootIs ==
  ASSUME TurnsInv, NEW read \in SUBSET records, NEW readable \in BOOLEAN, NEW cache \in Caches,
         Boots(read, readable, cache), asking' \in {Idle, asking}, told' = FALSE, UNCHANGED <<processVars, hooks, acked>>
  PROVE  TurnsInv'
<1> USE DEF TurnsInv
<1> DEFINE verdict == [l \in read |-> Judged(l, Answer(cache, read, pidOf[l]), NoOne)]
           dead == {l \in read : verdict[l].verified = "no"}
           back == {l \in Lifetimes \ dead : readable /\ stored[l].last # 0}
<1>1. /\ pins' = [l \in Lifetimes |-> IF l \in read THEN verdict[l].pin ELSE NoOne]
      /\ records' = records \ dead
      /\ live' = Entry(read, verdict)
      /\ known' = back
      /\ turns' = [l \in Lifetimes |-> IF l \in back THEN stored[l] ELSE NoTurn]
      /\ stored' = IF readable THEN turns' ELSE stored
      /\ kept' = cache
  BY DEF Boots
<1>2. /\ cache \in [Pids -> [who : Whos, seen : SUBSET Lifetimes]]
      /\ \A p \in Pids : cache[p].seen \subseteq wrote
      /\ \A l \in Lifetimes : l \in cache[pidOf[l]].seen => FairTo(l, cache[pidOf[l]].who)
  BY CachesAreFair
<1>3. /\ wrote \subseteq Lifetimes /\ records \subseteq wrote /\ pidOf \in [Lifetimes -> Pids]
      /\ stored \in [Lifetimes -> Turns] /\ read \subseteq Lifetimes
  BY DEF TurnsTypeOK
<1>4. ASSUME NEW l \in read
      PROVE  /\ verdict[l].verified \in {"yes", "no", "unknown"}
             /\ verdict[l].pin \in {NoOne, l}
             /\ Lives(l) => verdict[l].verified # "no"
  <2>1. l \in Lifetimes /\ l \in wrote /\ pidOf[l] \in Pids
    BY <1>3
  <2>2. LET answer == Answer(cache, read, pidOf[l]) IN
        /\ answer \in 0..5 /\ answer # NoOne /\ (answer = Gone => ~ Lives(l))
        /\ answer \notin {Gone, Unanswered} => FairTo(l, answer)
    BY <1>2, AnswerIs
  <2>3. verdict[l] = Judged(l, Answer(cache, read, pidOf[l]), NoOne)
    OBVIOUS
  <2>4. QED BY <2>1, <2>2, <2>3, JudgedIs
<1> HIDE DEF verdict
<1>5. live' \in [current : {0, 1, 2}, unknown : SUBSET Lifetimes, conflict : BOOLEAN]
  BY <1>1, <1>3, <1>4, EntryIs
<1>6. PinsAreOwn' /\ records' \subseteq records
  BY <1>1, <1>4 DEF PinsAreOwn
<1>7. \A x, who : FairTo(x, who)' <=> FairTo(x, who)
  BY DEF FairTo, Lives, Holder, Precedes, processVars
<1>8. RecordsOutliveTheirProcess'
  BY <1>1, <1>3, <1>4 DEF RecordsOutliveTheirProcess, Lives, Holder, processVars
<1>9. /\ asking \in [on : BOOLEAN, who : [Pids -> Whos], seen : SUBSET Lifetimes]
      /\ Idle \in [on : BOOLEAN, who : [Pids -> Whos], seen : SUBSET Lifetimes] /\ ~ Idle.on
  BY DEF TurnsTypeOK, Idle, Whos
<1>10. asking' \in [on : BOOLEAN, who : [Pids -> Whos], seen : SUBSET Lifetimes]
  BY <1>9
<1>11. AnswersAreFair'
  <2>1. CASE asking' = asking
    BY <1>1, <1>2, <1>3, <1>7, <2>1 DEF AnswersAreFair, processVars
  <2>2. CASE asking' = Idle
    BY <1>1, <1>2, <1>3, <1>7, <1>9, <2>2 DEF AnswersAreFair, processVars
  <2>3. QED BY <2>1, <2>2
<1>12. /\ turns' \in [Lifetimes -> Turns] /\ stored' \in [Lifetimes -> Turns] /\ known' \subseteq Lifetimes
       /\ TurnsAreAcked' /\ FiredInOrder'
  <2>1. NoTurn \in Turns /\ NoTurn.last = 0 /\ ~ NoTurn.open
    BY DEF NoTurn, Turns
  <2>2. \A l \in Lifetimes : (turns'[l] = NoTurn /\ l \notin known')
                            \/ (turns'[l] = stored[l] /\ stored[l].last # 0 /\ l \in known')
    BY <1>1
  <2>3. stored' = turns' \/ stored' = stored
    BY <1>1
  <2>4. turns' \in [Lifetimes -> Turns] /\ known' \subseteq Lifetimes
    BY <1>1, <1>3, <2>1
  <2>5. \A x \in Lifetimes : \A turn : IsMade(x, acked[x], turn)' <=> IsMade(x, acked[x], turn)
    BY DEF IsMade, IsOpenAfter, processVars
  <2>6. TurnsAreAcked'
    BY <2>1, <2>2, <2>3, <2>5 DEF TurnsAreAcked
  <2>7. FiredInOrder'
    BY DEF FiredInOrder, processVars
  <2>8. QED BY <1>3, <2>3, <2>4, <2>6, <2>7
<1>13. TurnsTypeOK' /\ HeldOnce'
  BY <1>1, <1>2, <1>3, <1>5, <1>6, <1>10, <1>12 DEF TurnsTypeOK, HeldOnce, processVars
<1>14. QED BY <1>6, <1>8, <1>11, <1>12, <1>13

LEMMA RebootKeeps == TurnsInv /\ Reboot => TurnsInv'
<1> SUFFICES ASSUME TurnsInv, Reboot PROVE TurnsInv'
  OBVIOUS
<1>1. /\ \E read \in SUBSET records, readable \in BOOLEAN, cache \in Caches : Boots(read, readable, cache)
      /\ asking' \in {Idle, asking} /\ told' = FALSE /\ UNCHANGED <<processVars, hooks, acked>>
  BY DEF Reboot
<1>2. QED BY <1>1, BootIs

\* Nobody was born and nothing is known.
LEMMA TurnsStart == TurnsInit => TurnsInv
<1> SUFFICES ASSUME TurnsInit PROVE TurnsInv
  OBVIOUS
<1>1. NoTurn \in Turns /\ NoTurn.last = 0 /\ ~ NoTurn.open
  BY DEF NoTurn, Turns
<1>2. TurnsTypeOK
  <2>1. asking \in [on : BOOLEAN, who : [Pids -> Whos], seen : SUBSET Lifetimes]
    BY DEF TurnsInit, Idle, Whos
  <2>2. kept \in [Pids -> [who : Whos, seen : SUBSET Lifetimes]]
    BY DEF TurnsInit, NoAnswer, Whos
  <2>3. live \in [current : {0, 1, 2}, unknown : SUBSET Lifetimes, conflict : BOOLEAN]
    BY DEF TurnsInit, NoLifetime
  <2>4. pidOf \in [Lifetimes -> Pids] /\ holders \in [Pids -> Seq({1, 2, 3})] /\ living \in [Pids -> BOOLEAN]
    BY DEF TurnsInit
  <2>5. QED BY <1>1, <2>1, <2>2, <2>3, <2>4 DEF TurnsInit, TurnsTypeOK
<1>3. HeldOnce /\ PinsAreOwn /\ RecordsOutliveTheirProcess /\ TurnsAreAcked /\ FiredInOrder
  BY <1>1 DEF TurnsInit, HeldOnce, PinsAreOwn, RecordsOutliveTheirProcess, TurnsAreAcked, FiredInOrder
<1>4. AnswersAreFair
  BY DEF TurnsInit, AnswersAreFair, NoAnswer, Idle
<1>5. QED BY <1>2, <1>3, <1>4 DEF TurnsInv

\* The invariant of the host holds throughout.
LEMMA TurnsInvHolds == TurnsSpec => []TurnsInv
<1>1. TurnsInv /\ [TurnsNext]_turnVars => TurnsInv'
  <2> SUFFICES ASSUME TurnsInv, [TurnsNext]_turnVars PROVE TurnsInv'
    OBVIOUS
  <2>1. ASSUME NEW l \in Lifetimes, Launched(l) PROVE TurnsInv'
    <3>1. pidOf[l] \in Pids
      BY DEF TurnsInv, TurnsTypeOK
    <3>2. PICK p \in Pids : p = pidOf[l]
      BY <3>1
    <3>3. Born(l, p)
      BY <2>1, <3>2 DEF Launched
    <3>4. QED BY <3>3, BornKeeps
  <2>2. CASE StrangerBorn
    BY <2>2, BornKeeps DEF StrangerBorn
  <2>3. ASSUME NEW e \in hooks, Receive(e[1], e[2]) PROVE TurnsInv'
    <3>1. e[1] \in Lifetimes /\ e[2] \in Nat \ {0}
      BY DEF TurnsInv, TurnsTypeOK
    <3>2. PICK l \in Lifetimes, n \in Nat \ {0} : l = e[1] /\ n = e[2]
      BY <3>1
    <3>3. QED BY <2>3, <3>2, ReceiveKeeps
  <2>4. CASE UNCHANGED turnVars
    <3>1. TurnsAreAcked' /\ FiredInOrder' /\ PinsAreOwn' /\ RecordsOutliveTheirProcess'
      BY <2>4 DEF turnVars, processVars, hostVars, TurnsInv, TurnsAreAcked, FiredInOrder, IsMade, IsOpenAfter,
                  PinsAreOwn, RecordsOutliveTheirProcess, Lives, Holder
    <3>2. QED
      BY <2>4, <3>1, QuietKeeps DEF turnVars, processVars, hostVars, TurnsInv, TurnsTypeOK
  <2>5. QED
    BY <2>1, <2>2, <2>3, <2>4, DiesKeeps, WritesKeeps, FiresKeeps, ProbesKeep, RefreshKeeps, RebootKeeps DEF TurnsNext
<1>2. QED BY <1>1, TurnsStart, PTL DEF TurnsSpec

\* A record outlives the process that wrote it and an agent is called ended only
\* when all who wrote one are gone; and a turn is what its acknowledged events made
\* it, however events are delivered, over any number of reboots and of files that
\* cannot be read (agent-state-host.mjs, turn-events.mjs).
THEOREM TurnsHold == TurnsSpec => []TurnsAreTrue
<1>1. TurnsInv => TurnsAreTrue
  <2> SUFFICES ASSUME TurnsInv PROVE TurnsAreTrue
    OBVIOUS
  <2>1. \A l \in known : IsMade(l, acked[l], turns[l])
    BY DEF TurnsInv, TurnsTypeOK, TurnsAreAcked
  <2>2. ASSUME Word = "idle" PROVE ~ IsOpenAfter(live.current, acked[live.current])
    <3>1. live.current \in known /\ ~ turns[live.current].open
      BY <2>2 DEF Word
    <3>2. turns[live.current].open <=> IsOpenAfter(live.current, acked[live.current])
      BY <2>1, <3>1 DEF IsMade
    <3>3. QED BY <3>1, <3>2
  <2>3. TurnIsItsLatest
    BY <2>1, <2>2 DEF TurnIsItsLatest
  <2>4. QED
    BY <2>3 DEF TurnsInv, TurnsAreTrue
<1>2. QED BY <1>1, TurnsInvHolds, PTL

-----------------------------------------------------------------------------
(***************************************************************************)
(* A provider client that is ended with its tree: a process number is a    *)
(* process only until it exits and is read again.                          *)
(***************************************************************************)

Procs == [born : Nat, ppid : ClientPids \cup {0}, from : Nat, ours : BOOLEAN, alive : BOOLEAN]
Runs == [killing : BOOLEAN, killSaid : {"none", "failed", "done"}, closed : BOOLEAN,
         settled : {"no", "clean", "unconfirmed"}]
Handles == [pid : ClientPids, born : Nat]
Helpers == [at : {"no", "open root", "held", "end", "list", "children", "over"},
            held : SUBSET Handles, queue : Seq(ClientPids), opens : SUBSET ClientPids, problem : BOOLEAN]

ClientRunTypes ==
    /\ procs \in [ClientPids -> Procs] /\ births \in Nat /\ exitSeen \in BOOLEAN
    /\ run \in Runs /\ helper \in Helpers /\ reached \subseteq 1..births

\* Births are counted and never the same; who forked a process had its parent's
\* number, and had it last if the process was born after that number's holder.
Lineage ==
    /\ births >= ClientBirth
    /\ \A p \in ClientPids : procs[p].born <= births /\ (procs[p].alive => procs[p].born > 0)
    /\ \A p \in ClientPids : procs[p].from = 0 \/ procs[p].from < procs[p].born
    /\ \A p, q \in ClientPids : p # q /\ procs[p].born = procs[q].born => procs[p].born = 0
    /\ \A p, q \in ClientPids :
         p # q /\ procs[p].ppid = q /\ procs[p].born > procs[q].born => procs[p].ours = procs[q].ours
    /\ \A p, q \in ClientPids :
         p # q /\ procs[p].from = procs[q].born /\ procs[p].from # 0 => procs[p].ppid = q

ClientUntilSeen == ~exitSeen => procs[ClientPid].born = ClientBirth /\ procs[ClientPid].ours

Ending == helper.at \in {"end", "list", "children"}

\* A handle keeps its process's number from another.
HandlesHold == \A h \in helper.held : procs[h.pid].born = h.born

\* What the helper has in hand.
HelperInHand ==
    /\ helper.at = "held" => helper.held # {} /\ \A h \in helper.held : h.pid = ClientPid
    /\ Ending =>
         /\ reached = {h.born : h \in helper.held} /\ ClientBirth \in reached
         /\ \A h \in helper.held : procs[h.pid].ours
         /\ \A i \in DOMAIN helper.queue : helper.queue[i] \in HeldPids
    /\ helper.at \in {"list", "children"} => helper.queue # <<>>
    /\ helper.at = "children" => Head(helper.queue) \notin helper.opens
    /\ ~Ending /\ helper.at # "held" => helper.held = {}

Queued(p) == \E i \in DOMAIN helper.queue : helper.queue[i] = p
InTurn(p) == helper.at \in {"list", "children"} /\ p = Head(helper.queue)

\* A process whose turn has come is ended, and one whose turn is over has no
\* child but those the helper holds, as long as it met no problem.
TurnsAreTaken ==
    Ending /\ ~helper.problem =>
        \A h \in helper.held :
            /\ ~Queued(h.pid) \/ InTurn(h.pid) => ~procs[h.pid].alive
            /\ ~Queued(h.pid) =>
                 \A p \in ClientPids : procs[p].alive /\ procs[p].from = h.born => p \in HeldPids
            /\ helper.at = "children" /\ InTurn(h.pid) =>
                 \A p \in ClientPids : procs[p].alive /\ procs[p].from = h.born => p \in HeldPids \cup helper.opens

\* What a run says of its kill is what its helper said.
RunIsToldTheTruth ==
    /\ ~run.killing => helper.at = "no" /\ run.killSaid = "none"
    /\ run.killSaid = "done" => helper.at = "over"
    /\ run.settled = "clean" => run.closed /\ (run.killing => run.killSaid = "done")

DoneMeansGone ==
    run.killSaid = "done" =>
        /\ ClientBirth \in reached
        /\ \A p \in ClientPids : procs[p].alive => procs[p].born \notin reached /\ procs[p].from \notin reached

ClientInv ==
    /\ ClientRunTypes /\ Lineage /\ ClientUntilSeen /\ HandlesHold /\ HelperInHand
    /\ TurnsAreTaken /\ RunIsToldTheTruth /\ DoneMeansGone

-----------------------------------------------------------------------------
LEMMA ClientRunBegins == ClientPidIsAPid /\ ClientRunInit => ClientInv
<1> SUFFICES ASSUME ClientPidIsAPid, ClientRunInit PROVE ClientInv
    OBVIOUS
<1>1. PICK other \in BOOLEAN :
         procs = [p \in ClientPids |->
            IF p = ClientPid THEN [born |-> ClientBirth, ppid |-> 0, from |-> 0, ours |-> TRUE, alive |-> TRUE]
            ELSE IF other /\ p = Max(ClientPids)
                 THEN [born |-> 1, ppid |-> ClientPid, from |-> 0, ours |-> FALSE, alive |-> TRUE]
            ELSE NoProc]
    BY DEF ClientRunInit
<1>2. /\ births = ClientBirth /\ ClientBirth = 2 /\ exitSeen = FALSE
      /\ run = [killing |-> FALSE, killSaid |-> "none", closed |-> FALSE, settled |-> "no"]
      /\ helper = [at |-> "no", held |-> {}, queue |-> <<>>, opens |-> {}, problem |-> FALSE] /\ reached = {}
    BY DEF ClientRunInit, NoHelper, ClientBirth
<1>3. ClientRunTypes
    <2>1. procs \in [ClientPids -> Procs]
        BY <1>1, <1>2 DEF Procs, NoProc, ClientPidIsAPid
    <2>2. helper \in Helpers
        BY <1>2 DEF Helpers
    <2>3. run \in Runs
        BY <1>2 DEF Runs
    <2> QED BY <1>2, <2>1, <2>2, <2>3 DEF ClientRunTypes
<1>4. \A p \in ClientPids :
        /\ procs[p].born = IF p = ClientPid THEN 2 ELSE IF other /\ p = Max(ClientPids) THEN 1 ELSE 0
        /\ procs[p].from = 0
        /\ procs[p].ppid \in {0, ClientPid}
        /\ procs[p].alive => procs[p].born > 0
    BY <1>1, <1>2 DEF NoProc
<1>5. Lineage
    BY <1>2, <1>4, ClientPidIsAPid DEF Lineage, ClientPidIsAPid
<1>6. ClientUntilSeen
    BY <1>1 DEF ClientUntilSeen, ClientPidIsAPid
<1> QED BY <1>2, <1>3, <1>5, <1>6
        DEF ClientInv, HandlesHold, HelperInHand, Ending, TurnsAreTaken, RunIsToldTheTruth, DoneMeansGone

\* A number that is held is not handed out: what is true of who holds it stays.
LEMMA BirthsKeepIt ==
    ASSUME ClientPidIsAPid, ClientInv, NEW p \in ClientPids,
           StrangerStarts(p) \/ \E q \in ClientPids : ProcessForks(q, p)
    PROVE  ClientInv'
<1>1. PICK ppid \in ClientPids \cup {0}, from \in Nat, ours \in BOOLEAN :
        /\ IsForked(p, ppid, from, ours)
        /\ \/ ppid = 0 /\ from = 0
           \/ /\ ppid \in ClientPids /\ procs[ppid].alive
              /\ from = procs[ppid].born /\ ours = procs[ppid].ours
    BY DEF StrangerStarts, ProcessForks, ClientInv, ClientRunTypes, Procs
<1>2. /\ ~procs[p].alive /\ ~IsHeldPid(p) /\ births' = births + 1
      /\ procs' = [procs EXCEPT ![p] =
                     [born |-> births + 1, ppid |-> ppid, from |-> from, ours |-> ours, alive |-> TRUE]]
      /\ UNCHANGED <<exitSeen, run, helper, reached>>
    BY <1>1 DEF IsForked
<1>3. procs \in [ClientPids -> Procs] /\ births \in Nat /\ reached \subseteq 1..births /\ births >= 2
    BY DEF ClientInv, ClientRunTypes, Lineage, ClientBirth
<1>4. /\ \A r \in ClientPids \ {p} : procs'[r] = procs[r]
      /\ procs'[p] = [born |-> births + 1, ppid |-> ppid, from |-> from, ours |-> ours, alive |-> TRUE]
    BY <1>2, <1>3
<1>5. ClientRunTypes'
    <2>1. [born |-> births + 1, ppid |-> ppid, from |-> from, ours |-> ours, alive |-> TRUE] \in Procs
        BY <1>1, <1>3 DEF Procs
    <2> QED BY <1>2, <1>3, <2>1 DEF ClientInv, ClientRunTypes
<1>6. from <= births /\ (from # 0 => from = procs[ppid].born /\ ppid \in ClientPids \ {p} /\ procs[ppid].alive)
    BY <1>1, <1>2, <1>3 DEF ClientInv, Lineage
<1>7. ppid \in ClientPids => ppid # p /\ ours = procs[ppid].ours
    BY <1>1, <1>2 DEF ClientPidIsAPid
<1>8. \A r \in ClientPids : procs[r].born \in Nat /\ procs[r].born <= births
    BY <1>3 DEF ClientInv, Lineage, Procs
<1>80. \A r \in ClientPids : procs[r].from \in Nat /\ (procs[r].from = 0 \/ procs[r].from < procs[r].born)
    BY <1>3 DEF ClientInv, Lineage, Procs
<1>9. Lineage'
    <2>1. births' >= ClientBirth
        BY <1>2, <1>3 DEF ClientBirth
    <2>2. \A r \in ClientPids : procs'[r].born <= births' /\ (procs'[r].alive => procs'[r].born > 0)
        BY <1>2, <1>3, <1>4, <1>8 DEF ClientInv, Lineage
    <2>3. \A r \in ClientPids : procs'[r].from = 0 \/ procs'[r].from < procs'[r].born
        BY <1>3, <1>4, <1>6, <1>80
    <2>4. \A r, q \in ClientPids : r # q /\ procs'[r].born = procs'[q].born => procs'[r].born = 0
        BY <1>3, <1>4, <1>8 DEF ClientInv, Lineage
    <2>5. ASSUME NEW r \in ClientPids, NEW q \in ClientPids, r # q, procs'[r].ppid = q, procs'[r].born > procs'[q].born
          PROVE  procs'[r].ours = procs'[q].ours
        <3>1. CASE r = p
            BY <2>5, <3>1, <1>4, <1>7
        <3>2. CASE q = p
            BY <2>5, <3>2, <1>3, <1>4, <1>8
        <3>3. CASE r # p /\ q # p
            BY <2>5, <3>3, <1>4 DEF ClientInv, Lineage
        <3> QED BY <3>1, <3>2, <3>3
    <2>6. ASSUME NEW r \in ClientPids, NEW q \in ClientPids, r # q, procs'[r].from = procs'[q].born, procs'[r].from # 0
          PROVE  procs'[r].ppid = q
        <3>1. CASE q = p
            BY <2>6, <3>1, <1>3, <1>4, <1>8, <1>80
        <3>2. CASE r = p /\ q # p
            <4>1. procs[ppid].born = procs[q].born /\ procs[q].born # 0 /\ ppid \in ClientPids
                BY <2>6, <3>2, <1>4, <1>6
            <4>2. ppid = q
                BY <4>1 DEF ClientInv, Lineage
            <4> QED BY <4>2, <3>2, <1>4
        <3>3. CASE r # p /\ q # p
            BY <2>6, <3>3, <1>4 DEF ClientInv, Lineage
        <3> QED BY <3>1, <3>2, <3>3
    <2> QED BY <2>1, <2>2, <2>3, <2>4, <2>5, <2>6 DEF Lineage
<1>10. \A h \in helper.held : h.pid # p /\ h.pid \in ClientPids /\ procs'[h.pid] = procs[h.pid]
    BY <1>2, <1>4 DEF IsHeldPid, HeldPids, ClientInv, ClientRunTypes, Helpers, Handles
<1>11. ClientUntilSeen'
    BY <1>2, <1>4 DEF IsHeldPid, ClientInv, ClientUntilSeen, ClientPidIsAPid
<1>12. HandlesHold'
    BY <1>2, <1>10 DEF ClientInv, HandlesHold
<1>13. HelperInHand'
    BY <1>2, <1>10 DEF ClientInv, HelperInHand, Ending, HeldPids
<1>14. TurnsAreTaken'
    <2>1. SUFFICES ASSUME Ending, ~helper.problem, NEW h \in helper.held
                   PROVE  /\ ~Queued(h.pid) \/ InTurn(h.pid) => ~procs'[h.pid].alive
                          /\ ~Queued(h.pid) =>
                               \A r \in ClientPids : procs'[r].alive /\ procs'[r].from = h.born => r \in HeldPids
                          /\ helper.at = "children" /\ InTurn(h.pid) =>
                               \A r \in ClientPids : procs'[r].alive /\ procs'[r].from = h.born
                                                       => r \in HeldPids \cup helper.opens
        BY <1>2 DEF TurnsAreTaken, Ending, Queued, InTurn, HeldPids
    <2>2. /\ ~Queued(h.pid) \/ InTurn(h.pid) => ~procs[h.pid].alive
          /\ ~Queued(h.pid) =>
               \A r \in ClientPids : procs[r].alive /\ procs[r].from = h.born => r \in HeldPids
          /\ helper.at = "children" /\ InTurn(h.pid) =>
               \A r \in ClientPids : procs[r].alive /\ procs[r].from = h.born => r \in HeldPids \cup helper.opens
        BY <2>1 DEF ClientInv, TurnsAreTaken
    <2>3. h.born \in reached /\ h.born = procs[h.pid].born /\ h.pid \in ClientPids
        BY <2>1, <1>10 DEF ClientInv, HelperInHand, HandlesHold
    <2>4. ~procs[h.pid].alive => from # h.born
        <3>1. SUFFICES ASSUME from = h.born, ~procs[h.pid].alive PROVE FALSE
            OBVIOUS
        <3>2. from # 0
            BY <3>1, <2>3, <1>3
        <3>3. ppid \in ClientPids /\ procs[ppid].born = procs[h.pid].born /\ procs[ppid].alive /\ procs[ppid].born # 0
            BY <3>1, <3>2, <2>3, <1>6
        <3>4. ppid = h.pid
            BY <3>3, <2>3 DEF ClientInv, Lineage
        <3> QED BY <3>1, <3>3, <3>4
    <2>5. \A r \in ClientPids : procs'[r].alive /\ procs'[r].from = h.born /\ ~procs[h.pid].alive
                                  => procs[r].alive /\ procs[r].from = h.born
        BY <2>4, <1>4
    <2> QED BY <2>2, <2>5, <1>10
<1>15. RunIsToldTheTruth'
    BY <1>2 DEF ClientInv, RunIsToldTheTruth
<1>16. DoneMeansGone'
    <2>1. SUFFICES ASSUME run.killSaid = "done"
                   PROVE  \A r \in ClientPids : procs'[r].alive => procs'[r].born \notin reached /\ procs'[r].from \notin reached
        BY <1>2 DEF ClientInv, DoneMeansGone
    <2>2. \A r \in ClientPids : procs[r].alive => procs[r].born \notin reached /\ procs[r].from \notin reached
        BY <2>1 DEF ClientInv, DoneMeansGone
    <2>3. births + 1 \notin reached /\ 0 \notin reached
        BY <1>3
    <2>4. from \notin reached
        BY <1>6, <2>2, <2>3
    <2> QED BY <1>4, <2>2, <2>3, <2>4
<1> QED BY <1>5, <1>9, <1>11, <1>12, <1>13, <1>14, <1>15, <1>16 DEF ClientInv

LEMMA ExitsKeepIt ==
    ASSUME ClientPidIsAPid, ClientInv, NEW p \in ClientPids, procs' = [procs EXCEPT ![p].alive = FALSE],
           UNCHANGED <<births, exitSeen, run, helper, reached>>
    PROVE  ClientInv'
<1>1. procs \in [ClientPids -> Procs]
    BY DEF ClientInv, ClientRunTypes
<1>2. \A r \in ClientPids : /\ procs'[r].born = procs[r].born /\ procs'[r].ppid = procs[r].ppid
                            /\ procs'[r].from = procs[r].from /\ procs'[r].ours = procs[r].ours
                            /\ procs'[r].alive => procs[r].alive
    BY <1>1 DEF Procs
<1>3. ClientRunTypes'
    BY <1>1 DEF ClientInv, ClientRunTypes, Procs
<1>4. Lineage'
    BY <1>2 DEF ClientInv, Lineage
<1>5. \A h \in helper.held : h.pid \in ClientPids
    BY DEF ClientInv, ClientRunTypes, Helpers, Handles
<1>6. ClientUntilSeen'
    BY <1>2 DEF ClientInv, ClientUntilSeen, ClientPidIsAPid
<1>7. HandlesHold' /\ HelperInHand'
    BY <1>2, <1>5 DEF ClientInv, HandlesHold, HelperInHand, Ending, HeldPids
<1>8. TurnsAreTaken'
    BY <1>2, <1>5 DEF ClientInv, TurnsAreTaken, Ending, Queued, InTurn, HeldPids
<1>9. RunIsToldTheTruth' /\ DoneMeansGone'
    BY <1>2 DEF ClientInv, RunIsToldTheTruth, DoneMeansGone
<1> QED BY <1>3, <1>4, <1>6, <1>7, <1>8, <1>9 DEF ClientInv

-----------------------------------------------------------------------------
\* What a run does of itself leaves the processes and the helper's record.
LEMMA RunKeepsIt ==
    ASSUME ClientPidIsAPid, ClientInv, NodeSeesExit \/ ClientCloses \/ EndRun \/ KillDeadline
    PROVE  ClientInv'
<1>1. UNCHANGED <<procs, births, reached>>
    BY DEF NodeSeesExit, ClientCloses, EndRun, KillDeadline
<1>2. run \in Runs /\ helper \in Helpers
    BY DEF ClientInv, ClientRunTypes
<1>3. /\ exitSeen' \in BOOLEAN /\ (~exitSeen' => ~exitSeen)
      /\ helper' = helper \/ (~run.killing /\ helper.at = "no" /\ helper' = [helper EXCEPT !.at = "open root"])
    BY DEF NodeSeesExit, ClientCloses, EndRun, KillDeadline, ClientInv, ClientRunTypes, RunIsToldTheTruth
<1>4. helper' \in Helpers /\ helper'.held = helper.held /\ helper'.queue = helper.queue
      /\ helper'.opens = helper.opens /\ helper'.problem = helper.problem
    BY <1>2, <1>3 DEF Helpers
<1>5. helper' = helper \/ (helper.at = "no" /\ helper'.at = "open root")
    BY <1>2, <1>3 DEF Helpers
<1>6. run' \in Runs /\ RunIsToldTheTruth' /\ (run'.killSaid = "done" => run.killSaid = "done")
    <2>1. CASE NodeSeesExit
        BY <2>1, <1>2 DEF NodeSeesExit, ClientInv, RunIsToldTheTruth
    <2>2. CASE ClientCloses
        BY <2>2, <1>2 DEF ClientCloses, SettledIfDone, Runs, ClientInv, RunIsToldTheTruth
    <2>3. CASE KillDeadline
        BY <2>3, <1>2 DEF KillDeadline, Runs, ClientInv, RunIsToldTheTruth
    <2>4. CASE EndRun
        <3>1. ~run.killing /\ ~run.closed /\ run.killSaid = "none"
            BY <2>4 DEF EndRun, ClientInv, RunIsToldTheTruth
        <3>2. run.settled # "clean"
            BY <3>1 DEF ClientInv, RunIsToldTheTruth
        <3>3. run'.killing /\ run'.killSaid # "done" /\ run'.settled # "clean" /\ run' \in Runs
            BY <2>4, <1>2, <3>1, <3>2 DEF EndRun, Said, SettledIfDone, Runs
        <3> QED BY <3>3 DEF RunIsToldTheTruth
    <2> QED BY <2>1, <2>2, <2>3, <2>4
<1>7. ClientRunTypes'
    BY <1>1, <1>3, <1>4, <1>6 DEF ClientInv, ClientRunTypes
<1>8. Lineage' /\ ClientUntilSeen' /\ HandlesHold'
    BY <1>1, <1>3, <1>4 DEF ClientInv, Lineage, ClientUntilSeen, HandlesHold
<1>9. HelperInHand' /\ TurnsAreTaken'
    <2>1. CASE helper' = helper
        BY <2>1, <1>1 DEF ClientInv, HelperInHand, TurnsAreTaken, Ending, HeldPids, Queued, InTurn
    <2>2. CASE helper.at = "no" /\ helper'.at = "open root"
        BY <2>2, <1>4 DEF ClientInv, HelperInHand, TurnsAreTaken, Ending
    <2> QED BY <1>5, <2>1, <2>2
<1>10. DoneMeansGone'
    BY <1>1, <1>6 DEF ClientInv, DoneMeansGone
<1> QED BY <1>6, <1>7, <1>8, <1>9, <1>10 DEF ClientInv

\* A helper that is over: its word, "done" only once everything it held is gone.
LEMMA HelperSaysKeepsIt ==
    ASSUME ClientInv, NEW word \in {"failed", "done"}, HelperSays(word),
           helper.at \notin {"no", "over"},
           word = "done" => helper.at = "end" /\ helper.queue = <<>> /\ ~helper.problem,
           UNCHANGED <<procs, births, exitSeen, reached>>
    PROVE  ClientInv'
<1>1. run \in Runs /\ helper \in Helpers /\ procs \in [ClientPids -> Procs]
    BY DEF ClientInv, ClientRunTypes
<1>2. helper' = [at |-> "over", held |-> {}, queue |-> <<>>, opens |-> {}, problem |-> FALSE]
    BY DEF HelperSays, NoHelper
<1>3. run' = Said(run, word)
    BY DEF HelperSays
<1>4. run' \in Runs /\ run'.killSaid = word /\ run'.killing = run.killing /\ run'.closed = run.closed
      /\ (run'.settled = "clean" => \/ run.settled = "clean"
                                    \/ run.closed /\ (run.killing => word = "done"))
    BY <1>1, <1>3 DEF Said, SettledIfDone, Runs
<1>5. run.killing /\ run.killSaid # "done"
    BY DEF ClientInv, RunIsToldTheTruth
<1>6. run.settled # "clean"
    BY <1>5 DEF ClientInv, RunIsToldTheTruth
<1>7. helper' \in Helpers
    BY <1>2 DEF Helpers
<1>8. ClientRunTypes'
    BY <1>4, <1>7 DEF ClientInv, ClientRunTypes
<1>9. Lineage' /\ ClientUntilSeen' /\ HandlesHold' /\ HelperInHand' /\ TurnsAreTaken'
    BY <1>2 DEF ClientInv, Lineage, ClientUntilSeen, HandlesHold, HelperInHand, TurnsAreTaken, Ending
<1>10. RunIsToldTheTruth'
    BY <1>2, <1>4, <1>5, <1>6 DEF RunIsToldTheTruth
<1>11. DoneMeansGone'
    <2>1. SUFFICES ASSUME word = "done"
                   PROVE  /\ ClientBirth \in reached
                          /\ \A p \in ClientPids : procs[p].alive => procs[p].born \notin reached /\ procs[p].from \notin reached
        BY <1>4 DEF DoneMeansGone
    <2>2. helper.at = "end" /\ helper.queue = <<>> /\ ~helper.problem
        BY <2>1
    <2>3. Ending /\ \A p : ~Queued(p)
        BY <2>2 DEF Ending, Queued
    <2>4. reached = {h.born : h \in helper.held} /\ ClientBirth \in reached
        BY <2>3 DEF ClientInv, HelperInHand
    <2>5. \A h \in helper.held :
             /\ ~procs[h.pid].alive /\ h.pid \in ClientPids /\ procs[h.pid].born = h.born
             /\ \A p \in ClientPids : procs[p].alive /\ procs[p].from = h.born => p \in HeldPids
        BY <2>2, <2>3, <1>1 DEF ClientInv, TurnsAreTaken, HandlesHold, Helpers, Handles
    <2>6. ASSUME NEW p \in ClientPids, procs[p].alive
          PROVE  p \notin HeldPids /\ procs[p].born \notin reached /\ procs[p].from \notin reached
        <3>1. p \notin HeldPids
            BY <2>5, <2>6 DEF HeldPids
        <3>2. procs[p].from \notin reached
            BY <2>4, <2>5, <2>6, <3>1
        <3>3. procs[p].born \notin reached
            <4>1. SUFFICES ASSUME NEW h \in helper.held, procs[p].born = h.born PROVE FALSE
                BY <2>4
            <4>2. procs[p].born > 0 /\ procs[h.pid].born = procs[p].born
                BY <4>1, <2>5, <2>6 DEF ClientInv, Lineage
            <4>3. procs[p].born \in Nat
                BY <1>1 DEF Procs
            <4>4. h.pid = p
                BY <4>2, <4>3, <2>5 DEF ClientInv, Lineage
            <4> QED BY <4>1, <4>4, <3>1 DEF HeldPids
        <3> QED BY <3>1, <3>2, <3>3
    <2> QED BY <2>4, <2>6
<1> QED BY <1>8, <1>9, <1>10, <1>11 DEF ClientInv

-----------------------------------------------------------------------------
\* The client is opened while it is the client: node has not let go of it.
LEMMA OpeningKeepsIt ==
    ASSUME ClientPidIsAPid, ClientInv, OpenRoot \/ NodeAnswersHelper
    PROVE  ClientInv'
<1>1. run \in Runs /\ helper \in Helpers /\ procs \in [ClientPids -> Procs] /\ ClientPid \in ClientPids
    BY DEF ClientInv, ClientRunTypes, ClientPidIsAPid
<1>2. UNCHANGED <<procs, births, exitSeen>>
    BY DEF OpenRoot, NodeAnswersHelper
<1>3. CASE helper.at \in {"open root", "held"} /\ HelperSays("failed") /\ UNCHANGED reached
    BY <1>2, <1>3, HelperSaysKeepsIt
<1>4. CASE /\ helper.at = "open root" /\ UNCHANGED <<run, reached>>
           /\ helper' = [helper EXCEPT !.at = "held",
                           !.held = {[pid |-> ClientPid, born |-> procs[ClientPid].born]}]
    <2>1. [pid |-> ClientPid, born |-> procs[ClientPid].born] \in Handles
        BY <1>1 DEF Handles, Procs
    <2>2. helper' \in Helpers /\ helper'.at = "held"
          /\ helper'.held = {[pid |-> ClientPid, born |-> procs[ClientPid].born]}
        BY <1>1, <1>4, <2>1 DEF Helpers
    <2>3. ClientRunTypes' /\ Lineage' /\ ClientUntilSeen' /\ DoneMeansGone'
        BY <1>2, <1>4, <2>2 DEF ClientInv, ClientRunTypes, Lineage, ClientUntilSeen, DoneMeansGone
    <2>4. HandlesHold' /\ HelperInHand' /\ TurnsAreTaken'
        BY <1>2, <2>2 DEF HandlesHold, HelperInHand, TurnsAreTaken, Ending
    <2>5. RunIsToldTheTruth'
        BY <1>4, <2>2 DEF ClientInv, RunIsToldTheTruth
    <2> QED BY <2>3, <2>4, <2>5 DEF ClientInv
<1>5. CASE /\ helper.at = "held" /\ ~exitSeen /\ UNCHANGED run
           /\ helper' = [helper EXCEPT !.at = "end", !.queue = <<ClientPid>>]
           /\ reached' = {h.born : h \in helper.held}
    <2>1. helper' \in Helpers /\ helper'.at = "end" /\ helper'.held = helper.held /\ helper'.queue = <<ClientPid>>
        <3>1. <<ClientPid>> \in Seq(ClientPids)
            BY <1>1
        <3> QED BY <1>1, <1>5, <3>1 DEF Helpers
    <2>2. procs[ClientPid].born = ClientBirth /\ procs[ClientPid].ours
        BY <1>5 DEF ClientInv, ClientUntilSeen
    <2>3. \A h \in helper.held : h.pid = ClientPid /\ h.born = ClientBirth
        BY <1>5, <2>2 DEF ClientInv, HelperInHand, HandlesHold
    <2>4. reached' = {ClientBirth} /\ ClientPid \in (HeldPids)'
        <3>1. helper.held # {}
            BY <1>5 DEF ClientInv, HelperInHand
        <3> QED BY <1>5, <2>1, <2>3, <3>1 DEF HeldPids
    <2>5. ClientRunTypes'
        BY <1>2, <1>5, <2>1, <2>4 DEF ClientInv, ClientRunTypes, Lineage, ClientBirth
    <2>6. Lineage' /\ ClientUntilSeen' /\ HandlesHold'
        BY <1>2, <2>1 DEF ClientInv, Lineage, ClientUntilSeen, HandlesHold
    <2>7. HelperInHand'
        <3>1. \A i \in DOMAIN <<ClientPid>> : <<ClientPid>>[i] = ClientPid
            OBVIOUS
        <3> QED BY <1>2, <1>5, <2>1, <2>2, <2>3, <2>4, <3>1 DEF HelperInHand, Ending
    <2>8. TurnsAreTaken'
        <3>1. (Queued(ClientPid))'
            <4>1. 1 \in DOMAIN <<ClientPid>> /\ <<ClientPid>>[1] = ClientPid
                OBVIOUS
            <4> QED BY <2>1, <4>1 DEF Queued
        <3>2. \A h \in helper'.held : (Queued(h.pid))' /\ ~(InTurn(h.pid))'
            BY <2>1, <2>3, <3>1 DEF Queued, InTurn
        <3> QED BY <2>1, <3>2 DEF TurnsAreTaken, Queued, InTurn
    <2>9. RunIsToldTheTruth' /\ DoneMeansGone'
        <3>1. run.killSaid # "done"
            BY <1>5 DEF ClientInv, RunIsToldTheTruth
        <3> QED BY <1>5, <2>1, <3>1 DEF ClientInv, RunIsToldTheTruth, DoneMeansGone
    <2> QED BY <2>5, <2>6, <2>7, <2>8, <2>9 DEF ClientInv
<1> QED BY <1>3, <1>4, <1>5 DEF OpenRoot, NodeAnswersHelper, StillOurs

-----------------------------------------------------------------------------
\* While the helper works through its queue nothing has been said of the kill.
LEMMA WorkingSaysNothing ==
    ASSUME ClientInv, Ending, helper'.at \in {"end", "list", "children"}, UNCHANGED run
    PROVE  RunIsToldTheTruth' /\ DoneMeansGone'
<1>1. run.killing /\ run.killSaid # "done"
    BY DEF ClientInv, RunIsToldTheTruth, Ending
<1> QED BY <1>1 DEF ClientInv, RunIsToldTheTruth, DoneMeansGone

\* The head of the queue is held, and is the process that was opened.
LEMMA HeadIsHeld ==
    ASSUME ClientInv, Ending, helper.queue # <<>>
    PROVE  /\ Head(helper.queue) \in ClientPids /\ Head(helper.queue) \in HeldPids
           /\ Queued(Head(helper.queue))
           /\ Tail(helper.queue) \in Seq(ClientPids)
           /\ \A q : Queued(q) /\ q # Head(helper.queue) =>
                        \E i \in DOMAIN Tail(helper.queue) : Tail(helper.queue)[i] = q
           /\ \A i \in DOMAIN Tail(helper.queue) : Tail(helper.queue)[i] \in HeldPids
<1>1. helper.queue \in Seq(ClientPids) /\ \A i \in DOMAIN helper.queue : helper.queue[i] \in HeldPids
    BY DEF ClientInv, ClientRunTypes, Helpers, HelperInHand
<1>2. 1 \in DOMAIN helper.queue /\ Head(helper.queue) = helper.queue[1] /\ Len(helper.queue) \in Nat \ {0}
    BY <1>1
<1>3. Tail(helper.queue) \in Seq(ClientPids) /\ Len(Tail(helper.queue)) = Len(helper.queue) - 1
      /\ \A i \in 1..(Len(helper.queue) - 1) : Tail(helper.queue)[i] = helper.queue[i + 1]
    BY <1>1, <1>2
<1>4. DOMAIN Tail(helper.queue) = 1..(Len(helper.queue) - 1) /\ DOMAIN helper.queue = 1..Len(helper.queue)
    BY <1>1, <1>3
<1>5. \A i \in DOMAIN Tail(helper.queue) : i + 1 \in DOMAIN helper.queue /\ Tail(helper.queue)[i] = helper.queue[i + 1]
    BY <1>2, <1>3, <1>4
<1>6. \A i \in DOMAIN helper.queue : i # 1 =>
        i - 1 \in DOMAIN Tail(helper.queue) /\ Tail(helper.queue)[i - 1] = helper.queue[i]
    BY <1>2, <1>3, <1>4
<1>7. Head(helper.queue) \in ClientPids /\ Head(helper.queue) \in HeldPids /\ Queued(Head(helper.queue))
    BY <1>1, <1>2 DEF Queued
<1>8. \A q : Queued(q) /\ q # Head(helper.queue) =>
             \E i \in DOMAIN Tail(helper.queue) : Tail(helper.queue)[i] = q
    BY <1>2, <1>6 DEF Queued
<1>9. \A i \in DOMAIN Tail(helper.queue) : Tail(helper.queue)[i] \in HeldPids
    BY <1>1, <1>5
<1> QED BY <1>3, <1>7, <1>8, <1>9

\* What TurnsAreTaken says of one handle, as facts a step can start from.
LEMMA HandleFacts ==
    ASSUME ClientInv, Ending, NEW h \in helper.held
    PROVE  /\ h.pid \in ClientPids /\ h.born \in Nat /\ h.born > 0
           /\ procs[h.pid].born = h.born /\ procs[h.pid].ours /\ h.born \in reached
<1>1. h.pid \in ClientPids /\ h.born \in Nat
    BY DEF ClientInv, ClientRunTypes, Helpers, Handles
<1>2. h.born \in reached /\ reached \subseteq 1..births /\ births \in Nat
    BY DEF ClientInv, HelperInHand, ClientRunTypes
<1> QED BY <1>1, <1>2 DEF ClientInv, HandlesHold, HelperInHand

\* Whom the process in turn forked names it and was born after it.
LEMMA ForkedNamesItsParent ==
    ASSUME ClientInv, Ending, NEW h \in helper.held, NEW p \in ClientPids, p # h.pid, procs[p].from = h.born
    PROVE  procs[p].ppid = h.pid /\ procs[p].born > h.born
<1>1. h.pid \in ClientPids /\ h.born \in Nat /\ h.born > 0 /\ procs[h.pid].born = h.born
    BY HandleFacts
<1>2. procs[p].from < procs[p].born /\ procs[p].ppid = h.pid
    BY <1>1 DEF ClientInv, Lineage
<1>3. procs[p].born \in Nat
    BY DEF ClientInv, ClientRunTypes, Procs
<1> QED BY <1>1, <1>2, <1>3

\* Ended, or refused, which is a problem.
LEMMA EndOneKeepsIt ==
    ASSUME ClientPidIsAPid, ClientInv, EndOne
    PROVE  ClientInv'
<1> DEFINE one == Head(helper.queue)
<1>1. helper.at = "end" /\ helper.queue # <<>> /\ Ending /\ UNCHANGED <<births, exitSeen, run, reached>>
    BY DEF EndOne, Ending
<1>2. one \in ClientPids /\ one \in HeldPids /\ Queued(one)
    BY <1>1, HeadIsHeld
<1>3. helper \in Helpers /\ procs \in [ClientPids -> Procs]
    BY DEF ClientInv, ClientRunTypes
<1>4. PICK problem \in BOOLEAN :
        /\ helper' = [helper EXCEPT !.at = "list", !.problem = problem]
        /\ \/ problem = helper.problem /\ procs' = [procs EXCEPT ![one].alive = FALSE]
           \/ problem /\ procs' = procs
    <2>1. CASE procs' = [procs EXCEPT ![one].alive = FALSE] /\ helper' = [helper EXCEPT !.at = "list"]
        <3>1. helper' = [helper EXCEPT !.at = "list", !.problem = helper.problem]
            BY <2>1, <1>3 DEF Helpers
        <3> QED BY <2>1, <3>1, <1>3 DEF Helpers
    <2>2. CASE procs' = procs /\ helper' = [helper EXCEPT !.at = "list", !.problem = TRUE]
        BY <2>2
    <2> QED BY <2>1, <2>2 DEF EndOne
<1>5. helper' \in Helpers /\ helper'.at = "list" /\ helper'.held = helper.held /\ helper'.queue = helper.queue
      /\ helper'.problem = problem
    BY <1>3, <1>4 DEF Helpers
<1>6. \A r \in ClientPids : /\ procs'[r].born = procs[r].born /\ procs'[r].ppid = procs[r].ppid
                            /\ procs'[r].from = procs[r].from /\ procs'[r].ours = procs[r].ours
                            /\ procs'[r].alive => procs[r].alive
    BY <1>3, <1>4 DEF Procs
<1>7. ClientRunTypes'
    <2>1. procs' \in [ClientPids -> Procs]
        BY <1>3, <1>4 DEF Procs
    <2> QED BY <2>1, <1>1, <1>5 DEF ClientInv, ClientRunTypes
<1>8. Lineage'
    BY <1>1, <1>6 DEF ClientInv, Lineage
<1>9. ClientUntilSeen'
    BY <1>1, <1>6 DEF ClientInv, ClientUntilSeen, ClientPidIsAPid
<1>10. HandlesHold'
    BY <1>1, <1>5, <1>6, HandleFacts DEF HandlesHold
<1>11. HelperInHand'
    BY <1>1, <1>5, <1>6, HandleFacts DEF ClientInv, HelperInHand, Ending, HeldPids
<1>12. TurnsAreTaken'
    <2>1. SUFFICES ASSUME ~problem, NEW h \in helper.held
                   PROVE  /\ ~Queued(h.pid) \/ h.pid = one => ~procs'[h.pid].alive
                          /\ ~Queued(h.pid) =>
                               \A p \in ClientPids : procs'[p].alive /\ procs'[p].from = h.born => p \in HeldPids
        BY <1>5 DEF TurnsAreTaken, Queued, InTurn, HeldPids
    <2>2. procs' = [procs EXCEPT ![one].alive = FALSE] /\ ~helper.problem
        BY <2>1, <1>4
    <2>3. ~procs'[one].alive
        BY <2>2, <1>2, <1>3
    <2>4. ~Queued(h.pid) =>
            /\ ~procs[h.pid].alive
            /\ \A p \in ClientPids : procs[p].alive /\ procs[p].from = h.born => p \in HeldPids
        BY <2>2, <1>1 DEF ClientInv, TurnsAreTaken
    <2>5. h.pid \in ClientPids
        BY <1>1, HandleFacts
    <2> QED BY <2>3, <2>4, <2>5, <1>6
<1> QED BY <1>1, <1>5, <1>7, <1>8, <1>9, <1>10, <1>11, <1>12, WorkingSaysNothing DEF ClientInv

\* The listing names every child that is alive, unless it stopped short.
LEMMA ListingKeepsIt ==
    ASSUME ClientInv, ListChildren
    PROVE  ClientInv'
<1> DEFINE found == Children(Head(helper.queue))
<1>1. helper.at = "list" /\ Ending /\ UNCHANGED <<procs, births, exitSeen, run, reached>>
    BY DEF ListChildren, Ending
<1>2. helper.queue # <<>> /\ helper \in Helpers
    BY <1>1 DEF ClientInv, HelperInHand, ClientRunTypes
<1>3. PICK opens \in SUBSET found, problem \in BOOLEAN :
        /\ helper' = [helper EXCEPT !.at = "children", !.opens = opens, !.problem = problem]
        /\ problem \/ (opens = found /\ problem = helper.problem)
    <2>1. CASE helper' = [helper EXCEPT !.at = "children", !.opens = found]
        <3>1. helper' = [helper EXCEPT !.at = "children", !.opens = found, !.problem = helper.problem]
            BY <2>1, <1>2 DEF Helpers
        <3> QED BY <3>1, <1>2 DEF Helpers
    <2>2. CASE \E some \in SUBSET found :
                 helper' = [helper EXCEPT !.at = "children", !.opens = some, !.problem = TRUE]
        BY <2>2
    <2> QED BY <2>1, <2>2 DEF ListChildren
<1>4. found \subseteq ClientPids /\ Head(helper.queue) \notin found
    BY DEF Children
<1>5. helper' \in Helpers /\ helper'.at = "children" /\ helper'.held = helper.held /\ helper'.queue = helper.queue
      /\ helper'.problem = problem /\ helper'.opens = opens
    BY <1>2, <1>3, <1>4 DEF Helpers
<1>6. ClientRunTypes' /\ Lineage' /\ ClientUntilSeen' /\ HandlesHold'
    BY <1>1, <1>5 DEF ClientInv, ClientRunTypes, Lineage, ClientUntilSeen, HandlesHold
<1>7. HelperInHand'
    BY <1>1, <1>2, <1>4, <1>5 DEF ClientInv, HelperInHand, Ending, HeldPids
<1>8. TurnsAreTaken'
    <2>1. SUFFICES ASSUME ~problem, NEW h \in helper.held
                   PROVE  /\ ~Queued(h.pid) \/ h.pid = Head(helper.queue) => ~procs[h.pid].alive
                          /\ ~Queued(h.pid) =>
                               \A p \in ClientPids : procs[p].alive /\ procs[p].from = h.born => p \in HeldPids
                          /\ h.pid = Head(helper.queue) =>
                               \A p \in ClientPids : procs[p].alive /\ procs[p].from = h.born => p \in HeldPids \cup opens
        BY <1>1, <1>5 DEF TurnsAreTaken, Queued, InTurn, HeldPids
    <2>2. ~helper.problem /\ opens = found
        BY <2>1, <1>3
    <2>3. /\ ~Queued(h.pid) \/ h.pid = Head(helper.queue) => ~procs[h.pid].alive
          /\ ~Queued(h.pid) =>
               \A p \in ClientPids : procs[p].alive /\ procs[p].from = h.born => p \in HeldPids
        BY <2>2, <1>1 DEF ClientInv, TurnsAreTaken, InTurn
    <2>4. ASSUME h.pid = Head(helper.queue), NEW p \in ClientPids, procs[p].alive, procs[p].from = h.born
          PROVE  p \in found
        <3>1. p # h.pid
            BY <2>3, <2>4
        <3>2. procs[p].ppid = h.pid
            BY <3>1, <2>4, <1>1, ForkedNamesItsParent
        <3> QED BY <3>1, <3>2, <2>4 DEF Children
    <2> QED BY <2>2, <2>3, <2>4
<1> QED BY <1>1, <1>5, <1>6, <1>7, <1>8, WorkingSaysNothing DEF ClientInv

\* A child is the helper's only on its own handle's word; one it passes over is
\* dead, or came from somebody else.
LEMMA OpenChildKeepsIt ==
    ASSUME ClientInv, NEW p \in ClientPids, OpenChild(p)
    PROVE  ClientInv'
<1> DEFINE head == Head(helper.queue)
           parent == CHOOSE h \in helper.held : h.pid = head
<1>1. helper.at = "children" /\ Ending /\ p \in helper.opens /\ UNCHANGED <<procs, births, exitSeen, run>>
    BY DEF OpenChild, Ending
<1>2. helper.queue # <<>> /\ helper \in Helpers /\ procs \in [ClientPids -> Procs] /\ head \notin helper.opens
    BY <1>1 DEF ClientInv, HelperInHand, ClientRunTypes
<1>3. head \in ClientPids /\ head \in HeldPids /\ p # head
    BY <1>1, <1>2, HeadIsHeld
<1>4. parent \in helper.held /\ parent.pid = head
    <2>1. \E h \in helper.held : h.pid = head
        BY <1>3 DEF HeldPids
    <2> QED BY <2>1
<1>5. /\ parent.born \in Nat /\ parent.born > 0 /\ parent.born \in reached
      /\ procs[head].born = parent.born /\ procs[head].ours
    BY <1>1, <1>4, HandleFacts
<1>6. \A h \in helper.held : h.pid = head => h = parent
    <2>1. \A h \in helper.held : h \in Handles /\ procs[h.pid].born = h.born
        BY <1>2 DEF ClientInv, HandlesHold, Helpers
    <2> QED BY <2>1, <1>4, <1>5 DEF Handles
<1>7. PICK kind \in {Classify(p, parent), "unknown"} :
        /\ helper' =
              IF kind = "ours"
              THEN [helper EXCEPT !.opens = @ \ {p}, !.queue = Append(@, p),
                                  !.held = @ \cup {[pid |-> p, born |-> procs[p].born]}]
              ELSE [helper EXCEPT !.opens = @ \ {p}, !.problem = @ \/ IsProblem(kind)]
        /\ reached' = IF kind = "ours" THEN reached \cup {procs[p].born} ELSE reached
    BY DEF OpenChild
<1>8. procs[p].born \in Nat /\ procs[p].from \in Nat
    BY <1>2 DEF Procs
<1>9. TurnsAreTaken
    BY DEF ClientInv
<1>10. CASE kind = "ours"
    <2>1. procs[p].ppid = head /\ procs[p].born >= parent.born
        BY <1>4, <1>7, <1>10 DEF Classify
    <2>2. procs[p].born # parent.born
        BY <1>3, <1>5 DEF ClientInv, Lineage
    <2>3. procs[p].ours
        BY <2>1, <2>2, <1>3, <1>5, <1>8 DEF ClientInv, Lineage
    <2>4. /\ helper'.at = "children" /\ helper'.opens = helper.opens \ {p} /\ helper'.queue = Append(helper.queue, p)
          /\ helper'.held = helper.held \cup {[pid |-> p, born |-> procs[p].born]} /\ helper'.problem = helper.problem
          /\ helper' \in Helpers
        <3>0. helper.queue \in Seq(ClientPids)
            BY <1>2 DEF Helpers
        <3>1. Append(helper.queue, p) \in Seq(ClientPids)
            BY <3>0
        <3>2. [pid |-> p, born |-> procs[p].born] \in Handles
            BY <1>8 DEF Handles
        <3> QED BY <1>1, <1>2, <1>7, <1>10, <3>1, <3>2 DEF Helpers
    <2>5. (HeldPids)' = HeldPids \cup {p}
        <3>1. (HeldPids)' = {h.pid : h \in helper'.held}
            BY DEF HeldPids
        <3>2. [pid |-> p, born |-> procs[p].born].pid = p
            OBVIOUS
        <3> QED BY <2>4, <3>1, <3>2 DEF HeldPids
    <2>6. /\ Head(helper'.queue) = head /\ helper'.queue # <<>>
          /\ \A i \in DOMAIN helper'.queue : (i \in DOMAIN helper.queue /\ helper'.queue[i] = helper.queue[i]) \/ helper'.queue[i] = p
          /\ \A i \in DOMAIN helper.queue : i \in DOMAIN helper'.queue /\ helper'.queue[i] = helper.queue[i]
          /\ \E i \in DOMAIN helper'.queue : helper'.queue[i] = p
        <3>1. helper.queue \in Seq(ClientPids)
            BY <1>2 DEF Helpers
        <3>2. Len(helper.queue) \in Nat \ {0}
            BY <1>2, <3>1
        <3> QED BY <2>4, <3>1, <3>2
    <2>7. ClientRunTypes' /\ reached' = reached \cup {procs[p].born}
        <3>1. procs[p].born \in 1..births
            BY <2>1, <1>5, <1>8 DEF ClientInv, Lineage, ClientRunTypes
        <3> QED BY <1>1, <1>7, <1>10, <2>4, <3>1 DEF ClientInv, ClientRunTypes
    <2>8. Lineage' /\ ClientUntilSeen'
        BY <1>1 DEF ClientInv, Lineage, ClientUntilSeen
    <2>9. HandlesHold'
        BY <1>1, <2>4 DEF ClientInv, HandlesHold
    <2>10. HelperInHand'
        <3>1. reached' = {h.born : h \in helper'.held} /\ ClientBirth \in reached'
            <4>1. reached = {h.born : h \in helper.held} /\ ClientBirth \in reached
                BY <1>1 DEF ClientInv, HelperInHand
            <4>2. [pid |-> p, born |-> procs[p].born].born = procs[p].born
                OBVIOUS
            <4> QED BY <2>4, <2>7, <4>1, <4>2
        <3>2. \A h \in helper'.held : procs'[h.pid].ours
            BY <1>1, <2>3, <2>4 DEF ClientInv, HelperInHand
        <3>3. \A i \in DOMAIN helper'.queue : helper'.queue[i] \in (HeldPids)'
            BY <1>1, <2>5, <2>6 DEF ClientInv, HelperInHand
        <3> QED BY <1>2, <2>4, <2>6, <3>1, <3>2, <3>3 DEF HelperInHand, Ending
    <2>11. TurnsAreTaken'
        <3>1. \A q : (Queued(q))' <=> Queued(q) \/ q = p
            BY <2>6 DEF Queued
        <3>2. \A q : (InTurn(q))' <=> q = head
            BY <2>4, <2>6 DEF InTurn
        <3>3. SUFFICES ASSUME ~helper.problem, NEW h \in helper'.held
                       PROVE  /\ ~(Queued(h.pid))' \/ h.pid = head => ~procs[h.pid].alive
                              /\ ~(Queued(h.pid))' =>
                                   \A r \in ClientPids : procs[r].alive /\ procs[r].from = h.born => r \in HeldPids \cup {p}
                              /\ h.pid = head =>
                                   \A r \in ClientPids : procs[r].alive /\ procs[r].from = h.born
                                       => r \in HeldPids \cup {p} \cup (helper.opens \ {p})
            BY <1>1, <2>4, <2>5, <3>2 DEF TurnsAreTaken, Queued
        <3>4. CASE h.pid = p
            BY <3>1, <3>4, <1>3
        <3>5. CASE h.pid # p
            <4>1. h \in helper.held
                BY <2>4, <3>5
            <4>2. /\ ~Queued(h.pid) \/ h.pid = head => ~procs[h.pid].alive
                  /\ ~Queued(h.pid) =>
                       \A r \in ClientPids : procs[r].alive /\ procs[r].from = h.born => r \in HeldPids
                  /\ h.pid = head =>
                       \A r \in ClientPids : procs[r].alive /\ procs[r].from = h.born => r \in HeldPids \cup helper.opens
                BY <1>1, <1>9, <3>3, <4>1 DEF TurnsAreTaken, InTurn
            <4> QED BY <3>1, <3>5, <4>2
        <3> QED BY <3>4, <3>5
    <2> QED BY <1>1, <2>4, <2>7, <2>8, <2>9, <2>10, <2>11, WorkingSaysNothing DEF ClientInv
<1>11. CASE kind # "ours"
    <2>1. /\ helper'.at = "children" /\ helper'.opens = helper.opens \ {p} /\ helper'.queue = helper.queue
          /\ helper'.held = helper.held /\ helper'.problem = (helper.problem \/ kind = "unknown")
          /\ helper' \in Helpers /\ reached' = reached
        BY <1>1, <1>2, <1>7, <1>11 DEF Helpers, IsProblem
    <2>2. ClientRunTypes' /\ Lineage' /\ ClientUntilSeen' /\ HandlesHold'
        BY <1>1, <2>1 DEF ClientInv, ClientRunTypes, Lineage, ClientUntilSeen, HandlesHold
    <2>3. HelperInHand'
        BY <1>1, <1>2, <2>1 DEF ClientInv, HelperInHand, Ending, HeldPids
    <2>4. kind = "unknown" \/ ~procs[p].alive \/ procs[p].from # parent.born
        <3>1. SUFFICES ASSUME kind = Classify(p, parent), procs[p].alive, procs[p].from = parent.born PROVE FALSE
            BY <1>7
        <3>2. procs[p].ppid = parent.pid /\ procs[p].born > parent.born
            BY <1>1, <1>3, <1>4, <3>1, ForkedNamesItsParent
        <3> QED BY <1>5, <1>8, <1>11, <3>1, <3>2 DEF Classify, CanOpen
    <2>5. TurnsAreTaken'
        <3>1. SUFFICES ASSUME ~helper.problem, kind # "unknown", NEW h \in helper.held
                       PROVE  /\ ~Queued(h.pid) \/ h.pid = head => ~procs[h.pid].alive
                              /\ ~Queued(h.pid) =>
                                   \A r \in ClientPids : procs[r].alive /\ procs[r].from = h.born => r \in HeldPids
                              /\ h.pid = head =>
                                   \A r \in ClientPids : procs[r].alive /\ procs[r].from = h.born
                                       => r \in HeldPids \cup (helper.opens \ {p})
            BY <1>1, <2>1 DEF TurnsAreTaken, Queued, InTurn, HeldPids
        <3>2. /\ ~Queued(h.pid) \/ h.pid = head => ~procs[h.pid].alive
              /\ ~Queued(h.pid) =>
                   \A r \in ClientPids : procs[r].alive /\ procs[r].from = h.born => r \in HeldPids
              /\ h.pid = head =>
                   \A r \in ClientPids : procs[r].alive /\ procs[r].from = h.born => r \in HeldPids \cup helper.opens
            BY <1>1, <1>9, <3>1 DEF TurnsAreTaken, InTurn
        <3>3. h.pid = head => ~(procs[p].alive /\ procs[p].from = h.born)
            BY <1>6, <2>4, <3>1
        <3> QED BY <3>2, <3>3
    <2> QED BY <1>1, <2>1, <2>2, <2>3, <2>5, WorkingSaysNothing DEF ClientInv
<1> QED BY <1>10, <1>11

\* The turn is over once the last child of the listing has been looked at.
LEMMA NextOneKeepsIt ==
    ASSUME ClientInv, NextOne
    PROVE  ClientInv'
<1> DEFINE head == Head(helper.queue)
<1>1. helper.at = "children" /\ Ending /\ helper.opens = {} /\ UNCHANGED <<procs, births, exitSeen, run, reached>>
    BY DEF NextOne, Ending
<1>2. helper.queue # <<>> /\ helper \in Helpers
    BY <1>1 DEF ClientInv, HelperInHand, ClientRunTypes
<1>3. /\ Tail(helper.queue) \in Seq(ClientPids)
      /\ \A q : Queued(q) /\ q # head => \E i \in DOMAIN Tail(helper.queue) : Tail(helper.queue)[i] = q
      /\ \A i \in DOMAIN Tail(helper.queue) : Tail(helper.queue)[i] \in HeldPids
    BY <1>1, <1>2, HeadIsHeld
<1>4. /\ helper'.at = "end" /\ helper'.opens = helper.opens /\ helper'.queue = Tail(helper.queue)
      /\ helper'.held = helper.held /\ helper'.problem = helper.problem /\ helper' \in Helpers
    BY <1>2, <1>3 DEF NextOne, Helpers
<1>5. ClientRunTypes' /\ Lineage' /\ ClientUntilSeen' /\ HandlesHold'
    BY <1>1, <1>4 DEF ClientInv, ClientRunTypes, Lineage, ClientUntilSeen, HandlesHold
<1>6. HelperInHand'
    BY <1>1, <1>3, <1>4 DEF ClientInv, HelperInHand, Ending, HeldPids
<1>7. TurnsAreTaken'
    <2>1. \A q : ~(Queued(q))' => ~Queued(q) \/ q = head
        BY <1>3, <1>4 DEF Queued
    <2>2. SUFFICES ASSUME ~helper.problem, NEW h \in helper.held, ~(Queued(h.pid))'
                   PROVE  /\ ~procs[h.pid].alive
                          /\ \A r \in ClientPids : procs[r].alive /\ procs[r].from = h.born => r \in HeldPids
        BY <1>1, <1>4 DEF TurnsAreTaken, Queued, InTurn, HeldPids
    <2>3. ~Queued(h.pid) \/ h.pid = head
        BY <2>1, <2>2
    <2> QED BY <1>1, <2>2, <2>3 DEF ClientInv, TurnsAreTaken, InTurn
<1> QED BY <1>1, <1>4, <1>5, <1>6, <1>7, WorkingSaysNothing DEF ClientInv

-----------------------------------------------------------------------------
LEMMA ClientRunKeepsIt ==
    ASSUME ClientPidIsAPid, ClientInv, [ClientRunNext]_clientRunVars
    PROVE  ClientInv'
<1>1. CASE \E p, q \in ClientPids : ProcessForks(p, q)
    BY <1>1, BirthsKeepIt
<1>2. CASE \E p \in ClientPids : StrangerStarts(p)
    BY <1>2, BirthsKeepIt
<1>3. CASE \E p \in ClientPids : ProcessExits(p)
    BY <1>3, ExitsKeepIt DEF ProcessExits
<1>4. CASE \E p \in ClientPids : OpenChild(p)
    BY <1>4, OpenChildKeepsIt
<1>5. CASE NodeSeesExit \/ ClientCloses \/ EndRun \/ KillDeadline
    BY <1>5, RunKeepsIt
<1>6. CASE OpenRoot \/ NodeAnswersHelper
    BY <1>6, OpeningKeepsIt
<1>7. CASE EndOne
    BY <1>7, EndOneKeepsIt
<1>8. CASE ListChildren
    BY <1>8, ListingKeepsIt
<1>9. CASE NextOne
    BY <1>9, NextOneKeepsIt
<1>10. CASE HelperIsDone
    BY <1>10, HelperSaysKeepsIt DEF HelperIsDone
<1>11. CASE HelperDies
    BY <1>11, HelperSaysKeepsIt DEF HelperDies
<1>12. CASE UNCHANGED clientRunVars
    BY <1>12 DEF clientRunVars, ClientInv, ClientRunTypes, Lineage, ClientUntilSeen, HandlesHold, HelperInHand,
                 Ending, HeldPids, TurnsAreTaken, Queued, InTurn, RunIsToldTheTruth, DoneMeansGone
<1> QED BY <1>1, <1>2, <1>3, <1>4, <1>5, <1>6, <1>7, <1>8, <1>9, <1>10, <1>11, <1>12 DEF ClientRunNext

\* One run of a client on Windows, and the helper that ends its process tree
\* (provider-child.mjs, owned-process-tree.mjs, held-process-tree.mjs): every
\* process the helper is working through is the client or came from it, and is
\* still the one that was opened, however numbers are handed out again; and a
\* run that started a kill and settles without a word of it has left neither the
\* client nor a child of any process the helper reached, whatever died, was
\* started or refused in between.
THEOREM ClientRunHolds ==
    ASSUME ClientPidIsAPid
    PROVE  ClientRunSpec => []ClientRunIsHonest
<1>1. ClientRunInit => ClientInv
    BY ClientRunBegins
<1>2. ClientInv /\ [ClientRunNext]_clientRunVars => ClientInv'
    BY ClientRunKeepsIt
<1>3. ClientInv => ClientRunIsHonest
    <2>1. ASSUME ClientInv PROVE HeldAreOurs
        BY <2>1 DEF HeldAreOurs, ClientInv, HandlesHold, HelperInHand, Ending
    <2>2. ASSUME ClientInv PROVE CleanMeansGone
        BY <2>2 DEF CleanMeansGone, ClientInv, RunIsToldTheTruth, DoneMeansGone
    <2> QED BY <2>1, <2>2 DEF ClientRunIsHonest
<1> QED BY <1>1, <1>2, <1>3, PTL DEF ClientRunSpec
=============================================================================
