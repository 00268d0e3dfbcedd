--------------------------- MODULE PublishedProofs ---------------------------
(***************************************************************************)
(* What the agent state's publication and the activity ledger keep, for     *)
(* every number of targets and environments, any frames and batches, and    *)
(* any losses; and what the host tells its services of itself.              *)
(***************************************************************************)
EXTENDS StatePublication, ActivityLedger, HeartBeats, SequenceTheorems, FiniteSetTheorems, TLAPS

-----------------------------------------------------------------------------
(***************************************************************************)
(* The publication of agent state: a retirement is true.                   *)
(***************************************************************************)

Lives == {"l1", "l2"}
Takes == [row : Rows, seen : SUBSET Lives, retired : BOOLEAN]
Bodies ==
  [kind : {"none", "snapshot", "changes", "unavailable", "retired"}, to : Targets \cup {Nothing},
   changed : Rows \cup {Nothing}, removed : Lives \cup {"none"}]
Inquiries ==
  [stage : {"none", "credential", "posted"}, target : Targets \cup {Nothing}, row : Rows, whole : BOOLEAN,
   current : BOOLEAN, snapshot : BOOLEAN, answer : {"none", "awaited", "applied"}]
Slots == [target : Targets \cup {Nothing}, view : Rows \cup {NoView}, due : BOOLEAN]

PublicationTypeOK ==
  /\ row \in Rows /\ whole \in BOOLEAN /\ endings \subseteq Lives /\ named \in Targets \cup {Nothing}
  /\ slot \in Slots /\ request \in Inquiries
  /\ net \in [Targets -> Seq(Bodies)] /\ takes \in [Targets -> Takes]
  /\ published \subseteq Lives /\ sentTo \subseteq Targets
  /\ frozen \in Targets \cup {Nothing}
  /\ closing \in {"no", "stopped", "proven", "posting", "over"}

\* Whoever is asked for is a target.
AskedIsATarget ==
  /\ gathering = "states" /\ closing = "no" => slot.target \in Targets
  /\ request.stage # "none" => request.target \in Targets

\* A lifetime that ended does not come back.
LiveIsNotEnded == LifetimeOf(row) \notin endings

\* Lifetimes a body names: those it shows.
Shows(b) == {LifetimeOf(IF b.changed = Nothing THEN "absent" ELSE b.changed)} \ {"none"}

\* Whatever is on its way or was shown was numbered, and nothing is numbered
\* once the sender has stopped.
ShownIsPublished ==
  /\ \A t \in Targets : \A i \in DOMAIN net[t] : Shows(net[t][i]) \subseteq published
  /\ \A t \in Targets : takes[t].seen \subseteq published
  /\ closing # "no" => ~ request.current

\* A retirement on its way or taken was proved, and is the frozen target's.
RetiredIsProven ==
  /\ closing \in {"proven", "posting"} => published \subseteq endings
  /\ \A t \in Targets : \A i \in DOMAIN net[t] : net[t][i].kind = "retired" =>
       closing # "no" /\ published \subseteq endings /\ t = frozen
  /\ \A t \in Targets : takes[t].retired => closing # "no" /\ published \subseteq endings /\ t = frozen

OutcomeIsTrue ==
  /\ closing = "no" => outcome = "none"
  /\ outcome = "answered" => frozen \in Targets /\ takes[frozen].retired
  /\ outcome = "confirmed" =>
       sentTo = {} \/ (sentTo \subseteq {frozen} /\ frozen \in Targets /\ takes[frozen].retired)

PublicationInv ==
  /\ PublicationTypeOK /\ AskedIsATarget /\ LiveIsNotEnded
  /\ ShownIsPublished /\ RetiredIsProven /\ OutcomeIsTrue

-----------------------------------------------------------------------------
\* What is published about a row is a body, and never a retirement.
LEMMA ChangesAreBodies ==
  ASSUME NEW to \in Targets, NEW r \in Rows, NEW view \in Rows
  PROVE  Changes(to, r, view) \in Bodies /\ Changes(to, r, view).kind # "retired"
<1>1. LifetimeOf(r) \in Lives \cup {"none"} /\ LifetimeOf(view) \in Lives \cup {"none"}
  BY DEF LifetimeOf, Lives
<1>2. NoBody \in Bodies /\ NoBody.kind # "retired"
  BY DEF NoBody, Body, Bodies
<1>3. Snapshot(to, r) \in Bodies /\ Snapshot(to, r).kind # "retired"
  BY DEF Snapshot, Body, Bodies
<1>4. ASSUME NEW removed \in Lives \cup {"none"}, NEW changed \in Rows \cup {Nothing}
      PROVE  Body("changes", to, changed, removed) \in Bodies /\ Body("changes", to, changed, removed).kind # "retired"
  BY DEF Body, Bodies
<1>5. CASE r = view
  BY <1>2, <1>5 DEF Changes
<1>6. CASE r # view /\ r = "absent" /\ LifetimeOf(view) = "none"
  BY <1>3, <1>6 DEF Changes
<1>7. CASE r # view /\ r = "absent" /\ LifetimeOf(view) # "none"
  BY <1>1, <1>4, <1>7 DEF Changes
<1>8. CASE r # view /\ r # "absent"
  <2>1. Changes(to, r, view) = Body("changes", to, r, IF LifetimeOf(view) = LifetimeOf(r) THEN "none" ELSE LifetimeOf(view))
    BY <1>8 DEF Changes
  <2>2. QED BY <1>1, <1>4, <2>1
<1>9. QED BY <1>5, <1>6, <1>7, <1>8

\* So is what the request in flight is to send.
LEMMA PublicationIsABody ==
  ASSUME PublicationInv, request.stage # "none"
  PROVE  Publication \in Bodies /\ Publication.kind # "retired"
<1>1. request.target \in Targets /\ request.row \in Rows /\ slot.view \in Rows \cup {NoView}
  BY DEF PublicationInv, PublicationTypeOK, AskedIsATarget, Inquiries, Slots
<1>2. CASE ~ request.whole
  BY <1>1, <1>2 DEF Publication, Body, Bodies
<1>3. CASE request.whole /\ SnapshotIsDue
  BY <1>1, <1>3 DEF Publication, Snapshot, Body, Bodies
<1>4. CASE request.whole /\ ~ SnapshotIsDue
  BY <1>1, <1>4, ChangesAreBodies DEF Publication, SnapshotIsDue
<1>5. QED BY <1>2, <1>3, <1>4

\* A receiver that takes a body has what it was shown, and is retired by a
\* retirement only.
LEMMA TakenIs ==
  ASSUME NEW take \in Takes, NEW b \in Bodies
  PROVE  /\ Taken(take, b) \in Takes
         /\ Taken(take, b).seen \subseteq take.seen \cup Shows(b)
         /\ Taken(take, b).retired <=> take.retired \/ b.kind = "retired"
<1>1. CASE b.kind \in {"snapshot", "changes"} /\ b.changed # Nothing
  <2>1. Taken(take, b) = [take EXCEPT !.row = b.changed, !.seen = @ \cup ({LifetimeOf(b.changed)} \ {"none"})]
    BY <1>1 DEF Taken
  <2>2. LifetimeOf(b.changed) \in Lives \cup {"none"} /\ b.changed \in Rows
    BY <1>1 DEF LifetimeOf, Lives, Bodies
  <2>3. Shows(b) = {LifetimeOf(b.changed)} \ {"none"}
    BY <1>1 DEF Shows
  <2>4. /\ Taken(take, b).row = b.changed /\ Taken(take, b).seen = take.seen \cup Shows(b)
        /\ Taken(take, b).retired = take.retired
    BY <2>1, <2>3 DEF Takes
  <2>5. Taken(take, b) \in Takes
    BY <2>1, <2>2 DEF Takes
  <2>6. QED BY <1>1, <2>4, <2>5
<1>2. CASE b.kind = "changes" /\ b.changed = Nothing
  <2>1. Taken(take, b) = [take EXCEPT !.row = IF LifetimeOf(@) = b.removed THEN "absent" ELSE @]
    BY <1>2 DEF Taken
  <2>2. QED BY <1>2, <2>1 DEF Takes, Rows
<1>3. CASE b.kind = "retired"
  <2>1. Taken(take, b) = [take EXCEPT !.row = "absent", !.retired = TRUE]
    BY <1>3 DEF Taken
  <2>2. QED BY <1>3, <2>1 DEF Takes, Rows
<1>4. CASE b.kind \notin {"snapshot", "changes", "retired"} \/ (b.kind = "snapshot" /\ b.changed = Nothing)
  <2>1. Taken(take, b) = take
    BY <1>4 DEF Taken
  <2>2. QED BY <1>4, <2>1
<1>5. QED BY <1>1, <1>2, <1>3, <1>4

\* What the request in flight hears changes nothing but its answer.
LEMMA HearsIs ==
  ASSUME PublicationTypeOK, NEW t, NEW i, NEW what \in {"none", "applied"}, Hears(t, i, what)
  PROVE  /\ request' \in Inquiries /\ request'.stage = request.stage
         /\ request'.target = request.target /\ request'.current = request.current
<1>1. CASE request' = request
  BY <1>1 DEF PublicationTypeOK
<1>2. CASE request' = [request EXCEPT !.answer = what]
  BY <1>2 DEF PublicationTypeOK, Inquiries
<1>3. QED BY <1>1, <1>2 DEF Hears

\* Nothing is on its way, taken or named at first.
LEMMA PublicationStarts == PublicationInit => PublicationInv
<1> SUFFICES ASSUME PublicationInit PROVE PublicationInv
  OBVIOUS
<1>1. NoSlot \in Slots /\ NoPublication \in Inquiries /\ NoPublication.stage = "none"
  BY DEF NoSlot, Slots, NoPublication, Inquiries, Rows
<1>2. PublicationTypeOK
  BY <1>1 DEF PublicationInit, PublicationTypeOK, Takes, Rows
<1>3. AskedIsATarget /\ LiveIsNotEnded
  BY <1>1 DEF PublicationInit, AskedIsATarget, LiveIsNotEnded
<1>4. ShownIsPublished /\ RetiredIsProven /\ OutcomeIsTrue
  BY DEF PublicationInit, ShownIsPublished, RetiredIsProven, OutcomeIsTrue
<1>5. QED BY <1>2, <1>3, <1>4 DEF PublicationInv

\* The agent's steps: a lifetime begins that has not ended, and one that ends is
\* not the row's any more.
LEMMA AgentKeeps ==
  ASSUME PublicationInv, \/ \E to \in Rows : Moves(to)
                         \/ Completeness
                         \/ \E t \in Targets \cup {Nothing} : EditRegistry(t)
  PROVE  PublicationInv'
<1> USE DEF PublicationInv
<1>1. ASSUME NEW to \in Rows, Moves(to) PROVE PublicationInv'
  <2>1. endings \subseteq endings' /\ endings' \subseteq Lives /\ LifetimeOf(to) \notin endings' /\ row' = to
    <3>1. CASE row = "absent"
      BY <1>1, <3>1 DEF Moves, Follows, LifetimeOf, PublicationTypeOK, Lives
    <3>2. CASE row = "cold"
      BY <1>1, <3>2 DEF Moves, Follows, LifetimeOf, PublicationTypeOK, Lives
    <3>3. CASE row \in {"l1", "l2"}
      BY <1>1, <3>3 DEF Moves, Follows, LifetimeOf, PublicationTypeOK, Lives
    <3>4. QED BY <3>1, <3>2, <3>3 DEF PublicationTypeOK, Rows
  <2>2. QED
    BY <1>1, <2>1 DEF Moves, PublicationTypeOK, AskedIsATarget, LiveIsNotEnded, ShownIsPublished, RetiredIsProven,
                      OutcomeIsTrue, senderVars, retireVars
<1>2. CASE Completeness
  BY <1>2 DEF Completeness, PublicationTypeOK, AskedIsATarget, LiveIsNotEnded, ShownIsPublished, RetiredIsProven,
              OutcomeIsTrue, senderVars, retireVars
<1>3. ASSUME NEW t \in Targets \cup {Nothing}, EditRegistry(t) PROVE PublicationInv'
  BY <1>3 DEF EditRegistry, PublicationTypeOK, AskedIsATarget, LiveIsNotEnded, ShownIsPublished, RetiredIsProven,
              OutcomeIsTrue, senderVars, retireVars, factVars
<1>4. QED BY <1>1, <1>2, <1>3

\* The sender's own steps, which number and retire nothing.
LEMMA SenderKeeps ==
  ASSUME PublicationInv,
         Tick \/ RegistryIsRead \/ RegistryUnread \/ StatesAreRead \/ CredentialFails \/ RequestSettles \/ EpochBegins
  PROVE  PublicationInv'
<1> USE DEF PublicationInv
<1>1. NoSlot \in Slots /\ NoPublication \in Inquiries /\ NoPublication.stage = "none" /\ ~ NoPublication.current
  BY DEF NoSlot, Slots, NoPublication, Inquiries, Rows
<1>2. ASSUME UNCHANGED <<factVars, net, published, sentTo, retireVars, takes>>, named' = named,
             slot' \in Slots, request' \in Inquiries, AskedIsATarget', closing # "no" => ~ request'.current
      PROVE  PublicationInv'
  BY <1>2 DEF PublicationTypeOK, LiveIsNotEnded, ShownIsPublished, RetiredIsProven, OutcomeIsTrue, factVars, retireVars
<1>3. CASE Tick
  BY <1>2, <1>3 DEF Tick, PublicationTypeOK, AskedIsATarget, ShownIsPublished, retireVars
<1>4. CASE RegistryIsRead
  <2>1. slot' \in Slots /\ request' \in Inquiries
    BY <1>1, <1>4, ZenonT(30) DEF RegistryIsRead, Reconciled, PublicationTypeOK, Slots, Inquiries, NoSlot
  <2>2. request'.stage = request.stage /\ request'.target = request.target /\ (request'.current => request.current)
    BY <1>4 DEF RegistryIsRead, Reconciled, PublicationTypeOK, Inquiries
  <2>3. gathering' = "states" => named \in Targets /\ slot'.target = named
    BY <1>1, <1>4 DEF RegistryIsRead, Reconciled, EvaluationEnds, PublicationTypeOK, NoSlot
  <2>4. QED BY <1>2, <1>4, <2>1, <2>2, <2>3 DEF RegistryIsRead, AskedIsATarget, ShownIsPublished
<1>5. CASE RegistryUnread
  BY <1>2, <1>5 DEF RegistryUnread, EvaluationEnds, PublicationTypeOK, AskedIsATarget, ShownIsPublished, retireVars
<1>6. CASE StatesAreRead
  <2>1. CASE request' = request
    BY <1>2, <1>6, <2>1 DEF StatesAreRead, EvaluationEnds, PublicationTypeOK, AskedIsATarget, ShownIsPublished, retireVars
  <2>2. CASE /\ closing = "no"
             /\ request' = [NoPublication EXCEPT !.stage = "credential", !.target = slot.target,
                                         !.row = row, !.whole = whole, !.current = TRUE]
    <3>1. slot.target \in Targets /\ gathering' # "states"
      BY <1>6, <2>2 DEF StatesAreRead, EvaluationEnds, AskedIsATarget
    <3>2. request' \in Inquiries /\ request'.target = slot.target
      BY <2>2, <3>1 DEF NoPublication, Inquiries, PublicationTypeOK
    <3>3. QED
      BY <1>2, <1>6, <2>2, <3>1, <3>2 DEF StatesAreRead, AskedIsATarget, PublicationTypeOK, retireVars
  <2>3. QED BY <1>6, <2>1, <2>2 DEF StatesAreRead
<1>7. CASE CredentialFails
  BY <1>1, <1>2, <1>7 DEF CredentialFails, Settled, PublicationTypeOK, AskedIsATarget, retireVars
<1>8. CASE RequestSettles
  <2>1. slot' \in Slots /\ slot'.target = slot.target
    BY <1>8 DEF RequestSettles, PublicationTypeOK, Slots, Inquiries
  <2>2. QED BY <1>1, <1>2, <1>8, <2>1 DEF RequestSettles, Settled, AskedIsATarget, retireVars
<1>9. CASE EpochBegins
  <2>1. slot' \in Slots /\ slot'.target = slot.target
    BY <1>9 DEF EpochBegins, PublicationTypeOK, Slots
  <2>2. QED BY <1>2, <1>9, <2>1 DEF EpochBegins, PublicationTypeOK, AskedIsATarget, ShownIsPublished, retireVars
<1>10. QED BY <1>3, <1>4, <1>5, <1>6, <1>7, <1>8, <1>9

\* What the credential is read for is numbered, and none is read for once the
\* sender has stopped.
LEMMA CredentialKeeps == PublicationInv /\ CredentialIsRead => PublicationInv'
<1> SUFFICES ASSUME PublicationInv, CredentialIsRead PROVE PublicationInv'
  OBVIOUS
<1> USE DEF PublicationInv
<1>1. NoPublication \in Inquiries /\ NoPublication.stage = "none" /\ ~ NoPublication.current
  BY DEF NoPublication, Inquiries, Rows
<1>2. UNCHANGED <<row, whole, endings, named, gathering, slot, frozen, closing, outcome, takes>>
  BY DEF CredentialIsRead, factVars, retireVars
<1>3. request.target \in Targets /\ Publication \in Bodies /\ Publication.kind # "retired"
  BY PublicationIsABody DEF CredentialIsRead, AskedIsATarget
<1>4. CASE Settled /\ UNCHANGED <<net, published, sentTo>>
  BY <1>1, <1>2, <1>4 DEF Settled, PublicationTypeOK, AskedIsATarget, LiveIsNotEnded, ShownIsPublished, RetiredIsProven,
                          OutcomeIsTrue
<1>5. CASE request.current /\ Publication # NoBody
  <2>1. closing = "no" /\ outcome = "none"
    BY <1>5 DEF ShownIsPublished, OutcomeIsTrue
  <2>2. PICK b \in Bodies : b = Publication /\ b.kind # "retired"
    BY <1>3
  <2>3. /\ Numbered(b) /\ net' = [net EXCEPT ![request.target] = Append(@, b)]
        /\ sentTo' = sentTo \cup {request.target}
        /\ request' = [request EXCEPT !.stage = "posted", !.answer = "awaited", !.snapshot = (b.kind = "snapshot")]
    BY <1>5, <2>2 DEF CredentialIsRead
  <2>4. published' = published \cup Shows(b) \cup ({b.removed} \ {"none"})
    BY <2>3 DEF Numbered, Shows
  <2>5. Shows(b) \subseteq Lives /\ {b.removed} \ {"none"} \subseteq Lives
    BY DEF Shows, LifetimeOf, Lives, Bodies
  <2>6. request' \in Inquiries /\ request'.target = request.target
    BY <2>3 DEF PublicationTypeOK, Inquiries
  <2>7. ASSUME NEW t \in Targets
        PROVE  /\ net'[t] \in Seq(Bodies)
               /\ \A i \in DOMAIN net'[t] : net'[t][i] = b \/ (i \in DOMAIN net[t] /\ net'[t][i] = net[t][i])
    <3>1. net[t] \in Seq(Bodies)
      BY DEF PublicationTypeOK
    <3>2. CASE t = request.target
      <4>1. net'[t] = Append(net[t], b)
        BY <2>3, <3>2 DEF PublicationTypeOK
      <4>2. QED BY <3>1, <4>1
    <3>3. CASE t # request.target
      BY <2>3, <3>1, <3>3 DEF PublicationTypeOK
    <3>4. QED BY <3>2, <3>3
  <2>8. PublicationTypeOK'
    <3>1. DOMAIN net' = Targets /\ net' \in [Targets -> Seq(Bodies)]
      BY <2>3, <2>7 DEF PublicationTypeOK
    <3>2. published' \subseteq Lives /\ sentTo' \subseteq Targets
      BY <1>3, <2>3, <2>4, <2>5 DEF PublicationTypeOK
    <3>3. QED BY <1>2, <2>6, <3>1, <3>2 DEF PublicationTypeOK
  <2>9. ShownIsPublished'
    <3>1. \A t \in Targets : \A i \in DOMAIN net'[t] : Shows(net'[t][i]) \subseteq published'
      BY <2>4, <2>7 DEF ShownIsPublished
    <3>2. QED BY <1>2, <2>1, <2>4, <3>1 DEF ShownIsPublished
  <2>10. RetiredIsProven'
    <3>1. \A t \in Targets : \A i \in DOMAIN net'[t] : net'[t][i].kind # "retired"
      BY <2>1, <2>2, <2>7 DEF RetiredIsProven
    <3>2. QED BY <1>2, <2>1, <3>1 DEF RetiredIsProven
  <2>11. QED BY <1>2, <1>3, <2>1, <2>6, <2>8, <2>9, <2>10 DEF AskedIsATarget, LiveIsNotEnded, OutcomeIsTrue
<1>6. QED BY <1>4, <1>5 DEF CredentialIsRead

\* A line of bodies that loses some of them holds no others.
LEMMA FewerKeep ==
  ASSUME PublicationInv, NEW t \in Targets, NEW i \in DOMAIN net[t], NEW what \in {"none", "applied"},
         NEW line \in Seq(Bodies), \A j \in DOMAIN line : \E k \in DOMAIN net[t] : line[j] = net[t][k],
         net' = [net EXCEPT ![t] = line], Hears(t, i, what),
         UNCHANGED <<factVars, named, edits, gathering, more, slot, published, sentTo, frozen, closing>>
  PROVE  /\ net' \in [Targets -> Seq(Bodies)] /\ request' \in Inquiries /\ AskedIsATarget' /\ LiveIsNotEnded'
         /\ \A u \in Targets : \A j \in DOMAIN net'[u] :
              /\ Shows(net'[u][j]) \subseteq published'
              /\ net'[u][j].kind = "retired" => closing' # "no" /\ published' \subseteq endings' /\ u = frozen'
         /\ closing' # "no" => ~ request'.current
<1> USE DEF PublicationInv
<1>1. /\ request' \in Inquiries /\ request'.stage = request.stage
      /\ request'.target = request.target /\ request'.current = request.current
  BY HearsIs
<1>2. net \in [Targets -> Seq(Bodies)] /\ net' \in [Targets -> Seq(Bodies)]
  BY DEF PublicationTypeOK
<1>3. ASSUME NEW u \in Targets, NEW j \in DOMAIN net'[u]
      PROVE  \E k \in DOMAIN net[u] : net'[u][j] = net[u][k]
  BY <1>2, <1>3
<1>4. QED
  BY <1>1, <1>2, <1>3 DEF AskedIsATarget, LiveIsNotEnded, ShownIsPublished, RetiredIsProven, factVars

\* A receiver that takes a retirement has it from the frozen target's line, and
\* what it is shown was numbered.
LEMMA TakeKeeps ==
  ASSUME PublicationInv, NEW t \in Targets, NEW i \in DOMAIN net[t], Take(t, i)
  PROVE  PublicationInv'
<1> USE DEF PublicationInv
<1>1. net[t] \in Seq(Bodies) /\ takes \in [Targets -> Takes]
  BY DEF PublicationTypeOK
<1>2. PICK line \in Seq(Bodies) :
        /\ net' = [net EXCEPT ![t] = line]
        /\ \A j \in DOMAIN line : \E k \in DOMAIN net[t] : line[j] = net[t][k]
  <2> DEFINE line == SubSeq(net[t], i + 1, Len(net[t]))
  <2>1. line \in Seq(Bodies) /\ Len(line) = Len(net[t]) - i /\ \A j \in 1 .. Len(line) : line[j] = net[t][i + j]
    BY <1>1, SMTT(30)
  <2>2. \A j \in 1 .. Len(line) : i + j \in DOMAIN net[t] /\ line[j] = net[t][i + j]
    BY <1>1, <2>1
  <2>3. net' = [net EXCEPT ![t] = line]
    BY DEF Take
  <2> HIDE DEF line
  <2>4. \A j \in DOMAIN line : \E k \in DOMAIN net[t] : line[j] = net[t][k]
    <3> SUFFICES ASSUME NEW j \in DOMAIN line PROVE \E k \in DOMAIN net[t] : line[j] = net[t][k]
      OBVIOUS
    <3>1. j \in 1 .. Len(line)
      BY <2>1
    <3>2. QED BY <2>2, <3>1
  <2>5. QED BY <2>1, <2>3, <2>4
<1>3. UNCHANGED <<factVars, named, edits, gathering, more, slot, published, sentTo, frozen, closing>>
  BY DEF Take
<1>4. /\ net' \in [Targets -> Seq(Bodies)] /\ request' \in Inquiries /\ AskedIsATarget' /\ LiveIsNotEnded'
      /\ \A u \in Targets : \A j \in DOMAIN net'[u] :
           /\ Shows(net'[u][j]) \subseteq published'
           /\ net'[u][j].kind = "retired" => closing' # "no" /\ published' \subseteq endings' /\ u = frozen'
      /\ closing' # "no" => ~ request'.current
  <2>1. Hears(t, i, "applied")
    BY DEF Take
  <2>2. QED BY <1>2, <1>3, <2>1, FewerKeep
<1>5. PICK b \in Bodies : b = net[t][i]
  BY <1>1
<1>6. /\ takes' = [takes EXCEPT ![t] = Taken(@, b)]
      /\ outcome' = IF b.kind = "retired" /\ closing = "posting" THEN "answered" ELSE outcome
  BY <1>5 DEF Take
<1>7. Shows(b) \subseteq published /\ (b.kind = "retired" => closing # "no" /\ published \subseteq endings /\ t = frozen)
  BY <1>5 DEF ShownIsPublished, RetiredIsProven
<1>8. ASSUME NEW u \in Targets
      PROVE  /\ takes'[u] \in Takes /\ takes'[u].seen \subseteq published
             /\ takes'[u].retired <=> takes[u].retired \/ (u = t /\ b.kind = "retired")
  <2>1. CASE u = t
    <3>1. takes'[u] = Taken(takes[t], b) /\ takes[t] \in Takes
      BY <1>1, <1>6, <2>1
    <3>2. takes[t].seen \subseteq published
      BY DEF ShownIsPublished
    <3>3. QED BY <1>7, <2>1, <3>1, <3>2, TakenIs
  <2>2. CASE u # t
    BY <1>1, <1>6, <2>2 DEF ShownIsPublished
  <2>3. QED BY <2>1, <2>2
<1>9. PublicationTypeOK'
  <2>1. takes' \in [Targets -> Takes]
    BY <1>1, <1>6, <1>8
  <2>2. QED BY <1>3, <1>4, <2>1 DEF PublicationTypeOK, factVars
<1>10. RetiredIsProven'
  BY <1>3, <1>4, <1>7, <1>8 DEF RetiredIsProven, factVars
<1>11. OutcomeIsTrue'
  BY <1>3, <1>6, <1>7, <1>8 DEF OutcomeIsTrue
<1>12. ShownIsPublished'
  BY <1>3, <1>4, <1>8 DEF ShownIsPublished
<1>13. QED BY <1>4, <1>9, <1>10, <1>11, <1>12

\* A sequence that loses an element holds no other than it held.
LEMMA RemoveAtIs ==
  ASSUME NEW S, NEW s \in Seq(S), NEW i \in DOMAIN s
  PROVE  /\ RemoveAt(s, i) \in Seq(S) /\ Len(RemoveAt(s, i)) = Len(s) - 1
         /\ \A j \in 1 .. Len(s) - 1 : RemoveAt(s, i)[j] = IF j < i THEN s[j] ELSE s[j + 1]
         /\ \A j \in DOMAIN RemoveAt(s, i) : \E k \in DOMAIN s : RemoveAt(s, i)[j] = s[k]
<1> DEFINE early == SubSeq(s, 1, i - 1)
           late == SubSeq(s, i + 1, Len(s))
           line == RemoveAt(s, i)
<1>1. i \in 1 .. Len(s) /\ Len(s) \in Nat
  OBVIOUS
<1>2. early \in Seq(S) /\ Len(early) = i - 1 /\ \A j \in 1 .. i - 1 : early[j] = s[j]
  BY <1>1
<1>3. late \in Seq(S) /\ Len(late) = Len(s) - i /\ \A j \in 1 .. Len(s) - i : late[j] = s[i + j]
  BY <1>1
<1>4. line = early \o late
  BY DEF RemoveAt
<1> HIDE DEF early, late, line
<1>5. /\ line \in Seq(S) /\ Len(line) = Len(s) - 1
      /\ \A j \in 1 .. Len(s) - 1 : line[j] = IF j <= i - 1 THEN early[j] ELSE late[j - (i - 1)]
  <2>1. /\ line \in Seq(S) /\ Len(line) = Len(early) + Len(late)
        /\ \A j \in 1 .. Len(early) + Len(late) : line[j] = IF j <= Len(early) THEN early[j] ELSE late[j - Len(early)]
    BY <1>2, <1>3, <1>4, ConcatProperties
  <2>2. Len(early) + Len(late) = Len(s) - 1
    BY <1>1, <1>2, <1>3
  <2>3. QED BY <1>2, <2>1, <2>2
<1>6. ASSUME NEW j \in 1 .. Len(s) - 1 PROVE line[j] = IF j < i THEN s[j] ELSE s[j + 1]
  <2>1. CASE j < i
    <3>1. j \in 1 .. i - 1 /\ j <= i - 1
      BY <1>1, <2>1
    <3>2. line[j] = early[j]
      BY <1>5, <3>1
    <3>3. QED BY <1>2, <2>1, <3>1, <3>2
  <2>2. CASE ~ (j < i)
    <3>1. j - (i - 1) \in 1 .. Len(s) - i /\ i + (j - (i - 1)) = j + 1
      BY <1>1, <2>2
    <3>2. line[j] = late[j - (i - 1)]
      <4>1. ~ (j <= i - 1)
        BY <1>1, <2>2
      <4>2. QED BY <1>5, <4>1
    <3>3. QED BY <1>3, <2>2, <3>1, <3>2
  <2>3. QED BY <2>1, <2>2
<1>7. ASSUME NEW j \in DOMAIN line PROVE \E k \in DOMAIN s : line[j] = s[k]
  <2>1. j \in 1 .. Len(s) - 1
    BY <1>5
  <2>2. j \in DOMAIN s /\ j + 1 \in DOMAIN s
    BY <1>1, <2>1
  <2>3. QED BY <1>6, <2>1, <2>2
<1>8. QED BY <1>5, <1>6, <1>7 DEF line

\* A body that is lost changes nothing that was shown or proved.
LEMMA LossKeeps ==
  ASSUME PublicationInv, NEW t \in Targets, NEW i \in DOMAIN net[t], IsLost(t, i)
  PROVE  PublicationInv'
<1> USE DEF PublicationInv
<1>1. net[t] \in Seq(Bodies)
  BY DEF PublicationTypeOK
<1>2. PICK line \in Seq(Bodies) :
        /\ net' = [net EXCEPT ![t] = line]
        /\ \A j \in DOMAIN line : \E k \in DOMAIN net[t] : line[j] = net[t][k]
  <2>1. /\ RemoveAt(net[t], i) \in Seq(Bodies)
        /\ \A j \in DOMAIN RemoveAt(net[t], i) : \E k \in DOMAIN net[t] : RemoveAt(net[t], i)[j] = net[t][k]
    BY <1>1, RemoveAtIs
  <2>2. QED BY <2>1 DEF IsLost
<1>3. UNCHANGED <<factVars, named, edits, gathering, more, slot, published, sentTo, retireVars, takes>>
  BY DEF IsLost
<1>4. /\ net' \in [Targets -> Seq(Bodies)] /\ request' \in Inquiries /\ AskedIsATarget' /\ LiveIsNotEnded'
      /\ \A u \in Targets : \A j \in DOMAIN net'[u] :
           /\ Shows(net'[u][j]) \subseteq published'
           /\ net'[u][j].kind = "retired" => closing' # "no" /\ published' \subseteq endings' /\ u = frozen'
      /\ closing' # "no" => ~ request'.current
  BY <1>2, <1>3, FewerKeep DEF IsLost, retireVars
<1>5. PublicationTypeOK' /\ OutcomeIsTrue'
  BY <1>3, <1>4 DEF PublicationTypeOK, OutcomeIsTrue, factVars, retireVars
<1>6. RetiredIsProven' /\ ShownIsPublished'
  BY <1>3, <1>4 DEF RetiredIsProven, ShownIsPublished, factVars, retireVars
<1>7. QED BY <1>4, <1>5, <1>6

\* stop() forgets the slot, and the proof is of all that was published before.
LEMMA ClosingKeeps ==
  ASSUME PublicationInv, Stop \/ Prove \/ RetireEnds \/ RetireDeadline
  PROVE  PublicationInv'
<1> USE DEF PublicationInv
<1>1. NoSlot \in Slots
  BY DEF NoSlot, Slots
<1>2. CASE Stop
  <2>1. request' \in Inquiries /\ request'.stage = request.stage /\ request'.target = request.target /\ ~ request'.current
    BY <1>2 DEF Stop, PublicationTypeOK, Inquiries
  <2>2. PublicationTypeOK'
    BY <1>1, <1>2, <2>1 DEF Stop, PublicationTypeOK, Slots, factVars
  <2>3. outcome' = "none" /\ closing = "no" /\ closing' = "stopped"
    BY <1>2 DEF Stop, OutcomeIsTrue
  <2>4. QED
    BY <1>2, <2>1, <2>2, <2>3 DEF Stop, AskedIsATarget, LiveIsNotEnded, ShownIsPublished, RetiredIsProven, OutcomeIsTrue, factVars
<1>3. CASE Prove \/ RetireEnds \/ RetireDeadline
  <2>1. UNCHANGED <<factVars, named, edits, senderVars, net, frozen, takes>>
    BY <1>3 DEF Prove, RetireEnds, RetireDeadline
  <2>2. closing # "no" /\ closing' \in {"proven", "over"} /\ (closing' = "proven" => published \subseteq endings)
    BY <1>3 DEF Prove, RetireEnds, RetireDeadline
  <2>3. OutcomeIsTrue'
    <3>1. CASE Prove
      BY <2>1, <2>2, <3>1 DEF Prove, OutcomeIsTrue, senderVars
    <3>2. CASE RetireEnds
      BY <2>1, <2>2, <3>2 DEF RetireEnds, OutcomeIsTrue, senderVars
    <3>3. CASE RetireDeadline
      BY <2>1, <2>2, <3>3 DEF RetireDeadline, OutcomeIsTrue, senderVars
    <3>4. QED BY <1>3, <3>1, <3>2, <3>3
  <2>4. PublicationTypeOK'
    BY <2>1, <2>2 DEF PublicationTypeOK, factVars, senderVars
  <2>5. QED
    BY <2>1, <2>2, <2>3, <2>4 DEF AskedIsATarget, LiveIsNotEnded, ShownIsPublished, RetiredIsProven, factVars, senderVars
<1>4. QED BY <1>2, <1>3

\* The retirement that is posted was proved, and goes to the frozen target.
LEMMA PostKeeps == PublicationInv /\ AuthorizeAndPost => PublicationInv'
<1> SUFFICES ASSUME PublicationInv, AuthorizeAndPost PROVE PublicationInv'
  OBVIOUS
<1> USE DEF PublicationInv
<1>1. /\ UNCHANGED <<factVars, named, edits, senderVars, frozen, takes>> /\ closing = "proven"
      /\ published \subseteq endings
  BY DEF AuthorizeAndPost, RetiredIsProven
<1>2. CASE closing' = "over" /\ outcome' = (IF sentTo = {} THEN "confirmed" ELSE "unconfirmed") /\ UNCHANGED net
  <2>1. PublicationTypeOK' /\ OutcomeIsTrue'
    BY <1>1, <1>2 DEF PublicationTypeOK, OutcomeIsTrue, factVars, senderVars
  <2>2. QED
    BY <1>1, <1>2, <2>1 DEF AskedIsATarget, LiveIsNotEnded, ShownIsPublished, RetiredIsProven, factVars, senderVars
<1>3. CASE /\ frozen \in Targets
           /\ net' = [net EXCEPT ![frozen] = Append(@, Body("retired", frozen, Nothing, "none"))]
           /\ closing' = "posting" /\ outcome' = "none"
  <2>1. PICK b \in Bodies : b = Body("retired", frozen, Nothing, "none") /\ Shows(b) = {}
    <3>1. Body("retired", frozen, Nothing, "none") \in Bodies
      BY <1>3 DEF Body, Bodies
    <3>2. Shows(Body("retired", frozen, Nothing, "none")) = {}
      BY DEF Shows, Body, LifetimeOf
    <3>3. QED BY <3>1, <3>2
  <2>2. ASSUME NEW t \in Targets
        PROVE  /\ net'[t] \in Seq(Bodies)
               /\ \A i \in DOMAIN net'[t] : \/ net'[t][i] = b /\ t = frozen
                                            \/ i \in DOMAIN net[t] /\ net'[t][i] = net[t][i]
    <3>1. net[t] \in Seq(Bodies)
      BY DEF PublicationTypeOK
    <3>2. CASE t = frozen
      <4>1. net'[t] = Append(net[t], b)
        BY <1>3, <2>1, <3>2 DEF PublicationTypeOK
      <4>2. QED BY <3>1, <3>2, <4>1
    <3>3. CASE t # frozen
      BY <1>3, <3>1, <3>3 DEF PublicationTypeOK
    <3>4. QED BY <3>2, <3>3
  <2>3. PublicationTypeOK'
    <3>1. net' \in [Targets -> Seq(Bodies)]
      BY <1>3, <2>2 DEF PublicationTypeOK
    <3>2. QED BY <1>1, <1>3, <3>1 DEF PublicationTypeOK, factVars, senderVars
  <2>4. ShownIsPublished'
    <3>1. \A t \in Targets : \A i \in DOMAIN net'[t] : Shows(net'[t][i]) \subseteq published
      BY <2>1, <2>2 DEF ShownIsPublished
    <3>2. QED BY <1>1, <3>1 DEF ShownIsPublished, senderVars
  <2>5. RetiredIsProven'
    <3>1. \A t \in Targets : \A i \in DOMAIN net'[t] : net'[t][i].kind = "retired" => t = frozen
      BY <2>2 DEF RetiredIsProven
    <3>2. QED BY <1>1, <1>3, <3>1 DEF RetiredIsProven, senderVars, factVars
  <2>6. QED
    BY <1>1, <1>3, <2>3, <2>4, <2>5 DEF AskedIsATarget, LiveIsNotEnded, OutcomeIsTrue, senderVars, factVars
<1>4. QED
  BY <1>2, <1>3 DEF AuthorizeAndPost, PublicationTypeOK

\* The invariant of the publication holds throughout.
LEMMA PublicationInvHolds == PublicationSpec => []PublicationInv
<1>1. PublicationInv /\ [PublicationNext]_publicationVars => PublicationInv'
  <2> SUFFICES ASSUME PublicationInv, [PublicationNext]_publicationVars PROVE PublicationInv'
    OBVIOUS
  <2>1. CASE UNCHANGED publicationVars
    BY <2>1 DEF publicationVars, factVars, senderVars, retireVars, PublicationInv, PublicationTypeOK, AskedIsATarget,
                LiveIsNotEnded, ShownIsPublished, RetiredIsProven, OutcomeIsTrue
  <2>2. QED
    BY <2>1, AgentKeeps, SenderKeeps, CredentialKeeps, TakeKeeps, LossKeeps, ClosingKeeps, PostKeeps DEF PublicationNext
<1>2. QED BY <1>1, PublicationStarts, PTL DEF PublicationSpec

\* A target takes a retirement only when the agent has no lifetime that any target
\* was shown, and a stop is confirmed only when every target that was ever sent to
\* took it: however bodies are lost, delayed and overtaken, for every set of
\* targets (agent-state-publisher.mjs).
THEOREM RetirementHolds == PublicationSpec => []RetirementIsTrue
<1>1. PublicationInv => RetirementIsTrue
  BY DEF PublicationInv, RetirementIsTrue, LiveIsNotEnded, ShownIsPublished, RetiredIsProven, OutcomeIsTrue
<1>2. QED BY <1>1, PublicationInvHolds, PTL

-----------------------------------------------------------------------------
(***************************************************************************)
(* The activity ledger: nothing is skipped, and what is reclaimed is told. *)
(***************************************************************************)

Frames == [event : Nat, good : BOOLEAN]
Said == {"", "malformed", "expired", "refused", "identity", "reclaimed", "producer_loss", "gap_conflict"}
Items == [event : Nat, reason : Said]
Steps == {"no", "marker", "marker removed", "raw", "unlink", "raw removed", "forget"}
Gaps == Said \X Nat
Stages == [end : Nat, items : Seq(Items), gaps : SUBSET Gaps, loss : BOOLEAN, is : BOOLEAN]
Retirements == [phase : {"no", "pending", "acked", "marker-removed", "raw-removed"}, id : Gaps, mark : Nat]
Sources ==
  [identity : Nat, offset : Nat, seen : Seq(Frames), generation : Nat, lossTold : BOOLEAN, lossMark : Nat,
   stage : Stages, retirement : Retirements, witness : BOOLEAN]

\* Every item that is not to be sent has a gap that says why, or one renamed.
Explained(stage) ==
  \A k \in DOMAIN stage.items : stage.items[k].reason # "" =>
    \E g \in stage.gaps : g[1] \in {stage.items[k].reason, "gap_conflict"}

\* What is staged are the frames from the cursor to the stage's end.
StagedFrom(s, frames) ==
  s.stage.is =>
    /\ s.offset <= s.stage.end /\ s.stage.end <= Len(frames)
    /\ Len(s.stage.items) = s.stage.end - s.offset
    /\ \A k \in 1 .. Len(s.stage.items) : s.stage.items[k].event = frames[s.offset + k].event

\* A retirement is of a tail gap: staged while it is pending, told afterwards.
TailIsTold(s) ==
  /\ s.retirement.phase = "pending" => s.stage.is /\ s.retirement.id \in s.stage.gaps /\ s.retirement.id[1] = "reclaimed"
  /\ s.retirement.phase \in {"acked", "marker-removed", "raw-removed"} => s.retirement.id \in dashboard.gaps

\* The cursor is in the prefix it was checked against, and went past all before it.
CursorIsPassed(s) ==
  s.offset <= Len(s.seen) /\ \A k \in 1 .. s.offset : \E p \in passed : p[1] = s.seen[k].event

IsSound(s, frames) ==
  s \in Sources /\ CursorIsPassed(s) /\ Explained(s.stage) /\ StagedFrom(s, frames) /\ TailIsTold(s)

LedgerTypeOK ==
  /\ raw \in [id : Nat, frames : Seq(Frames)] /\ mark \in Nat /\ appended \in Nat /\ swaps \in Nat
  /\ agentLives \in BOOLEAN
  /\ checkpoint = [source |-> checkpoint.source, floor |-> checkpoint.floor] /\ checkpoint.floor \in Nat
  /\ passes = [e \in Envs |-> passes[e]]
  /\ dashboard \in [events : SUBSET Nat, gaps : SUBSET Gaps]
  /\ reclaiming \in [by : Envs \cup {"nobody"}, step : Steps]

SourceIsSound == checkpoint.source # NoSource => IsSound(checkpoint.source, checkpoint.source.seen)

\* An acknowledged batch is the dashboard's.
AnswersAreTrue ==
  \A e \in Envs :
    /\ passes[e].at \in {"no", "send", "answered"}
    /\ passes[e].at = "send" => passes[e].token.gaps \subseteq Gaps /\ passes[e].token.events \subseteq Nat
    /\ passes[e].at = "answered" => passes[e].gaps \subseteq Gaps
    /\ passes[e].at = "answered" /\ passes[e].kind = "ack" =>
         passes[e].token.events \subseteq dashboard.events /\ passes[e].token.gaps \subseteq dashboard.gaps

PassedIsTold ==
  \A p \in passed : IF p[2] = "" THEN p[1] \in dashboard.events
                    ELSE \E g \in dashboard.gaps : g[1] \in {p[2], "gap_conflict"}

\* A retirement under way is of an agent that ended, and of a gap that was told.
ReclaimsTheEnded ==
  /\ reclaiming.by = "nobody" => reclaiming.step = "no"
  /\ reclaiming.by # "nobody" =>
       /\ ~ agentLives /\ checkpoint.source # NoSource
       /\ checkpoint.source.retirement.phase \in {"acked", "marker-removed", "raw-removed"}

LedgerInv ==
  LedgerTypeOK /\ SourceIsSound /\ AnswersAreTrue /\ PassedIsTold /\ ReclaimsTheEnded /\ ReclaimedIsTold

-----------------------------------------------------------------------------
\* What a prefix is of, it agrees with.
LEMMA PrefixIs ==
  ASSUME NEW S, NEW s \in Seq(S), NEW t \in Seq(S), IsPrefix(s, t)
  PROVE  Len(s) <= Len(t) /\ \A k \in 1 .. Len(s) : s[k] = t[k]
<1>1. Len(s) <= Len(t) /\ SubSeq(s, 1, Len(s)) = SubSeq(t, 1, Len(s))
  BY DEF IsPrefix
<1>2. ASSUME NEW k \in 1 .. Len(s) PROVE s[k] = t[k]
  <2>1. SubSeq(s, 1, Len(s))[k] = s[k]
    OBVIOUS
  <2>2. SubSeq(t, 1, Len(s))[k] = t[k]
    BY <1>1
  <2>3. QED BY <1>1, <2>1, <2>2
<1>3. QED BY <1>1, <1>2

\* What is sound against the prefix is sound against the segment it is of.
LEMMA SoundInSegment ==
  ASSUME LedgerTypeOK, NEW s, IsSound(s, s.seen), IsPrefix(s.seen, raw.frames)
  PROVE  IsSound(s, raw.frames)
<1>1. s.seen \in Seq(Frames) /\ raw.frames \in Seq(Frames) /\ s \in Sources
  BY DEF LedgerTypeOK, IsSound, Sources
<1>2. Len(s.seen) <= Len(raw.frames) /\ \A k \in 1 .. Len(s.seen) : s.seen[k] = raw.frames[k]
  BY <1>1, PrefixIs
<1>3. ASSUME s.stage.is PROVE StagedFrom(s, raw.frames)
  <2>1. /\ s.offset \in Nat /\ s.stage.end \in Nat /\ s.offset <= s.stage.end /\ s.stage.end <= Len(s.seen)
        /\ Len(s.stage.items) = s.stage.end - s.offset
        /\ \A k \in 1 .. Len(s.stage.items) : s.stage.items[k].event = s.seen[s.offset + k].event
    BY <1>1, <1>3 DEF IsSound, StagedFrom, Sources, Stages
  <2>2. s.stage.items \in Seq(Items) /\ Len(s.seen) \in Nat /\ Len(raw.frames) \in Nat /\ Len(s.stage.items) \in Nat
    BY <1>1 DEF Sources, Stages
  <2>3. ASSUME NEW k \in 1 .. Len(s.stage.items) PROVE s.stage.items[k].event = raw.frames[s.offset + k].event
    <3>1. s.offset + k \in 1 .. Len(s.seen)
      BY <2>1, <2>2
    <3>2. QED BY <1>2, <2>1, <3>1
  <2>4. s.stage.end <= Len(raw.frames)
    BY <1>2, <2>1, <2>2
  <2>5. QED BY <2>1, <2>3, <2>4 DEF StagedFrom
<1>4. QED BY <1>3 DEF IsSound, StagedFrom

\* t is s with more gaps, whatever its generation.
MoreGaps(s, t) ==
  /\ t \in Sources
  /\ t.identity = s.identity /\ t.offset = s.offset /\ t.seen = s.seen /\ t.lossTold = s.lossTold
  /\ t.lossMark = s.lossMark /\ t.retirement = s.retirement /\ t.witness = s.witness
  /\ t.stage.end = s.stage.end /\ t.stage.items = s.stage.items /\ t.stage.loss = s.stage.loss
  /\ t.stage.is = s.stage.is /\ s.stage.gaps \subseteq t.stage.gaps

\* A source with more gaps is as sound.
LEMMA MoreGapsIsSound ==
  ASSUME NEW frames, NEW s, NEW t, IsSound(s, frames), MoreGaps(s, t)
  PROVE  IsSound(t, frames)
<1>1. CursorIsPassed(t) /\ StagedFrom(t, frames)
  BY DEF MoreGaps, IsSound, CursorIsPassed, StagedFrom
<1>2. Explained(t.stage)
  BY DEF MoreGaps, IsSound, Explained
<1>3. TailIsTold(t)
  BY DEF MoreGaps, IsSound, TailIsTold
<1>4. QED BY <1>1, <1>2, <1>3 DEF MoreGaps, IsSound

\* A new generation is of the same source.
LEMMA BumpIs ==
  ASSUME NEW s \in Sources
  PROVE  MoreGaps(s, Bump(s)) /\ Bump(s).generation = s.generation + 1 /\ Bump(s).stage = s.stage
<1>1. s.stage \in Stages /\ s.generation \in Nat
  BY DEF Sources
<1>2. Bump(s) \in Sources /\ Bump(s).generation = s.generation + 1
  BY <1>1 DEF Bump, Sources
<1>3. /\ Bump(s).identity = s.identity /\ Bump(s).offset = s.offset /\ Bump(s).seen = s.seen
      /\ Bump(s).lossTold = s.lossTold /\ Bump(s).lossMark = s.lossMark
      /\ Bump(s).retirement = s.retirement /\ Bump(s).witness = s.witness /\ Bump(s).stage = s.stage
  BY DEF Bump, Sources
<1>4. QED BY <1>2, <1>3 DEF MoreGaps

\* A gap that is added is there, under the id of its generation.
LEMMA AddGapIs ==
  ASSUME NEW s \in Sources, NEW reason \in Said
  PROVE  /\ MoreGaps(s, AddGap(s, reason)) /\ AddGap(s, reason).generation = s.generation
         /\ \E g \in AddGap(s, reason).stage.gaps : g[1] = reason
         /\ s.stage.gaps = {} => AddGap(s, reason).stage.gaps = {<<reason, s.generation>>}
<1>1. s.stage \in Stages /\ s.generation \in Nat
  BY DEF Sources
<1>2. CASE \E g \in s.stage.gaps : g[1] = reason
  <2>1. AddGap(s, reason) = s
    BY <1>2 DEF AddGap
  <2>2. QED BY <1>1, <1>2, <2>1 DEF MoreGaps
<1>3. CASE ~ \E g \in s.stage.gaps : g[1] = reason
  <2> DEFINE stage == [s.stage EXCEPT !.gaps = @ \cup {<<reason, s.generation>>}]
  <2>1. AddGap(s, reason) = [s EXCEPT !.stage = stage]
    BY <1>3 DEF AddGap
  <2>2. /\ stage \in Stages /\ stage.gaps = s.stage.gaps \cup {<<reason, s.generation>>} /\ stage.end = s.stage.end
        /\ stage.items = s.stage.items /\ stage.loss = s.stage.loss /\ stage.is = s.stage.is
    BY <1>1 DEF Stages, Gaps
  <2> HIDE DEF stage
  <2>3. /\ AddGap(s, reason) \in Sources /\ AddGap(s, reason).stage = stage
        /\ AddGap(s, reason).identity = s.identity /\ AddGap(s, reason).offset = s.offset
        /\ AddGap(s, reason).seen = s.seen /\ AddGap(s, reason).lossTold = s.lossTold
        /\ AddGap(s, reason).lossMark = s.lossMark /\ AddGap(s, reason).retirement = s.retirement
        /\ AddGap(s, reason).witness = s.witness /\ AddGap(s, reason).generation = s.generation
    BY <2>1, <2>2 DEF Sources
  <2>4. <<reason, s.generation>> \in stage.gaps /\ <<reason, s.generation>>[1] = reason
    BY <2>2
  <2>5. MoreGaps(s, AddGap(s, reason))
    BY <2>2, <2>3 DEF MoreGaps
  <2>6. QED BY <2>2, <2>3, <2>4, <2>5
<1>4. QED BY <1>2, <1>3

\* Gaps are added one after another.
LEMMA MoreGapsTwice ==
  ASSUME NEW s, NEW t, NEW u, MoreGaps(s, t), MoreGaps(t, u)
  PROVE  MoreGaps(s, u)
  BY DEF MoreGaps

\* An empty stage at place n holds nothing unexplained.
LEMMA EmptyStage ==
  ASSUME NEW stage, stage.items = <<>>
  PROVE  Explained(stage) /\ Len(stage.items) = 0
  BY DEF Explained

\* No retirement is a retirement of no phase.
LEMMA NoRetirementIs == NoRetirement \in Retirements /\ NoRetirement.phase = "no"
<1>1. <<"", 0>> \in Gaps
  BY DEF Gaps, Said
<1>2. QED BY <1>1 DEF NoRetirement, Retirements

\* An empty stage holds nothing.
LEMMA NoStageIs ==
  NoStage \in Stages /\ NoStage.items = <<>> /\ ~ NoStage.is /\ NoStage.end = 0 /\ NoStage.gaps = {} /\ ~ NoStage.loss
  BY DEF NoStage, Stages

\* A source that is new has gone past nothing.
LEMMA NewSourceIsSound == LedgerTypeOK => IsSound(NewSource, NewSource.seen) /\ NewSource # NoSource
<1> SUFFICES ASSUME LedgerTypeOK PROVE IsSound(NewSource, NewSource.seen) /\ NewSource # NoSource
  OBVIOUS
<1>1. NoStage \in Stages /\ NoStage.items = <<>> /\ ~ NoStage.is
  BY NoStageIs
<1>2. NoRetirement \in Retirements /\ NoRetirement.phase = "no"
  BY NoRetirementIs
<1>3. /\ NewSource \in Sources /\ NewSource.offset = 0 /\ NewSource.seen = <<>> /\ NewSource.stage = NoStage
      /\ NewSource.retirement = NoRetirement
  BY <1>1, <1>2 DEF NewSource, Sources, LedgerTypeOK
<1>4. IsSound(NewSource, NewSource.seen)
  BY <1>1, <1>2, <1>3, EmptyStage DEF IsSound, CursorIsPassed, StagedFrom, TailIsTold
<1>5. NewSource # NoSource
  <2>1. NewSource.offset = 0 /\ DOMAIN NewSource # DOMAIN NoSource
    BY DEF NewSource, NoSource
  <2>2. QED BY <2>1
<1>6. QED BY <1>4, <1>5

\* s with another retirement, none or told, and anything else that is not the
\* cursor's or the stage's.
LEMMA PlainFieldsAreSound ==
  ASSUME NEW frames, NEW s, NEW t, IsSound(s, frames), t \in Sources,
         t.offset = s.offset, t.seen = s.seen, t.stage = s.stage,
         t.retirement = s.retirement \/ t.retirement.phase = "no"
  PROVE  IsSound(t, frames)
  BY DEF IsSound, CursorIsPassed, StagedFrom, TailIsTold

\* The witness, the replaced segment, the marker and a stale retirement.
LEMMA ReplacementIsSound ==
  ASSUME LedgerTypeOK, NEW s, IsSound(s, s.seen)
  PROVE  IsSound(WithReplacement(s), raw.frames) /\ IsPrefix(WithReplacement(s).seen, raw.frames)
<1>1. s \in Sources /\ s.stage \in Stages /\ raw.frames \in Seq(Frames) /\ raw.id \in Nat
  BY DEF IsSound, Sources, LedgerTypeOK
<1>2. CASE IsPrefixOfRaw(s)
  BY <1>2, SoundInSegment DEF WithReplacement, IsPrefixOfRaw
<1>3. CASE ~ IsPrefixOfRaw(s)
  <2> DEFINE stage == [NoStage EXCEPT !.is = TRUE, !.gaps = s.stage.gaps, !.loss = s.stage.loss]
             fresh == [s EXCEPT !.offset = 0, !.seen = <<>>, !.identity = raw.id, !.retirement = NoRetirement,
                                !.stage = stage]
  <2>1. WithReplacement(s) = Bump(AddGap(fresh, "identity"))
    BY <1>3 DEF WithReplacement
  <2>2. stage \in Stages /\ stage.items = <<>> /\ stage.end = 0 /\ stage.is
    <3>1. NoStage \in Stages /\ s.stage.gaps \in SUBSET Gaps /\ s.stage.loss \in BOOLEAN
      BY <1>1, NoStageIs DEF Stages
    <3>2. stage \in Stages /\ stage.items = NoStage.items /\ stage.end = NoStage.end /\ stage.is
      BY <3>1 DEF Stages
    <3>3. QED BY <3>2, NoStageIs
  <2>3. NoRetirement \in Retirements /\ NoRetirement.phase = "no"
    BY NoRetirementIs
  <2> HIDE DEF stage
  <2>4. fresh \in Sources /\ fresh.offset = 0 /\ fresh.seen = <<>> /\ fresh.stage = stage /\ fresh.retirement = NoRetirement
    <3>1. <<>> \in Seq(Frames) /\ 0 \in Nat
      OBVIOUS
    <3>2. QED BY <1>1, <2>2, <2>3, <3>1 DEF Sources
  <2> HIDE DEF fresh
  <2>5. IsSound(fresh, raw.frames)
    <3>1. Explained(fresh.stage) /\ Len(fresh.stage.items) = 0
      BY <2>2, <2>4, EmptyStage
    <3>2. CursorIsPassed(fresh) /\ TailIsTold(fresh)
      BY <2>3, <2>4 DEF CursorIsPassed, TailIsTold
    <3>3. StagedFrom(fresh, raw.frames)
      BY <1>1, <2>2, <2>4, <3>1 DEF StagedFrom
    <3>4. QED BY <2>4, <3>1, <3>2, <3>3 DEF IsSound
  <2>6. MoreGaps(fresh, AddGap(fresh, "identity")) /\ AddGap(fresh, "identity") \in Sources
    <3>1. "identity" \in Said
      BY DEF Said
    <3>2. QED BY <2>4, <3>1, AddGapIs DEF MoreGaps
  <2>7. MoreGaps(fresh, WithReplacement(s))
    BY <2>1, <2>6, BumpIs, MoreGapsTwice
  <2>8. IsPrefix(<<>>, raw.frames)
    BY <1>1 DEF IsPrefix
  <2>9. QED BY <2>4, <2>5, <2>7, <2>8, MoreGapsIsSound DEF MoreGaps
<1>4. QED BY <1>2, <1>3

\* Sound, and checked against the segment.
IsReady(s) == IsSound(s, raw.frames) /\ IsPrefix(s.seen, raw.frames)

SameFields(s, t) ==
  /\ t.identity = s.identity /\ t.offset = s.offset /\ t.seen = s.seen /\ t.lossTold = s.lossTold
  /\ t.lossMark = s.lossMark /\ t.retirement = s.retirement /\ t.witness = s.witness /\ t.generation = s.generation

\* A source with another stage is itself otherwise.
LEMMA NewStageIs ==
  ASSUME NEW s \in Sources, NEW stage \in Stages
  PROVE  /\ [s EXCEPT !.stage = stage] \in Sources /\ [s EXCEPT !.stage = stage].stage = stage
         /\ SameFields(s, [s EXCEPT !.stage = stage])
<1> DEFINE t == [s EXCEPT !.stage = stage]
<1>1. t \in Sources /\ t.stage = stage
  BY DEF Sources
<1>2. /\ t.identity = s.identity /\ t.offset = s.offset /\ t.seen = s.seen /\ t.lossTold = s.lossTold
      /\ t.lossMark = s.lossMark /\ t.retirement = s.retirement /\ t.witness = s.witness /\ t.generation = s.generation
  BY DEF Sources
<1>3. QED BY <1>1, <1>2 DEF SameFields

\* A source with another retirement is itself otherwise.
LEMMA NewRetirementIs ==
  ASSUME NEW s \in Sources, NEW r \in Retirements
  PROVE  /\ [s EXCEPT !.retirement = r] \in Sources /\ [s EXCEPT !.retirement = r].retirement = r
         /\ [s EXCEPT !.retirement = r].stage = s.stage /\ [s EXCEPT !.retirement = r].offset = s.offset
         /\ [s EXCEPT !.retirement = r].seen = s.seen
  BY DEF Sources

\* A new loss marker leaves the source ready.
LEMMA MarkerIsReady ==
  ASSUME LedgerTypeOK, NEW s, IsReady(s)
  PROVE  IsReady(WithMarker(s))
<1>1. s \in Sources /\ mark \in Nat
  BY DEF IsReady, IsSound, LedgerTypeOK
<1>2. CASE mark = 0 \/ mark = s.lossMark
  BY <1>2 DEF WithMarker
<1>3. CASE ~ (mark = 0 \/ mark = s.lossMark)
  <2> DEFINE t == [s EXCEPT !.lossTold = FALSE, !.lossMark = mark, !.retirement = NoRetirement]
  <2>1. WithMarker(s) = t
    BY <1>3 DEF WithMarker
  <2>2. /\ t \in Sources /\ t.offset = s.offset /\ t.seen = s.seen /\ t.stage = s.stage
        /\ t.retirement = NoRetirement
    BY <1>1, NoRetirementIs DEF Sources
  <2> HIDE DEF t
  <2>3. QED BY <2>1, <2>2, NoRetirementIs, PlainFieldsAreSound DEF IsReady
<1>4. QED BY <1>2, <1>3

\* A retirement that is dropped leaves the source ready.
LEMMA NoStaleRetirementIsReady ==
  ASSUME LedgerTypeOK, NEW s, IsReady(s)
  PROVE  IsReady(WithoutStaleRetirement(s))
<1>1. s \in Sources
  BY DEF IsReady, IsSound
<1>2. CASE s.retirement.phase = "raw-removed" \/ s.offset # Len(raw.frames)
  <2>1. WithoutStaleRetirement(s) = [s EXCEPT !.retirement = NoRetirement]
    BY <1>2 DEF WithoutStaleRetirement
  <2> DEFINE t == [s EXCEPT !.retirement = NoRetirement]
  <2>2. /\ t \in Sources /\ t.retirement = NoRetirement /\ t.stage = s.stage /\ t.offset = s.offset
        /\ t.seen = s.seen
    BY <1>1, NewRetirementIs, NoRetirementIs
  <2> HIDE DEF t
  <2>3. IsSound(t, raw.frames)
    BY <2>2, NoRetirementIs, PlainFieldsAreSound DEF IsReady
  <2>4. QED BY <2>1, <2>2, <2>3 DEF IsReady, t
<1>3. CASE ~ (s.retirement.phase = "raw-removed" \/ s.offset # Len(raw.frames))
  BY <1>3 DEF WithoutStaleRetirement
<1>4. QED BY <1>2, <1>3

\* A new stage at the cursor.
Opened(s) == [s EXCEPT !.stage = [NoStage EXCEPT !.is = TRUE, !.end = s.offset]]

\* A stage that is opened holds nothing, and is at its place.
LEMMA FreshStageIs ==
  ASSUME NEW n \in Nat
  PROVE  LET stage == [NoStage EXCEPT !.is = TRUE, !.end = n] IN
         stage \in Stages /\ stage.items = <<>> /\ stage.end = n /\ stage.is /\ stage.gaps = {}
<1> DEFINE stage == [NoStage EXCEPT !.is = TRUE, !.end = n]
<1>1. stage \in Stages /\ stage.items = NoStage.items /\ stage.end = n /\ stage.is /\ stage.gaps = NoStage.gaps
  BY NoStageIs DEF Stages
<1>2. QED BY <1>1, NoStageIs

\* A stage that is opened at the cursor leaves the source ready.
LEMMA OpenedIsReady ==
  ASSUME LedgerTypeOK, NEW s, IsReady(s), ~ s.stage.is
  PROVE  /\ IsReady(Opened(s)) /\ Opened(s).stage.is /\ Opened(s).stage.gaps = {}
         /\ SameFields(s, Opened(s))
<1> DEFINE stage == [NoStage EXCEPT !.is = TRUE, !.end = s.offset]
<1>1. s \in Sources /\ s.offset \in Nat /\ raw.frames \in Seq(Frames) /\ s.seen \in Seq(Frames)
  BY DEF IsReady, IsSound, Sources, LedgerTypeOK
<1>2. /\ stage \in Stages /\ stage.items = <<>> /\ stage.end = s.offset /\ stage.is /\ stage.gaps = {}
  BY <1>1, FreshStageIs
<1> HIDE DEF stage
<1>3. Opened(s) \in Sources /\ Opened(s).stage = stage /\ SameFields(s, Opened(s))
  BY <1>1, <1>2, NewStageIs DEF Opened, stage
<1>4. s.offset <= Len(raw.frames)
  <2>1. Len(s.seen) <= Len(raw.frames)
    BY <1>1, PrefixIs DEF IsReady
  <2>2. s.offset <= Len(s.seen)
    BY DEF IsReady, IsSound, CursorIsPassed
  <2>3. QED BY <1>1, <2>1, <2>2
<1>5. Explained(stage) /\ Len(stage.items) = 0
  BY <1>2, EmptyStage
<1>6. StagedFrom(Opened(s), raw.frames)
  BY <1>1, <1>2, <1>3, <1>4, <1>5 DEF StagedFrom, SameFields
<1>7. TailIsTold(Opened(s)) /\ CursorIsPassed(Opened(s))
  BY <1>3 DEF TailIsTold, CursorIsPassed, SameFields, IsReady, IsSound
<1>8. IsSound(Opened(s), raw.frames)
  BY <1>3, <1>5, <1>6, <1>7 DEF IsSound
<1>9. IsReady(Opened(s))
  BY <1>3, <1>8 DEF IsReady, SameFields
<1>10. QED BY <1>2, <1>3, <1>9

\* A source with more gaps is as ready.
LEMMA MoreGapsIsReady ==
  ASSUME NEW s, NEW t, IsReady(s), MoreGaps(s, t)
  PROVE  IsReady(t)
<1>1. IsSound(t, raw.frames)
  BY MoreGapsIsSound DEF IsReady
<1>2. QED BY <1>1 DEF IsReady, MoreGaps

\* A tail is opened when there is no other retirement.
LEMMA TailIsReady ==
  ASSUME LedgerTypeOK, NEW s, IsReady(s), ~ s.stage.is
  PROVE  IsReady(WithTail(s)) /\ WithTail(s).stage.is
<1> DEFINE t == AddGap(Opened(s), "reclaimed")
           id == <<"reclaimed", s.generation>>
           r == [phase |-> "pending", id |-> id, mark |-> mark]
<1>1. s \in Sources /\ s.generation \in Nat /\ mark \in Nat
  BY DEF IsReady, IsSound, Sources, LedgerTypeOK
<1>2. /\ IsReady(Opened(s)) /\ Opened(s).stage.is /\ Opened(s).stage.gaps = {} /\ SameFields(s, Opened(s))
      /\ Opened(s) \in Sources
  BY OpenedIsReady DEF IsReady, IsSound
<1>3. "reclaimed" \in Said
  BY DEF Said
<1>4. MoreGaps(Opened(s), t) /\ t.stage.gaps = {id}
  BY <1>2, <1>3, AddGapIs DEF SameFields
<1>5. IsReady(t) /\ t.stage.is /\ t \in Sources
  BY <1>2, <1>4, MoreGapsIsReady DEF MoreGaps
<1>6. id \in Gaps /\ id[1] = "reclaimed" /\ r \in Retirements /\ r.phase = "pending" /\ r.id = id
  BY <1>1, <1>3 DEF Gaps, Retirements
<1>7. WithTail(s) = [t EXCEPT !.retirement = r]
  BY DEF WithTail, Opened
<1> HIDE DEF t, r, id
<1> DEFINE u == [t EXCEPT !.retirement = r]
<1>8. u \in Sources /\ u.retirement = r /\ u.stage = t.stage /\ u.offset = t.offset /\ u.seen = t.seen
  BY <1>5, <1>6, NewRetirementIs
<1> HIDE DEF u
<1>9. TailIsTold(u)
  BY <1>4, <1>5, <1>6, <1>8 DEF TailIsTold
<1>10. IsSound(u, raw.frames)
  BY <1>5, <1>8, <1>9 DEF IsReady, IsSound, CursorIsPassed, StagedFrom
<1>11. QED BY <1>5, <1>7, <1>8, <1>10 DEF IsReady, u

\* A stage, opened or kept, and told of a loss leaves the source ready.
LEMMA StageIsReady ==
  ASSUME LedgerTypeOK, NEW s, IsReady(s)
  PROVE  IsReady(WithStage(s)) /\ WithStage(s).stage.is
<1> DEFINE t == IF s.stage.is THEN s ELSE Opened(s)
           withGap == [t EXCEPT !.stage.loss = TRUE]
<1>1. IsReady(t) /\ t.stage.is /\ t \in Sources
  <2>1. CASE s.stage.is
    BY <2>1 DEF IsReady, IsSound
  <2>2. CASE ~ s.stage.is
    BY <2>2, OpenedIsReady DEF IsReady, IsSound
  <2>3. QED BY <2>1, <2>2
<1>2. WithStage(s) = IF mark # 0 /\ ~t.lossTold /\ ~t.stage.loss THEN AddGap(withGap, "producer_loss") ELSE t
  BY DEF WithStage, Opened
<1> HIDE DEF t
<1>3. withGap \in Sources /\ IsReady(withGap) /\ withGap.stage.is
  <2> DEFINE stage == [t.stage EXCEPT !.loss = TRUE]
  <2>1. t.stage \in Stages
    BY <1>1 DEF Sources
  <2>2. withGap = [t EXCEPT !.stage = stage]
    OBVIOUS
  <2>3. stage \in Stages /\ stage.items = t.stage.items /\ stage.gaps = t.stage.gaps /\ stage.end = t.stage.end /\ stage.is
    BY <1>1, <2>1 DEF Stages
  <2> HIDE DEF stage, withGap
  <2>4. withGap \in Sources /\ withGap.stage = stage /\ SameFields(t, withGap)
    BY <1>1, <2>2, <2>3, NewStageIs
  <2>5. IsSound(withGap, raw.frames)
    <3>1. Explained(withGap.stage) /\ CursorIsPassed(withGap)
      BY <1>1, <2>3, <2>4, ZenonT(30) DEF IsReady, IsSound, Explained, CursorIsPassed, SameFields
    <3>2. TailIsTold(withGap)
      BY <1>1, <2>3, <2>4 DEF IsReady, IsSound, TailIsTold, SameFields
    <3>3. StagedFrom(withGap, raw.frames)
      BY <1>1, <2>3, <2>4 DEF IsReady, IsSound, StagedFrom, SameFields
    <3>4. QED BY <2>4, <3>1, <3>2, <3>3 DEF IsSound
  <2>6. QED BY <1>1, <2>3, <2>4, <2>5 DEF IsReady, SameFields
<1> HIDE DEF withGap
<1>4. "producer_loss" \in Said
  BY DEF Said
<1>5. IsReady(AddGap(withGap, "producer_loss")) /\ AddGap(withGap, "producer_loss").stage.is
  <2>1. MoreGaps(withGap, AddGap(withGap, "producer_loss"))
    BY <1>3, <1>4, AddGapIs
  <2>2. QED BY <1>3, <2>1, MoreGapsIsReady DEF MoreGaps
<1>6. QED BY <1>1, <1>2, <1>5

\* The items of a stage reworded, and what is no longer sent explained by one gap.
LEMMA RewordedIsSound ==
  ASSUME NEW frames, NEW s, NEW t, NEW u, IsSound(s, frames),
         t \in Sources, SameFields(s, t), t.stage.end = s.stage.end, t.stage.is = s.stage.is,
         Len(t.stage.items) = Len(s.stage.items),
         \A k \in 1 .. Len(s.stage.items) : t.stage.items[k].event = s.stage.items[k].event,
         TailIsTold(t), Explained(u.stage), MoreGaps(t, u)
  PROVE  IsSound(u, frames)
<1>1. s.stage.items \in Seq(Items) /\ t.stage.items \in Seq(Items)
  BY DEF IsSound, Sources, Stages
<1>2. CursorIsPassed(t)
  BY DEF IsSound, CursorIsPassed, SameFields
<1>3. StagedFrom(t, frames)
  BY <1>1 DEF IsSound, StagedFrom, SameFields
<1>4. CursorIsPassed(u) /\ StagedFrom(u, frames) /\ TailIsTold(u) /\ u \in Sources
  BY <1>2, <1>3 DEF MoreGaps, CursorIsPassed, StagedFrom, TailIsTold
<1>5. QED BY <1>4 DEF IsSound

\* Events that expired in the stage are explained by its gap.
LEMMA ExpiryIsReady ==
  ASSUME LedgerTypeOK, NEW s, IsReady(s), s.stage.is
  PROVE  IsReady(WithExpiry(s)) /\ WithExpiry(s).stage.is
<1> DEFINE late(i) == i.reason = "" /\ i.event \in expired
           old == s.stage.items
           items == [k \in DOMAIN old |-> IF late(old[k]) THEN [old[k] EXCEPT !.reason = "expired"] ELSE old[k]]
           stage == [s.stage EXCEPT !.items = items]
           t == [s EXCEPT !.stage = stage]
           u == Bump(AddGap(t, "expired"))
<1>1. s \in Sources /\ s.stage \in Stages /\ old \in Seq(Items)
  BY DEF IsReady, IsSound, Sources, Stages
<1>2. CASE ~ \E k \in DOMAIN old : late(old[k])
  BY <1>2 DEF WithExpiry
<1>3. CASE \E k \in DOMAIN old : late(old[k])
  <2>1. WithExpiry(s) = u
    BY <1>3 DEF WithExpiry
  <2>2. "expired" \in Said
    BY DEF Said
  <2>3. /\ items \in Seq(Items) /\ Len(items) = Len(old)
        /\ \A k \in 1 .. Len(old) : items[k].event = old[k].event
        /\ \A k \in 1 .. Len(old) : items[k].reason = old[k].reason \/ items[k].reason = "expired"
    <3>1. DOMAIN old = 1 .. Len(old) /\ Len(old) \in Nat
      BY <1>1
    <3>2. ASSUME NEW k \in 1 .. Len(old)
          PROVE  /\ items[k] \in Items /\ items[k].event = old[k].event
                 /\ items[k].reason = old[k].reason \/ items[k].reason = "expired"
      <4>1. old[k] \in Items
        BY <1>1
      <4>2. items[k] = IF late(old[k]) THEN [old[k] EXCEPT !.reason = "expired"] ELSE old[k]
        BY <3>1
      <4>3. [old[k] EXCEPT !.reason = "expired"] \in Items /\ [old[k] EXCEPT !.reason = "expired"].event = old[k].event
            /\ [old[k] EXCEPT !.reason = "expired"].reason = "expired"
        BY <4>1, <2>2 DEF Items
      <4>4. QED BY <4>1, <4>2, <4>3
    <3>3. items \in [1 .. Len(old) -> Items]
      BY <3>1, <3>2
    <3>4. items \in Seq(Items) /\ Len(items) = Len(old)
      <4> HIDE DEF items
      <4>1. DOMAIN items = 1 .. Len(old)
        BY <3>3
      <4>2. QED BY <3>1, <3>3, <4>1
    <3>5. QED BY <3>2, <3>4
  <2> HIDE DEF items
  <2>4. stage \in Stages /\ stage.items = items /\ stage.gaps = s.stage.gaps /\ stage.end = s.stage.end /\ stage.is = s.stage.is
    BY <1>1, <2>3 DEF Stages
  <2> HIDE DEF stage
  <2>5. t \in Sources /\ t.stage = stage /\ SameFields(s, t)
    BY <1>1, <2>4, NewStageIs
  <2> HIDE DEF t
  <2>6. /\ MoreGaps(t, AddGap(t, "expired")) /\ \E g \in AddGap(t, "expired").stage.gaps : g[1] = "expired"
    BY <2>2, <2>5, AddGapIs
  <2>7. MoreGaps(t, u) /\ u.stage = AddGap(t, "expired").stage
    <3>1. AddGap(t, "expired") \in Sources
      BY <2>6 DEF MoreGaps
    <3>2. QED BY <2>6, <3>1, BumpIs, MoreGapsTwice
  <2> HIDE DEF u
  <2>8. Explained(u.stage)
    <3>1. u.stage.items = items /\ s.stage.gaps \subseteq u.stage.gaps
      BY <2>4, <2>5, <2>7 DEF MoreGaps
    <3>2. DOMAIN items = 1 .. Len(old)
      BY <2>3
    <3>3. DOMAIN old = 1 .. Len(old)
      BY <1>1
    <3>4. ASSUME NEW k \in 1 .. Len(old), items[k].reason # ""
          PROVE  \E g \in u.stage.gaps : g[1] \in {items[k].reason, "gap_conflict"}
      <4>1. CASE items[k].reason = "expired"
        BY <2>6, <2>7, <4>1
      <4>2. CASE items[k].reason = old[k].reason
        BY <3>1, <3>3, <3>4, <4>2 DEF IsReady, IsSound, Explained
      <4>3. QED BY <2>3, <4>1, <4>2
    <3>5. QED BY <3>1, <3>2, <3>4 DEF Explained
  <2>9. TailIsTold(t)
    BY <2>4, <2>5 DEF IsReady, IsSound, TailIsTold, SameFields
  <2>10. IsSound(u, raw.frames)
    BY <2>3, <2>4, <2>5, <2>7, <2>8, <2>9, RewordedIsSound DEF IsReady
  <2>11. u.seen = s.seen /\ u.stage.is = s.stage.is
    BY <2>4, <2>5, <2>7 DEF MoreGaps, SameFields
  <2>12. QED BY <2>1, <2>10, <2>11 DEF IsReady
<1>4. QED BY <1>2, <1>3

\* What the stage is filled with are the frames at the cursor, explained.
LEMMA ItemsAreReady ==
  ASSUME LedgerTypeOK, NEW s, IsReady(s), s.stage.is
  PROVE  IsReady(WithItems(s)) /\ WithItems(s).stage.is
<1> DEFINE off == s.offset
           last == IF Len(raw.frames) < off + BatchLimit THEN Len(raw.frames) ELSE off + BatchLimit
           items == [k \in 1 .. (last - off) |->
                       [event |-> raw.frames[off + k].event, reason |-> ReasonOf(raw.frames[off + k])]]
           why == {items[k].reason : k \in DOMAIN items} \ {""}
           gaps == s.stage.gaps \cup {<<r, s.generation>> : r \in why \ Reasons(s.stage)}
           stage == [s.stage EXCEPT !.items = items, !.end = last, !.gaps = gaps]
           t == [s EXCEPT !.stage = stage]
<1>1. /\ s \in Sources /\ s.stage \in Stages /\ s.stage.gaps \subseteq Gaps /\ off \in Nat /\ s.generation \in Nat
      /\ raw.frames \in Seq(Frames) /\ BatchLimit \in Nat
  BY LedgerAssumption DEF IsReady, IsSound, Sources, Stages, LedgerTypeOK
<1>2. CASE s.retirement.phase # "no" \/ s.stage.items # <<>> \/ s.stage.end # s.offset
  BY <1>2 DEF WithItems
<1>3. CASE ~ (s.retirement.phase # "no" \/ s.stage.items # <<>> \/ s.stage.end # s.offset)
  <2>1. WithItems(s) = t
    <3>1. WithItems(s) = [[s EXCEPT !.stage.items = items, !.stage.end = last] EXCEPT !.stage.gaps = @ \cup {<<r, s.generation>> : r \in why \ Reasons(s.stage)}]
      BY <1>3 DEF WithItems
    <3> HIDE DEF items, last, why
    <3>2. QED BY <1>1, <3>1 DEF Sources, Stages
  <2>2. off <= Len(raw.frames)
    BY <1>1, <1>3 DEF IsReady, IsSound, StagedFrom
  <2>3. last \in Nat /\ off <= last /\ last <= Len(raw.frames) /\ last - off \in Nat
    BY <1>1, <2>2
  <2> HIDE DEF last
  <2>4. ASSUME NEW k \in 1 .. (last - off)
        PROVE  items[k] \in Items /\ items[k].event = raw.frames[off + k].event
    <3>1. off + k \in 1 .. Len(raw.frames)
      BY <1>1, <2>3
    <3>2. raw.frames[off + k] \in Frames
      BY <1>1, <3>1
    <3>3. ReasonOf(raw.frames[off + k]) \in Said
      BY DEF ReasonOf, Said
    <3>4. QED BY <3>2, <3>3 DEF Items, Frames
  <2>5. items \in [1 .. (last - off) -> Items] /\ DOMAIN items = 1 .. (last - off)
    BY <2>4
  <2>6. items \in Seq(Items) /\ Len(items) = last - off
    <3> HIDE DEF items
    <3>1. QED BY <2>3, <2>5
  <2> HIDE DEF items
  <2>7. why \subseteq Said
    BY <2>4, <2>5 DEF Items
  <2>8. gaps \subseteq Gaps
    <3>1. \A r \in why : <<r, s.generation>> \in Gaps
      BY <1>1, <2>7 DEF Gaps
    <3> HIDE DEF why
    <3>2. QED BY <1>1, <3>1
  <2>9. Explained([items |-> items, gaps |-> gaps])
    <3>1. ASSUME NEW k \in DOMAIN items, items[k].reason # ""
          PROVE  \E g \in gaps : g[1] = items[k].reason
      <4>1. items[k].reason \in why
        BY <3>1
      <4> HIDE DEF why
      <4>2. CASE items[k].reason \in Reasons(s.stage)
        BY <4>2 DEF Reasons
      <4>3. CASE items[k].reason \notin Reasons(s.stage)
        <5>1. <<items[k].reason, s.generation>> \in gaps
          BY <4>1, <4>3
        <5>2. QED BY <5>1
      <4>4. QED BY <4>2, <4>3
    <3>2. QED BY <3>1 DEF Explained
  <2> HIDE DEF gaps
  <2>10. stage \in Stages /\ stage.items = items /\ stage.gaps = gaps /\ stage.end = last /\ stage.is = s.stage.is
    BY <1>1, <2>3, <2>6, <2>8 DEF Stages
  <2> HIDE DEF stage
  <2>11. t \in Sources /\ t.stage = stage /\ SameFields(s, t)
    BY <1>1, <2>10, NewStageIs
  <2> HIDE DEF t
  <2>12. IsSound(t, raw.frames)
    <3>1. Explained(t.stage)
      BY <2>9, <2>10, <2>11 DEF Explained
    <3>2. CursorIsPassed(t)
      BY <2>11 DEF IsReady, IsSound, CursorIsPassed, SameFields
    <3>3. TailIsTold(t)
      BY <1>3, <2>11 DEF TailIsTold, SameFields
    <3>4. StagedFrom(t, raw.frames)
      BY <1>1, <2>3, <2>4, <2>6, <2>10, <2>11 DEF StagedFrom, SameFields
    <3>5. QED BY <2>11, <3>1, <3>2, <3>3, <3>4 DEF IsSound
  <2>13. QED BY <2>1, <2>10, <2>11, <2>12 DEF IsReady, SameFields
<1>4. QED BY <1>2, <1>3

\* The prefix that is saved holds what is staged.
LEMMA PrefixIsSound ==
  ASSUME LedgerTypeOK, NEW s, IsReady(s), s.stage.is
  PROVE  IsSound(WithPrefix(s), WithPrefix(s).seen)
<1>1. /\ s \in Sources /\ s.offset \in Nat /\ s.seen \in Seq(Frames) /\ raw.frames \in Seq(Frames)
      /\ s.stage.end \in Nat /\ s.stage.items \in Seq(Items)
  BY DEF IsReady, IsSound, Sources, Stages, LedgerTypeOK
<1>2. Len(s.seen) <= Len(raw.frames) /\ \A k \in 1 .. Len(s.seen) : s.seen[k] = raw.frames[k]
  BY <1>1, PrefixIs DEF IsReady
<1>3. /\ s.offset <= s.stage.end /\ s.stage.end <= Len(raw.frames) /\ Len(s.stage.items) = s.stage.end - s.offset
      /\ \A k \in 1 .. Len(s.stage.items) : s.stage.items[k].event = raw.frames[s.offset + k].event
  BY DEF IsReady, IsSound, StagedFrom
<1>4. s.offset <= Len(s.seen) /\ \A k \in 1 .. s.offset : \E p \in passed : p[1] = s.seen[k].event
  BY DEF IsReady, IsSound, CursorIsPassed
<1>5. ASSUME NEW t, t \in Sources, t.offset = s.offset, t.stage = s.stage, t.retirement = s.retirement,
             s.stage.end <= Len(t.seen), \A k \in 1 .. Len(t.seen) : t.seen[k] = raw.frames[k]
      PROVE  IsSound(t, t.seen)
  <2>1. t.seen \in Seq(Frames) /\ Len(t.seen) \in Nat
    BY <1>5 DEF Sources
  <2>2. ASSUME NEW k \in 1 .. t.offset PROVE \E p \in passed : p[1] = t.seen[k].event
    <3>1. k \in 1 .. Len(s.seen) /\ k \in 1 .. Len(t.seen) /\ k \in 1 .. s.offset
      BY <1>1, <1>3, <1>4, <1>5, <2>1
    <3>2. t.seen[k] = s.seen[k]
      BY <1>2, <1>5, <3>1
    <3>3. QED BY <1>4, <3>1, <3>2
  <2>3. CursorIsPassed(t)
    BY <1>1, <1>3, <1>5, <2>1, <2>2 DEF CursorIsPassed
  <2>4. ASSUME NEW k \in 1 .. Len(t.stage.items) PROVE t.stage.items[k].event = t.seen[t.offset + k].event
    <3>1. t.offset + k \in 1 .. Len(t.seen)
      BY <1>1, <1>3, <1>5, <2>1
    <3>2. QED BY <1>3, <1>5, <3>1
  <2>5. StagedFrom(t, t.seen)
    BY <1>3, <1>5, <2>4 DEF StagedFrom
  <2>6. Explained(t.stage) /\ TailIsTold(t)
    BY <1>5 DEF IsReady, IsSound, TailIsTold
  <2>7. QED BY <1>5, <2>3, <2>5, <2>6 DEF IsSound
<1>6. CASE s.stage.end > Len(s.seen)
  <2> DEFINE seen == SubSeq(raw.frames, 1, s.stage.end)
             t == [s EXCEPT !.seen = seen]
  <2>1. WithPrefix(s) = t
    BY <1>6 DEF WithPrefix
  <2>2. seen \in Seq(Frames) /\ Len(seen) = s.stage.end /\ \A k \in 1 .. Len(seen) : seen[k] = raw.frames[k]
    BY <1>1, <1>3
  <2> HIDE DEF seen
  <2>3. t \in Sources /\ t.seen = seen /\ t.offset = s.offset /\ t.stage = s.stage /\ t.retirement = s.retirement
    BY <1>1, <2>2 DEF Sources
  <2> HIDE DEF t
  <2>4. QED BY <1>1, <1>5, <2>1, <2>2, <2>3, SMTT(30)
<1>7. CASE ~ (s.stage.end > Len(s.seen))
  <2>1. WithPrefix(s) = s
    BY <1>7 DEF WithPrefix
  <2>2. s.stage.end <= Len(s.seen)
    BY <1>1, <1>7
  <2>3. QED BY <1>1, <1>2, <1>5, <2>1, <2>2
<1>8. QED BY <1>6, <1>7

\* A token is of the staged events and gaps.
LEMMA TokenIs ==
  ASSUME NEW s \in Sources
  PROVE  EventsOf(s) \subseteq Nat /\ TokenOf(s).events = EventsOf(s) /\ TokenOf(s).gaps = s.stage.gaps
         /\ TokenOf(s).gaps \subseteq Gaps
<1>1. s.stage.items \in Seq(Items) /\ s.stage.gaps \subseteq Gaps
  BY DEF Sources, Stages
<1>2. \A k \in DOMAIN s.stage.items : s.stage.items[k] \in Items
  BY <1>1
<1>3. EventsOf(s) \subseteq Nat
  BY <1>2 DEF EventsOf, Items
<1>4. QED BY <1>1, <1>3 DEF TokenOf

\* A source is not the lack of one.
LEMMA SourceIsNotNone == ASSUME NEW s \in Sources PROVE s # NoSource
<1>1. DOMAIN NoSource = {"identity"} /\ "offset" \in DOMAIN s
  BY DEF Sources, NoSource
<1>2. QED BY <1>1

\* What is saved is the source, and a floor.
LEMMA SavedIs ==
  ASSUME LedgerTypeOK, NEW s \in Sources, Saved(s)
  PROVE  checkpoint' = [source |-> checkpoint'.source, floor |-> checkpoint'.floor] /\ checkpoint'.floor \in Nat /\ checkpoint'.source = s
  BY DEF Saved, Sources, LedgerTypeOK

\* A source that was sound is, while the dashboard and the history only grow.
LEMMA SourceStays ==
  ASSUME SourceIsSound, checkpoint' = checkpoint, dashboard.gaps \subseteq dashboard'.gaps, passed \subseteq passed'
  PROVE  SourceIsSound'
  BY DEF SourceIsSound, IsSound, CursorIsPassed, TailIsTold

\* A source that is sound is saved as a sound one.
LEMMA SourceIsSaved ==
  ASSUME LedgerTypeOK, NEW s, IsSound(s, s.seen), Saved(s), UNCHANGED <<dashboard, passed>>
  PROVE  SourceIsSound'
<1>1. checkpoint'.source = s
  BY SavedIs DEF IsSound
<1>2. QED BY <1>1 DEF SourceIsSound, IsSound, CursorIsPassed, TailIsTold

\* A read keeps the invariant, whatever it finds and stages.
LEMMA ReadKeeps ==
  ASSUME LedgerInv, NEW e \in Envs, ReadBatch(e)
  PROVE  LedgerInv'
<1> DEFINE s == IF checkpoint.source = NoSource THEN NewSource ELSE checkpoint.source
           look(seen) == [s EXCEPT !.witness = seen]
           t(seen) == WithoutStaleRetirement(WithMarker(WithReplacement(look(seen))))
           open(seen) == WithStage(IF IsIdle(t(seen)) THEN WithTail(t(seen)) ELSE t(seen))
           u(seen) == WithPrefix(WithItems(WithExpiry(open(seen))))
<1> USE DEF LedgerInv
<1>1. UNCHANGED <<rawVars, reclaiming, dashboard, passed, reclaimed, hitches>> /\ reclaiming.by = "nobody" /\ passes[e].at = "no"
  BY DEF ReadBatch, InTransaction
<1>2. PICK seen \in {s.witness, agentLives \/ s.witness} :
        IF IsIdle(t(seen)) /\ (t(seen).retirement.phase # "no" \/ ~Ended(t(seen)))
        THEN passes' = passes /\ (Saved(t(seen)) \/ UNCHANGED checkpoint)
        ELSE Saved(u(seen)) /\ passes' = [passes EXCEPT ![e] = [at |-> "send", token |-> TokenOf(u(seen))]]
  BY DEF ReadBatch
<1>3. IsSound(s, s.seen)
  BY NewSourceIsSound DEF SourceIsSound
<1> HIDE DEF s
<1>4. seen \in BOOLEAN
  BY <1>3 DEF IsSound, Sources, LedgerTypeOK
<1>5. IsSound(look(seen), look(seen).seen)
  <2>1. /\ look(seen) \in Sources /\ look(seen).offset = s.offset /\ look(seen).seen = s.seen
        /\ look(seen).stage = s.stage /\ look(seen).retirement = s.retirement
    BY <1>3, <1>4 DEF IsSound, Sources
  <2>2. QED BY <1>3, <2>1, PlainFieldsAreSound
<1>6. IsReady(t(seen))
  <2>1. IsReady(WithReplacement(look(seen)))
    BY <1>5, ReplacementIsSound DEF IsReady
  <2>2. QED BY <2>1, MarkerIsReady, NoStaleRetirementIsReady
<1>7. CASE IsIdle(t(seen)) /\ (t(seen).retirement.phase # "no" \/ ~Ended(t(seen)))
  <2>1. passes' = passes /\ (Saved(t(seen)) \/ UNCHANGED checkpoint)
    BY <1>2, <1>7
  <2>2. IsSound(t(seen), t(seen).seen)
    BY <1>6, <1>7 DEF IsIdle, IsReady, IsSound, StagedFrom
  <2>3. t(seen) \in Sources
    BY <2>2 DEF IsSound
  <2> HIDE DEF t
  <2>4. LedgerTypeOK'
    BY <1>1, <2>1, <2>3, SavedIs DEF LedgerTypeOK, rawVars
  <2>5. SourceIsSound'
    BY <1>1, <2>1, <2>2, SourceIsSaved, SourceStays
  <2>6. AnswersAreTrue' /\ PassedIsTold' /\ ReclaimsTheEnded' /\ ReclaimedIsTold'
    BY <1>1, <2>1 DEF AnswersAreTrue, PassedIsTold, ReclaimsTheEnded, ReclaimedIsTold, rawVars
  <2>7. QED BY <2>4, <2>5, <2>6
<1>8. CASE ~ (IsIdle(t(seen)) /\ (t(seen).retirement.phase # "no" \/ ~Ended(t(seen))))
  <2>1. Saved(u(seen)) /\ passes' = [passes EXCEPT ![e] = [at |-> "send", token |-> TokenOf(u(seen))]]
    BY <1>2, <1>8
  <2>2. IsReady(open(seen)) /\ open(seen).stage.is
    <3>1. IsReady(IF IsIdle(t(seen)) THEN WithTail(t(seen)) ELSE t(seen))
      <4> HIDE DEF t
      <4>1. CASE IsIdle(t(seen))
        BY <1>6, <4>1, TailIsReady DEF IsIdle
      <4>2. CASE ~ IsIdle(t(seen))
        BY <1>6, <4>2
      <4>3. QED BY <4>1, <4>2
    <3>2. QED BY <3>1, StageIsReady
  <2>3. IsReady(WithItems(WithExpiry(open(seen)))) /\ WithItems(WithExpiry(open(seen))).stage.is
    <3> HIDE DEF open
    <3>1. IsReady(WithExpiry(open(seen))) /\ WithExpiry(open(seen)).stage.is
      BY <2>2, ExpiryIsReady
    <3>2. QED BY <3>1, ItemsAreReady
  <2>4. IsSound(u(seen), u(seen).seen)
    BY <2>3, PrefixIsSound
  <2> HIDE DEF u
  <2>5. u(seen) \in Sources
    BY <2>4 DEF IsSound
  <2>6. LedgerTypeOK'
    BY <1>1, <2>1, <2>5, SavedIs DEF LedgerTypeOK, rawVars
  <2>7. SourceIsSound'
    BY <1>1, <2>1, <2>4, SourceIsSaved
  <2>8. AnswersAreTrue'
    BY <1>1, <2>1, <2>5, TokenIs DEF AnswersAreTrue, LedgerTypeOK
  <2>9. PassedIsTold' /\ ReclaimsTheEnded' /\ ReclaimedIsTold'
    BY <1>1 DEF PassedIsTold, ReclaimsTheEnded, ReclaimedIsTold, rawVars
  <2>10. QED BY <2>6, <2>7, <2>8, <2>9
<1>9. QED BY <1>7, <1>8

\* A send keeps the invariant: stored, lost on either side, or refused.
LEMMA SendKeeps ==
  ASSUME LedgerInv, NEW e \in Envs, SendCommits(e) \/ SendFails(e) \/ SendIsRefused(e)
  PROVE  LedgerInv'
<1> USE DEF LedgerInv
<1> DEFINE token == passes[e].token
<1>1. /\ UNCHANGED <<rawVars, checkpoint, reclaiming, passed, reclaimed>> /\ passes[e].at = "send"
      /\ token.gaps \subseteq Gaps /\ token.events \subseteq Nat
  BY DEF SendCommits, SendFails, SendIsRefused, AnswersAreTrue
<1>2. /\ dashboard' = dashboard \/ dashboard' = Stored(token)
      /\ dashboard \in [events : SUBSET Nat, gaps : SUBSET Gaps]
  BY DEF SendCommits, SendFails, SendIsRefused, LedgerTypeOK
<1>3. /\ dashboard' \in [events : SUBSET Nat, gaps : SUBSET Gaps]
      /\ dashboard.events \subseteq dashboard'.events /\ dashboard.gaps \subseteq dashboard'.gaps
  BY <1>1, <1>2 DEF Stored
<1>4. PICK answer : passes' = [passes EXCEPT ![e] = answer] /\ answer.at \in {"no", "answered"}
        /\ (answer.at = "answered" => answer.gaps \subseteq Gaps)
        /\ (answer.at = "answered" /\ answer.kind = "ack" =>
              answer.token.events \subseteq dashboard'.events /\ answer.token.gaps \subseteq dashboard'.gaps)
  <2>1. CASE SendCommits(e)
    <3> DEFINE answer == [at |-> "answered", token |-> token, kind |-> "ack", events |-> {}, gaps |-> {}]
    <3>1. passes' = [passes EXCEPT ![e] = answer] /\ dashboard' = Stored(token)
      BY <2>1 DEF SendCommits, Answered
    <3>2. answer.at = "answered" /\ answer.gaps = {} /\ answer.token = token
      OBVIOUS
    <3>3. token.events \subseteq dashboard'.events /\ token.gaps \subseteq dashboard'.gaps
      BY <3>1 DEF Stored
    <3>4. QED BY <3>1, <3>2, <3>3
  <2>2. CASE SendFails(e)
    <3>1. passes' = [passes EXCEPT ![e] = NoBatch] /\ NoBatch.at = "no"
      BY <2>2 DEF SendFails, NoBatch
    <3>2. QED BY <3>1
  <2>3. CASE SendIsRefused(e)
    <3>1. CASE \E ev \in token.events : Answered(e, "resolve", {ev}, {})
      <4>1. PICK ev \in token.events : Answered(e, "resolve", {ev}, {})
        BY <3>1
      <4> DEFINE answer == [at |-> "answered", token |-> token, kind |-> "resolve", events |-> {ev}, gaps |-> {}]
      <4>2. passes' = [passes EXCEPT ![e] = answer] /\ answer.at = "answered" /\ answer.gaps = {} /\ answer.kind = "resolve"
        BY <4>1 DEF Answered
      <4>3. QED BY <4>2
    <3>2. CASE \E g \in token.gaps : Answered(e, "resolve", {}, {g})
      <4>1. PICK g \in token.gaps : Answered(e, "resolve", {}, {g})
        BY <3>2
      <4> DEFINE answer == [at |-> "answered", token |-> token, kind |-> "resolve", events |-> {}, gaps |-> {g}]
      <4>2. passes' = [passes EXCEPT ![e] = answer] /\ answer.at = "answered" /\ answer.gaps = {g} /\ answer.kind = "resolve"
        BY <4>1 DEF Answered
      <4>3. QED BY <1>1, <4>2
    <3>3. QED BY <2>3, <3>1, <3>2 DEF SendIsRefused
  <2>4. QED BY <2>1, <2>2, <2>3
<1>5. LedgerTypeOK'
  BY <1>1, <1>3, <1>4 DEF LedgerTypeOK, rawVars
<1>6. SourceIsSound'
  BY <1>1, <1>3, SourceStays
<1>7. AnswersAreTrue'
  <2>1. ASSUME NEW f \in Envs
        PROVE  /\ passes'[f].at \in {"no", "send", "answered"}
               /\ passes'[f].at = "send" => passes'[f].token.gaps \subseteq Gaps /\ passes'[f].token.events \subseteq Nat
               /\ passes'[f].at = "answered" => passes'[f].gaps \subseteq Gaps
               /\ passes'[f].at = "answered" /\ passes'[f].kind = "ack" =>
                    passes'[f].token.events \subseteq dashboard'.events /\ passes'[f].token.gaps \subseteq dashboard'.gaps
    <3>1. CASE f = e
      <4>1. passes'[e] = answer
        BY <1>4 DEF LedgerTypeOK
      <4>2. QED BY <1>4, <3>1, <4>1
    <3>2. CASE f # e
      <4>1. passes'[f] = passes[f]
        BY <1>4, <3>2 DEF LedgerTypeOK
      <4>2. QED BY <1>3, <4>1 DEF AnswersAreTrue
    <3>3. QED BY <3>1, <3>2
  <2>2. QED BY <2>1 DEF AnswersAreTrue
<1>8. PassedIsTold' /\ ReclaimsTheEnded' /\ ReclaimedIsTold'
  BY <1>1, <1>3 DEF PassedIsTold, ReclaimsTheEnded, ReclaimedIsTold, rawVars
<1>9. QED BY <1>5, <1>6, <1>7, <1>8

\* A pass that is over, while everything it could be about only grows.
LEMMA PassIsOver ==
  ASSUME LedgerTypeOK, AnswersAreTrue, NEW e \in Envs, passes' = [passes EXCEPT ![e] = NoBatch], dashboard' = dashboard
  PROVE  AnswersAreTrue' /\ passes' = [f \in Envs |-> passes'[f]]
<1>1. NoBatch.at = "no"
  BY DEF NoBatch
<1>2. passes'[e] = NoBatch /\ \A f \in Envs \ {e} : passes'[f] = passes[f]
  BY DEF LedgerTypeOK
<1>3. QED BY <1>1, <1>2 DEF AnswersAreTrue, LedgerTypeOK

\* An acknowledgement, in time or late, goes past what the dashboard has.
LEMMA AckKeeps ==
  ASSUME LedgerInv, NEW e \in Envs, Ack(e)
  PROVE  LedgerInv'
<1> USE DEF LedgerInv
<1> DEFINE s == checkpoint.source
           new == {<<s.stage.items[k].event, s.stage.items[k].reason>> : k \in DOMAIN s.stage.items}
<1>1. /\ UNCHANGED <<rawVars, reclaiming, dashboard, reclaimed>> /\ passes' = [passes EXCEPT ![e] = NoBatch]
      /\ passes[e].token.events \subseteq dashboard.events /\ passes[e].token.gaps \subseteq dashboard.gaps
      /\ reclaiming.by = "nobody"
  BY DEF Ack, AnswersAreTrue, InTransaction
<1>2. AnswersAreTrue' /\ passes' = [f \in Envs |-> passes'[f]]
  BY <1>1, PassIsOver
<1>3. ReclaimsTheEnded' /\ ReclaimedIsTold'
  BY <1>1 DEF ReclaimsTheEnded, ReclaimedIsTold, rawVars
<1>4. CASE ~ IsStaged(passes[e].token)
  <2>1. checkpoint' = checkpoint /\ passed' = passed
    BY <1>4 DEF Ack
  <2>2. LedgerTypeOK' /\ PassedIsTold'
    BY <1>1, <1>2, <2>1 DEF LedgerTypeOK, PassedIsTold, rawVars
  <2>3. SourceIsSound'
    BY <1>1, <2>1, SourceStays
  <2>4. QED BY <1>2, <1>3, <2>2, <2>3
<1>5. CASE IsStaged(passes[e].token)
  <2>1. Saved(Acked(s)) /\ passed' = passed \cup new
    BY <1>5 DEF Ack
  <2>2. IsSound(s, s.seen) /\ s.stage.is /\ s \in Sources
    BY <1>5 DEF IsStaged, SourceIsSound, IsSound
  <2>3. EventsOf(s) \subseteq dashboard.events /\ s.stage.gaps \subseteq dashboard.gaps
    <3>1. TokenOf(s) = passes[e].token
      BY <1>5 DEF IsStaged
    <3>2. QED BY <1>1, <2>2, <3>1, TokenIs
  <2> DEFINE r == IF s.retirement.phase = "pending" THEN [s.retirement EXCEPT !.phase = "acked"] ELSE s.retirement
  <2>4. PICK withGap \in BOOLEAN : withGap = (s.lossTold \/ s.stage.loss)
    BY DEF Sources
  <2> DEFINE a == [s EXCEPT !.offset = s.stage.end, !.stage = NoStage, !.lossTold = withGap, !.retirement = r]
  <2>5. Acked(s) = Bump(a)
    BY <2>4 DEF Acked
  <2>6. /\ s.offset \in Nat /\ s.stage.end \in Nat /\ s.seen \in Seq(Frames) /\ s.stage.items \in Seq(Items)
        /\ s.retirement \in Retirements /\ NoStage \in Stages
    BY <2>2, NoStageIs DEF Sources, Stages
  <2>7. r \in Retirements /\ r.id = s.retirement.id
        /\ r.phase = IF s.retirement.phase = "pending" THEN "acked" ELSE s.retirement.phase
    BY <2>6 DEF Retirements
  <2> HIDE DEF r
  <2>8. /\ a \in Sources /\ a.offset = s.stage.end /\ a.stage = NoStage /\ a.seen = s.seen /\ a.retirement = r
    BY <2>2, <2>6, <2>7 DEF Sources
  <2> HIDE DEF a
  <2>9. PICK b \in Sources : /\ b = Bump(a) /\ b.offset = s.stage.end /\ b.stage = NoStage
                            /\ b.seen = s.seen /\ b.retirement = r
    BY <2>8, BumpIs DEF MoreGaps
  <2>10. checkpoint'.source = b /\ checkpoint' = [source |-> checkpoint'.source, floor |-> checkpoint'.floor] /\ checkpoint'.floor \in Nat
    BY <2>1, <2>5, <2>9, SavedIs
  <2>11. LedgerTypeOK'
    BY <1>1, <1>2, <2>10 DEF LedgerTypeOK, rawVars
  <2>12. SourceIsSound'
    <3>1. /\ s.offset <= s.stage.end /\ s.stage.end <= Len(s.seen) /\ Len(s.stage.items) = s.stage.end - s.offset
          /\ \A k \in 1 .. Len(s.stage.items) : s.stage.items[k].event = s.seen[s.offset + k].event
      BY <2>2 DEF IsSound, StagedFrom
    <3>2. ASSUME NEW k \in 1 .. s.stage.end PROVE \E p \in passed' : p[1] = s.seen[k].event
      <4>1. CASE k <= s.offset
        <5>1. k \in 1 .. s.offset
          BY <2>6, <4>1
        <5>2. QED BY <2>1, <2>2, <5>1 DEF IsSound, CursorIsPassed
      <4>2. CASE ~ (k <= s.offset)
        <5>1. PICK j \in 1 .. Len(s.stage.items) : s.offset + j = k
          <6>1. k - s.offset \in 1 .. Len(s.stage.items) /\ s.offset + (k - s.offset) = k
            BY <2>6, <3>1, <4>2
          <6>2. QED BY <6>1
        <5>2. j \in DOMAIN s.stage.items
          BY <2>6, <5>1
        <5>3. <<s.stage.items[j].event, s.stage.items[j].reason>> \in passed'
          BY <2>1, <5>2
        <5>4. QED BY <3>1, <5>1, <5>3
      <4>3. QED BY <4>1, <4>2
    <3>3. CursorIsPassed(b)'
      BY <2>9, <3>1, <3>2 DEF CursorIsPassed
    <3>4. Explained(b.stage) /\ StagedFrom(b, b.seen)
      BY <2>9, NoStageIs, EmptyStage DEF StagedFrom
    <3>5. TailIsTold(b)'
      BY <1>1, <2>2, <2>3, <2>7, <2>9 DEF TailIsTold, IsSound
    <3>6. QED BY <2>9, <2>10, <3>3, <3>4, <3>5 DEF SourceIsSound, IsSound, CursorIsPassed, TailIsTold
  <2>13. PassedIsTold'
    <3>1. ASSUME NEW k \in DOMAIN s.stage.items
          PROVE  IF s.stage.items[k].reason = "" THEN s.stage.items[k].event \in dashboard.events
                 ELSE \E g \in dashboard.gaps : g[1] \in {s.stage.items[k].reason, "gap_conflict"}
      <4>1. CASE s.stage.items[k].reason = ""
        <5>1. s.stage.items[k].event \in EventsOf(s)
          BY <4>1 DEF EventsOf
        <5>2. QED BY <2>3, <4>1, <5>1
      <4>2. CASE s.stage.items[k].reason # ""
        BY <2>2, <2>3, <4>2 DEF IsSound, Explained
      <4>3. QED BY <4>1, <4>2
    <3>2. ASSUME NEW p \in new
          PROVE  IF p[2] = "" THEN p[1] \in dashboard.events
                 ELSE \E g \in dashboard.gaps : g[1] \in {p[2], "gap_conflict"}
      <4>1. PICK k \in DOMAIN s.stage.items : p = <<s.stage.items[k].event, s.stage.items[k].reason>>
        OBVIOUS
      <4>2. p[1] = s.stage.items[k].event /\ p[2] = s.stage.items[k].reason
        BY <4>1
      <4>3. QED BY <3>1, <4>2
    <3> HIDE DEF new
    <3>3. QED BY <1>1, <2>1, <3>2 DEF PassedIsTold
  <2>14. QED BY <1>2, <1>3, <2>11, <2>12, <2>13
<1>6. QED BY <1>4, <1>5

\* A stage with its items reworded is of the same frames.
LEMMA StagedStays ==
  ASSUME NEW frames, NEW s, NEW u, IsSound(s, frames), u \in Sources,
         u.offset = s.offset, u.seen = s.seen, u.stage.end = s.stage.end, u.stage.is = s.stage.is,
         Len(u.stage.items) = Len(s.stage.items),
         \A k \in 1 .. Len(s.stage.items) : u.stage.items[k].event = s.stage.items[k].event,
         Explained(u.stage), TailIsTold(u)
  PROVE  IsSound(u, frames)
<1>1. CursorIsPassed(u)
  BY DEF IsSound, CursorIsPassed
<1>2. StagedFrom(u, frames)
  BY DEF IsSound, StagedFrom
<1>3. QED BY <1>1, <1>2 DEF IsSound

\* Refused events are explained by their gap, and a gap in conflict by its
\* new id; a tail gap is still the retirement's.
LEMMA ResolvedIsSound ==
  ASSUME NEW s, IsSound(s, s.seen), NEW events, NEW gaps \in SUBSET Gaps
  PROVE  IsSound(Resolved(s, events, gaps), Resolved(s, events, gaps).seen)
<1> DEFINE old == s.stage.items
           items == [k \in DOMAIN old |-> IF old[k].event \in events THEN [old[k] EXCEPT !.reason = "refused"] ELSE old[k]]
           renamed == (s.stage.gaps \ gaps) \cup
                      {<<IF g[1] = "reclaimed" THEN g[1] ELSE "gap_conflict", s.generation + 1>> : g \in gaps}
           stage == [s.stage EXCEPT !.items = items, !.gaps = renamed]
           t == [s EXCEPT !.stage = stage]
           withGap == IF events = {} THEN t ELSE AddGap(t, "refused")
           r == IF s.retirement.phase = "pending"
                THEN [s.retirement EXCEPT !.id = CHOOSE g \in renamed : g[1] = "reclaimed"] ELSE s.retirement
<1>1. /\ s \in Sources /\ s.stage \in Stages /\ s.stage.items \in Seq(Items) /\ s.stage.gaps \subseteq Gaps
      /\ s.retirement \in Retirements /\ s.generation \in Nat
  BY DEF IsSound, Sources, Stages
<1>2. /\ items \in Seq(Items) /\ Len(items) = Len(old)
      /\ \A k \in 1 .. Len(old) : /\ items[k].event = old[k].event
                                  /\ \/ items[k].reason = old[k].reason
                                     \/ items[k].reason = "refused" /\ events # {}
  <2>1. DOMAIN old = 1 .. Len(old) /\ Len(old) \in Nat
    BY <1>1
  <2>2. ASSUME NEW k \in 1 .. Len(old)
        PROVE  /\ items[k] \in Items /\ items[k].event = old[k].event
               /\ (items[k].reason = old[k].reason \/ (items[k].reason = "refused" /\ events # {}))
    <3>1. old[k] \in Items
      BY <1>1
    <3>2. items[k] = IF old[k].event \in events THEN [old[k] EXCEPT !.reason = "refused"] ELSE old[k]
      BY <2>1
    <3>3. /\ [old[k] EXCEPT !.reason = "refused"] \in Items
          /\ [old[k] EXCEPT !.reason = "refused"].event = old[k].event
          /\ [old[k] EXCEPT !.reason = "refused"].reason = "refused"
      BY <3>1 DEF Items, Said
    <3> HIDE DEF items
    <3>4. CASE old[k].event \in events
      BY <3>2, <3>3, <3>4
    <3>5. CASE old[k].event \notin events
      BY <3>1, <3>2, <3>5
    <3>6. QED BY <3>4, <3>5
  <2>3. items \in [1 .. Len(old) -> Items]
    BY <2>1, <2>2
  <2>4. items \in Seq(Items) /\ Len(items) = Len(old)
    <3> HIDE DEF items
    <3>1. DOMAIN items = 1 .. Len(old)
      BY <2>3
    <3>2. QED BY <2>1, <2>3, <3>1
  <2>5. QED BY <2>2, <2>4
<1> HIDE DEF items
<1>3. /\ renamed \subseteq Gaps
      /\ \A g \in s.stage.gaps : \E h \in renamed : h[1] \in {g[1], "gap_conflict"} /\ (g[1] = "reclaimed" => h[1] = "reclaimed")
  <2>1. ASSUME NEW g \in gaps
        PROVE  /\ <<IF g[1] = "reclaimed" THEN g[1] ELSE "gap_conflict", s.generation + 1>> \in Gaps
               /\ <<IF g[1] = "reclaimed" THEN g[1] ELSE "gap_conflict", s.generation + 1>> \in renamed
    <3>1. g[1] \in Said /\ "gap_conflict" \in Said
      BY DEF Gaps, Said
    <3>2. QED BY <1>1, <3>1 DEF Gaps
  <2>2. renamed \subseteq Gaps
    BY <1>1, <2>1
  <2>3. ASSUME NEW g \in s.stage.gaps
        PROVE  \E h \in renamed : h[1] \in {g[1], "gap_conflict"} /\ (g[1] = "reclaimed" => h[1] = "reclaimed")
    <3>1. CASE g \in gaps
      <4>1. <<IF g[1] = "reclaimed" THEN g[1] ELSE "gap_conflict", s.generation + 1>> \in renamed
        BY <2>1, <3>1
      <4> HIDE DEF renamed
      <4>2. QED BY <4>1
    <3>2. CASE g \notin gaps
      <4>1. g \in renamed
        BY <3>2
      <4> HIDE DEF renamed
      <4>2. QED BY <4>1
    <3>3. QED BY <3>1, <3>2
  <2>4. QED BY <2>2, <2>3
<1> HIDE DEF renamed
<1>4. stage \in Stages /\ stage.items = items /\ stage.gaps = renamed /\ stage.end = s.stage.end /\ stage.is = s.stage.is
  BY <1>1, <1>2, <1>3 DEF Stages
<1>5. Resolved(s, events, gaps) = [Bump(withGap) EXCEPT !.retirement = IF @.phase = "pending"
            THEN [@ EXCEPT !.id = CHOOSE g \in renamed : g[1] = "reclaimed"] ELSE @]
  <2> DEFINE same == [s EXCEPT !.stage.items = items, !.stage.gaps = renamed]
  <2>1. t = same
    BY <1>1 DEF Sources, Stages
  <2>2. Resolved(s, events, gaps) = [Bump(IF events = {} THEN same ELSE AddGap(same, "refused")) EXCEPT !.retirement =
          IF @.phase = "pending" THEN [@ EXCEPT !.id = CHOOSE g \in renamed : g[1] = "reclaimed"] ELSE @]
    BY DEF Resolved, items, renamed
  <2> HIDE DEF same, t
  <2>3. QED
    BY <2>1, <2>2
<1> HIDE DEF stage
<1>6. t \in Sources /\ t.stage = stage /\ SameFields(s, t)
  BY <1>1, <1>4, NewStageIs
<1> HIDE DEF t
<1>7. MoreGaps(t, withGap) /\ (events # {} => \E g \in withGap.stage.gaps : g[1] = "refused")
  <2>1. "refused" \in Said
    BY DEF Said
  <2>2. MoreGaps(t, t)
    BY <1>6 DEF MoreGaps
  <2>3. QED BY <1>6, <2>1, <2>2, AddGapIs
<1> HIDE DEF withGap
<1> DEFINE u == Bump(withGap)
<1>8. MoreGaps(t, u) /\ u.stage = withGap.stage
  <2>1. withGap \in Sources
    BY <1>7 DEF MoreGaps
  <2>2. QED BY <1>7, <2>1, BumpIs, MoreGapsTwice
<1>9. /\ u \in Sources /\ u.offset = s.offset /\ u.seen = s.seen /\ u.retirement = s.retirement
      /\ u.stage.end = s.stage.end /\ u.stage.is = s.stage.is /\ u.stage.items = items /\ renamed \subseteq u.stage.gaps
  BY <1>4, <1>6, <1>8 DEF MoreGaps, SameFields
<1>10. Resolved(s, events, gaps) = [u EXCEPT !.retirement = r]
  BY <1>5, <1>9 DEF Sources
<1>11. events # {} => \E g \in u.stage.gaps : g[1] = "refused"
  BY <1>7, <1>8
<1> HIDE DEF u
<1>12. /\ r \in Retirements /\ r.phase = s.retirement.phase
       /\ r.phase = "pending" => s.stage.is /\ r.id \in renamed /\ r.id[1] = "reclaimed"
       /\ r.phase # "pending" => r.id = s.retirement.id
  <2>1. CASE s.retirement.phase = "pending"
    <3>1. s.stage.is /\ s.retirement.id \in s.stage.gaps /\ s.retirement.id[1] = "reclaimed"
      BY <2>1 DEF IsSound, TailIsTold
    <3>2. PICK g \in renamed : g[1] = "reclaimed" /\ g = (CHOOSE h \in renamed : h[1] = "reclaimed")
      BY <1>3, <3>1
    <3>3. r = [s.retirement EXCEPT !.id = g] /\ g \in Gaps
      BY <1>3, <2>1, <3>2
    <3>4. QED BY <1>1, <2>1, <3>1, <3>2, <3>3 DEF Retirements
  <2>2. CASE s.retirement.phase # "pending"
    BY <1>1, <2>2
  <2>3. QED BY <2>1, <2>2
<1> HIDE DEF r
<1> DEFINE v == [u EXCEPT !.retirement = r]
<1>13. v \in Sources /\ v.retirement = r /\ v.stage = u.stage /\ v.offset = u.offset /\ v.seen = u.seen
  BY <1>9, <1>12, NewRetirementIs
<1> HIDE DEF v
<1>14. Explained(v.stage)
  <2>1. DOMAIN items = 1 .. Len(old) /\ DOMAIN old = 1 .. Len(old)
    BY <1>1, <1>2
  <2>2. ASSUME NEW k \in 1 .. Len(old), items[k].reason # ""
        PROVE  \E g \in u.stage.gaps : g[1] \in {items[k].reason, "gap_conflict"}
    <3>1. CASE items[k].reason = "refused" /\ events # {}
      BY <1>11, <3>1
    <3>2. CASE items[k].reason = old[k].reason
      <4>1. PICK g \in s.stage.gaps : g[1] \in {items[k].reason, "gap_conflict"}
        BY <2>1, <2>2, <3>2 DEF IsSound, Explained
      <4>2. PICK h \in renamed : h[1] \in {g[1], "gap_conflict"}
        BY <1>3
      <4>3. QED BY <1>9, <4>1, <4>2
    <3>3. QED BY <1>2, <3>1, <3>2
  <2>3. QED BY <1>9, <1>13, <2>1, <2>2 DEF Explained
<1>15. TailIsTold(v)
  BY <1>9, <1>12, <1>13 DEF IsSound, TailIsTold
<1>16. IsSound(v, s.seen)
  BY <1>2, <1>9, <1>13, <1>14, <1>15, StagedStays
<1>17. QED BY <1>9, <1>10, <1>13, <1>16 DEF v

\* A resolution keeps the invariant.
LEMMA ResolveKeeps ==
  ASSUME LedgerInv, NEW e \in Envs, Resolve(e)
  PROVE  LedgerInv'
<1> USE DEF LedgerInv
<1>1. /\ UNCHANGED <<rawVars, reclaiming, dashboard, passed, reclaimed>> /\ passes' = [passes EXCEPT ![e] = NoBatch]
      /\ passes[e].gaps \in SUBSET Gaps /\ reclaiming.by = "nobody"
  BY DEF Resolve, AnswersAreTrue, InTransaction
<1>2. AnswersAreTrue' /\ passes' = [f \in Envs |-> passes'[f]]
  BY <1>1, PassIsOver
<1>3. ReclaimsTheEnded' /\ ReclaimedIsTold' /\ PassedIsTold'
  BY <1>1 DEF ReclaimsTheEnded, ReclaimedIsTold, PassedIsTold, rawVars
<1>4. CASE ~ IsStaged(passes[e].token)
  <2>1. checkpoint' = checkpoint
    BY <1>4 DEF Resolve
  <2>2. LedgerTypeOK'
    BY <1>1, <1>2, <2>1 DEF LedgerTypeOK, rawVars
  <2>3. QED BY <1>1, <1>2, <1>3, <2>1, <2>2, SourceStays
<1>5. CASE IsStaged(passes[e].token)
  <2>1. PICK u : u = Resolved(checkpoint.source, passes[e].events, passes[e].gaps)
    OBVIOUS
  <2>2. Saved(u)
    BY <1>5, <2>1 DEF Resolve
  <2>3. IsSound(u, u.seen)
    BY <1>1, <1>5, <2>1, ResolvedIsSound DEF IsStaged, SourceIsSound
  <2>4. LedgerTypeOK'
    BY <1>1, <1>2, <2>2, <2>3, SavedIs DEF LedgerTypeOK, rawVars, IsSound
  <2>5. SourceIsSound'
    BY <1>1, <2>2, <2>3, SourceIsSaved
  <2>6. QED BY <1>2, <1>3, <2>4, <2>5
<1>6. QED BY <1>4, <1>5

\* The retirement goes on to a later phase, its gap told already.
LEMMA PhaseMoves ==
  ASSUME LedgerInv, reclaiming.by # "nobody", NEW phase \in {"marker-removed", "raw-removed"},
         Saved([checkpoint.source EXCEPT !.retirement.phase = phase]), UNCHANGED <<dashboard, passed>>
  PROVE  /\ SourceIsSound' /\ checkpoint' = [source |-> checkpoint'.source, floor |-> checkpoint'.floor] /\ checkpoint'.floor \in Nat
         /\ checkpoint'.source # NoSource /\ checkpoint'.source.retirement.phase = phase
<1> DEFINE s == checkpoint.source
           r == [s.retirement EXCEPT !.phase = phase]
<1>1. /\ IsSound(s, s.seen) /\ s \in Sources /\ s.retirement \in Retirements
      /\ s.retirement.phase \in {"acked", "marker-removed", "raw-removed"}
  BY DEF LedgerInv, ReclaimsTheEnded, SourceIsSound, IsSound, Sources
<1>2. r \in Retirements /\ r.phase = phase /\ r.id = s.retirement.id
  BY <1>1 DEF Retirements
<1> HIDE DEF r
<1>3. PICK t \in Sources : /\ t = [s EXCEPT !.retirement = r] /\ t.retirement = r /\ t.stage = s.stage
                           /\ t.offset = s.offset /\ t.seen = s.seen
  BY <1>1, <1>2, NewRetirementIs, ZenonT(30)
<1>4. Saved(t)
  <2>1. t = [s EXCEPT !.retirement.phase = phase]
    BY <1>3 DEF r
  <2>2. QED BY <2>1
<1>5. IsSound(t, t.seen)
  <2>1. TailIsTold(t)
    BY <1>1, <1>2, <1>3 DEF IsSound, TailIsTold
  <2>2. QED BY <1>1, <1>3, <2>1 DEF IsSound, CursorIsPassed, StagedFrom
<1>6. checkpoint'.source = t /\ checkpoint' = [source |-> checkpoint'.source, floor |-> checkpoint'.floor] /\ checkpoint'.floor \in Nat
  BY <1>4, SavedIs DEF LedgerInv
<1>7. SourceIsSound'
  BY <1>4, <1>5, SourceIsSaved DEF LedgerInv
<1>8. QED BY <1>2, <1>3, <1>6, <1>7, SourceIsNotNone

\* What a step leaves of the invariant when it is about the segment alone.
LEMMA RestStays ==
  ASSUME LedgerInv, UNCHANGED <<checkpoint, passes, dashboard, passed>>
  PROVE  SourceIsSound' /\ AnswersAreTrue' /\ PassedIsTold'
<1>1. SourceIsSound'
  BY SourceStays DEF LedgerInv
<1>2. AnswersAreTrue' /\ PassedIsTold'
  BY DEF LedgerInv, AnswersAreTrue, PassedIsTold
<1>3. QED BY <1>1, <1>2

\* The steps of a retirement keep the invariant.
LEMMA ReclaimKeeps ==
  ASSUME LedgerInv,
         (\E e \in Envs : BeginReclaim(e)) \/ RemoveMarker \/ SaveMarkerRemoved \/ LookOnceMore \/ RemoveRaw \/ SaveRawRemoved
  PROVE  LedgerInv'
<1> USE DEF LedgerInv
<1>1. CASE \E e \in Envs : BeginReclaim(e)
  <2>1. PICK e \in Envs : BeginReclaim(e)
    BY <1>1
  <2>2. /\ UNCHANGED <<rawVars, checkpoint, passes, dashboard, passed, reclaimed>> /\ checkpoint.source # NoSource
        /\ reclaiming' = [by |-> e, step |-> IF mark # 0 THEN "marker" ELSE "raw"] /\ MayReclaim(checkpoint.source)
    BY <2>1 DEF BeginReclaim
  <2>3. reclaiming' \in [by : Envs \cup {"nobody"}, step : Steps] /\ reclaiming'.by = e /\ e # "nobody"
    BY <2>2, LedgerAssumption DEF Steps
  <2>4. ~ agentLives /\ checkpoint.source.retirement.phase \in {"acked", "marker-removed"}
    BY <2>2 DEF MayReclaim, Ended
  <2>5. LedgerTypeOK' /\ ReclaimsTheEnded' /\ ReclaimedIsTold'
    BY <2>2, <2>3, <2>4 DEF LedgerTypeOK, ReclaimsTheEnded, ReclaimedIsTold, rawVars
  <2>6. QED BY <2>2, <2>5, RestStays
<1>2. CASE RemoveMarker \/ LookOnceMore
  <2>1. /\ UNCHANGED <<raw, appended, swaps, agentLives, expired, checkpoint, passes, dashboard, passed, reclaimed>>
        /\ mark' \in Nat /\ reclaiming.by # "nobody"
        /\ \/ reclaiming' = [reclaiming EXCEPT !.step = "marker removed"]
           \/ reclaiming' = [reclaiming EXCEPT !.step = "unlink"]
           \/ reclaiming' = NobodyReclaims
    <3>1. mark \in Nat /\ (reclaiming.by = "nobody" => reclaiming.step = "no")
      BY DEF LedgerTypeOK, ReclaimsTheEnded
    <3>2. CASE RemoveMarker
      BY <3>1, <3>2 DEF RemoveMarker, GoOn
    <3>3. CASE LookOnceMore
      BY <3>1, <3>3 DEF LookOnceMore, GoOn, rawVars
    <3>4. QED BY <1>2, <3>2, <3>3
  <2>2. /\ reclaiming' \in [by : Envs \cup {"nobody"}, step : Steps]
        /\ (reclaiming'.by = reclaiming.by \/ reclaiming' = NobodyReclaims)
    <3>1. reclaiming \in [by : Envs \cup {"nobody"}, step : Steps]
      BY DEF LedgerTypeOK
    <3>2. /\ [reclaiming EXCEPT !.step = "marker removed"] \in [by : Envs \cup {"nobody"}, step : Steps]
          /\ [reclaiming EXCEPT !.step = "marker removed"].by = reclaiming.by
      BY <3>1 DEF Steps
    <3>3. /\ [reclaiming EXCEPT !.step = "unlink"] \in [by : Envs \cup {"nobody"}, step : Steps]
          /\ [reclaiming EXCEPT !.step = "unlink"].by = reclaiming.by
      BY <3>1 DEF Steps
    <3>4. NobodyReclaims \in [by : Envs \cup {"nobody"}, step : Steps]
      BY DEF NobodyReclaims, Steps
    <3>5. QED BY <2>1, <3>2, <3>3, <3>4
  <2>3. LedgerTypeOK' /\ ReclaimedIsTold'
    BY <2>1, <2>2 DEF LedgerTypeOK, ReclaimedIsTold
  <2>4. ReclaimsTheEnded'
    <3>1. NobodyReclaims.by = "nobody" /\ NobodyReclaims.step = "no"
      BY DEF NobodyReclaims
    <3>2. QED BY <2>1, <2>2, <3>1 DEF ReclaimsTheEnded
  <2>5. QED BY <2>1, <2>3, <2>4, RestStays
<1>3. CASE SaveMarkerRemoved \/ SaveRawRemoved
  <2>1. PICK phase \in {"marker-removed", "raw-removed"} :
          Saved([checkpoint.source EXCEPT !.retirement.phase = phase])
    BY <1>3 DEF SaveMarkerRemoved, SaveRawRemoved
  <2>2. /\ UNCHANGED <<rawVars, passes, dashboard, passed, reclaimed>> /\ reclaiming.by # "nobody"
        /\ \/ reclaiming' = [reclaiming EXCEPT !.step = "raw"]
           \/ reclaiming' = [reclaiming EXCEPT !.step = "forget"]
    BY <1>3 DEF SaveMarkerRemoved, SaveRawRemoved, GoOn, ReclaimsTheEnded
  <2>3. /\ SourceIsSound' /\ checkpoint' = [source |-> checkpoint'.source, floor |-> checkpoint'.floor] /\ checkpoint'.floor \in Nat
        /\ checkpoint'.source # NoSource /\ checkpoint'.source.retirement.phase = phase
    BY <2>1, <2>2, PhaseMoves
  <2>4. reclaiming' \in [by : Envs \cup {"nobody"}, step : Steps] /\ reclaiming'.by = reclaiming.by
    BY <2>2 DEF LedgerTypeOK, Steps
  <2>5. LedgerTypeOK' /\ ReclaimsTheEnded' /\ ReclaimedIsTold'
    BY <2>2, <2>3, <2>4 DEF LedgerTypeOK, ReclaimsTheEnded, ReclaimedIsTold, rawVars
  <2>6. AnswersAreTrue' /\ PassedIsTold'
    BY <2>2 DEF AnswersAreTrue, PassedIsTold
  <2>7. QED BY <2>3, <2>5, <2>6
<1>4. CASE RemoveRaw
  <2>1. /\ UNCHANGED <<mark, appended, swaps, agentLives, expired, checkpoint, passes, dashboard, passed>>
        /\ reclaimed' = reclaimed \cup {checkpoint.source.retirement.id} /\ raw' = [id |-> 0, frames |-> <<>>]
        /\ reclaiming' = [reclaiming EXCEPT !.step = "raw removed"] /\ reclaiming.by # "nobody"
    BY <1>4 DEF RemoveRaw, GoOn, ReclaimsTheEnded
  <2>2. reclaiming' \in [by : Envs \cup {"nobody"}, step : Steps] /\ reclaiming'.by = reclaiming.by
    BY <2>1 DEF LedgerTypeOK, Steps
  <2>3. /\ checkpoint.source # NoSource /\ checkpoint.source.retirement.id \in dashboard.gaps /\ ~ agentLives
    BY <2>1 DEF ReclaimsTheEnded, SourceIsSound, IsSound, TailIsTold
  <2>4. raw' \in [id : Nat, frames : Seq(Frames)]
    <3>1. <<>> \in Seq(Frames)
      OBVIOUS
    <3>2. QED BY <2>1, <3>1
  <2>5. LedgerTypeOK' /\ ReclaimsTheEnded' /\ ReclaimedIsTold'
    BY <2>1, <2>2, <2>3, <2>4 DEF LedgerTypeOK, ReclaimsTheEnded, ReclaimedIsTold
  <2>6. QED BY <2>1, <2>5, RestStays
<1>5. QED BY <1>1, <1>2, <1>3, <1>4

\* Forgetting the source keeps the invariant.
LEMMA ForgetKeeps ==
  ASSUME LedgerInv, ForgetSource
  PROVE  LedgerInv'
<1> USE DEF LedgerInv
<1>1. /\ checkpoint' = [checkpoint EXCEPT !.source = NoSource] /\ reclaiming' = NobodyReclaims
      /\ UNCHANGED <<rawVars, passes, dashboard, passed, reclaimed, hitches>>
  BY DEF ForgetSource
<1>2. LedgerTypeOK' /\ SourceIsSound' /\ ReclaimsTheEnded' /\ ReclaimedIsTold'
  BY <1>1 DEF LedgerTypeOK, SourceIsSound, ReclaimsTheEnded, ReclaimedIsTold, NobodyReclaims, Steps, rawVars
<1>3. AnswersAreTrue' /\ PassedIsTold'
  BY <1>1 DEF AnswersAreTrue, PassedIsTold
<1>4. QED BY <1>2, <1>3

\* An environment that ends in the middle of its pass keeps the invariant.
LEMMA CrashKeeps ==
  ASSUME LedgerInv, NEW e \in Envs, EnvCrashes(e)
  PROVE  LedgerInv'
<1> USE DEF LedgerInv
<1>1. /\ passes' = [passes EXCEPT ![e] = NoBatch] /\ (reclaiming' = NobodyReclaims \/ reclaiming' = reclaiming)
      /\ UNCHANGED <<rawVars, checkpoint, dashboard, passed, reclaimed>>
  BY DEF EnvCrashes
<1>2. AnswersAreTrue' /\ passes' = [f \in Envs |-> passes'[f]]
  BY <1>1, PassIsOver
<1>3. LedgerTypeOK' /\ ReclaimsTheEnded' /\ ReclaimedIsTold' /\ PassedIsTold'
  <2>1. /\ NobodyReclaims \in [by : Envs \cup {"nobody"}, step : Steps]
        /\ NobodyReclaims.by = "nobody" /\ NobodyReclaims.step = "no"
    BY DEF NobodyReclaims, Steps
  <2>2. LedgerTypeOK'
    BY <1>1, <1>2, <2>1 DEF LedgerTypeOK, rawVars
  <2>3. ReclaimsTheEnded'
    BY <1>1, <2>1 DEF ReclaimsTheEnded, rawVars
  <2>4. ReclaimedIsTold' /\ PassedIsTold'
    BY <1>1 DEF ReclaimedIsTold, PassedIsTold, rawVars
  <2>5. QED BY <2>2, <2>3, <2>4
<1>4. QED BY <1>1, <1>2, <1>3, SourceStays

\* What the producer does keeps the invariant.
LEMMA ProducerKeeps ==
  ASSUME LedgerInv,
         \/ \E good \in BOOLEAN : AppendFrame(good)
         \/ ProducerLoses \/ SegmentIsReplaced \/ AgentEnds
         \/ \E n \in 1 .. MaxEvents : EventExpires(n)
  PROVE  LedgerInv'
<1> USE DEF LedgerInv
<1>1. /\ UNCHANGED <<checkpoint, reclaiming, passes, dashboard, passed, reclaimed>>
      /\ (agentLives' = agentLives \/ agentLives' = FALSE)
  BY DEF AppendFrame, ProducerLoses, SegmentIsReplaced, AgentEnds, EventExpires
<1>2. raw' \in [id : Nat, frames : Seq(Frames)] /\ mark' \in Nat /\ appended' \in Nat /\ swaps' \in Nat
  <2>1. CASE \E good \in BOOLEAN : AppendFrame(good)
    <3>1. PICK good \in BOOLEAN : AppendFrame(good)
      BY <2>1
    <3> DEFINE frame == [event |-> appended + 1, good |-> good]
    <3>2. frame \in Frames /\ raw.frames \in Seq(Frames) /\ raw.id \in Nat /\ appended \in Nat /\ swaps \in Nat
      BY DEF LedgerTypeOK, Frames
    <3>3. raw' = [id |-> IF raw.id = 0 THEN swaps + 2 ELSE raw.id, frames |-> Append(raw.frames, frame)]
          /\ appended' = appended + 1 /\ swaps' = (IF raw.id = 0 THEN swaps + 1 ELSE swaps) /\ mark' = mark
      BY <3>1 DEF AppendFrame
    <3> HIDE DEF frame
    <3>4. Append(raw.frames, frame) \in Seq(Frames)
      BY <3>2
    <3>5. QED BY <3>2, <3>3, <3>4 DEF LedgerTypeOK
  <2>2. CASE ProducerLoses
    BY <2>2 DEF ProducerLoses, LedgerTypeOK
  <2>3. CASE SegmentIsReplaced
    BY <2>3 DEF SegmentIsReplaced, LedgerTypeOK
  <2>4. CASE AgentEnds \/ \E n \in 1 .. MaxEvents : EventExpires(n)
    BY <2>4 DEF AgentEnds, EventExpires, LedgerTypeOK
  <2>5. QED BY <2>1, <2>2, <2>3, <2>4
<1>3. LedgerTypeOK' /\ ReclaimsTheEnded' /\ ReclaimedIsTold'
  <2>1. agentLives' \in BOOLEAN /\ (~ agentLives => ~ agentLives')
    <3>1. CASE agentLives' = agentLives
      BY <3>1 DEF LedgerTypeOK
    <3>2. CASE agentLives' = FALSE
      <4>1. ~ agentLives' /\ FALSE \in BOOLEAN
        BY <3>2
      <4>2. QED BY <3>2, <4>1
    <3>3. QED BY <1>1, <3>1, <3>2
  <2>2. LedgerTypeOK'
    BY <1>1, <1>2, <2>1 DEF LedgerTypeOK
  <2>3. ReclaimsTheEnded' /\ ReclaimedIsTold'
    BY <1>1, <2>1 DEF ReclaimsTheEnded, ReclaimedIsTold
  <2>4. QED BY <2>2, <2>3
<1>4. QED BY <1>1, <1>3, RestStays

\* Nothing was read or told at first.
LEMMA LedgerStarts == LedgerInit => LedgerInv
<1> SUFFICES ASSUME LedgerInit PROVE LedgerInv
  OBVIOUS
<1>1. LedgerTypeOK /\ ReclaimsTheEnded /\ ReclaimedIsTold /\ PassedIsTold /\ AnswersAreTrue /\ SourceIsSound
  BY DEF LedgerInit, LedgerTypeOK, ReclaimsTheEnded, ReclaimedIsTold, PassedIsTold, AnswersAreTrue, SourceIsSound,
         NobodyReclaims, NoBatch, Steps
<1>2. QED BY <1>1 DEF LedgerInv

\* Every step keeps the invariant.
LEMMA LedgerStepKeeps == LedgerInv /\ [LedgerNext]_ledgerVars => LedgerInv'
<1> SUFFICES ASSUME LedgerInv, [LedgerNext]_ledgerVars PROVE LedgerInv'
  OBVIOUS
<1>1. CASE \E e \in Envs : ReadBatch(e)
  BY <1>1, ReadKeeps
<1>2. CASE \E e \in Envs : SendCommits(e) \/ SendFails(e) \/ SendIsRefused(e)
  BY <1>2, SendKeeps
<1>3. CASE \E e \in Envs : Ack(e)
  BY <1>3, AckKeeps
<1>4. CASE \E e \in Envs : Resolve(e)
  BY <1>4, ResolveKeeps
<1>5. CASE (\E e \in Envs : BeginReclaim(e)) \/ RemoveMarker \/ SaveMarkerRemoved \/ LookOnceMore \/ RemoveRaw \/ SaveRawRemoved
  BY <1>5, ReclaimKeeps
<1>6. CASE ForgetSource
  BY <1>6, ForgetKeeps
<1>7. CASE \E e \in Envs : EnvCrashes(e)
  BY <1>7, CrashKeeps
<1>8. CASE \/ \E good \in BOOLEAN : AppendFrame(good)
           \/ ProducerLoses \/ SegmentIsReplaced \/ AgentEnds
           \/ \E n \in 1 .. MaxEvents : EventExpires(n)
  BY <1>8, ProducerKeeps
<1>9. CASE UNCHANGED ledgerVars
  <2>1. UNCHANGED <<checkpoint, passes, dashboard, passed, raw, mark, appended, swaps, agentLives, reclaiming, reclaimed>>
    BY <1>9 DEF ledgerVars, rawVars
  <2>2. LedgerTypeOK' /\ ReclaimsTheEnded' /\ ReclaimedIsTold'
    BY <2>1 DEF LedgerInv, LedgerTypeOK, ReclaimsTheEnded, ReclaimedIsTold
  <2>3. QED BY <2>1, <2>2, RestStays DEF LedgerInv
<1>10. QED BY <1>1, <1>2, <1>3, <1>4, <1>5, <1>6, <1>7, <1>8, <1>9 DEF LedgerNext, LedgerPasses

\* The invariant of the ledger holds throughout.
LEMMA LedgerInvHolds == LedgerSpec => []LedgerInv
<1>1. LedgerInit => LedgerInv
  BY LedgerStarts
<1>2. LedgerInv /\ [LedgerNext]_ledgerVars => LedgerInv'
  BY LedgerStepKeeps
<1>3. QED BY <1>1, <1>2, PTL DEF LedgerSpec

\* An event is gone past only when the dashboard has it or is told why not, and
\* a segment is removed only behind its tail gap: whatever the bounds, the
\* hosts and the batches.
THEOREM LedgerHolds == LedgerSpec => []LedgerIsHonest
<1>1. LedgerInv => LedgerIsHonest
  <2> SUFFICES ASSUME LedgerInv PROVE LedgerIsHonest
    OBVIOUS
  <2> USE DEF LedgerInv
  <2>1. ASSUME checkpoint.source # NoSource, IsPrefixOfRaw(checkpoint.source), NEW k \in 1 .. checkpoint.source.offset
        PROVE  \E p \in passed : p[1] = raw.frames[k].event
    <3> DEFINE s == checkpoint.source
    <3>1. /\ s.seen \in Seq(Frames) /\ raw.frames \in Seq(Frames) /\ s.offset \in Nat
          /\ CursorIsPassed(s) /\ IsPrefix(s.seen, raw.frames)
      BY <2>1 DEF SourceIsSound, IsSound, Sources, LedgerTypeOK, IsPrefixOfRaw
    <3>2. Len(s.seen) \in Nat /\ \A j \in 1 .. Len(s.seen) : s.seen[j] = raw.frames[j]
      BY <3>1, PrefixIs
    <3>3. k \in 1 .. Len(s.seen)
      BY <3>1, <3>2 DEF CursorIsPassed
    <3>4. QED BY <3>1, <3>2, <3>3 DEF CursorIsPassed
  <2>2. QED BY <2>1 DEF PassedIsTold, LedgerIsHonest, NothingIsSkipped
<1>2. QED BY <1>1, LedgerInvHolds, PTL


-----------------------------------------------------------------------------
(***************************************************************************)
(* What the host tells its services and what /health says of it, however   *)
(* many beats overlap.                                                     *)
(***************************************************************************)

Outcomes == {"accepts", "refuses", "forbids", "down"}
Conclusive == {"accepts", "refuses", "forbids"}

AnswersGot == UNION {[asked -> Outcomes] : asked \in SUBSET BeatTargets}
BeatRecords == [left : SUBSET BeatTargets, got : AnswersGot, sent : 0..2, newest : BOOLEAN]

BeatTypes ==
    /\ entries \in [BeatNames -> Entry] /\ answers \in [BeatNames -> Outcomes] /\ harnesses \in 1..2
    /\ heard \in [BeatTargets -> Nat]
    /\ attempts \in [BeatTargets -> Outcomes \cup {"none"}]
    /\ told \subseteq BeatTargets
    /\ detected \in [what : 0..2, age : Nat]
    /\ inFlight \in [BeatSlots -> BeatRecords]
    /\ said \in [BeatTargets -> Conclusive \cup {"none"}]
    /\ heldBy \in [BeatTargets -> Nat]
    /\ installedAt \in [1..2 -> Nat]

\* A beat tells each of its targets once.
ToldOnce == \A k \in BeatSlots : DOMAIN inFlight[k].got \cap inFlight[k].left = {}

\* The beat that is said to hold a target's last answer has it.
HeldIsHeld ==
    \A t \in BeatTargets : heldBy[t] \in BeatSlots =>
        /\ t \in DOMAIN inFlight[heldBy[t]].got /\ said[t] \in Conclusive
        /\ inFlight[heldBy[t]].got[t] = said[t]

\* What is kept of a target whose last answer was kept is that answer.
KeptIsSaid ==
    \A t \in BeatTargets : heldBy[t] = Kept =>
        /\ heard[t] <= BeatStale => said[t] = "accepts"
        /\ attempts[t] \in Conclusive => said[t] = attempts[t]

\* A walk that is not due yet found what was installed so many intervals ago.
WalkIsRecent ==
    detected.age < BeatRewalk => detected.what \in 1..2 /\ installedAt[detected.what] <= detected.age

NewestIsRecent ==
    \A k \in BeatSlots : inFlight[k].newest => inFlight[k].sent \in 1..2 /\ installedAt[inFlight[k].sent] <= BeatRewalk

BeatInv == BeatTypes /\ ToldOnce /\ HeldIsHeld /\ KeptIsSaid /\ WalkIsRecent /\ NewestIsRecent

LEMMA SlotFacts ==
    ASSUME BeatAssumption
    PROVE  /\ \A k \in BeatSlots : k \in Nat /\ k # Kept /\ k # Overtaken
           /\ Kept \in Nat /\ Overtaken \in Nat /\ Kept # Overtaken
BY DEF BeatAssumption, BeatSlots, Kept, Overtaken

LEMMA NoAnswerYet == [t \in {} |-> "none"] \in AnswersGot /\ DOMAIN [t \in {} |-> "none"] = {}
<1>1. [t \in {} |-> "none"] \in [{} -> Outcomes]
    OBVIOUS
<1> QED BY <1>1 DEF AnswersGot

LEMMA NoBeatFacts ==
    /\ NoBeat \in BeatRecords /\ NoBeat.left = {} /\ DOMAIN NoBeat.got = {} /\ NoBeat.newest = FALSE
BY NoAnswerYet DEF NoBeat, BeatRecords

LEMMA BeatsBegin == BeatAssumption /\ BeatsInit => BeatInv
<1> SUFFICES ASSUME BeatAssumption, BeatsInit PROVE BeatInv
    OBVIOUS
<1>1. inFlight \in [BeatSlots -> BeatRecords] /\ \A k \in BeatSlots : inFlight[k] = NoBeat
    BY NoBeatFacts DEF BeatsInit
<1>2. BeatTypes
    BY <1>1 DEF BeatAssumption, BeatsInit, BeatTypes, Outcomes, Conclusive, LongAgo, NotYet, Kept
<1>3. ToldOnce /\ NewestIsRecent
    BY <1>1, NoBeatFacts DEF ToldOnce, NewestIsRecent
<1>4. HeldIsHeld
    BY SlotFacts DEF BeatsInit, HeldIsHeld
<1>5. KeptIsSaid
    BY DEF BeatAssumption, BeatsInit, KeptIsSaid, LongAgo, Conclusive
<1>6. WalkIsRecent
    BY DEF BeatAssumption, BeatsInit, WalkIsRecent, NotYet
<1> QED BY <1>2, <1>3, <1>4, <1>5, <1>6 DEF BeatInv

LEMMA SurroundingsKeepIt ==
    ASSUME BeatAssumption, BeatInv, Rewrites \/ Turns
    PROVE  BeatInv'
<1>1. UNCHANGED <<heard, attempts, told, detected, inFlight, said, heldBy>>
    BY DEF Rewrites, Turns
<1>2. entries' \in [BeatNames -> Entry]
    <2>1. CASE UNCHANGED entries
        BY <2>1 DEF BeatInv, BeatTypes
    <2>2. ASSUME NEW n \in BeatNames, NEW e \in Entry,
                 entries' \in {[entries EXCEPT ![n].listed = e.listed], [entries EXCEPT ![n].url = e.url],
                               [entries EXCEPT ![n].advertise = e.advertise], [entries EXCEPT ![n].path = e.path]}
          PROVE  entries' \in [BeatNames -> Entry]
        BY <2>2 DEF BeatInv, BeatTypes, Entry
    <2> QED BY <2>1, <2>2 DEF Rewrites, Turns
<1>3. answers' \in [BeatNames -> Outcomes] /\ harnesses' \in 1..2
    BY DEF Rewrites, Turns, BeatInv, BeatTypes, Outcomes
<1>4. installedAt' \in [1..2 -> Nat] /\ \A h \in 1..2 : installedAt'[h] <= installedAt[h]
    <2>1. CASE installedAt' = installedAt
        BY <2>1 DEF BeatInv, BeatTypes
    <2>2. CASE installedAt' = [installedAt EXCEPT ![harnesses'] = 0]
        BY <2>2, <1>3 DEF BeatInv, BeatTypes
    <2> QED BY <2>1, <2>2 DEF Rewrites, Turns
<1>5. BeatTypes'
    BY <1>1, <1>2, <1>3, <1>4 DEF BeatInv, BeatTypes, BeatTargets, BeatSlots, BeatRecords, AnswersGot
<1>6. ToldOnce' /\ HeldIsHeld' /\ KeptIsSaid'
    BY <1>1 DEF BeatInv, ToldOnce, HeldIsHeld, KeptIsSaid, BeatSlots, BeatTargets
<1>7. WalkIsRecent' /\ NewestIsRecent'
    BY <1>1, <1>4 DEF BeatAssumption, BeatInv, BeatTypes, WalkIsRecent, NewestIsRecent, BeatSlots
<1> QED BY <1>5, <1>6, <1>7 DEF BeatInv

\* One interval: everything kept is an interval older, a beat begins in a free
\* slot with what was found, and the one of the last interval is the newest no
\* more.
LEMMA BeatsKeepIt ==
    ASSUME BeatAssumption, BeatInv, Beats
    PROVE  BeatInv'
<1> DEFINE age == Older(detected.age, BeatRewalk)
           begun == [left |-> TargetsNow, got |-> [t \in {} |-> "none"], sent |-> detected'.what, newest |-> TRUE]
<1>1. PICK k \in BeatSlots :
        /\ inFlight[k] = NoBeat
        /\ inFlight' = [j \in BeatSlots |-> IF j = k /\ TargetsNow # {} THEN begun ELSE [inFlight[j] EXCEPT !.newest = FALSE]]
    BY DEF Beats, Free, BodyOf
<1>2. BeatRewalk \in Nat /\ BeatStale \in Nat /\ detected.age \in Nat /\ detected.what \in 0..2 /\ harnesses \in 1..2
    BY DEF BeatInv, BeatTypes, BeatAssumption
<1>3. TargetsNow \subseteq BeatTargets
    BY DEF TargetsNow, BeatTargets, BeatInv, BeatTypes, Entry
<1>4. /\ told' = TargetsNow /\ UNCHANGED <<entries, answers, harnesses, attempts, said, heldBy>>
      /\ heard' = [t \in BeatTargets |-> Older(heard[t], LongAgo)]
      /\ installedAt' = [h \in 1..2 |-> IF h = harnesses THEN 0 ELSE Older(installedAt[h], NotYet + 1)]
      /\ detected' = IF TargetsNow # {} /\ WalkIsDue(age) THEN Walked ELSE [detected EXCEPT !.age = age]
    BY DEF Beats
<1>5. age \in Nat /\ (age < BeatRewalk => age = detected.age + 1 /\ detected.age < BeatRewalk)
    BY <1>2 DEF Older
<1>6. installedAt' \in [1..2 -> Nat] /\ installedAt'[harnesses] = 0
      /\ \A h \in 1..2 : installedAt'[h] <= installedAt[h] + 1
    BY <1>2, <1>4 DEF BeatInv, BeatTypes, Older, NotYet
<1>7. heard' \in [BeatTargets -> Nat] /\ \A t \in BeatTargets : heard'[t] <= BeatStale => heard[t] <= BeatStale
    BY <1>2, <1>4 DEF BeatInv, BeatTypes, Older, LongAgo
<1>8. \/ TargetsNow # {} /\ age >= BeatRewalk /\ detected' = [what |-> harnesses, age |-> 0]
      \/ (TargetsNow # {} => age < BeatRewalk) /\ detected' = [what |-> detected.what, age |-> age]
    <2>1. detected = [what |-> detected.what, age |-> detected.age]
        BY DEF BeatInv, BeatTypes
    <2>2. [detected EXCEPT !.age = age] = [what |-> detected.what, age |-> age]
        BY <2>1
    <2>3. CASE TargetsNow # {} /\ WalkIsDue(age)
        BY <2>3, <1>4 DEF WalkIsDue, Walked
    <2>4. CASE ~(TargetsNow # {} /\ WalkIsDue(age))
        BY <2>2, <2>4, <1>2, <1>4, <1>5 DEF WalkIsDue
    <2> QED BY <2>3, <2>4
<1>9. WalkIsRecent'
    BY <1>2, <1>5, <1>6, <1>8 DEF BeatInv, BeatTypes, WalkIsRecent
<1>10. detected' \in [what : 0..2, age : Nat]
       /\ (TargetsNow # {} => detected'.what \in 1..2 /\ installedAt'[detected'.what] <= BeatRewalk)
    <2>1. detected' \in [what : 0..2, age : Nat]
        BY <1>2, <1>5, <1>8
    <2>2. TargetsNow # {} => detected'.what \in 1..2 /\ installedAt'[detected'.what] <= BeatRewalk
        BY <1>2, <1>5, <1>6, <1>8 DEF BeatInv, BeatTypes, WalkIsRecent
    <2> QED BY <2>1, <2>2
<1>11. \A j \in BeatSlots :
         /\ inFlight'[j] \in BeatRecords
         /\ DOMAIN inFlight'[j].got \cap inFlight'[j].left = {}
         /\ inFlight'[j].newest => inFlight'[j].sent \in 1..2 /\ installedAt'[inFlight'[j].sent] <= BeatRewalk
         /\ j # k => inFlight'[j].got = inFlight[j].got
    <2>1. SUFFICES ASSUME NEW j \in BeatSlots
                   PROVE  /\ inFlight'[j] \in BeatRecords
                          /\ DOMAIN inFlight'[j].got \cap inFlight'[j].left = {}
                          /\ inFlight'[j].newest => inFlight'[j].sent \in 1..2 /\ installedAt'[inFlight'[j].sent] <= BeatRewalk
                          /\ j # k => inFlight'[j].got = inFlight[j].got
        OBVIOUS
    <2>2. CASE j = k /\ TargetsNow # {}
        <3> HIDE DEF age
        <3>1. inFlight'[j] = begun
            BY <1>1, <2>2
        <3>2. begun \in BeatRecords
            BY <1>3, <1>10, NoAnswerYet DEF BeatRecords
        <3> QED BY <3>1, <3>2, <2>2, <1>10, NoAnswerYet
    <2>3. CASE ~(j = k /\ TargetsNow # {})
        <3>1. inFlight'[j] = [inFlight[j] EXCEPT !.newest = FALSE] /\ inFlight[j] \in BeatRecords
            BY <1>1, <2>3 DEF BeatInv, BeatTypes
        <3> QED BY <3>1 DEF BeatInv, ToldOnce, BeatRecords
    <2> QED BY <2>2, <2>3
<1>12. inFlight' \in [BeatSlots -> BeatRecords] /\ ToldOnce' /\ NewestIsRecent'
    BY <1>1, <1>11 DEF ToldOnce, NewestIsRecent, BeatSlots
<1>13. BeatTypes'
    BY <1>3, <1>4, <1>6, <1>7, <1>10, <1>12 DEF BeatInv, BeatTypes, BeatTargets, BeatSlots, BeatRecords, AnswersGot
<1>14. HeldIsHeld'
    <2>1. SUFFICES ASSUME NEW t \in BeatTargets, heldBy[t] \in BeatSlots
                   PROVE  /\ t \in DOMAIN inFlight'[heldBy[t]].got /\ said[t] \in Conclusive
                          /\ inFlight'[heldBy[t]].got[t] = said[t]
        BY <1>4 DEF HeldIsHeld, BeatTargets, BeatSlots
    <2>2. /\ t \in DOMAIN inFlight[heldBy[t]].got /\ said[t] \in Conclusive
          /\ inFlight[heldBy[t]].got[t] = said[t]
        BY <2>1 DEF BeatInv, HeldIsHeld
    <2>3. heldBy[t] # k
        BY <2>2, <1>1, NoBeatFacts
    <2> QED BY <2>1, <2>2, <2>3, <1>11
<1>15. KeptIsSaid'
    BY <1>4, <1>7 DEF BeatInv, KeptIsSaid, BeatTargets, Kept
<1> QED BY <1>9, <1>12, <1>13, <1>14, <1>15 DEF BeatInv

\* One target is told once: what it answers is noted in its beat before it is
\* kept.
LEMMA TellingKeepsIt ==
    ASSUME BeatAssumption, BeatInv, NEW k \in BeatSlots, Tells(k)
    PROVE  BeatInv'
<1>1. PICK t \in inFlight[k].left :
        /\ inFlight' = [inFlight EXCEPT
             ![k].left = @ \ {t},
             ![k].got = [u \in DOMAIN inFlight[k].got \cup {t} |-> IF u = t THEN answers[t[1]] ELSE inFlight[k].got[u]]]
        /\ IF answers[t[1]] = "down" THEN UNCHANGED <<said, heldBy>>
           ELSE said' = [said EXCEPT ![t] = answers[t[1]]] /\ heldBy' = [heldBy EXCEPT ![t] = k]
    BY DEF Tells
<1> DEFINE reply == answers[t[1]]
           b == inFlight[k]
           got == [u \in DOMAIN b.got \cup {t} |-> IF u = t THEN reply ELSE b.got[u]]
<1>2. UNCHANGED <<entries, answers, harnesses, heard, attempts, told, detected, installedAt>>
    BY DEF Tells
<1>3. b \in BeatRecords /\ t \in BeatTargets /\ t \notin DOMAIN b.got /\ k \in Nat /\ inFlight \in [BeatSlots -> BeatRecords]
    BY <1>1, SlotFacts DEF BeatInv, BeatTypes, BeatRecords, ToldOnce
<1>4. reply \in Outcomes
    BY <1>3 DEF BeatTargets, BeatInv, BeatTypes
<1>5. DOMAIN got = DOMAIN b.got \cup {t} /\ got[t] = reply /\ \A u \in DOMAIN b.got : got[u] = b.got[u]
    BY <1>3
<1>6. got \in AnswersGot
    <2>1. DOMAIN b.got \subseteq BeatTargets /\ \A u \in DOMAIN b.got : b.got[u] \in Outcomes
        BY <1>3 DEF BeatRecords, AnswersGot
    <2>2. got \in [DOMAIN b.got \cup {t} -> Outcomes]
        BY <1>4, <2>1
    <2> QED BY <1>3, <2>1, <2>2 DEF AnswersGot
<1> DEFINE c == [b EXCEPT !.left = @ \ {t}, !.got = got]
<1>7. c \in BeatRecords /\ c.left = b.left \ {t} /\ c.got = got /\ c.sent = b.sent /\ c.newest = b.newest
    <2> HIDE DEF got, b
    <2> QED BY <1>3, <1>6 DEF BeatRecords
<1>8. inFlight' = [inFlight EXCEPT ![k] = c]
    <2>1. inFlight' = [inFlight EXCEPT ![k].left = @ \ {t}, ![k].got = got]
        BY <1>1
    <2> HIDE DEF got
    <2> QED BY <2>1, <1>3
<1> HIDE DEF c
<1>9. inFlight'[k] = c /\ (\A j \in BeatSlots \ {k} : inFlight'[j] = inFlight[j]) /\ inFlight' \in [BeatSlots -> BeatRecords]
    BY <1>3, <1>7, <1>8
<1> HIDE DEF got
<1>10. \/ /\ reply = "down" /\ UNCHANGED <<said, heldBy>>
       \/ /\ reply \in Conclusive /\ said' = [said EXCEPT ![t] = reply] /\ heldBy' = [heldBy EXCEPT ![t] = k]
    BY <1>1, <1>4 DEF Outcomes, Conclusive
<1>11. said' \in [BeatTargets -> Conclusive \cup {"none"}] /\ heldBy' \in [BeatTargets -> Nat]
       /\ \A u \in BeatTargets \ {t} : said'[u] = said[u] /\ heldBy'[u] = heldBy[u]
    BY <1>3, <1>10 DEF BeatInv, BeatTypes
<1>12. BeatTypes'
    BY <1>2, <1>9, <1>11 DEF BeatInv, BeatTypes, BeatTargets, BeatSlots, BeatRecords, AnswersGot
<1>13. WalkIsRecent'
    BY <1>2 DEF BeatInv, WalkIsRecent
<1>14. ToldOnce' /\ NewestIsRecent'
    <2>1. \A j \in BeatSlots : DOMAIN inFlight'[j].got \cap inFlight'[j].left = {}
        BY <1>5, <1>7, <1>9 DEF BeatInv, ToldOnce
    <2>2. \A j \in BeatSlots : inFlight'[j].newest = inFlight[j].newest /\ inFlight'[j].sent = inFlight[j].sent
        BY <1>7, <1>9
    <2> QED BY <1>2, <2>1, <2>2 DEF ToldOnce, NewestIsRecent, BeatSlots, BeatInv
<1>15. HeldIsHeld'
    <2>1. SUFFICES ASSUME NEW u \in BeatTargets, heldBy'[u] \in BeatSlots
                   PROVE  /\ u \in DOMAIN inFlight'[heldBy'[u]].got /\ said'[u] \in Conclusive
                          /\ inFlight'[heldBy'[u]].got[u] = said'[u]
        BY DEF HeldIsHeld, BeatTargets, BeatSlots
    <2>2. CASE u = t /\ reply \in Conclusive /\ heldBy'[t] = k /\ said'[t] = reply
        BY <2>2, <1>5, <1>7, <1>9
    <2>3. CASE said'[u] = said[u] /\ heldBy'[u] = heldBy[u]
        <3>1. /\ u \in DOMAIN inFlight[heldBy[u]].got /\ said[u] \in Conclusive
              /\ inFlight[heldBy[u]].got[u] = said[u]
            BY <2>1, <2>3 DEF BeatInv, HeldIsHeld
        <3>2. CASE heldBy[u] = k
            BY <2>3, <3>1, <3>2, <1>5, <1>7, <1>9
        <3>3. CASE heldBy[u] # k
            BY <2>1, <2>3, <3>1, <3>3, <1>9
        <3> QED BY <3>2, <3>3
    <2>4. CASE u = t /\ reply = "down" /\ UNCHANGED <<said, heldBy>>
        BY <2>4, <2>3
    <2>5. CASE u = t
        BY <2>5, <2>2, <2>4, <1>3, <1>10 DEF BeatInv, BeatTypes
    <2> QED BY <2>3, <2>5, <1>11
<1>16. KeptIsSaid'
    <2>1. SUFFICES ASSUME NEW u \in BeatTargets, heldBy'[u] = Kept
                   PROVE  /\ heard[u] <= BeatStale => said'[u] = "accepts"
                          /\ attempts[u] \in Conclusive => said'[u] = attempts[u]
        BY <1>2 DEF KeptIsSaid, BeatTargets, Kept
    <2>2. said'[u] = said[u] /\ heldBy'[u] = heldBy[u]
        BY <2>1, <1>3, <1>10, <1>11, SlotFacts DEF BeatInv, BeatTypes
    <2> QED BY <2>1, <2>2 DEF BeatInv, KeptIsSaid
<1> QED BY <1>12, <1>13, <1>14, <1>15, <1>16 DEF BeatInv

\* A beat that ends keeps each answer under the target it was asked of, and
\* where it keeps it over a newer one, that is noted.
LEMMA EndingKeepsBeats ==
    ASSUME BeatAssumption, BeatInv, NEW k \in BeatSlots, BeatEnds(k)
    PROVE  BeatInv'
<1> DEFINE got == inFlight[k].got
<1>1. /\ inFlight' = [inFlight EXCEPT ![k] = NoBeat]
      /\ attempts' = [t \in BeatTargets |-> IF t \in DOMAIN got THEN got[t] ELSE attempts[t]]
      /\ heard' = [t \in BeatTargets |->
              IF \E u \in {v \in DOMAIN got : t \in AcceptanceKey(v)} : got[u] = "accepts" THEN 0
              ELSE IF \E u \in {v \in DOMAIN got : t \in AcceptanceKey(v)} : Revokes(got[u]) THEN LongAgo
              ELSE heard[t]]
      /\ heldBy' = [t \in BeatTargets |-> HeldAfter(t, k)]
      /\ UNCHANGED <<entries, answers, harnesses, told, detected, said, installedAt>>
    BY DEF BeatEnds
<1>2. inFlight[k] \in BeatRecords /\ \A t \in DOMAIN got : got[t] \in Outcomes
    BY DEF BeatInv, BeatTypes, BeatRecords, AnswersGot
<1>3. \A t \in BeatTargets :
        /\ t \in DOMAIN got /\ got[t] = "accepts" => heard'[t] = 0
        /\ t \in DOMAIN got /\ got[t] \in {"refuses", "forbids"} => heard'[t] = LongAgo
        /\ (t \in DOMAIN got => got[t] = "down") => heard'[t] = heard[t]
    BY <1>1 DEF AcceptanceKey, Revokes
<1>4. attempts' \in [BeatTargets -> Outcomes \cup {"none"}] /\ heard' \in [BeatTargets -> Nat]
    BY <1>1, <1>2 DEF BeatInv, BeatTypes, BeatAssumption, LongAgo
<1>5. heldBy' \in [BeatTargets -> Nat] /\ \A t \in BeatTargets : heldBy'[t] = HeldAfter(t, k)
    BY <1>1, SlotFacts DEF BeatInv, BeatTypes, HeldAfter
<1>6. inFlight' \in [BeatSlots -> BeatRecords] /\ inFlight'[k] = NoBeat /\ \A j \in BeatSlots \ {k} : inFlight'[j] = inFlight[j]
    BY <1>1, NoBeatFacts DEF BeatInv, BeatTypes
<1>7. BeatTypes'
    BY <1>1, <1>4, <1>5, <1>6 DEF BeatInv, BeatTypes, BeatTargets, BeatSlots, BeatRecords, AnswersGot
<1>8. WalkIsRecent'
    BY <1>1 DEF BeatInv, WalkIsRecent
<1>9. ToldOnce' /\ NewestIsRecent'
    <2>1. \A j \in BeatSlots : inFlight'[j] = NoBeat \/ inFlight'[j] = inFlight[j]
        BY <1>6
    <2> QED BY <1>1, <2>1, NoBeatFacts DEF BeatInv, ToldOnce, NewestIsRecent, BeatSlots
<1>10. ASSUME NEW t \in BeatTargets
       PROVE  \/ (t \in DOMAIN got => got[t] = "down") /\ heldBy'[t] = heldBy[t]
              \/ t \in DOMAIN got /\ got[t] \in Conclusive /\ heldBy[t] = k /\ heldBy'[t] = Kept
              \/ heldBy[t] = Kept /\ heldBy'[t] = Overtaken
              \/ heldBy[t] \notin {k, Kept} /\ heldBy'[t] = heldBy[t]
    BY <1>2, <1>5 DEF HeldAfter, Outcomes, Conclusive
<1>11. HeldIsHeld'
    <2>1. SUFFICES ASSUME NEW t \in BeatTargets, heldBy'[t] \in BeatSlots
                   PROVE  /\ t \in DOMAIN inFlight'[heldBy'[t]].got /\ said[t] \in Conclusive
                          /\ inFlight'[heldBy'[t]].got[t] = said[t]
        BY <1>1 DEF HeldIsHeld, BeatTargets, BeatSlots
    <2>2. heldBy'[t] = heldBy[t]
        BY <2>1, <1>10, SlotFacts
    <2>3. /\ t \in DOMAIN inFlight[heldBy[t]].got /\ said[t] \in Conclusive
          /\ inFlight[heldBy[t]].got[t] = said[t]
        BY <2>1, <2>2 DEF BeatInv, HeldIsHeld
    <2>4. heldBy[t] # k
        <3>1. SUFFICES ASSUME heldBy[t] = k PROVE FALSE
            OBVIOUS
        <3>2. t \in DOMAIN got /\ got[t] \in Conclusive
            BY <2>3, <3>1
        <3> QED BY <3>1, <3>2, <2>2, <1>10, SlotFacts DEF Conclusive
    <2> QED BY <2>1, <2>2, <2>3, <2>4, <1>6
<1>12. KeptIsSaid'
    <2>1. SUFFICES ASSUME NEW t \in BeatTargets, heldBy'[t] = Kept
                   PROVE  /\ heard'[t] <= BeatStale => said[t] = "accepts"
                          /\ attempts'[t] \in Conclusive => said[t] = attempts'[t]
        BY <1>1 DEF KeptIsSaid, BeatTargets, Kept
    <2>2. CASE (t \in DOMAIN got => got[t] = "down") /\ heldBy[t] = Kept
        <3>1. heard'[t] = heard[t]
            BY <2>2, <1>3
        <3>2. attempts'[t] \in Conclusive => attempts'[t] = attempts[t]
            BY <2>2, <1>1 DEF Conclusive
        <3> QED BY <2>2, <3>1, <3>2 DEF BeatInv, KeptIsSaid
    <2>3. CASE t \in DOMAIN got /\ got[t] \in Conclusive /\ heldBy[t] = k
        <3>1. got[t] = said[t]
            BY <2>3 DEF BeatInv, HeldIsHeld
        <3>2. attempts'[t] = said[t]
            BY <2>3, <3>1, <1>1
        <3>3. heard'[t] <= BeatStale => said[t] = "accepts"
            BY <2>3, <3>1, <1>3 DEF Conclusive, LongAgo, BeatAssumption
        <3> QED BY <3>2, <3>3
    <2> QED BY <2>1, <2>2, <2>3, <1>10, SlotFacts
<1> QED BY <1>7, <1>8, <1>9, <1>11, <1>12 DEF BeatInv

\* The doctor blames a credential only for a refusal, and passes only acceptances.
LEMMA DoctorFollowsTheOutcomes ==
    ASSUME BeatTypes
    PROVE  /\ DoctorSays(AttemptsByName) = "failed" => \E t \in told : attempts[t] = "refuses"
           /\ DoctorSays(AttemptsByName) = "passed" => \A t \in told : attempts[t] = "accepts"
<1> DEFINE causes == {CauseOf(r[2]) : r \in AttemptsByName}
<1>1. causes = {CauseOf(attempts[t]) : t \in told}
    <2>1. \A t \in told : <<t, attempts[t]>>[2] = attempts[t]
        OBVIOUS
    <2>2. \A r \in AttemptsByName : \E t \in told : r[2] = attempts[t]
        BY <2>1 DEF AttemptsByName
    <2>3. \A t \in told : \E r \in AttemptsByName : r[2] = attempts[t]
        BY <2>1 DEF AttemptsByName
    <2> QED BY <2>2, <2>3
<1>2. \A t \in told : CauseOf(attempts[t]) = IF attempts[t] = "refuses" THEN "refused-credential" ELSE attempts[t]
    BY DEF CauseOf
<1>3. DoctorSays(AttemptsByName) = CASE "refused-credential" \in causes -> "failed"
                                     [] causes \subseteq {"accepts"} -> "passed"
                                     [] OTHER -> "unanswered"
    BY DEF DoctorSays
<1>4. DoctorSays(AttemptsByName) = "failed" => "refused-credential" \in causes
    BY <1>3
<1>5. DoctorSays(AttemptsByName) = "passed" => causes \subseteq {"accepts"}
    BY <1>3
<1>6. \A t \in told : attempts[t] # "refused-credential"
    BY DEF BeatTypes, Outcomes
<1>7. "refused-credential" \in causes => \E t \in told : attempts[t] = "refuses"
    BY <1>1, <1>2, <1>6
<1>8. causes \subseteq {"accepts"} => \A t \in told : attempts[t] = "accepts"
    BY <1>1, <1>2
<1> QED BY <1>4, <1>5, <1>7, <1>8

\* What /health says of each service, and the doctor of /health
\* (host-advertiser.mjs, advertise.mjs), however many beats are in flight: a
\* service's bridge stands down only while the service's last word to its own
\* credential at the endpoint it has now was an acceptance; the outcome kept of
\* a target is the last it had; the doctor fails only a refusal and passes only
\* acceptances, each but for a last word that a beat still holds or that an
\* older beat was kept over; and what a beat says is installed was so within
\* the walk's interval.
THEOREM BeatsHold ==
    ASSUME BeatAssumption
    PROVE  BeatsSpec => []HealthIsHonest
<1>1. BeatsInit => BeatInv
    BY BeatsBegin
<1>2. BeatInv /\ [BeatsNext]_beatVars => BeatInv'
    <2>1. SUFFICES ASSUME BeatInv, [BeatsNext]_beatVars PROVE BeatInv'
        OBVIOUS
    <2>2. CASE Rewrites \/ Turns
        BY <2>1, <2>2, SurroundingsKeepIt
    <2>3. CASE Beats
        BY <2>1, <2>3, BeatsKeepIt
    <2>4. ASSUME NEW k \in BeatSlots, Tells(k) PROVE BeatInv'
        BY <2>1, <2>4, TellingKeepsIt
    <2>5. ASSUME NEW k \in BeatSlots, BeatEnds(k) PROVE BeatInv'
        BY <2>1, <2>5, EndingKeepsBeats
    <2>6. CASE UNCHANGED beatVars
        BY <2>1, <2>6 DEF beatVars, BeatInv, BeatTypes, BeatRecords, AnswersGot, BeatTargets, BeatSlots, ToldOnce,
                          HeldIsHeld, KeptIsSaid, WalkIsRecent, NewestIsRecent
    <2> QED BY <2>1, <2>2, <2>3, <2>4, <2>5, <2>6 DEF BeatsNext
<1>3. BeatInv => HealthIsHonest
    <2>1. SUFFICES ASSUME BeatInv PROVE HealthIsHonest
        OBVIOUS
    <2>2. \A t \in BeatTargets : IsKept(t) =>
            /\ heard[t] <= BeatStale => said[t] = "accepts"
            /\ attempts[t] \in Conclusive => said[t] = attempts[t]
        BY <2>1 DEF BeatInv, KeptIsSaid, IsKept
    <2>3. RefusedIsNotFresh
        BY <2>2 DEF RefusedIsNotFresh, Fresh
    <2>4. AttemptsAreLast
        BY <2>2 DEF AttemptsAreLast, Conclusive
    <2>5. DoctorIsFair
        <3>1. told \subseteq BeatTargets /\ BeatTypes
            BY <2>1 DEF BeatInv, BeatTypes
        <3> QED BY <2>2, <3>1, DoctorFollowsTheOutcomes DEF DoctorIsFair, Conclusive
    <2>6. ToldIsRecent
        BY <2>1 DEF BeatInv, NewestIsRecent, ToldIsRecent
    <2> QED BY <2>3, <2>4, <2>5, <2>6 DEF HealthIsHonest
<1> QED BY <1>1, <1>2, <1>3, PTL DEF BeatsSpec
=============================================================================
