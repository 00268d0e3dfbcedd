-------------------------- MODULE StatePublication --------------------------
(***************************************************************************)
(* How an instance's agent states reach the services that ask for them, and *)
(* how its key is retired when it stops: AgentStateSender                   *)
(* (agent-state-sender.mjs), AgentStatePublisher (agent-state-publisher.mjs) *)
(* and the proof of AgentStateHost.retirementProof (agent-state-host.mjs).  *)
(*                                                                         *)
(* One agent, one registry entry whose target may be edited, and a receiver *)
(* at each target.  A publication number only orders bodies: what is on the *)
(* network is kept in that order, and a receiver drops what is older than   *)
(* what it took.  The clock is the flag that says a snapshot is due.        *)
(***************************************************************************)
EXTENDS Naturals, Sequences, FiniteSets, SequencesExt

CONSTANTS
    Targets,     \* the targets the registry entry has named
    MaxMoves,    \* bound: changes of the agent's state
    MaxEdits,    \* bound: edits of the registry
    MaxStrays    \* bound: bodies on their way to one target

\* The agent's row: not listed, listed with no lifetime, or with one of two
\* lifetimes.
Rows == {"absent", "cold", "l1", "l2"}
LifetimeOf(shown) == IF shown \in {"l1", "l2"} THEN shown ELSE "none"
NoView == "no view"
Nothing == "nothing"

VARIABLES
    row,        \* the agent as the host sees it
    whole,      \* the enumeration is complete
    moves,
    endings,    \* managed lifetimes the host saw end
    named,      \* the target the registry names, Nothing when none
    edits,
    gathering,  \* #collecting: "no", "registry" or "states"
    more,       \* #again
    slot,       \* #slots' slot: target, view, and whether its snapshot is due
    request,    \* #occupied's request; its answer is "awaited" while its body is on its way
    net,        \* bodies on their way to each target, in the order of their numbers
    published,  \* AgentStatePublisher's #published
    sentTo,     \* #everSent
    frozen,     \* #terminal: the slot's target at stop()
    closing,    \* "no", "stopped", "proven", "posting", "over"
    outcome,    \* what retire() resolved with
    takes       \* each receiver: the row it has, the lifetimes it was ever shown,
                \* and whether the key is retired

factVars == <<row, whole, moves, endings>>
senderVars == <<gathering, more, slot, request, published, sentTo>>
retireVars == <<frozen, closing, outcome>>
publicationVars == <<factVars, named, edits, senderVars, net, retireVars, takes>>

NoSlot == [target |-> Nothing, view |-> NoView, due |-> TRUE]
NoPublication == [stage |-> "none", target |-> Nothing, row |-> "absent", whole |-> FALSE,
              current |-> FALSE, snapshot |-> FALSE, answer |-> "none"]

PublicationInit ==
    /\ row \in {"cold", "l1"} /\ whole = TRUE /\ moves = 0 /\ endings = {}
    /\ named \in Targets /\ edits = 0
    /\ gathering = "no" /\ more = FALSE /\ slot = NoSlot /\ request = NoPublication
    /\ net = [t \in Targets |-> <<>>] /\ published = {} /\ sentTo = {}
    /\ frozen = Nothing /\ closing = "no" /\ outcome = "none"
    /\ takes = [t \in Targets |-> [row |-> "absent", seen |-> {}, retired |-> FALSE]]

(***************************************************************************)
(* The agent, and the registry.                                            *)
(***************************************************************************)
\* A lifetime begins from a cold row and ends into one; it never comes back.
Follows(to) ==
    CASE row = "absent" -> to = "cold"
      [] row = "cold" -> to = "absent" \/ (LifetimeOf(to) # "none" /\ LifetimeOf(to) \notin endings)
      [] OTHER -> to = "cold"

Moves(to) ==
    /\ moves < MaxMoves /\ Follows(to)
    /\ moves' = moves + 1 /\ row' = to
    /\ endings' = IF to = "cold" /\ LifetimeOf(row) # "none" THEN endings \cup {LifetimeOf(row)} ELSE endings
    /\ UNCHANGED <<whole, named, edits, senderVars, net, retireVars, takes>>

\* An enumeration becomes partial (a folder that cannot be listed), or whole.
Completeness ==
    /\ moves < MaxMoves
    /\ moves' = moves + 1 /\ whole' = ~whole
    /\ UNCHANGED <<row, endings, named, edits, senderVars, net, retireVars, takes>>

EditRegistry(t) ==
    /\ edits < MaxEdits /\ t # named
    /\ edits' = edits + 1 /\ named' = t
    /\ UNCHANGED <<factVars, senderVars, net, retireVars, takes>>

(***************************************************************************)
(* tick and #evaluate.                                                     *)
(***************************************************************************)
\* A tick while one is collecting is one more after it.
Tick ==
    /\ closing = "no"
    /\ IF gathering = "no" THEN gathering' = "registry" /\ UNCHANGED more
                           ELSE more' = TRUE /\ UNCHANGED gathering
    /\ UNCHANGED <<factVars, named, edits, slot, request, net, published, sentTo, retireVars, takes>>

EvaluationEnds == gathering' = (IF more /\ closing = "no" THEN "registry" ELSE "no") /\ more' = FALSE

\* #reconcile: a target that changed takes its slot, its view and its request
\* with it.
Reconciled(t) ==
    IF slot.target = t
    THEN UNCHANGED <<slot, request>>
    ELSE /\ slot' = [NoSlot EXCEPT !.target = t]
         /\ request' = [request EXCEPT !.current = FALSE]

RegistryIsRead ==
    /\ gathering = "registry"
    /\ IF closing = "no"
       THEN /\ Reconciled(named)
            /\ IF named # Nothing /\ request.stage = "none"
               THEN gathering' = "states" /\ UNCHANGED more
               ELSE EvaluationEnds
       ELSE EvaluationEnds /\ UNCHANGED <<slot, request>>
    /\ UNCHANGED <<factVars, named, edits, net, published, sentTo, retireVars, takes>>

RegistryUnread ==
    /\ gathering = "registry"
    /\ EvaluationEnds
    /\ UNCHANGED <<factVars, named, edits, slot, request, net, published, sentTo, retireVars, takes>>

\* The states are read, and the slot is occupied for them.
StatesAreRead ==
    /\ gathering = "states"
    /\ EvaluationEnds
    /\ request' = IF closing = "no" /\ request.stage = "none"
                  THEN [NoPublication EXCEPT !.stage = "credential", !.target = slot.target,
                                         !.row = row, !.whole = whole, !.current = TRUE]
                  ELSE request
    /\ UNCHANGED <<factVars, named, edits, slot, net, published, sentTo, retireVars, takes>>

(***************************************************************************)
(* #send.                                                                  *)
(***************************************************************************)
Body(kind, to, changed, removed) == [kind |-> kind, to |-> to, changed |-> changed, removed |-> removed]
Snapshot(to, r) == Body("snapshot", to, r, "none")
NoBody == Body("none", Nothing, Nothing, "none")

\* AgentStatePublisher.changes: what differs from what the destination last
\* acknowledged.  A row that left with no lifetime is withdrawn by a snapshot.
Changes(to, r, view) ==
    CASE r = view -> NoBody
      [] r # view /\ r = "absent" /\ LifetimeOf(view) = "none" -> Snapshot(to, r)
      [] r # view /\ r = "absent" /\ LifetimeOf(view) # "none" -> Body("changes", to, Nothing, LifetimeOf(view))
      [] r # view /\ r # "absent" ->
            Body("changes", to, r, IF LifetimeOf(view) = LifetimeOf(r) THEN "none" ELSE LifetimeOf(view))

\* (Mutant: a destination has one snapshot, and changes from then on.)
DueOnce == slot.view = NoView

SnapshotIsDue == slot.view = NoView \/ slot.due

\* A snapshot when one is due or nothing is known of the destination; an
\* enumeration that is not whole is `unavailable`, and never a snapshot.
Publication ==
    IF ~request.whole THEN Body("unavailable", request.target, Nothing, "none")
    ELSE IF SnapshotIsDue THEN Snapshot(request.target, request.row)
    ELSE Changes(request.target, request.row, slot.view)

\* (Mutant: a lifetime counts as published once a destination has acknowledged it.)
NumberedLater(b) == UNCHANGED published

\* #body: every lifetime a numbered body names is published.
Numbered(b) ==
    published' = published \cup ({LifetimeOf(IF b.changed = Nothing THEN "absent" ELSE b.changed), b.removed} \ {"none"})

Settled == request' = NoPublication

\* The credential is read: the body is numbered and posted, unless its slot is
\* not current any more or nothing has changed.
CredentialIsRead ==
    /\ request.stage = "credential" /\ Len(net[request.target]) < MaxStrays
    /\ IF ~request.current \/ Publication = NoBody
       THEN Settled /\ UNCHANGED <<net, published, sentTo>>
       ELSE /\ Numbered(Publication)
            /\ net' = [net EXCEPT ![request.target] = Append(@, Publication)]
            /\ sentTo' = sentTo \cup {request.target}
            /\ request' = [request EXCEPT !.stage = "posted", !.answer = "awaited",
                                          !.snapshot = (Publication.kind = "snapshot")]
    /\ UNCHANGED <<factVars, named, edits, gathering, more, slot, retireVars, takes>>

CredentialFails ==
    /\ request.stage = "credential"
    /\ Settled
    /\ UNCHANGED <<factVars, named, edits, gathering, more, slot, net, published, sentTo, retireVars, takes>>

\* The answer, a failure or the abort of the request settles it.  An answer
\* counts while its slot is current.
RequestSettles ==
    /\ request.stage = "posted"
    /\ Settled
    /\ \/ /\ request.answer = "applied" /\ request.current /\ request.whole
          /\ slot' = [slot EXCEPT !.view = request.row, !.due = IF request.snapshot THEN FALSE ELSE @]
       \/ UNCHANGED slot
    /\ UNCHANGED <<factVars, named, edits, gathering, more, net, published, sentTo, retireVars, takes>>

\* REPORT_EVERY_MS have passed since the last snapshot's epoch.
EpochBegins ==
    /\ slot.target # Nothing /\ ~slot.due
    /\ slot' = [slot EXCEPT !.due = TRUE]
    /\ UNCHANGED <<factVars, named, edits, gathering, more, request, net, published, sentTo, retireVars, takes>>

(***************************************************************************)
(* The network and the receivers.                                          *)
(***************************************************************************)
\* What the body at place i of t's line becomes is what the request in flight
\* hears, when the body is its own: the last one sent.
Hears(t, i, what) ==
    request' = IF request.answer = "awaited" /\ t = request.target /\ i = Len(net[t])
               THEN [request EXCEPT !.answer = what] ELSE request

\* What a receiver makes of a body.
Taken(take, b) ==
    CASE b.kind \in {"snapshot", "changes"} /\ b.changed # Nothing ->
            [take EXCEPT !.row = b.changed, !.seen = @ \cup ({LifetimeOf(b.changed)} \ {"none"})]
      [] b.kind = "changes" /\ b.changed = Nothing ->
            [take EXCEPT !.row = IF LifetimeOf(@) = b.removed THEN "absent" ELSE @]
      [] b.kind = "retired" -> [take EXCEPT !.row = "absent", !.retired = TRUE]
      [] OTHER -> take

\* A receiver takes a body newer than the last it took of this key; what is
\* older is stale from then on.
Take(t, i) ==
    /\ i \in DOMAIN net[t]
    /\ net' = [net EXCEPT ![t] = SubSeq(@, i + 1, Len(@))]
    /\ takes' = [takes EXCEPT ![t] = Taken(@, net[t][i])]
    /\ Hears(t, i, "applied")
    /\ outcome' = IF net[t][i].kind = "retired" /\ closing = "posting" THEN "answered" ELSE outcome
    /\ UNCHANGED <<factVars, named, edits, gathering, more, slot, published, sentTo, frozen, closing>>

IsLost(t, i) ==
    /\ i \in DOMAIN net[t]
    /\ net' = [net EXCEPT ![t] = RemoveAt(@, i)]
    /\ Hears(t, i, "none")
    /\ UNCHANGED <<factVars, named, edits, gathering, more, slot, published, sentTo, retireVars, takes>>

(***************************************************************************)
(* stop and retire.                                                        *)
(***************************************************************************)
Stop ==
    /\ closing = "no"
    /\ closing' = "stopped" /\ frozen' = slot.target /\ slot' = NoSlot
    /\ request' = [request EXCEPT !.current = FALSE]
    /\ UNCHANGED <<factVars, named, edits, gathering, more, net, published, sentTo, outcome, takes>>

\* retirementProof: every lifetime ever numbered has been seen to end.
Prove ==
    /\ closing = "stopped"
    /\ IF published \subseteq endings
       THEN closing' = "proven" /\ UNCHANGED outcome
       ELSE closing' = "over" /\ outcome' = "not-proven"
    /\ UNCHANGED <<factVars, named, edits, senderVars, net, frozen, takes>>

\* The registry is read again: only a target it still names is authorized, and
\* one that was sent a body and is not leaves the outcome unconfirmed.
AuthorizeAndPost ==
    /\ closing = "proven"
    /\ \E fresh \in {named, Nothing} :
        LET authorized == IF frozen # Nothing /\ fresh = frozen THEN {frozen} ELSE {} IN
        IF authorized = {}
        THEN closing' = "over" /\ outcome' = (IF sentTo = {} THEN "confirmed" ELSE "unconfirmed") /\ UNCHANGED net
        ELSE /\ Len(net[frozen]) < MaxStrays
             /\ net' = [net EXCEPT ![frozen] = Append(@, Body("retired", frozen, Nothing, "none"))]
             /\ closing' = "posting"
             /\ outcome' = "none"
    /\ UNCHANGED <<factVars, named, edits, senderVars, frozen, takes>>

\* The answer, its failure, or the slot's deadline.
RetireEnds ==
    /\ closing = "posting"
    /\ closing' = "over"
    /\ \/ outcome = "answered" /\ outcome' = IF sentTo \subseteq {frozen} THEN "confirmed" ELSE "unconfirmed"
       \/ outcome' = "unconfirmed"
    /\ UNCHANGED <<factVars, named, edits, senderVars, net, frozen, takes>>

RetireDeadline ==
    /\ closing \in {"stopped", "proven"}
    /\ closing' = "over" /\ outcome' = "unconfirmed"
    /\ UNCHANGED <<factVars, named, edits, senderVars, net, frozen, takes>>

PublicationNext ==
    \/ \E to \in Rows : Moves(to)
    \/ Completeness
    \/ \E t \in Targets \cup {Nothing} : EditRegistry(t)
    \/ Tick \/ RegistryIsRead \/ RegistryUnread \/ StatesAreRead
    \/ CredentialIsRead \/ CredentialFails \/ RequestSettles \/ EpochBegins
    \/ \E t \in Targets : \E i \in DOMAIN net[t] : Take(t, i) \/ IsLost(t, i)
    \/ Stop \/ Prove \/ AuthorizeAndPost \/ RetireEnds \/ RetireDeadline

\* The evaluation timer ticks, reads settle and, tried again and again, succeed;
\* a request settles by its timeout.  A body sent again and again is taken in
\* the end, and answered before that timeout.
PublicationFairness ==
    /\ WF_publicationVars(Tick /\ gathering = "no") /\ SF_publicationVars(RegistryIsRead)
    /\ WF_publicationVars(StatesAreRead) /\ SF_publicationVars(CredentialIsRead)
    /\ WF_publicationVars(RequestSettles) /\ WF_publicationVars(EpochBegins)
    /\ \A t \in Targets : SF_publicationVars(net[t] # <<>> /\ Take(t, Len(net[t])))

PublicationSpec == PublicationInit /\ [][PublicationNext]_publicationVars /\ PublicationFairness

(***************************************************************************)
(* Properties.                                                             *)
(***************************************************************************)
\* A retirement is true: a receiver has it only when every lifetime any receiver
\* was ever shown of this key has ended, and it is confirmed only when every
\* target that was ever sent a body has it (agent-state-sender.mjs:6-12).
RetirementIsTrue ==
    /\ \A t \in Targets : takes[t].retired => LifetimeOf(row) \notin UNION {takes[u].seen : u \in Targets}
    /\ outcome = "confirmed" => \A t \in sentTo : takes[t].retired

\* A service the registry keeps naming comes to have the agent's state once
\* that stays as it is, whichever bodies and answers were lost before, and
\* keeps it.
StateIsTold ==
    <>[](named \in Targets /\ whole /\ closing = "no") => <>[](named \in Targets => takes[named].row = row)

=============================================================================
