---------------------------- MODULE ActivityLedger ----------------------------
(***************************************************************************)
(* The file activity of one agent, from the segment its hooks append to,    *)
(* through the consumer's checkpoint, to the dashboard: ActivityShipper,    *)
(* ActivityConsumer, ActivityState, ActivityRetirement.                     *)
(*                                                                         *)
(* A frame is one event, or bytes that decode to none.  A gap's id is its   *)
(* reason and the generation it was made in, which a new id always differs  *)
(* in.  Every aify-env of the host makes passes over the one checkpoint,    *)
(* one transaction at a time; a transaction is one step, except a           *)
(* retirement, whose removals and saves are steps of their own.  Ages and   *)
(* clocks are one fact: an event has expired.                               *)
(***************************************************************************)
EXTENDS Naturals, Sequences, FiniteSets, SequencesExt

CONSTANTS
    Envs,         \* the aify-envs of this host
    BatchLimit,   \* events of a batch
    MaxEvents,    \* bound: frames ever appended
    MaxSwaps,     \* bound: times the segment is replaced
    MaxHitches    \* bound: answers lost, refusals, conflicts, crashes, events that expire

ASSUME LedgerAssumption == BatchLimit \in Nat \ {0} /\ "nobody" \notin Envs

VARIABLES
    raw,        \* the segment: its identity (0: there is none) and its frames
    mark,       \* the loss marker's identity, 0 for none
    appended, swaps,
    agentLives,
    expired,    \* events too old to be sent
    checkpoint, \* as saved: the source, and the generation floor
    reclaiming, \* the retirement in progress: by whom, and how far
    passes,     \* env -> its pass: nothing, a batch to send, or a batch and its answer
    dashboard,  \* what the dashboard has stored: events and gaps
    passed,     \* as history: <<event, reason>> the cursor went past; "" for delivered
    reclaimed,  \* as history: the retirements whose segment was removed
    hitches

rawVars == <<raw, mark, appended, swaps, agentLives, expired>>
ledgerVars == <<rawVars, checkpoint, reclaiming, passes, dashboard, passed, reclaimed, hitches>>

NoSource == [identity |-> 0]
NoStage == [end |-> 0, items |-> <<>>, gaps |-> {}, loss |-> FALSE, is |-> FALSE]
NoRetirement == [phase |-> "no", id |-> <<"", 0>>, mark |-> 0]
NoBatch == [at |-> "no"]
NobodyReclaims == [by |-> "nobody", step |-> "no"]

LedgerInit ==
    /\ raw = [id |-> 1, frames |-> <<>>] /\ mark = 0 /\ appended = 0 /\ swaps = 0
    /\ agentLives = TRUE /\ expired = {}
    /\ checkpoint = [source |-> NoSource, floor |-> 0] /\ reclaiming = NobodyReclaims
    /\ passes = [e \in Envs |-> NoBatch]
    /\ dashboard = [events |-> {}, gaps |-> {}] /\ passed = {} /\ reclaimed = {}
    /\ hitches = 0

Hitches == hitches < MaxHitches /\ hitches' = hitches + 1
InTransaction == reclaiming.by # "nobody"

(***************************************************************************)
(* The producer.                                                           *)
(***************************************************************************)
\* A hook appends an event, or a torn frame; one in flight still may when the
\* agent has ended, and then the segment is a new one if the last was removed.
AppendFrame(good) ==
    /\ appended < MaxEvents /\ (raw.id = 0 => swaps < MaxSwaps)
    /\ appended' = appended + 1
    /\ swaps' = IF raw.id = 0 THEN swaps + 1 ELSE swaps
    /\ raw' = [id |-> IF raw.id = 0 THEN swaps + 2 ELSE raw.id,
               frames |-> Append(raw.frames, [event |-> appended + 1, good |-> good])]
    /\ UNCHANGED <<mark, agentLives, expired, checkpoint, reclaiming, passes, dashboard, passed, reclaimed, hitches>>

ProducerLoses ==
    /\ mark = 0 /\ raw.id # 0 /\ agentLives /\ swaps < MaxSwaps
    /\ mark' = swaps + 1 /\ swaps' = swaps + 1
    /\ UNCHANGED <<raw, appended, agentLives, expired, checkpoint, reclaiming, passes, dashboard, passed, reclaimed, hitches>>

\* The segment is compacted or replaced: what it held is gone.
SegmentIsReplaced ==
    /\ raw.id # 0 /\ agentLives /\ swaps < MaxSwaps /\ raw.frames # <<>>
    /\ raw' = [id |-> swaps + 2, frames |-> <<>>] /\ swaps' = swaps + 1
    /\ UNCHANGED <<mark, appended, agentLives, expired, checkpoint, reclaiming, passes, dashboard, passed, reclaimed, hitches>>

AgentEnds ==
    /\ agentLives /\ agentLives' = FALSE
    /\ UNCHANGED <<raw, mark, appended, swaps, expired, checkpoint, reclaiming, passes, dashboard, passed, reclaimed, hitches>>

EventExpires(e) ==
    /\ e \in (1 .. appended) \ expired /\ Hitches
    /\ expired' = expired \cup {e}
    /\ UNCHANGED <<raw, mark, appended, swaps, agentLives, checkpoint, reclaiming, passes, dashboard, passed, reclaimed>>

(***************************************************************************)
(* ActivityConsumer.prepare, one part after another.                       *)
(***************************************************************************)
AddGap(s, reason) ==
    IF \E g \in s.stage.gaps : g[1] = reason THEN s
    ELSE [s EXCEPT !.stage.gaps = @ \cup {<<reason, s.generation>>}]

Bump(s) == [s EXCEPT !.generation = @ + 1]
Reasons(stage) == {g[1] : g \in stage.gaps}

NewSource ==
    [identity |-> raw.id, offset |-> 0, seen |-> <<>>, generation |-> checkpoint.floor + 1, lossTold |-> FALSE,
     lossMark |-> 0, stage |-> NoStage, retirement |-> NoRetirement, witness |-> FALSE]

IsPrefixOfRaw(s) == s.identity = raw.id /\ IsPrefix(s.seen, raw.frames)

\* The prefix it checked is gone: said of the source, and read anew.
WithReplacement(s) ==
    IF IsPrefixOfRaw(s) THEN s
    ELSE Bump(AddGap([s EXCEPT !.offset = 0, !.seen = <<>>, !.identity = raw.id, !.retirement = NoRetirement,
                         !.stage = [NoStage EXCEPT !.is = TRUE, !.gaps = s.stage.gaps, !.loss = s.stage.loss]],
                     "identity"))

WithMarker(s) ==
    IF mark = 0 \/ mark = s.lossMark THEN s
    ELSE [s EXCEPT !.lossTold = FALSE, !.lossMark = mark, !.retirement = NoRetirement]

IsIdle(s) == ~s.stage.is /\ s.offset = Len(raw.frames) /\ (mark = 0 \/ s.lossTold)

WithoutStaleRetirement(s) ==
    IF s.retirement.phase = "raw-removed" \/ s.offset # Len(raw.frames)
    THEN [s EXCEPT !.retirement = NoRetirement] ELSE s

Ended(s) == s.witness /\ ~agentLives

\* An idle source whose agent has ended: a tail gap, and its retirement.
WithTail(s) ==
    LET t == AddGap([s EXCEPT !.stage = [NoStage EXCEPT !.is = TRUE, !.end = s.offset]], "reclaimed")
    IN [t EXCEPT !.retirement = [phase |-> "pending", id |-> <<"reclaimed", s.generation>>, mark |-> mark]]

WithStage(s) ==
    LET t == IF s.stage.is THEN s ELSE [s EXCEPT !.stage = [NoStage EXCEPT !.is = TRUE, !.end = s.offset]]
    IN IF mark # 0 /\ ~t.lossTold /\ ~t.stage.loss
       THEN AddGap([t EXCEPT !.stage.loss = TRUE], "producer_loss") ELSE t

\* A staged retry never renews its age.
WithExpiry(s) ==
    LET late(i) == i.reason = "" /\ i.event \in expired IN
    IF \E k \in DOMAIN s.stage.items : late(s.stage.items[k])
    THEN Bump(AddGap([s EXCEPT !.stage.items =
             [k \in DOMAIN @ |-> IF late(@[k]) THEN [@[k] EXCEPT !.reason = "expired"] ELSE @[k]]], "expired"))
    ELSE s

ReasonOf(frame) == IF ~frame.good THEN "malformed" ELSE IF frame.event \in expired THEN "expired" ELSE ""

\* A batch that is staged is fixed until it is resolved; an empty one is filled.
WithItems(s) ==
    IF s.retirement.phase # "no" \/ s.stage.items # <<>> \/ s.stage.end # s.offset THEN s
    ELSE LET last == IF Len(raw.frames) < s.offset + BatchLimit THEN Len(raw.frames) ELSE s.offset + BatchLimit
             items == [k \in 1 .. (last - s.offset) |->
                         [event |-> raw.frames[s.offset + k].event, reason |-> ReasonOf(raw.frames[s.offset + k])]]
             t == [s EXCEPT !.stage.items = items, !.stage.end = last]
             why == {items[k].reason : k \in DOMAIN items} \ {""}
         IN [t EXCEPT !.stage.gaps = @ \cup {<<r, s.generation>> : r \in why \ Reasons(s.stage)}]

WithPrefix(s) ==
    IF s.stage.end > Len(s.seen) THEN [s EXCEPT !.seen = SubSeq(raw.frames, 1, s.stage.end)] ELSE s

EventsOf(s) == {i.event : i \in {s.stage.items[k] : k \in {j \in DOMAIN s.stage.items : s.stage.items[j].reason = ""}}}
TokenOf(s) ==
    [start |-> s.offset, end |-> s.stage.end, identity |-> s.identity, seen |-> s.seen,
     generation |-> s.generation, events |-> EventsOf(s), gaps |-> s.stage.gaps]

Saved(s) == checkpoint' = [source |-> s, floor |-> IF s.generation > checkpoint.floor THEN s.generation ELSE checkpoint.floor]

(***************************************************************************)
(* A pass: read, send, and what the answer allows.                         *)
(***************************************************************************)
\* (Mutant: a retirement that a crash cut short is not taken up again.)
MayReclaimAtOnce(s) ==
    /\ s.retirement.phase = "acked"
    /\ ~s.stage.is /\ IsPrefixOfRaw(s) /\ s.offset = Len(raw.frames) /\ Len(s.seen) = s.offset /\ Ended(s)
    /\ mark = s.retirement.mark
    /\ mark # 0 => s.lossTold /\ s.lossMark = mark

MayReclaim(s) ==
    /\ s.retirement.phase \in {"acked", "marker-removed"}
    /\ ~s.stage.is /\ IsPrefixOfRaw(s) /\ s.offset = Len(raw.frames) /\ Len(s.seen) = s.offset /\ Ended(s)
    /\ IF s.retirement.phase = "acked" THEN mark = s.retirement.mark ELSE mark = 0
    /\ mark # 0 => s.lossTold /\ s.lossMark = mark

\* Its marker is gone and it was never recorded that it was removed: refused.
OutcomeIsUnknown(s) ==
    /\ s.retirement.phase = "acked" /\ s.retirement.mark # 0 /\ mark = 0
    /\ ~s.stage.is /\ IsPrefixOfRaw(s) /\ s.offset = Len(raw.frames) /\ Ended(s)

\* Read: the source, its witness while the agent lives, and a batch, saved
\* before it is sent.
ReadBatch(e) ==
    /\ passes[e].at = "no" /\ ~InTransaction /\ raw.id # 0
    /\ checkpoint.source # NoSource \/ \E k \in DOMAIN raw.frames : raw.frames[k].good
    /\ checkpoint.source # NoSource => ~MayReclaim(checkpoint.source) /\ ~OutcomeIsUnknown(checkpoint.source)
    /\ LET s == IF checkpoint.source = NoSource THEN NewSource ELSE checkpoint.source IN
       \E seen \in {s.witness, agentLives \/ s.witness} :
       \E r \in {WithReplacement([s EXCEPT !.witness = seen])} :
       \E m \in {WithMarker(r)} :
       \E t \in {WithoutStaleRetirement(m)} :
         IF IsIdle(t) /\ (t.retirement.phase # "no" \/ ~Ended(t))
         THEN passes' = passes /\ (IF seen # s.witness THEN Saved(t) ELSE UNCHANGED checkpoint)
         ELSE \E staged \in {WithStage(IF IsIdle(t) THEN WithTail(t) ELSE t)} :
              \E aged \in {WithExpiry(staged)} :
              \E full \in {WithItems(aged)} :
              \E u \in {WithPrefix(full)} :
                Saved(u) /\ passes' = [passes EXCEPT ![e] = [at |-> "send", token |-> TokenOf(u)]]
    /\ UNCHANGED <<rawVars, reclaiming, dashboard, passed, reclaimed, hitches>>

Answered(e, kind, events, gaps) ==
    passes' = [passes EXCEPT ![e] = [at |-> "answered", token |-> passes[e].token, kind |-> kind,
                                     events |-> events, gaps |-> gaps]]

Stored(token) == [events |-> dashboard.events \cup token.events,
                  gaps |-> dashboard.gaps \cup token.gaps]

SendCommits(e) ==
    /\ passes[e].at = "send"
    /\ dashboard' = Stored(passes[e].token) /\ Answered(e, "ack", {}, {})
    /\ UNCHANGED <<rawVars, checkpoint, reclaiming, passed, reclaimed, hitches>>

\* Lost before it was stored, or stored with its answer lost.
SendFails(e) ==
    /\ passes[e].at = "send" /\ Hitches
    /\ dashboard' \in {dashboard, Stored(passes[e].token)}
    /\ passes' = [passes EXCEPT ![e] = NoBatch]
    /\ UNCHANGED <<rawVars, checkpoint, reclaiming, passed, reclaimed>>

\* Events refused, or a gap's id in conflict: nothing of the batch is stored
\* as acknowledged.
SendIsRefused(e) ==
    /\ passes[e].at = "send" /\ Hitches
    /\ \/ \E ev \in passes[e].token.events : Answered(e, "resolve", {ev}, {})
       \/ \E g \in passes[e].token.gaps : Answered(e, "resolve", {}, {g})
    /\ UNCHANGED <<rawVars, checkpoint, reclaiming, dashboard, passed, reclaimed>>

\* (Mutant: whatever batch is staged now is the one acknowledged.)
IsStagedAnyway(token) == checkpoint.source # NoSource /\ checkpoint.source.stage.is

\* The stage is the one the token names, and its prefix is still the segment's.
IsStaged(token) ==
    /\ checkpoint.source # NoSource /\ checkpoint.source.stage.is /\ TokenOf(checkpoint.source) = token
    /\ raw.id # 0 /\ IsPrefixOfRaw(checkpoint.source)

Acked(s) ==
    Bump([s EXCEPT !.offset = s.stage.end, !.stage = NoStage, !.lossTold = @ \/ s.stage.loss,
             !.retirement = IF @.phase = "pending" THEN [@ EXCEPT !.phase = "acked"] ELSE @])

Ack(e) ==
    /\ passes[e].at = "answered" /\ passes[e].kind = "ack" /\ ~InTransaction
    /\ IF IsStaged(passes[e].token)
       THEN LET s == checkpoint.source IN
            /\ Saved(Acked(s))
            /\ passed' = passed \cup {<<s.stage.items[k].event, s.stage.items[k].reason>> : k \in DOMAIN s.stage.items}
       ELSE UNCHANGED <<checkpoint, passed>>
    /\ passes' = [passes EXCEPT ![e] = NoBatch]
    /\ UNCHANGED <<rawVars, reclaiming, dashboard, reclaimed, hitches>>

\* Refused events become a gap; a gap in conflict gets a new id.
Resolved(s, events, gaps) ==
    LET items == [k \in DOMAIN s.stage.items |->
                    IF s.stage.items[k].event \in events THEN [s.stage.items[k] EXCEPT !.reason = "refused"]
                                                         ELSE s.stage.items[k]]
        renamed == (s.stage.gaps \ gaps) \cup
                   {<<IF g[1] = "reclaimed" THEN g[1] ELSE "gap_conflict", s.generation + 1>> : g \in gaps}
        t == [s EXCEPT !.stage.items = items, !.stage.gaps = renamed]
        u == Bump(IF events = {} THEN t ELSE AddGap(t, "refused"))
    IN [u EXCEPT !.retirement = IF @.phase = "pending"
            THEN [@ EXCEPT !.id = CHOOSE g \in renamed : g[1] = "reclaimed"] ELSE @]

Resolve(e) ==
    /\ passes[e].at = "answered" /\ passes[e].kind = "resolve" /\ ~InTransaction
    /\ IF IsStaged(passes[e].token) THEN Saved(Resolved(checkpoint.source, passes[e].events, passes[e].gaps))
                                    ELSE UNCHANGED checkpoint
    /\ passes' = [passes EXCEPT ![e] = NoBatch]
    /\ UNCHANGED <<rawVars, reclaiming, dashboard, passed, reclaimed, hitches>>

(***************************************************************************)
(* ActivityRetirement.reclaim: the marker, the segment, and the source.     *)
(***************************************************************************)
BeginReclaim(e) ==
    /\ passes[e].at = "no" /\ ~InTransaction /\ raw.id # 0
    /\ checkpoint.source # NoSource /\ MayReclaim(checkpoint.source)
    /\ reclaiming' = [by |-> e, step |-> IF mark # 0 THEN "marker" ELSE "raw"]
    /\ UNCHANGED <<rawVars, checkpoint, passes, dashboard, passed, reclaimed, hitches>>

GoOn(step) == reclaiming' = [reclaiming EXCEPT !.step = step]

RemoveMarker ==
    /\ reclaiming.step = "marker"
    /\ mark' = 0 /\ GoOn("marker removed")
    /\ UNCHANGED <<raw, appended, swaps, agentLives, expired, checkpoint, passes, dashboard, passed, reclaimed, hitches>>

SaveMarkerRemoved ==
    /\ reclaiming.step = "marker removed"
    /\ Saved([checkpoint.source EXCEPT !.retirement.phase = "marker-removed"]) /\ GoOn("raw")
    /\ UNCHANGED <<rawVars, passes, dashboard, passed, reclaimed, hitches>>

\* A hook can still append between the last look and the removal.
RawIsUnchanged ==
    LET s == checkpoint.source IN
    IsPrefixOfRaw(s) /\ s.offset = Len(raw.frames) /\ Ended(s) /\ mark = 0

LookOnceMore ==
    /\ reclaiming.step = "raw"
    /\ IF RawIsUnchanged THEN GoOn("unlink") ELSE reclaiming' = NobodyReclaims
    /\ UNCHANGED <<rawVars, checkpoint, passes, dashboard, passed, reclaimed, hitches>>

RemoveRaw ==
    /\ reclaiming.step = "unlink"
    /\ reclaimed' = reclaimed \cup {checkpoint.source.retirement.id}
    /\ raw' = [id |-> 0, frames |-> <<>>] /\ GoOn("raw removed")
    /\ UNCHANGED <<mark, appended, swaps, agentLives, expired, checkpoint, passes, dashboard, passed, hitches>>

SaveRawRemoved ==
    /\ reclaiming.step = "raw removed"
    /\ Saved([checkpoint.source EXCEPT !.retirement.phase = "raw-removed"]) /\ GoOn("forget")
    /\ UNCHANGED <<rawVars, passes, dashboard, passed, reclaimed, hitches>>

ForgetSource ==
    /\ \/ reclaiming.step = "forget"
       \/ /\ ~InTransaction /\ checkpoint.source # NoSource
          /\ checkpoint.source.retirement.phase = "raw-removed" /\ raw.id = 0
    /\ checkpoint' = [checkpoint EXCEPT !.source = NoSource] /\ reclaiming' = NobodyReclaims
    /\ UNCHANGED <<rawVars, passes, dashboard, passed, reclaimed, hitches>>

\* An aify-env ends, wherever its pass is: its lock is let go of.
EnvCrashes(e) ==
    /\ passes[e].at # "no" \/ reclaiming.by = e
    /\ Hitches
    /\ passes' = [passes EXCEPT ![e] = NoBatch]
    /\ reclaiming' = IF reclaiming.by = e THEN NobodyReclaims ELSE reclaiming
    /\ UNCHANGED <<rawVars, checkpoint, dashboard, passed, reclaimed>>

LedgerPasses ==
    \/ \E e \in Envs : ReadBatch(e) \/ SendCommits(e) \/ Ack(e) \/ Resolve(e) \/ BeginReclaim(e)
    \/ RemoveMarker \/ SaveMarkerRemoved \/ LookOnceMore \/ RemoveRaw \/ SaveRawRemoved \/ ForgetSource

LedgerNext ==
    \/ LedgerPasses
    \/ \E e \in Envs : SendFails(e) \/ SendIsRefused(e) \/ EnvCrashes(e)
    \/ \E good \in BOOLEAN : AppendFrame(good)
    \/ ProducerLoses \/ SegmentIsReplaced \/ AgentEnds
    \/ \E n \in 1 .. MaxEvents : EventExpires(n)

\* Passes go on.
LedgerSpec == LedgerInit /\ [][LedgerNext]_ledgerVars /\ WF_ledgerVars(LedgerPasses)

(***************************************************************************)
(* Properties.                                                             *)
(***************************************************************************)
\* The cursor goes past an event only when the dashboard has it, or has a gap
\* that says why not: whatever is lost, sent twice, refused, replaced or acked
\* late by another aify-env (activity-consumer.mjs:1-2).
NothingIsSkipped ==
    /\ \A p \in passed : IF p[2] = "" THEN p[1] \in dashboard.events
                          ELSE \E g \in dashboard.gaps : g[1] \in {p[2], "gap_conflict"}
    /\ checkpoint.source # NoSource /\ raw.id # 0 /\ IsPrefixOfRaw(checkpoint.source) =>
         \A k \in 1 .. checkpoint.source.offset : \E p \in passed : p[1] = raw.frames[k].event

\* A segment is removed once its agent has ended and the dashboard has its tail
\* gap, which covers what a hook still in flight appended
\* (activity-retirement.mjs:62-66).
ReclaimedIsTold == reclaimed # {} => ~agentLives /\ reclaimed \subseteq dashboard.gaps

LedgerIsHonest == NothingIsSkipped /\ ReclaimedIsTold

\* What was appended is passed, and the segment of an agent known to have ended
\* is removed.  A retirement cut short
\* between a removal and its save is refused ever after: what a crash then did
\* is for an operator to judge (activity-retirement.mjs:56-60).
ActivityIsShipped ==
    <>[](\/ raw.id = 0 \/ (checkpoint.source # NoSource /\ OutcomeIsUnknown(checkpoint.source))
         \/ checkpoint.source = NoSource /\ \A k \in DOMAIN raw.frames : ~raw.frames[k].good
         \/ checkpoint.source # NoSource /\ IsIdle(checkpoint.source) /\ ~Ended(checkpoint.source))

=============================================================================
