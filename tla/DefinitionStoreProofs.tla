---------------------- MODULE DefinitionStoreProofs ----------------------
(***************************************************************************)
(* What the store of definitions promises, for every number of operations, *)
(* bodies, requests, crashes and hand edits.                               *)
(***************************************************************************)
EXTENDS DefinitionStore, FiniteSetTheorems, TLAPS

\* The intent's ledger has not been written.
Pending == intent.op # 0 /\ ledger.last # intent.op

Ran(o) == \E w \in ran : w[1] = o
Asked(r) == \E w \in ran : w[2] = r

\* What everybody is told of an operation that is over.
Truth(o) == IF records[o] = "none" THEN "committed" ELSE records[o]

\* A record of it, or a step that ran, is what an operation's outcome rests on.
IsFounded(o) == records[o] # "none" \/ Ran(o)

RecoveryStages == {"recording", "archiving", "settling", "clearing"}
StepStages == {"temping", "renaming", "ledgering", "deleting"}

HistoryIsTyped ==
  /\ told \subseteq Operations \X {"unknown", "committed", "not-committed"}
  /\ ran \subseteq Operations \X (Requests \cup {NoRequest})
  /\ shown \subseteq (1 .. (MaxOps + 1)) \X (1 .. (MaxOps + 1)) \X Bodies
  /\ snapshots \subseteq (1 .. (MaxOps + 1)) \X Contents
  /\ given \subseteq (1 .. (MaxOps + 1)) \X Operations

\* An operation is numbered when it begins, and each count is behind the numbers.
IsBounded(n) ==
  /\ ledger.revision <= n + 1 /\ ledger.next <= n + 1 /\ ledger.rev <= n /\ ledger.last <= n
  /\ ledger.inc < ledger.next /\ (ledger.inc # 0 => ledger.rev >= 1)

CountsAreBounded ==
  /\ IsBounded(ops) /\ (Pending => IsBounded(ops - 1))
  /\ intent.op \in {0, ops}
  /\ stage \in RecoveryStages \cup {"opening", "adopting"} \/ conflict => ops + 2 <= MaxOps
  /\ stage \in {"reading", "ready"} \/ (stage \in StepStages /\ doing = "adopt") => ops + 1 <= MaxOps
  /\ \A o \in Operations : o > ops => records[o] = "none"
  /\ \A w \in ran : w[1] <= ops
  /\ \A o \in archive : records[o] # "none"

\* What the hold has come to.
HoldIsTrue ==
  /\ conflict => stage \in {"reading", "ready"} /\ Pending /\ records[intent.op] = "none"
  /\ stage \in {"adopting", "producing"} \/ (stage \in {"reading", "ready"} /\ ~conflict) => intent.op = 0
  /\ stage \in {"free", "opening"} \/ conflict => plan.op = 0
  /\ stage = "free" => doing = "nobody"
  /\ launch # NoLaunch => stage = "producing" /\ launch = <<ledger.inc, ledger.rev>>
  /\ "reading" \notin blind => seen = listed

\* Recovery's plan says what is so of the operation it settles.
PlanIsTrue ==
  /\ plan.op # 0 => plan.op <= ops
  /\ plan.op # 0 /\ stage \notin RecoveryStages => plan.op # intent.op /\ IsFounded(plan.op)
  /\ plan.op # 0 /\ stage # "recording" => plan.outcome = Truth(plan.op)
  /\ stage = "recording" =>
       plan.outcome = "unknown" /\ records[intent.op] = "none" /\ Pending /\ plan.write = "after"
  /\ stage = "archiving" => records[intent.op] # "none"
  /\ stage \in {"archiving", "settling"} =>
       IF Pending THEN plan.write = (IF records[intent.op] = "not-committed" THEN "kept" ELSE "after")
                  ELSE plan.write = "none"
  /\ stage = "settling" /\ Pending /\ intent.kind # "observe" => IsFounded(intent.op)
  /\ stage = "clearing" => ~ Pending

\* The ledger an operation leads to: of a new lifetime, the next revision, no
\* lifetime, or the same with something else published.
Follows(kind, after) ==
  /\ \/ /\ kind = "set" /\ ledger.inc = 0
        /\ after.inc = ledger.next /\ after.next = ledger.next + 1
     \/ /\ kind = "set" /\ ledger.inc # 0
        /\ after.inc = ledger.inc /\ after.next = ledger.next
     \/ /\ kind \in {"remove", "observe"} /\ after.next = ledger.next
        /\ after.inc = 0 /\ after.rev = 0 /\ after.snap = ledger.snap
     \/ /\ kind = "observe" /\ after.next = ledger.next
        /\ after.inc = ledger.inc /\ after.rev = ledger.rev /\ after.file = ledger.file
  /\ kind = "set" => after.file.body \in Bodies /\ after.snap = ledger.snap /\ after.rev = ledger.rev + 1
  /\ kind = "remove" => ledger.inc # 0

AfterIsNext ==
  Pending =>
    /\ intent.after.last = intent.op /\ intent.after.revision = ledger.revision + 1
    /\ Follows(intent.kind, intent.after)
    /\ intent.kind = "set" => intent.after.file.op = intent.op

\* The four steps, as far as they have come.
StepsAreTrue ==
  /\ intent.kind = "observe" => intent.req = NoRequest
  /\ \A w \in ran : w[1] = intent.op => w[2] = intent.req
  /\ stage \in StepStages => records[intent.op] = "none" /\ ~ conflict
  /\ stage \in {"temping", "renaming", "ledgering"} => Pending
  /\ stage \in {"temping", "renaming"} => ~ Ran(intent.op)
  /\ stage = "temping" => intent.kind = "set"
  /\ stage = "renaming" => intent.kind \in {"set", "remove"} /\ (intent.kind = "set" => temp = intent.after.file)
  /\ stage = "ledgering" => intent.kind = "observe" \/ <<intent.op, intent.req>> \in ran
  /\ stage = "deleting" => ~ Pending /\ <<intent.op, intent.req>> \in ran
  /\ stage \in StepStages /\ doing \in Requests => intent.req = doing

\* A snapshot being published is what was read.
SnapshotIsRead ==
  stage \in StepStages /\ doing = "snapshot" =>
    /\ intent.kind = "observe" /\ blind = {} /\ stage \in {"ledgering", "deleting"}
    /\ Content = IF Pending THEN intent.after.snap ELSE ledger.snap
    /\ Pending => intent.after.inc = ledger.inc /\ intent.after.rev = ledger.rev /\ intent.after.file = ledger.file

\* A temporary file is the body of an operation that is under way.
TempIsPending ==
  temp # Absent =>
    /\ Pending /\ intent.kind = "set" /\ temp = intent.after.file
    /\ intent.op \notin archive /\ file.op # intent.op
    /\ stage \notin {"settling", "clearing", "ledgering", "deleting"}

\* What a version or a name in the trash says of itself was done.
IsReceipt(v) ==
  /\ v.op # 0 => Ran(v.op)
  /\ v.req # NoRequest => Asked(v.req)
  /\ v.body = NoDefinition => v = Absent

ReceiptsAreTrue ==
  /\ IsReceipt(file) /\ IsReceipt(seen)
  /\ intent.op # 0 => IsReceipt(intent.before) /\ intent.before.op # intent.op
  /\ intent.op # 0 /\ intent.kind = "set" =>
       intent.after.file.req \in {NoRequest, intent.req} \/ Asked(intent.after.file.req)
  /\ \A t \in trash : <<t.op, t.req>> \in ran

\* Whatever was shown under an incarnation and a revision.
Names == shown \cup {<<p[2].inc, p[2].rev, p[2].body>> : p \in {q \in snapshots : q[2].inc # 0}}

NamesAreBehind ==
  /\ \A n \in Names :
       /\ n[1] # 0 /\ n[1] < ledger.next
       /\ n[1] = ledger.inc => n[2] <= ledger.rev /\ (n[2] = ledger.rev => n[3] = ledger.file.body)
  /\ \A g \in given : g[1] < ledger.next \/ (Pending /\ g[1] < intent.after.next)
  /\ PairNamesOneBody

SnapshotsAreBehind ==
  /\ \A p \in snapshots : p[1] <= ledger.revision /\ (p[1] = ledger.revision => p[2] = ledger.snap)
  /\ SnapshotsAreTrue

TellingsAreTrue ==
  /\ ledger.last # 0 => IsFounded(ledger.last)
  /\ \A a \in told : a[1] <= ops /\ a[1] # intent.op /\ a[2] = Truth(a[1]) /\ IsFounded(a[1])

\* The definition a request was about has been replaced or withdrawn.
IsPast(r) ==
  asked[r].inc < ledger.next /\ (ledger.inc # asked[r].inc \/ ledger.rev > asked[r].rev)

AskedIsWhole ==
  \A r \in Requests :
    /\ asked[r].kind = "none" => asked[r] = NotAsked
    /\ asked[r].kind \in {"create", "update"} => asked[r].body \in Bodies
    /\ asked[r].kind \in {"update", "remove"} => asked[r].inc # 0

RequestsArePast ==
  /\ \A w \in ran : w[2] \in Requests => asked[w[2]].kind # "none"
  /\ Pending /\ intent.req \in Requests =>
       /\ asked[intent.req].kind # "none"
       /\ asked[intent.req].kind # "create" =>
            ledger.inc = asked[intent.req].inc /\ ledger.rev = asked[intent.req].rev
  /\ \A w \in ran : w[2] \in Requests /\ asked[w[2]].kind # "create" /\ records[w[1]] # "not-committed" =>
       /\ IsPast(w[2]) \/ (Pending /\ w[1] = intent.op)
       /\ \A v \in ran : v[2] = w[2] /\ records[v[1]] # "not-committed" => v = w
  /\ \A r \in done : Asked(r)

StoreInv ==
  /\ TypeOK /\ HistoryIsTyped /\ CountsAreBounded /\ HoldIsTrue /\ PlanIsTrue /\ AfterIsNext
  /\ StepsAreTrue /\ SnapshotIsRead /\ TempIsPending /\ ReceiptsAreTrue
  /\ NamesAreBehind /\ SnapshotsAreBehind /\ TellingsAreTrue /\ AskedIsWhole /\ RequestsArePast
  /\ StartsRunTheDefinition

-----------------------------------------------------------------------------
(* What the versions, the ledgers and the contents are made of *)

LEMMA VersionFields ==
  ASSUME NEW v \in Versions
  PROVE  /\ v.body \in Bodies \cup {Invalid, NoDefinition}
         /\ v.op \in 0 .. MaxOps /\ v.req \in Requests \cup {NoRequest}
         /\ v = [body |-> v.body, op |-> v.op, req |-> v.req]
BY DEF Versions

LEMMA AbsentIsAVersion ==
  /\ Absent \in Versions /\ Absent.body = NoDefinition /\ Absent.op = 0 /\ Absent.req = NoRequest
  /\ NoDefinition \notin Bodies /\ Invalid \notin Bodies /\ NoDefinition # Invalid
BY StoreAssumption DEF Absent, Versions, NoDefinition, Invalid

LEMMA LedgerFields ==
  ASSUME NEW l \in Ledgers
  PROVE  /\ l.revision \in 1 .. (MaxOps + 1) /\ l.next \in 1 .. (MaxOps + 1)
         /\ l.inc \in 0 .. (MaxOps + 1) /\ l.rev \in 0 .. (MaxOps + 1)
         /\ l.file \in Versions /\ l.snap \in Contents /\ l.last \in 0 .. MaxOps
BY DEF Ledgers

LEMMA IntentFields ==
  ASSUME TypeOK
  PROVE  /\ intent.op \in 0 .. MaxOps /\ intent.kind \in {"none", "set", "remove", "observe"}
         /\ intent.req \in Requests \cup {NoRequest} /\ intent.before \in Versions
         /\ intent.after \in Ledgers
BY DEF TypeOK

LEMMA CountFields ==
  ASSUME TypeOK
  PROVE  /\ ops \in Nat /\ ops <= MaxOps /\ MaxOps \in Nat /\ ledger \in Ledgers
         /\ ledger.revision \in Nat /\ ledger.next \in Nat /\ ledger.inc \in Nat /\ ledger.rev \in Nat
         /\ ledger.last \in Nat /\ ledger.revision >= 1 /\ ledger.next >= 1
<1>1. ledger \in Ledgers /\ ops \in 0 .. MaxOps /\ MaxOps \in Nat
  BY StoreAssumption DEF TypeOK
<1>2. QED
  BY <1>1, LedgerFields

LEMMA NoIntentIsAnIntent ==
  /\ NoIntent \in [op : 0 .. MaxOps, kind : {"none", "set", "remove", "observe"},
                   req : Requests \cup {NoRequest}, before : Versions, after : Ledgers]
  /\ NoIntent.op = 0 /\ NoIntent.kind = "none" /\ NoIntent.req = NoRequest
  /\ NoIntent.after \in Ledgers /\ NoIntent.after.revision = 1 /\ NoIntent.after.next = 1
  /\ NoIntent.after.inc = 0 /\ NoIntent.after.rev = 0 /\ NoIntent.after.last = 0
<1>1. NeverPublished \in Contents
  BY StoreAssumption DEF NeverPublished, Contents
<1> DEFINE first == [revision |-> 1, next |-> 1, inc |-> 0, rev |-> 0, file |-> Absent,
                     snap |-> NeverPublished, last |-> 0]
<1>2. first \in Ledgers /\ first.revision = 1 /\ first.next = 1 /\ first.inc = 0 /\ first.rev = 0 /\ first.last = 0
  BY <1>1, AbsentIsAVersion, StoreAssumption DEF Ledgers
<1>3. NoIntent = [op |-> 0, kind |-> "none", req |-> NoRequest, before |-> Absent, after |-> first]
  BY DEF NoIntent
<1> HIDE DEF first
<1>4. QED
  BY <1>2, <1>3, AbsentIsAVersion, StoreAssumption

\* What a reading of a version shows.
LEMMA ContentIs ==
  ASSUME TypeOK
  PROVE  /\ Content \in Contents
         /\ Content.inc # 0 => /\ seen.body \in Bodies /\ ledger.inc # 0 /\ ledger.file = seen
                               /\ Content.inc = ledger.inc /\ Content.rev = ledger.rev
                               /\ Content.body = seen.body
         /\ Content.body = NoDefinition => seen.body = NoDefinition
<1>1. seen.body \in Bodies \cup {Invalid, NoDefinition} /\ ledger.inc \in 0 .. (MaxOps + 1)
      /\ ledger.rev \in 0 .. (MaxOps + 1)
  BY VersionFields, LedgerFields DEF TypeOK
<1> DEFINE shows(body, inc, rev) == [body |-> body, inc |-> inc, rev |-> rev]
<1>2. ASSUME NEW body \in Bodies \cup {Invalid, NoDefinition, Unadopted, Never},
             NEW inc \in 0 .. (MaxOps + 1), NEW rev \in 0 .. (MaxOps + 1)
      PROVE  /\ shows(body, inc, rev) \in Contents /\ shows(body, inc, rev).body = body
             /\ shows(body, inc, rev).inc = inc /\ shows(body, inc, rev).rev = rev
  BY DEF Contents
<1>3. 0 \in 0 .. (MaxOps + 1)
  BY StoreAssumption
<1>4. CASE seen.body \in {NoDefinition, Invalid}
  <2>1. Content = shows(seen.body, 0, 0)
    BY <1>4 DEF Content
  <2> HIDE DEF shows
  <2>2. seen.body \in Bodies \cup {Invalid, NoDefinition, Unadopted, Never}
    BY <1>1
  <2>3. Content \in Contents /\ Content.body = seen.body /\ Content.inc = 0
    BY <1>2, <1>3, <2>1, <2>2
  <2>4. QED
    BY <2>3
<1>5. CASE seen.body \notin {NoDefinition, Invalid} /\ ledger.inc # 0 /\ ledger.file = seen
  <2>1. Content = shows(seen.body, ledger.inc, ledger.rev)
    BY <1>5 DEF Content
  <2> HIDE DEF shows
  <2>2. QED
    BY <1>1, <1>2, <1>3, <1>5, <2>1
<1>6. CASE seen.body \notin {NoDefinition, Invalid} /\ ~ (ledger.inc # 0 /\ ledger.file = seen)
  <2>1. Content = shows(Unadopted, 0, 0)
    BY <1>6 DEF Content
  <2> HIDE DEF shows
  <2>2. Unadopted # NoDefinition
    BY DEF Unadopted, NoDefinition
  <2>3. QED
    BY <1>1, <1>2, <1>3, <1>6, <2>1, <2>2
<1>7. QED
  BY <1>4, <1>5, <1>6, Zenon

-----------------------------------------------------------------------------
(* What stays true while nothing it speaks of changes *)

LEMMA PartsStay ==
  ASSUME StoreInv
  PROVE  /\ UNCHANGED <<told, ran, shown, snapshots, given>> => HistoryIsTyped'
         /\ UNCHANGED <<ledger, intent>> => AfterIsNext'
         /\ UNCHANGED <<file, seen, intent, trash, ran>> => ReceiptsAreTrue'
         /\ UNCHANGED <<shown, snapshots, ledger, given, intent>> => NamesAreBehind'
         /\ UNCHANGED <<snapshots, ledger, hidden>> => SnapshotsAreBehind'
         /\ UNCHANGED <<ledger, records, ran, told, ops, intent>> => TellingsAreTrue'
         /\ UNCHANGED asked => AskedIsWhole'
         /\ UNCHANGED <<ran, asked, ledger, intent, records, done>> => RequestsArePast'
         /\ UNCHANGED misfit => StartsRunTheDefinition'
<1>1. UNCHANGED <<told, ran, shown, snapshots, given>> => HistoryIsTyped'
  BY DEF StoreInv, HistoryIsTyped
<1>2. UNCHANGED <<ledger, intent>> => AfterIsNext'
  BY DEF StoreInv, AfterIsNext, Follows, Pending
<1>3. UNCHANGED <<file, seen, intent, trash, ran>> => ReceiptsAreTrue'
  BY DEF StoreInv, ReceiptsAreTrue, IsReceipt, Ran, Asked
<1>4. UNCHANGED <<shown, snapshots, ledger, given, intent>> => NamesAreBehind'
  BY DEF StoreInv, NamesAreBehind, Names, PairNamesOneBody, Pending
<1>5. UNCHANGED <<snapshots, ledger, hidden>> => SnapshotsAreBehind'
  BY DEF StoreInv, SnapshotsAreBehind, SnapshotsAreTrue
<1>6. UNCHANGED <<ledger, records, ran, told, ops, intent>> => TellingsAreTrue'
  BY DEF StoreInv, TellingsAreTrue, IsFounded, Ran, Truth
<1>7. UNCHANGED asked => AskedIsWhole'
  BY DEF StoreInv, AskedIsWhole
<1>8. UNCHANGED <<ran, asked, ledger, intent, records, done>> => RequestsArePast'
  BY DEF StoreInv, RequestsArePast, IsPast, Pending, Asked
<1>9. UNCHANGED misfit => StartsRunTheDefinition'
  BY DEF StoreInv, StartsRunTheDefinition
<1>10. QED
  BY <1>1, <1>2, <1>3, <1>4, <1>5, <1>6, <1>7, <1>8, <1>9

\* While the hold makes no step of its own operation, what is said of the steps
\* and of the temporary file rests on the disk.
LEMMA StepsStay ==
  ASSUME StoreInv, UNCHANGED <<ledger, intent, temp, archive, ran, records>>, stage' \notin StepStages
  PROVE  /\ StepsAreTrue' /\ SnapshotIsRead'
         /\ (file' = file \/ file'.op # intent.op) /\ stage' \notin {"settling", "clearing"} => TempIsPending'
<1>1. StepsAreTrue'
  BY DEF StoreInv, StepsAreTrue, StepStages, Ran
<1>2. SnapshotIsRead'
  BY DEF SnapshotIsRead
<1>3. (file' = file \/ file'.op # intent.op) /\ stage' \notin {"settling", "clearing"} => TempIsPending'
  BY DEF StoreInv, TempIsPending, StepStages, Pending
<1>4. QED
  BY <1>1, <1>2, <1>3

\* The hold ends, and nothing it had in hand is left.
LEMMA LetGoKeeps ==
  ASSUME StoreInv, LetGo, launch' = NoLaunch,
         UNCHANGED <<ledger, intent, temp, file, archive, ran, records, ops, trash>>
  PROVE  /\ CountsAreBounded' /\ HoldIsTrue' /\ PlanIsTrue' /\ StepsAreTrue' /\ SnapshotIsRead'
         /\ TempIsPending' /\ ReceiptsAreTrue'
         /\ stage' = "free" /\ doing' = "nobody" /\ plan' = NoPlan /\ seen' = Absent /\ listed' = Absent
         /\ conflict' = FALSE /\ blind' = {}
<1>1. /\ stage' = "free" /\ doing' = "nobody" /\ plan' = NoPlan /\ seen' = Absent /\ listed' = Absent
      /\ conflict' = FALSE /\ blind' = {}
  BY DEF LetGo
<1>2. CountsAreBounded'
  BY <1>1 DEF StoreInv, CountsAreBounded, IsBounded, Pending, RecoveryStages, StepStages
<1>3. HoldIsTrue'
  BY <1>1 DEF HoldIsTrue, NoPlan
<1>4. PlanIsTrue'
  BY <1>1 DEF PlanIsTrue, NoPlan
<1>5. StepsAreTrue' /\ SnapshotIsRead' /\ TempIsPending'
  BY <1>1, StepsStay DEF StepStages
<1>6. ReceiptsAreTrue'
  BY <1>1 DEF StoreInv, ReceiptsAreTrue, IsReceipt, Ran, Asked, Absent
<1>7. QED
  BY <1>1, <1>2, <1>3, <1>4, <1>5, <1>6

-----------------------------------------------------------------------------
(* The actions of the hold that leave the disk as it is *)

LEMMA LetGoIsTyped ==
  ASSUME TypeOK, LetGo, launch' = NoLaunch, UNCHANGED <<disk, asked, ops>>,
         reported' \subseteq Requests, done' \subseteq Requests,
         handEdits' \in 0 .. MaxHandEdits, faults' \in 0 .. MaxFaults
  PROVE  TypeOK'
<1>1. Absent \in Versions
  BY AbsentIsAVersion
<1>2. NoLaunch \in (0 .. (MaxOps + 1)) \X (0 .. (MaxOps + 1))
  BY StoreAssumption DEF NoLaunch
<1>3. NoPlan \in [op : 0 .. MaxOps, outcome : {"none", "unknown", "committed", "not-committed"},
                  write : {"none", "after", "kept"}]
  BY StoreAssumption DEF NoPlan
<1>4. stage' = "free" /\ doing' = "nobody" /\ plan' = NoPlan /\ seen' = Absent /\ listed' = Absent
      /\ conflict' = FALSE /\ blind' = {}
  BY DEF LetGo
<1>5. QED
  BY <1>1, <1>2, <1>3, <1>4 DEF TypeOK, disk

\* A call that only ends its hold, or a crash.
LEMMA EndingKeeps ==
  ASSUME StoreInv, LetGo, launch' = NoLaunch, UNCHANGED <<disk, asked, reported, handEdits, ops, history>>,
         faults' \in 0 .. MaxFaults
  PROVE  StoreInv'
<1>1. TypeOK'
  BY LetGoIsTyped DEF StoreInv, TypeOK, history
<1>2. UNCHANGED <<file, ledger, intent, temp, trash, records, archive, told, ran, shown, snapshots, hidden,
                  given, done, misfit, ops, asked>>
  BY DEF disk, history
<1>3. /\ CountsAreBounded' /\ HoldIsTrue' /\ PlanIsTrue' /\ StepsAreTrue' /\ SnapshotIsRead'
      /\ TempIsPending' /\ ReceiptsAreTrue'
  BY <1>2, LetGoKeeps
<1>4. HistoryIsTyped' /\ AfterIsNext' /\ NamesAreBehind' /\ SnapshotsAreBehind'
  BY <1>2, PartsStay
<1>5. TellingsAreTrue' /\ AskedIsWhole' /\ RequestsArePast' /\ StartsRunTheDefinition'
  BY <1>2, PartsStay
<1>6. QED
  BY <1>1, <1>3, <1>4, <1>5 DEF StoreInv

LEMMA FaultKeeps == ASSUME StoreInv, Fault PROVE StoreInv'
<1>1. faults' \in 0 .. MaxFaults
  BY StoreAssumption DEF StoreInv, TypeOK, Fault
<1>2. QED
  BY <1>1, EndingKeeps DEF Fault

LEMMA RenameFailsKeeps == ASSUME StoreInv, RenameFails PROVE StoreInv'
<1>1. launch = NoLaunch
  BY DEF StoreInv, HoldIsTrue, RenameFails
<1>2. QED
  BY <1>1, EndingKeeps DEF RenameFails, outside, StoreInv, TypeOK

LEMMA ProducedKeeps == ASSUME StoreInv, Produced PROVE StoreInv'
BY EndingKeeps DEF Produced, outside, StoreInv, TypeOK

\* The disk and what was told are as they were: what is left is the hold's own.
LEMMA HoldKeeps ==
  ASSUME StoreInv, UNCHANGED <<disk, ops, asked, history>>,
         TypeOK', CountsAreBounded', HoldIsTrue', PlanIsTrue', seen' \in {seen, file, Absent},
         stage' \notin StepStages, stage' \in {"settling", "clearing"} => temp = Absent
  PROVE  StoreInv'
<1>1. UNCHANGED <<file, ledger, intent, temp, trash, records, archive, told, ran, shown, snapshots, hidden,
                  given, done, misfit>>
  BY DEF disk, history
<1>2. StepsAreTrue' /\ SnapshotIsRead' /\ TempIsPending'
  BY <1>1, StepsStay DEF TempIsPending
<1>3. ReceiptsAreTrue'
  BY <1>1 DEF StoreInv, ReceiptsAreTrue, IsReceipt, Ran, Asked, Absent
<1>4. HistoryIsTyped' /\ AfterIsNext' /\ NamesAreBehind' /\ SnapshotsAreBehind'
  BY <1>1, PartsStay
<1>5. TellingsAreTrue' /\ AskedIsWhole' /\ RequestsArePast' /\ StartsRunTheDefinition'
  BY <1>1, PartsStay
<1>6. QED
  BY <1>2, <1>3, <1>4, <1>5 DEF StoreInv

LEMMA TakeLockKeeps == ASSUME StoreInv, TakeLock PROVE StoreInv'
<1> USE DEF TakeLock, disk, reading, outside, history
<1>1. TypeOK'
  BY DEF StoreInv, TypeOK
<1>2. CountsAreBounded'
  BY DEF StoreInv, CountsAreBounded, IsBounded, Pending, RecoveryStages, StepStages
<1>3. HoldIsTrue'
  BY DEF StoreInv, HoldIsTrue, Pending
<1>4. PlanIsTrue'
  BY DEF StoreInv, PlanIsTrue, HoldIsTrue, Pending, IsFounded, Ran, Truth, RecoveryStages
<1>5. QED
  BY <1>1, <1>2, <1>3, <1>4, HoldKeeps DEF StepStages

LEMMA AdoptNothingKeeps == ASSUME StoreInv, AdoptNothing PROVE StoreInv'
<1> USE DEF AdoptNothing, disk, reading, outside, history
<1>1. TypeOK'
  BY DEF StoreInv, TypeOK
<1>2. CountsAreBounded'
  BY CountFields DEF StoreInv, CountsAreBounded, IsBounded, Pending, RecoveryStages, StepStages
<1>3. HoldIsTrue'
  BY DEF StoreInv, HoldIsTrue, Pending
<1>4. PlanIsTrue'
  BY DEF StoreInv, PlanIsTrue, HoldIsTrue, Pending, IsFounded, Ran, Truth, RecoveryStages
<1>5. QED
  BY <1>1, <1>2, <1>3, <1>4, HoldKeeps DEF StepStages

LEMMA AdoptBlindKeeps == ASSUME StoreInv, AdoptBlind PROVE StoreInv'
<1> USE DEF AdoptBlind, disk, reading, outside, history
<1>1. TypeOK'
  BY StoreAssumption DEF StoreInv, TypeOK
<1>2. CountsAreBounded'
  BY CountFields DEF StoreInv, CountsAreBounded, IsBounded, Pending, RecoveryStages, StepStages
<1>3. HoldIsTrue'
  BY DEF StoreInv, HoldIsTrue, Pending
<1>4. PlanIsTrue'
  BY DEF StoreInv, PlanIsTrue, HoldIsTrue, Pending, IsFounded, Ran, Truth, RecoveryStages
<1>5. QED
  BY <1>1, <1>2, <1>3, <1>4, HoldKeeps DEF StepStages

LEMMA ReadKeeps == ASSUME StoreInv, Read PROVE StoreInv'
<1> USE DEF Read, disk, reading, outside, history
<1>1. TypeOK'
  <2>1. file \in Versions /\ Absent \in Versions
    BY AbsentIsAVersion DEF StoreInv, TypeOK
  <2>2. faults \in 0 .. MaxFaults /\ blind \subseteq {"adoption", "reading"}
    BY DEF StoreInv, TypeOK
  <2>3. faults' \in 0 .. MaxFaults
    BY <2>2, StoreAssumption
  <2>4. blind' \subseteq {"adoption", "reading"}
    BY <2>2
  <2>5. QED
    BY <2>1, <2>3, <2>4 DEF StoreInv, TypeOK
<1>2. CountsAreBounded'
  BY CountFields DEF StoreInv, CountsAreBounded, IsBounded, Pending, RecoveryStages, StepStages
<1>3. HoldIsTrue'
  BY DEF StoreInv, HoldIsTrue, Pending
<1>4. PlanIsTrue'
  BY DEF StoreInv, PlanIsTrue, HoldIsTrue, Pending, IsFounded, Ran, Truth, RecoveryStages
<1>5. QED
  BY <1>1, <1>2, <1>3, <1>4, HoldKeeps DEF StepStages

LEMMA AdmitStartKeeps == ASSUME StoreInv, AdmitStart PROVE StoreInv'
<1> USE DEF AdmitStart, disk, reading, outside, history
<1>1. TypeOK'
  <2>1. Content \in Contents
    BY ContentIs DEF StoreInv
  <2>2. launch' \in (0 .. (MaxOps + 1)) \X (0 .. (MaxOps + 1))
    BY <2>1 DEF Contents
  <2>3. QED
    BY <2>2 DEF StoreInv, TypeOK
<1>2. CountsAreBounded'
  BY CountFields DEF StoreInv, CountsAreBounded, IsBounded, Pending, RecoveryStages, StepStages
<1>3. HoldIsTrue'
  <2>1. launch' = <<ledger.inc, ledger.rev>>
    BY ContentIs DEF StoreInv
  <2>2. QED
    BY <2>1 DEF StoreInv, HoldIsTrue, Pending, Complete
<1>4. PlanIsTrue'
  BY DEF StoreInv, PlanIsTrue, HoldIsTrue, Pending, IsFounded, Ran, Truth, RecoveryStages
<1>5. QED
  BY <1>1, <1>2, <1>3, <1>4, HoldKeeps DEF StepStages

LEMMA ProduceKeeps == ASSUME StoreInv, Produce PROVE StoreInv'
<1> USE DEF Produce, disk, hold
<1>1. launch = <<ledger.inc, ledger.rev>> /\ stage = "producing"
  BY DEF StoreInv, HoldIsTrue
<1>2. TypeOK'
  <2>1. NoLaunch \in (0 .. (MaxOps + 1)) \X (0 .. (MaxOps + 1))
    BY StoreAssumption DEF NoLaunch
  <2>2. QED
    BY <2>1 DEF StoreInv, TypeOK
<1>3. StartsRunTheDefinition'
  BY <1>1 DEF StoreInv, StartsRunTheDefinition
<1>4. CountsAreBounded'
  BY DEF StoreInv, CountsAreBounded, IsBounded, Pending
<1>5. HoldIsTrue' /\ PlanIsTrue'
  BY DEF StoreInv, HoldIsTrue, PlanIsTrue, Pending, IsFounded, Ran, Truth
<1>6. StepsAreTrue' /\ SnapshotIsRead' /\ TempIsPending'
  BY <1>1, StepsStay DEF StepStages
<1>7. HistoryIsTyped' /\ AfterIsNext' /\ ReceiptsAreTrue' /\ NamesAreBehind' /\ SnapshotsAreBehind'
  BY PartsStay
<1>8. TellingsAreTrue' /\ AskedIsWhole' /\ RequestsArePast'
  BY PartsStay
<1>9. QED
  BY <1>2, <1>3, <1>4, <1>5, <1>6, <1>7, <1>8 DEF StoreInv

\* A hand edit leaves a version that says nothing new of requests and operations.
LEMMA HandEditKeeps == ASSUME StoreInv, HandEdit PROVE StoreInv'
<1> USE DEF HandEdit, hold
<1>1. /\ file' \in Versions /\ IsReceipt(file')
      /\ intent.op # 0 /\ file.op # intent.op => file'.op # intent.op
  <2>1. CASE file' = Absent
    BY <2>1, AbsentIsAVersion DEF IsReceipt
  <2>2. CASE intent.op # 0 /\ file' = intent.before
    BY <2>2, IntentFields DEF StoreInv, ReceiptsAreTrue
  <2>3. CASE \E v \in {Absent, file}, body \in Bodies \cup {Invalid} : file' = [v EXCEPT !.body = body]
    <3>1. PICK v \in {Absent, file}, body \in Bodies \cup {Invalid} : file' = [v EXCEPT !.body = body]
      BY <2>3
    <3>2. v \in Versions
      BY AbsentIsAVersion DEF StoreInv, TypeOK
    <3>3. file' \in Versions /\ file'.op = v.op /\ file'.req = v.req /\ file'.body = body
      BY <3>1, <3>2 DEF Versions
    <3>4. IsReceipt(v)
      BY AbsentIsAVersion DEF StoreInv, ReceiptsAreTrue, IsReceipt
    <3>5. IsReceipt(file')
      BY <3>3, <3>4, AbsentIsAVersion DEF IsReceipt
    <3>6. QED
      BY <3>3, <3>5, AbsentIsAVersion
  <2>4. QED
    BY <2>1, <2>2, <2>3 DEF Edits
<1>2. TypeOK'
  <2>1. handEdits' \in 0 .. MaxHandEdits
    BY StoreAssumption DEF StoreInv, TypeOK
  <2>2. QED
    BY <1>1, <2>1 DEF StoreInv, TypeOK, history
<1>3. CountsAreBounded'
  BY DEF StoreInv, CountsAreBounded, IsBounded, Pending, history
<1>4. HoldIsTrue' /\ PlanIsTrue'
  BY DEF StoreInv, HoldIsTrue, PlanIsTrue, Pending, IsFounded, Ran, Truth, history
<1>5. StepsAreTrue'
  BY DEF StoreInv, StepsAreTrue, Pending, Ran, history
<1>6. SnapshotIsRead'
  BY DEF StoreInv, SnapshotIsRead, Content, Pending
<1>7. TempIsPending'
  BY <1>1 DEF StoreInv, TempIsPending, Pending
<1>8. ReceiptsAreTrue'
  BY <1>1 DEF StoreInv, ReceiptsAreTrue, IsReceipt, Ran, Asked, history
<1>9. HistoryIsTyped' /\ AfterIsNext' /\ NamesAreBehind' /\ SnapshotsAreBehind'
  BY PartsStay DEF history
<1>10. TellingsAreTrue' /\ AskedIsWhole' /\ RequestsArePast' /\ StartsRunTheDefinition'
  BY PartsStay DEF history
<1>11. QED
  BY <1>2, <1>3, <1>4, <1>5, <1>6, <1>7, <1>8, <1>9, <1>10 DEF StoreInv

(* Recovery's decisions *)

\* A plan is recovery's of the operation in hand.
LEMMA DecisionKeeps ==
  ASSUME StoreInv, stage = "opening", intent.op # 0,
         UNCHANGED <<disk, doing, seen, blind, listed, outside, ops, faults, history>>,
         NEW next \in {"recording", "archiving", "settling"},
         NEW outcome \in {"unknown", "committed", "not-committed"}, NEW write \in {"none", "after", "kept"},
         Decide(next, outcome, write),
         next # "recording" => outcome = Truth(intent.op),
         next = "recording" => outcome = "unknown" /\ records[intent.op] = "none" /\ Pending /\ write = "after",
         next = "archiving" => records[intent.op] # "none",
         next # "recording" =>
           IF Pending THEN write = (IF records[intent.op] = "not-committed" THEN "kept" ELSE "after")
                      ELSE write = "none",
         next = "settling" => temp = Absent /\ (Pending /\ intent.kind # "observe" => IsFounded(intent.op))
  PROVE  StoreInv'
<1>1. stage' = next /\ plan' = [op |-> intent.op, outcome |-> outcome, write |-> write] /\ conflict' = conflict
  BY DEF Decide
<1>2. plan'.op = intent.op /\ plan'.outcome = outcome /\ plan'.write = write /\ intent.op \in 0 .. MaxOps
  BY <1>1, IntentFields DEF StoreInv
<1>3. UNCHANGED <<file, ledger, intent, temp, trash, records, archive, ran, asked, launch>>
  BY DEF disk, history, outside
<1>4. TypeOK'
  <2>1. plan' \in [op : 0 .. MaxOps, outcome : {"none", "unknown", "committed", "not-committed"},
                   write : {"none", "after", "kept"}]
    BY <1>1, <1>2
  <2>2. stage' \in {"free", "opening", "recording", "archiving", "settling", "clearing",
                    "adopting", "reading", "ready", "producing", "temping", "renaming", "ledgering", "deleting"}
    BY <1>1
  <2>3. QED
    BY <1>1, <1>2, <2>1, <2>2 DEF StoreInv, TypeOK, disk, outside, history
<1>5. CountsAreBounded'
  BY <1>1, <1>3 DEF StoreInv, CountsAreBounded, IsBounded, Pending, RecoveryStages, StepStages
<1>6. ~ conflict /\ launch = NoLaunch
  BY DEF StoreInv, HoldIsTrue
<1>7. HoldIsTrue'
  BY <1>1, <1>3, <1>6 DEF StoreInv, HoldIsTrue, Pending
<1>8. intent.op <= ops
  BY <1>2, CountFields DEF StoreInv, CountsAreBounded
<1>9. PlanIsTrue'
  BY <1>1, <1>2, <1>3, <1>8 DEF PlanIsTrue, Pending, IsFounded, Ran, Truth, RecoveryStages
<1>10. QED
  BY <1>1, <1>4, <1>5, <1>7, <1>9, HoldKeeps DEF StepStages, outside

LEMMA DecideByRecordKeeps ==
  ASSUME StoreInv, Recover, intent.op # 0, DecideByRecord
  PROVE  StoreInv'
<1>1. records[intent.op] \in {"unknown", "committed", "not-committed"}
  BY IntentFields DEF StoreInv, TypeOK, DecideByRecord, Recorded, Operations
<1>2. Owed \in {"none", "after", "kept"}
  BY DEF Owed
<1>3. IF Pending THEN Owed = (IF records[intent.op] = "not-committed" THEN "kept" ELSE "after")
                 ELSE Owed = "none"
  BY DEF Owed, Pending
<1>4. Truth(intent.op) = records[intent.op]
  BY <1>1 DEF Truth
<1> HIDE DEF Owed
<1>5. QED
  BY <1>1, <1>2, <1>3, <1>4, DecisionKeeps DEF Recover, DecideByRecord, Recorded

\* A receipt says that the step ran, and that its body is not in the temporary file.
LEMMA DecideByReceiptKeeps ==
  ASSUME StoreInv, Recover, intent.op # 0, DecideByReceipt
  PROVE  StoreInv'
<1>1. Truth(intent.op) = "committed" /\ records[intent.op] = "none"
  BY DEF DecideByReceipt, Recorded, Truth
<1>2. CASE ledger.last = intent.op /\ Decide("settling", "committed", "none")
  <2>1. temp = Absent /\ ~ Pending
    BY <1>2 DEF StoreInv, TempIsPending, Pending
  <2>2. QED
    BY <1>1, <1>2, <2>1, DecisionKeeps DEF Recover
<1>3. CASE ledger.last # intent.op /\ Receipt /\ Decide("settling", "committed", "after")
  <2>1. temp = Absent
    BY <1>3 DEF StoreInv, TempIsPending, Receipt
  <2>2. intent.kind # "observe" => IsFounded(intent.op)
    BY <1>3 DEF StoreInv, ReceiptsAreTrue, IsReceipt, Receipt, IsFounded, Ran
  <2>3. Pending
    BY <1>3 DEF Pending
  <2>4. QED
    BY <1>1, <1>3, <2>1, <2>2, <2>3, DecisionKeeps DEF Recover
<1>4. QED
  BY <1>2, <1>3 DEF DecideByReceipt

LEMMA DecideForwardKeeps ==
  ASSUME StoreInv, Recover, intent.op # 0, DecideForward
  PROVE  StoreInv'
<1>1. records[intent.op] = "none" /\ Pending
  BY DEF DecideForward, Recorded, Pending
<1>2. QED
  BY <1>1, DecisionKeeps DEF Recover, DecideForward

LEMMA UndecidedKeeps ==
  ASSUME StoreInv, Recover, intent.op # 0, Undecided
  PROVE  StoreInv'
<1> USE DEF Recover, Undecided, disk, outside, history
<1>1. records[intent.op] = "none" /\ Pending
  BY DEF Recorded, Pending
<1>2. TypeOK'
  BY DEF StoreInv, TypeOK
<1>3. CountsAreBounded'
  BY CountFields DEF StoreInv, CountsAreBounded, IsBounded, Pending, RecoveryStages, StepStages
<1>4. HoldIsTrue'
  BY <1>1 DEF StoreInv, HoldIsTrue, Pending
<1>5. PlanIsTrue'
  BY DEF StoreInv, PlanIsTrue, HoldIsTrue
<1>6. QED
  BY <1>2, <1>3, <1>4, <1>5, HoldKeeps DEF StepStages

LEMMA RecoverKeeps == ASSUME StoreInv, Recover PROVE StoreInv'
<1>1. CASE intent.op = 0
  <2> USE <1>1 DEF Recover, disk, outside, history
  <2>1. TypeOK'
    BY DEF StoreInv, TypeOK
  <2>2. CountsAreBounded'
    BY DEF StoreInv, CountsAreBounded, IsBounded, Pending, RecoveryStages, StepStages
  <2>3. HoldIsTrue'
    BY DEF StoreInv, HoldIsTrue, Pending
  <2>4. PlanIsTrue'
    BY DEF StoreInv, PlanIsTrue, HoldIsTrue
  <2>5. QED
    BY <2>1, <2>2, <2>3, <2>4, HoldKeeps DEF StepStages
<1>2. CASE intent.op # 0
  BY <1>2, DecideByRecordKeeps, DecideByReceiptKeeps, DecideForwardKeeps, UndecidedKeeps DEF Recover
<1>3. QED
  BY <1>1, <1>2

-----------------------------------------------------------------------------
(* What callers are told and shown *)

\* Told of an operation that is over, they are told what everybody is.
LEMMA TellingKeeps ==
  ASSUME StoreInv, UNCHANGED <<ledger, records, ran, ops>>, intent' = intent \/ intent'.op = 0,
         \A a \in told' : \/ a \in told
                          \/ \E o \in Operations : /\ a = <<o, Truth(o)>> /\ o <= ops /\ o # intent'.op
                                                   /\ IsFounded(o)
  PROVE  TellingsAreTrue'
<1>1. \A o : Truth(o)' = Truth(o) /\ IsFounded(o)' = IsFounded(o)
  BY DEF Truth, IsFounded, Ran
<1>2. ledger'.last # 0 => IsFounded(ledger.last)
  BY DEF StoreInv, TellingsAreTrue
<1>3. ASSUME NEW a \in told'
      PROVE  a[1] <= ops /\ a[1] # intent'.op /\ a[2] = Truth(a[1]) /\ IsFounded(a[1])
  <2>1. CASE a \in told
    <3>1. a[1] \in 1 .. MaxOps
      BY <2>1 DEF StoreInv, HistoryIsTyped, Operations
    <3>2. a[1] <= ops /\ a[1] # intent.op /\ a[2] = Truth(a[1]) /\ IsFounded(a[1])
      BY <2>1 DEF StoreInv, TellingsAreTrue
    <3>3. QED
      BY <3>1, <3>2
  <2>2. CASE a \notin told
    BY <1>3, <2>2
  <2>3. QED
    BY <2>1, <2>2
<1>4. QED
  BY <1>1, <1>2, <1>3 DEF TellingsAreTrue, IsFounded, Ran, Truth

\* What a reading shows is what the ledger holds.
LEMMA ShowingKeeps ==
  ASSUME StoreInv, UNCHANGED <<ledger, given>>, intent' = intent \/ ~ Pending,
         \A n \in Names' :
           n \in Names \/ (Content.inc # 0 /\ n = <<Content.inc, Content.rev, Content.body>>)
  PROVE  NamesAreBehind'
<1>1. ledger.next \in Nat /\ ledger.inc \in Nat /\ ledger.rev \in Nat /\ ledger.inc < ledger.next
  BY CountFields DEF StoreInv, CountsAreBounded, IsBounded
<1>2. ASSUME NEW n \in Names', n \notin Names
      PROVE  n[1] = ledger.inc /\ n[2] = ledger.rev /\ n[3] = ledger.file.body /\ n[1] # 0
             /\ n = <<ledger.inc, ledger.rev, ledger.file.body>>
  BY <1>2, ContentIs DEF StoreInv
<1>3. ASSUME NEW n \in Names'
      PROVE  /\ n[1] # 0 /\ n[1] < ledger.next
             /\ n[1] = ledger.inc => n[2] <= ledger.rev /\ (n[2] = ledger.rev => n[3] = ledger.file.body)
  <2>1. CASE n \in Names
    BY <2>1 DEF StoreInv, NamesAreBehind
  <2>2. CASE n \notin Names
    BY <1>1, <1>2, <2>2
  <2>3. QED
    BY <2>1, <2>2
<1>4. ASSUME NEW a \in Names', NEW b \in Names', a[1] = b[1], a[2] = b[2]
      PROVE  a = b
  <2>1. CASE a \in Names /\ b \in Names
    BY <1>4, <2>1 DEF StoreInv, NamesAreBehind, PairNamesOneBody, Names
  <2>2. CASE a \notin Names /\ b \notin Names
    BY <1>2, <2>2
  <2>3. ASSUME NEW c \in Names, NEW d \in Names', d \notin Names, c[1] = d[1], c[2] = d[2]
        PROVE  c = d
    <3>1. d = <<ledger.inc, ledger.rev, ledger.file.body>>
      BY <1>2, <2>3
    <3>2. c[3] = ledger.file.body
      BY <2>3, <3>1 DEF StoreInv, NamesAreBehind
    <3>3. c = <<c[1], c[2], c[3]>>
      <4>1. CASE c \in shown
        BY <4>1 DEF StoreInv, HistoryIsTyped
      <4>2. CASE c \notin shown
        BY <2>3, <4>2 DEF Names
      <4>3. QED
        BY <4>1, <4>2
    <3>4. QED
      BY <2>3, <3>1, <3>2, <3>3
  <2>4. QED
    BY <1>4, <2>1, <2>2, <2>3
<1>5. ASSUME NEW g \in given PROVE g[1] < ledger.next \/ (Pending' /\ g[1] < intent'.after.next)
  BY DEF StoreInv, NamesAreBehind, Pending
<1>6. PairNamesOneBody'
  <2>1. \A a, b \in given' : a[1] = b[1] => a = b
    BY DEF StoreInv, NamesAreBehind, PairNamesOneBody
  <2>2. QED
    BY <1>4, <2>1 DEF PairNamesOneBody, Names
<1>7. QED
  BY <1>3, <1>5, <1>6 DEF NamesAreBehind

LEMMA ListKeeps == ASSUME StoreInv, List PROVE StoreInv'
<1> USE DEF List, disk, outside
<1>1. launch = NoLaunch
  BY DEF StoreInv, HoldIsTrue
<1>2. TypeOK'
  BY <1>1, LetGoIsTyped DEF StoreInv, TypeOK
<1>3. Content.inc # 0 => /\ Content.inc \in 1 .. (MaxOps + 1) /\ Content.rev \in 1 .. (MaxOps + 1)
                         /\ Content.body \in Bodies
  <2>1. ledger.inc \in 0 .. (MaxOps + 1) /\ ledger.rev \in 0 .. (MaxOps + 1) /\ (ledger.inc # 0 => ledger.rev >= 1)
    BY LedgerFields DEF StoreInv, TypeOK, CountsAreBounded, IsBounded
  <2>2. QED
    BY <2>1, ContentIs, StoreAssumption DEF StoreInv
<1>4. plan.op # 0 => /\ plan.op \in Operations /\ plan.op <= ops /\ plan.op # intent.op
                     /\ IsFounded(plan.op) /\ plan.outcome = Truth(plan.op)
  <2>1. plan.op \in 0 .. MaxOps
    BY DEF StoreInv, TypeOK
  <2>2. QED
    BY <2>1, StoreAssumption DEF StoreInv, PlanIsTrue, RecoveryStages, Operations
<1>5. plan.op # 0 => plan.outcome \in {"unknown", "committed", "not-committed"}
  <2>1. plan.op # 0 => records[plan.op] \in {"none", "unknown", "committed", "not-committed"}
    BY <1>4 DEF StoreInv, TypeOK
  <2>2. QED
    BY <1>4, <2>1 DEF Truth
<1>6. HistoryIsTyped'
  <2>1. told' \subseteq Operations \X {"unknown", "committed", "not-committed"}
    BY <1>4, <1>5 DEF StoreInv, HistoryIsTyped
  <2>2. shown' \subseteq (1 .. (MaxOps + 1)) \X (1 .. (MaxOps + 1)) \X Bodies
    BY <1>3 DEF StoreInv, HistoryIsTyped
  <2>3. QED
    BY <2>1, <2>2 DEF StoreInv, HistoryIsTyped
<1>7. /\ CountsAreBounded' /\ HoldIsTrue' /\ PlanIsTrue' /\ StepsAreTrue' /\ SnapshotIsRead'
      /\ TempIsPending' /\ ReceiptsAreTrue'
  BY <1>1, LetGoKeeps
<1>8. TellingsAreTrue'
  BY <1>4, TellingKeeps
<1>9. NamesAreBehind'
  BY ShowingKeeps DEF Names
<1>10. AfterIsNext' /\ SnapshotsAreBehind' /\ AskedIsWhole' /\ RequestsArePast' /\ StartsRunTheDefinition'
  BY PartsStay
<1>11. QED
  BY <1>2, <1>6, <1>7, <1>8, <1>9, <1>10 DEF StoreInv

LEMMA OutcomeOfKeeps == ASSUME StoreInv, NEW o \in Operations, OutcomeOf(o) PROVE StoreInv'
<1> USE DEF OutcomeOf, disk, outside
<1>1. launch = NoLaunch
  BY DEF StoreInv, HoldIsTrue
<1>2. TypeOK'
  BY <1>1, LetGoIsTyped DEF StoreInv, TypeOK
<1>3. records[o] \in {"none", "unknown", "committed", "not-committed"} /\ o # 0 /\ o \in Nat
  <2>1. records[o] \in {"none", "unknown", "committed", "not-committed"}
    BY DEF StoreInv, TypeOK
  <2>2. QED
    BY <2>1, StoreAssumption DEF Operations
<1>4. told' = told \cup {<<o, Truth(o)>>} /\ IsFounded(o)
  BY <1>3 DEF Truth, StoreInv, TellingsAreTrue, IsFounded
<1>5. o <= ops
  BY <1>3, CountFields DEF StoreInv, CountsAreBounded, IsBounded
<1>6. o # intent.op
  BY <1>3 DEF StoreInv, HoldIsTrue, Pending
<1>7. HistoryIsTyped'
  <2>1. Truth(o) \in {"unknown", "committed", "not-committed"}
    BY <1>3 DEF Truth
  <2>2. QED
    BY <1>4, <2>1 DEF StoreInv, HistoryIsTyped
<1>8. /\ CountsAreBounded' /\ HoldIsTrue' /\ PlanIsTrue' /\ StepsAreTrue' /\ SnapshotIsRead'
      /\ TempIsPending' /\ ReceiptsAreTrue'
  BY <1>1, LetGoKeeps
<1>9. TellingsAreTrue'
  BY <1>4, <1>5, <1>6, TellingKeeps
<1>10. AfterIsNext' /\ NamesAreBehind' /\ SnapshotsAreBehind'
  BY PartsStay
<1>11. AskedIsWhole' /\ RequestsArePast' /\ StartsRunTheDefinition'
  BY PartsStay
<1>12. QED
  BY <1>2, <1>7, <1>8, <1>9, <1>10, <1>11 DEF StoreInv

LEMMA AnswerKeeps == ASSUME StoreInv, NEW r \in Requests, Answer(r) PROVE StoreInv'
<1> USE DEF Answer, disk, Claimed
<1>1. launch = NoLaunch
  BY DEF StoreInv, HoldIsTrue
<1>2. reported' \subseteq Requests /\ done' \subseteq Requests
  BY DEF StoreInv, TypeOK, Report
<1>3. TypeOK'
  BY <1>1, <1>2, LetGoIsTyped DEF StoreInv, TypeOK
<1>4. /\ CountsAreBounded' /\ HoldIsTrue' /\ PlanIsTrue' /\ StepsAreTrue' /\ SnapshotIsRead'
      /\ TempIsPending' /\ ReceiptsAreTrue'
  BY <1>1, LetGoKeeps
<1>5. Recognised(r) => Asked(r)
  <2>1. CASE seen.req = r
    BY <2>1, StoreAssumption DEF StoreInv, ReceiptsAreTrue, IsReceipt
  <2>2. CASE \E t \in trash : t.req = r
    BY <2>2 DEF StoreInv, ReceiptsAreTrue, Asked
  <2>3. QED
    BY <2>1, <2>2 DEF Recognised
<1>6. RequestsArePast'
  BY <1>5 DEF StoreInv, RequestsArePast, IsPast, Pending, Asked
<1>7. HistoryIsTyped' /\ AfterIsNext' /\ NamesAreBehind' /\ SnapshotsAreBehind'
  BY PartsStay
<1>8. TellingsAreTrue' /\ AskedIsWhole' /\ StartsRunTheDefinition'
  BY PartsStay
<1>9. QED
  BY <1>3, <1>4, <1>6, <1>7, <1>8 DEF StoreInv

\* A complete snapshot says what was read, under the revision that holds it.
LEMMA SnapshotsGrow ==
  ASSUME StoreInv, Publish, Content = ledger.snap, blind = {}, UNCHANGED <<ledger, shown, given>>,
         intent' = intent \/ ~ Pending
  PROVE  NamesAreBehind' /\ SnapshotsAreBehind' /\ snapshots' \subseteq (1 .. (MaxOps + 1)) \X Contents
<1>1. snapshots' = snapshots \cup {<<ledger.revision, Content>>}
  BY DEF Publish
<1>2. NamesAreBehind'
  <2>1. \A n \in Names' :
          n \in Names \/ (Content.inc # 0 /\ n = <<Content.inc, Content.rev, Content.body>>)
    BY <1>1 DEF Names
  <2>2. QED
    BY <2>1, ShowingKeeps
<1>3. Content.body = NoDefinition => listed = Absent
  <2>1. Content.body = NoDefinition => seen = Absent
    BY ContentIs DEF StoreInv, ReceiptsAreTrue, IsReceipt
  <2>2. seen = listed
    BY DEF StoreInv, HoldIsTrue
  <2>3. QED
    BY <2>1, <2>2
<1>4. ~ hidden'
  BY <1>3 DEF Publish, StoreInv, SnapshotsAreBehind, SnapshotsAreTrue
<1>5. ASSUME NEW p \in snapshots'
      PROVE  p[1] <= ledger.revision /\ (p[1] = ledger.revision => p[2] = ledger.snap)
  <2>1. ledger.revision <= ledger.revision
    BY CountFields DEF StoreInv
  <2>2. QED
    BY <1>1, <2>1 DEF StoreInv, SnapshotsAreBehind
<1>6. ASSUME NEW a \in snapshots', NEW b \in snapshots', a[1] = b[1] PROVE a = b
  <2>1. CASE a \in snapshots /\ b \in snapshots
    BY <1>6, <2>1 DEF StoreInv, SnapshotsAreBehind, SnapshotsAreTrue
  <2>2. CASE a \notin snapshots \/ b \notin snapshots
    <3>1. a[1] = ledger.revision /\ b[1] = ledger.revision
      BY <1>1, <1>6, <2>2
    <3>2. a[2] = b[2]
      BY <1>5, <3>1
    <3>3. a = <<a[1], a[2]>> /\ b = <<b[1], b[2]>>
      BY <1>1 DEF StoreInv, HistoryIsTyped
    <3>4. QED
      BY <1>6, <3>2, <3>3
  <2>3. QED
    BY <2>1, <2>2
<1>7. ledger.revision \in 1 .. (MaxOps + 1) /\ Content \in Contents
  BY LedgerFields, ContentIs DEF StoreInv, TypeOK
<1>8. snapshots' \subseteq (1 .. (MaxOps + 1)) \X Contents
  BY <1>1, <1>7 DEF StoreInv, HistoryIsTyped
<1>9. QED
  BY <1>2, <1>4, <1>5, <1>6, <1>8 DEF SnapshotsAreBehind, SnapshotsAreTrue

\* Published under the revision it has, for nothing changed.
LEMMA RepublishKeeps ==
  ASSUME StoreInv, stage = "ready", Complete, Content = ledger.snap, Publish,
         UNCHANGED <<disk, outside, ops, faults, told, ran, shown, given, done, misfit>>
  PROVE  StoreInv'
<1> USE DEF disk, outside
<1>1. launch = NoLaunch
  BY DEF StoreInv, HoldIsTrue
<1>2. TypeOK'
  BY <1>1, LetGoIsTyped DEF StoreInv, TypeOK, Publish
<1>3. /\ CountsAreBounded' /\ HoldIsTrue' /\ PlanIsTrue' /\ StepsAreTrue' /\ SnapshotIsRead'
      /\ TempIsPending' /\ ReceiptsAreTrue'
  BY <1>1, LetGoKeeps DEF Publish
<1>4. NamesAreBehind' /\ SnapshotsAreBehind' /\ snapshots' \subseteq (1 .. (MaxOps + 1)) \X Contents
  BY SnapshotsGrow DEF Complete
<1>5. HistoryIsTyped'
  BY <1>4 DEF StoreInv, HistoryIsTyped
<1>6. AfterIsNext' /\ TellingsAreTrue' /\ AskedIsWhole' /\ RequestsArePast' /\ StartsRunTheDefinition'
  BY PartsStay
<1>7. QED
  BY <1>2, <1>3, <1>4, <1>5, <1>6 DEF StoreInv

\* A request that nobody has claimed yet has run nothing.
LEMMA AskKeeps == ASSUME StoreInv, NEW r \in Requests, Ask(r) PROVE StoreInv'
<1> USE DEF Ask, disk, hold, history
<1>1. PICK kind \in {"create", "update", "remove"}, body \in Bodies, p \in snapshots :
        /\ kind = "create" <=> p[2].inc = 0
        /\ asked' = [asked EXCEPT ![r] = [kind |-> kind, inc |-> p[2].inc, rev |-> p[2].rev,
                                          body |-> IF kind = "remove" THEN NoDefinition ELSE body]]
  OBVIOUS
<1> DEFINE new == [kind |-> kind, inc |-> p[2].inc, rev |-> p[2].rev,
                   body |-> IF kind = "remove" THEN NoDefinition ELSE body]
           all == [kind : {"none", "create", "update", "remove"}, inc : 0 .. (MaxOps + 1),
                   rev : 0 .. (MaxOps + 1), body : Bodies \cup {NoDefinition}]
<1>2. p[2].inc \in 0 .. (MaxOps + 1) /\ p[2].rev \in 0 .. (MaxOps + 1)
  BY DEF StoreInv, HistoryIsTyped, Contents
<1>3. new \in all /\ new.kind = kind /\ new.inc = p[2].inc /\ (kind # "remove" => new.body \in Bodies)
  BY <1>2
<1>4. asked' = [asked EXCEPT ![r] = new]
  BY <1>1
<1> HIDE DEF new
<1>5. asked \in [Requests -> all] /\ asked[r].kind = "none"
  BY DEF StoreInv, TypeOK, NotAsked
<1>6. asked' \in [Requests -> all] /\ asked'[r] = new /\ \A s \in Requests : s # r => asked'[s] = asked[s]
  BY <1>3, <1>4, <1>5
<1>7. TypeOK'
  BY <1>6 DEF StoreInv, TypeOK
<1> HIDE DEF all
<1>8. AskedIsWhole'
  BY <1>1, <1>3, <1>6 DEF StoreInv, AskedIsWhole
<1>9. RequestsArePast'
  <2>1. (Pending => intent.req # r) /\ \A w \in ran : w[2] # r
    BY <1>5 DEF StoreInv, RequestsArePast
  <2>2. \A s \in Requests : s # r => IsPast(s)' = IsPast(s)
    BY <1>6 DEF IsPast
  <2>3. QED
    BY <1>6, <2>1, <2>2 DEF StoreInv, RequestsArePast, Pending, Asked
<1>10. CountsAreBounded'
  BY DEF StoreInv, CountsAreBounded, IsBounded, Pending
<1>11. HoldIsTrue' /\ PlanIsTrue'
  BY DEF StoreInv, HoldIsTrue, PlanIsTrue, Pending, IsFounded, Ran, Truth
<1>12. StepsAreTrue' /\ SnapshotIsRead' /\ TempIsPending'
  BY DEF StoreInv, StepsAreTrue, SnapshotIsRead, TempIsPending, Pending, Ran, Content
<1>13. HistoryIsTyped' /\ AfterIsNext' /\ ReceiptsAreTrue' /\ NamesAreBehind' /\ SnapshotsAreBehind'
  BY PartsStay
<1>14. TellingsAreTrue' /\ StartsRunTheDefinition'
  BY PartsStay
<1>15. QED
  BY <1>7, <1>8, <1>9, <1>10, <1>11, <1>12, <1>13, <1>14 DEF StoreInv

-----------------------------------------------------------------------------
(* An operation begins *)

LEMMA NextLedgerIs ==
  ASSUME StoreInv, NEW o \in Operations, NEW changed \in Ledgers, ledger.revision <= MaxOps
  PROVE  LET next == NextLedger(o, changed) IN
         /\ next \in Ledgers /\ next.revision = ledger.revision + 1 /\ next.last = o
         /\ next.next = changed.next /\ next.inc = changed.inc /\ next.rev = changed.rev
         /\ next.file = changed.file /\ next.snap = changed.snap
<1>1. ledger.revision + 1 \in 1 .. (MaxOps + 1) /\ o \in 0 .. MaxOps
  BY CountFields, StoreAssumption DEF StoreInv, Operations
<1>2. QED
  BY <1>1 DEF NextLedger, Ledgers

LEMMA RevisedIs ==
  ASSUME StoreInv, ops + 1 <= MaxOps, NEW body \in Bodies, NEW req \in Requests \cup {NoRequest}
  PROVE  LET new == Revised(body, req) IN
         /\ new \in Ledgers /\ new.file = [body |-> body, op |-> ops + 1, req |-> req]
         /\ new.file.body = body /\ new.file.op = ops + 1 /\ new.file.req = req
         /\ Follows("set", new)
<1> DEFINE version == [body |-> body, op |-> ops + 1, req |-> req]
           inc == IF ledger.inc = 0 THEN ledger.next ELSE ledger.inc
           next == IF ledger.inc = 0 THEN ledger.next + 1 ELSE ledger.next
<1>1. version \in Versions /\ version.body = body /\ version.op = ops + 1 /\ version.req = req
  BY CountFields DEF Versions, StoreInv
<1>2. inc \in 0 .. (MaxOps + 1) /\ next \in 1 .. (MaxOps + 1) /\ ledger.rev + 1 \in 0 .. (MaxOps + 1)
  BY CountFields DEF StoreInv, CountsAreBounded, IsBounded
<1>3. Revised(body, req) = [ledger EXCEPT !.file = version, !.inc = inc, !.rev = ledger.rev + 1, !.next = next]
  BY DEF Revised
<1> HIDE DEF version, inc, next
<1>4. ledger \in Ledgers
  BY DEF StoreInv, TypeOK
<1> DEFINE new == Revised(body, req)
<1>5. /\ new \in Ledgers /\ new.file = version /\ new.inc = inc /\ new.rev = ledger.rev + 1
      /\ new.next = next /\ new.snap = ledger.snap
  BY <1>1, <1>2, <1>3, <1>4 DEF Ledgers
<1>6. Follows("set", new)
  BY <1>1, <1>5 DEF Follows, inc, next
<1>7. QED
  BY <1>1, <1>5, <1>6 DEF version

LEMMA WithdrawnIs ==
  ASSUME StoreInv
  PROVE  /\ Withdrawn \in Ledgers /\ Withdrawn.inc = 0 /\ Withdrawn.rev = 0 /\ Withdrawn.file = Absent
         /\ Follows("observe", Withdrawn) /\ (ledger.inc # 0 => Follows("remove", Withdrawn))
<1>1. ledger \in Ledgers /\ 0 \in 0 .. (MaxOps + 1) /\ Absent \in Versions
  BY AbsentIsAVersion, StoreAssumption DEF StoreInv, TypeOK
<1>2. /\ Withdrawn \in Ledgers /\ Withdrawn.inc = 0 /\ Withdrawn.rev = 0 /\ Withdrawn.file = Absent
      /\ Withdrawn.next = ledger.next /\ Withdrawn.snap = ledger.snap
  BY <1>1 DEF Withdrawn, Ledgers
<1>3. QED
  BY <1>2 DEF Follows

LEMMA ResnappedIs ==
  ASSUME StoreInv
  PROVE  LET new == [ledger EXCEPT !.snap = Content] IN
         /\ new \in Ledgers /\ new.snap = Content /\ new.inc = ledger.inc /\ new.rev = ledger.rev
         /\ new.file = ledger.file /\ Follows("observe", new)
<1>1. ledger \in Ledgers /\ Content \in Contents
  BY ContentIs DEF StoreInv, TypeOK
<1> DEFINE new == [ledger EXCEPT !.snap = Content]
<1>2. /\ new \in Ledgers /\ new.snap = Content /\ new.inc = ledger.inc /\ new.rev = ledger.rev
      /\ new.file = ledger.file /\ new.next = ledger.next
  BY <1>1 DEF Ledgers
<1> HIDE DEF new
<1>3. Follows("observe", new)
  BY <1>2 DEF Follows
<1>4. QED
  BY <1>2, <1>3 DEF new

\* Every operation begins with an intent that follows the ledger, before it has
\* run, with no other intent and no body pending.
LEMMA BeginKeeps ==
  ASSUME StoreInv, stage \in {"adopting", "ready"}, ~ conflict,
         NEW who \in {"adopt", "local", "snapshot"} \cup Requests, NEW kind \in {"set", "remove", "observe"},
         NEW req \in Requests \cup {NoRequest}, NEW before \in Versions, NEW changed \in Ledgers,
         Begin(who, kind, req, before, changed),
         Follows(kind, changed), IsReceipt(before),
         kind = "set" => /\ changed.file.op = ops + 1
                         /\ changed.file.req \in {NoRequest, req} \/ Asked(changed.file.req),
         kind = "observe" => req = NoRequest,
         who = "adopt" => stage = "adopting",
         who = "snapshot" => /\ kind = "observe" /\ blind = {} /\ changed.snap = Content
                             /\ changed.inc = ledger.inc /\ changed.rev = ledger.rev
                             /\ changed.file = ledger.file,
         who \in Requests => req = who,
         req \in Requests => /\ asked[req].kind # "none"
                             /\ asked[req].kind # "create" => ledger.inc = asked[req].inc
                                                              /\ ledger.rev = asked[req].rev,
         given' = given \/ /\ kind = "set" /\ ledger.inc = 0
                           /\ given' = given \cup {<<ledger.next, ops + 1>>}
  PROVE  StoreInv'
<1>1. /\ ops' = ops + 1 /\ doing' = who /\ stage' \in StepStages
      /\ stage' = "temping" <=> kind = "set"
      /\ stage' = "renaming" <=> kind = "remove"
      /\ stage' = "ledgering" <=> kind = "observe"
      /\ intent' = [op |-> ops + 1, kind |-> kind, req |-> req, before |-> before,
                    after |-> NextLedger(ops + 1, changed)]
  <2>1. CASE kind = "set"
    BY <2>1 DEF Begin, StepStages
  <2>2. CASE kind = "remove"
    BY <2>2 DEF Begin, StepStages
  <2>3. CASE kind = "observe"
    BY <2>3 DEF Begin, StepStages
  <2>4. QED
    BY <2>1, <2>2, <2>3
<1>2. UNCHANGED <<file, ledger, temp, trash, records, archive, reading, outside, faults, told, ran, shown,
                  snapshots, hidden, done, misfit>>
  BY DEF Begin
<1>3. intent.op = 0 /\ ~ Pending /\ launch = NoLaunch /\ temp = Absent
  BY DEF StoreInv, HoldIsTrue, Pending, TempIsPending
<1>4. /\ ops \in Nat /\ ops + 1 \in Operations /\ ops + 1 <= MaxOps /\ (stage = "adopting" => ops + 2 <= MaxOps)
      /\ MaxOps \in Nat /\ ledger.revision <= ops + 1 /\ ledger.next <= ops + 1
  <2>1. ops \in Nat /\ MaxOps \in Nat
    BY CountFields DEF StoreInv
  <2>2. ops + 1 <= MaxOps /\ (stage = "adopting" => ops + 2 <= MaxOps)
    BY <2>1 DEF StoreInv, CountsAreBounded, RecoveryStages, StepStages
  <2>3. QED
    BY <2>1, <2>2 DEF StoreInv, CountsAreBounded, IsBounded, Operations
<1> DEFINE after == NextLedger(ops + 1, changed)
<1>5. /\ after \in Ledgers /\ after.revision = ledger.revision + 1 /\ after.last = ops + 1
      /\ after.next = changed.next /\ after.inc = changed.inc /\ after.rev = changed.rev
      /\ after.file = changed.file /\ after.snap = changed.snap
  BY <1>4, NextLedgerIs, CountFields DEF StoreInv
<1>6. intent' = [op |-> ops + 1, kind |-> kind, req |-> req, before |-> before, after |-> after]
  BY <1>1
<1> HIDE DEF after
<1>7. /\ intent'.op = ops + 1 /\ intent'.kind = kind /\ intent'.req = req /\ intent'.before = before
      /\ intent'.after = after
      /\ intent' \in [op : 0 .. MaxOps, kind : {"none", "set", "remove", "observe"},
                      req : Requests \cup {NoRequest}, before : Versions, after : Ledgers]
  BY <1>4, <1>5, <1>6
<1>8. Pending'
  <2>1. ledger'.last <= ops /\ ledger'.last \in Nat
    BY <1>2, CountFields DEF StoreInv, CountsAreBounded, IsBounded
  <2>2. QED
    BY <1>4, <1>7, <2>1 DEF Pending
<1>9. TypeOK'
  <2>1. ops' \in 0 .. MaxOps /\ ledger'.revision <= ops' + 1 /\ ledger'.next <= ops' + 1
    BY <1>1, <1>2, <1>4, CountFields DEF StoreInv
  <2>2. /\ stage' \in {"free", "opening", "recording", "archiving", "settling", "clearing",
                       "adopting", "reading", "ready", "producing", "temping", "renaming", "ledgering", "deleting"}
        /\ doing' \in {"nobody", "adopt", "local", "snapshot"} \cup Requests /\ doing' # "nobody"
        /\ stage' \notin {"recording", "archiving", "settling", "clearing"}
    BY <1>1, StoreAssumption DEF StepStages
  <2>3. /\ file' \in Versions /\ temp' \in Versions /\ ledger' \in Ledgers
        /\ trash' \subseteq [op : Operations, inc : 1..(MaxOps + 1), rev : 1..(MaxOps + 1),
                            req : Requests \cup {NoRequest}]
        /\ records' \in [Operations -> {"none", "unknown", "committed", "not-committed"}]
        /\ archive' \subseteq Operations
    BY <1>2 DEF StoreInv, TypeOK
  <2>4. QED
    BY <1>1, <1>2, <1>7, <2>1, <2>2, <2>3 DEF StoreInv, TypeOK, reading, outside
<1>10. CountsAreBounded'
  <2>1. IsBounded(ops)' /\ (IsBounded(ops - 1))'
    BY <1>1, <1>2, <1>4, CountFields DEF StoreInv, CountsAreBounded, IsBounded
  <2>2. conflict' = FALSE
    BY <1>2 DEF reading, StoreInv, TypeOK
  <2>3. stage' \in StepStages /\ doing' = "adopt" => ops' + 1 <= MaxOps
    BY <1>1, <1>4, StoreAssumption
  <2>4. \A o \in Operations : o > ops' => records'[o] = "none"
    BY <1>1, <1>2, <1>4 DEF StoreInv, CountsAreBounded, Operations
  <2>5. \A w \in ran' : w[1] <= ops'
    <3>1. \A w \in ran : w[1] \in 1 .. MaxOps
      BY DEF StoreInv, HistoryIsTyped, Operations
    <3>2. QED
      BY <1>1, <1>2, <1>4, <3>1 DEF StoreInv, CountsAreBounded
  <2>6. QED
    BY <1>1, <1>2, <1>7, <2>1, <2>2, <2>3, <2>4, <2>5 DEF StoreInv, CountsAreBounded, RecoveryStages, StepStages
<1>11. HoldIsTrue'
  BY <1>1, <1>2, <1>3 DEF StoreInv, HoldIsTrue, StepStages, reading, outside
<1>12. PlanIsTrue'
  <2>1. plan' = plan /\ stage' \notin RecoveryStages /\ stage \notin RecoveryStages
    BY <1>1, <1>2 DEF reading, StepStages, RecoveryStages
  <2>2. plan.op # 0 => plan.op <= ops /\ IsFounded(plan.op) /\ plan.outcome = Truth(plan.op) /\ plan.op \in Nat
    BY <2>1, StoreAssumption DEF StoreInv, PlanIsTrue, RecoveryStages, TypeOK
  <2>3. (plan.op # 0 => IsFounded(plan.op)') /\ Truth(plan.op)' = Truth(plan.op)'
    BY <1>2, <2>1, <2>2 DEF IsFounded, Ran
  <2>4. QED
    BY <1>1, <1>2, <1>4, <1>7, <2>1, <2>2, <2>3 DEF PlanIsTrue, RecoveryStages, Truth, IsFounded, Ran
<1>13. AfterIsNext'
  <2>1. Follows(kind, after)
    BY <1>5 DEF Follows
  <2>2. QED
    BY <1>2, <1>5, <1>7, <2>1 DEF AfterIsNext, Follows
<1>14. \A w \in ran : w[1] # ops + 1
  <2>1. \A w \in ran : w[1] \in 1 .. MaxOps
    BY DEF StoreInv, HistoryIsTyped, Operations
  <2>2. QED
    BY <1>4, <2>1 DEF StoreInv, CountsAreBounded
<1>15. StepsAreTrue'
  <2>1. records'[intent'.op] = "none"
    BY <1>2, <1>4, <1>7 DEF StoreInv, CountsAreBounded
  <2>2. conflict' = conflict
    BY <1>2 DEF reading
  <2>3. QED
    BY <1>1, <1>2, <1>7, <1>8, <1>14, <2>1, <2>2 DEF StepsAreTrue, Ran, StepStages
<1>16. SnapshotIsRead'
  <2>1. Content' = Content /\ blind' = blind
    BY <1>2 DEF Content, reading
  <2>2. QED
    BY <1>1, <1>2, <1>5, <1>7, <1>8, <2>1 DEF SnapshotIsRead, StepStages
<1>17. TempIsPending'
  BY <1>2, <1>3 DEF TempIsPending
<1>18. ReceiptsAreTrue'
  <2>1. before.op # ops + 1
    BY <1>14, <1>4 DEF IsReceipt, Ran
  <2>2. seen' = seen
    BY <1>2 DEF reading
  <2>3. IsReceipt(file)' /\ IsReceipt(seen)' /\ IsReceipt(intent.before)'
    BY <1>2, <1>7, <2>2 DEF StoreInv, ReceiptsAreTrue, IsReceipt, Ran, Asked
  <2>4. QED
    BY <1>2, <1>5, <1>7, <2>1, <2>3 DEF StoreInv, ReceiptsAreTrue, Asked
<1>19. NamesAreBehind'
  <2>1. Names' = Names
    BY <1>2 DEF Names
  <2>2. \A g \in given : g[1] < ledger.next /\ g[1] \in Nat
    BY <1>3 DEF StoreInv, NamesAreBehind, HistoryIsTyped
  <2>3. \A g \in given' : g[1] < ledger'.next \/ (Pending' /\ g[1] < intent'.after.next)
    <3>1. CASE given' = given
      BY <1>2, <2>2, <3>1
    <3>2. CASE kind = "set" /\ ledger.inc = 0 /\ given' = given \cup {<<ledger.next, ops + 1>>}
      <4>1. intent'.after.next = ledger.next + 1 /\ ledger.next \in Nat
        BY <1>5, <1>7, <3>2, CountFields DEF Follows, StoreInv
      <4>2. QED
        BY <1>2, <1>8, <2>2, <3>2, <4>1
    <3>3. QED
      BY <3>1, <3>2
  <2>4. \A a, b \in given' : a[1] = b[1] => a = b
    <3>1. \A a, b \in given : a[1] = b[1] => a = b
      BY DEF StoreInv, NamesAreBehind, PairNamesOneBody
    <3>2. ledger.next \in Nat
      BY CountFields DEF StoreInv
    <3>3. QED
      BY <2>2, <3>1, <3>2
  <2>5. PairNamesOneBody'
    BY <2>1, <2>4 DEF StoreInv, NamesAreBehind, PairNamesOneBody, Names
  <2>6. QED
    BY <1>2, <2>1, <2>3, <2>5 DEF StoreInv, NamesAreBehind
<1>20. TellingsAreTrue'
  <2>1. \A a \in told : a[1] # ops + 1 /\ a[1] <= ops + 1
    <3>1. \A a \in told : a[1] \in 1 .. MaxOps
      BY DEF StoreInv, HistoryIsTyped, Operations
    <3>2. QED
      BY <1>4, <3>1 DEF StoreInv, TellingsAreTrue
  <2>2. QED
    BY <1>1, <1>2, <1>7, <2>1 DEF StoreInv, TellingsAreTrue, IsFounded, Ran, Truth
<1>21. RequestsArePast'
  <2>1. asked' = asked
    BY <1>2 DEF outside
  <2>2. \A r : IsPast(r)' = IsPast(r)
    BY <1>2, <2>1 DEF IsPast
  <2>3. QED
    BY <1>2, <1>3, <1>7, <2>1, <2>2 DEF StoreInv, RequestsArePast, Asked
<1>22. HistoryIsTyped'
  <2>1. ledger.next \in 1 .. (MaxOps + 1)
    BY LedgerFields DEF StoreInv, TypeOK
  <2>2. QED
    BY <1>2, <1>4, <2>1 DEF StoreInv, HistoryIsTyped
<1>23. SnapshotsAreBehind' /\ AskedIsWhole' /\ StartsRunTheDefinition'
  BY <1>2, PartsStay DEF outside
<1>24. QED
  BY <1>9, <1>10, <1>11, <1>12, <1>13, <1>15, <1>16, <1>17, <1>18, <1>19, <1>20, <1>21, <1>22, <1>23 DEF StoreInv

LEMMA BeginSetKeeps ==
  ASSUME StoreInv, stage \in {"adopting", "ready"}, ~ conflict,
         NEW who \in {"adopt", "local"} \cup Requests, NEW body \in Bodies,
         NEW kept \in Requests \cup {NoRequest}, NEW req \in Requests \cup {NoRequest},
         BeginSet(who, body, kept, req, file),
         kept \in {NoRequest, req} \/ Asked(kept),
         who = "adopt" => stage = "adopting",
         who \in Requests => req = who,
         req \in Requests => /\ asked[req].kind # "none"
                             /\ asked[req].kind # "create" => ledger.inc = asked[req].inc
                                                              /\ ledger.rev = asked[req].rev
  PROVE  StoreInv'
<1>1. file \in Versions /\ IsReceipt(file)
  BY DEF StoreInv, TypeOK, ReceiptsAreTrue
<1>2. ops + 1 <= MaxOps
  BY CountFields DEF StoreInv, CountsAreBounded, RecoveryStages, StepStages
<1> DEFINE new == Revised(body, kept)
<1>3. new \in Ledgers /\ new.file.op = ops + 1 /\ new.file.req = kept /\ Follows("set", new)
  BY <1>2, RevisedIs
<1>4. Begin(who, "set", req, file, new)
  BY DEF BeginSet
<1>5. given' = given \/ (ledger.inc = 0 /\ given' = given \cup {<<ledger.next, ops + 1>>})
  BY DEF BeginSet
<1>6. who # "snapshot"
  BY StoreAssumption
<1> HIDE DEF new
<1>7. QED
  BY <1>1, <1>3, <1>4, <1>5, <1>6, BeginKeeps

LEMMA BeginRemoveKeeps ==
  ASSUME StoreInv, stage = "ready", ~ conflict, NEW who \in {"local"} \cup Requests,
         NEW req \in Requests \cup {NoRequest}, BeginRemove(who, req),
         who \in Requests => req = who,
         req \in Requests => /\ asked[req].kind # "none"
                             /\ asked[req].kind # "create" => ledger.inc = asked[req].inc
                                                              /\ ledger.rev = asked[req].rev
  PROVE  StoreInv'
<1>1. file \in Versions /\ IsReceipt(file)
  BY DEF StoreInv, TypeOK, ReceiptsAreTrue
<1>2. Withdrawn \in Ledgers /\ Follows("remove", Withdrawn)
  BY WithdrawnIs DEF BeginRemove
<1>3. Begin(who, "remove", req, file, Withdrawn) /\ given' = given
  BY DEF BeginRemove
<1>4. who \notin {"snapshot", "adopt"}
  BY StoreAssumption
<1>5. QED
  BY <1>1, <1>2, <1>3, <1>4, BeginKeeps

LEMMA AdoptVersionKeeps == ASSUME StoreInv, AdoptVersion PROVE StoreInv'
<1>1. ~ conflict /\ file.req \in Requests \cup {NoRequest}
  BY VersionFields DEF StoreInv, HoldIsTrue, TypeOK, AdoptVersion
<1>2. file.req = NoRequest \/ Asked(file.req)
  BY DEF StoreInv, ReceiptsAreTrue, IsReceipt
<1>3. NoRequest \notin Requests /\ "adopt" \notin Requests
  BY StoreAssumption
<1>4. QED
  BY <1>1, <1>2, <1>3, BeginSetKeeps DEF AdoptVersion

LEMMA AdoptRemovalKeeps == ASSUME StoreInv, AdoptRemoval PROVE StoreInv'
<1>1. ~ conflict
  BY DEF StoreInv, HoldIsTrue, AdoptRemoval
<1>2. Absent \in Versions /\ IsReceipt(Absent)
  BY AbsentIsAVersion DEF IsReceipt
<1>3. Withdrawn \in Ledgers /\ Follows("observe", Withdrawn)
  BY WithdrawnIs
<1>4. NoRequest \notin Requests /\ "adopt" \notin Requests
  BY StoreAssumption
<1>5. Begin("adopt", "observe", NoRequest, Absent, Withdrawn) /\ given' = given
  BY DEF AdoptRemoval, BeginObserve
<1>6. QED
  BY <1>1, <1>2, <1>3, <1>4, <1>5, BeginKeeps DEF AdoptRemoval

LEMMA SetLocalKeeps == ASSUME StoreInv, SetLocal PROVE StoreInv'
<1>1. NoRequest \notin Requests /\ "local" \notin Requests
  BY StoreAssumption
<1>2. QED
  BY <1>1, BeginSetKeeps DEF SetLocal

LEMMA RemoveLocalKeeps == ASSUME StoreInv, RemoveLocal PROVE StoreInv'
<1>1. NoRequest \notin Requests /\ "local" \notin Requests
  BY StoreAssumption
<1>2. QED
  BY <1>1, BeginRemoveKeeps DEF RemoveLocal

LEMMA TakeSnapshotKeeps ==
  ASSUME StoreInv, NEW fresh \in BOOLEAN, TakeSnapshot(fresh)
  PROVE  StoreInv'
<1>1. stage = "ready" /\ Complete
  BY DEF TakeSnapshot
<1>2. CASE Unchanged(fresh) /\ Publish /\ UNCHANGED <<disk, outside, ops, faults, told, ran, shown, given, done, misfit>>
  BY <1>1, <1>2, RepublishKeeps DEF Unchanged
<1>3. CASE BeginObserve("snapshot", [ledger EXCEPT !.snap = Content])
  <2> DEFINE new == [ledger EXCEPT !.snap = Content]
  <2>1. /\ new \in Ledgers /\ new.snap = Content /\ new.inc = ledger.inc /\ new.rev = ledger.rev
        /\ new.file = ledger.file /\ Follows("observe", new)
    BY ResnappedIs
  <2>2. Begin("snapshot", "observe", NoRequest, Absent, new) /\ given' = given
    BY <1>3 DEF BeginObserve
  <2> HIDE DEF new
  <2>3. Absent \in Versions /\ IsReceipt(Absent)
    BY AbsentIsAVersion DEF IsReceipt
  <2>4. NoRequest \notin Requests /\ "snapshot" \notin Requests
    BY StoreAssumption
  <2>5. QED
    BY <1>1, <2>1, <2>2, <2>3, <2>4, BeginKeeps DEF Complete
<1>4. QED
  BY <1>2, <1>3 DEF TakeSnapshot

\* An update or a removal is applied to the very identity it names.
LEMMA ApplyKeeps == ASSUME StoreInv, NEW r \in Requests, Apply(r) PROVE StoreInv'
<1>1. stage = "ready" /\ ~ conflict /\ asked[r] # NotAsked /\ Admitted(r)
  BY DEF Apply, Claimed
<1>2. asked[r].kind \in {"create", "update", "remove"}
  BY <1>1 DEF StoreInv, AskedIsWhole, TypeOK
<1>3. asked[r].kind # "create" => ledger.inc = asked[r].inc /\ ledger.rev = asked[r].rev
  BY <1>1, ContentIs DEF Admitted, Defined, StoreInv
<1>4. CASE asked[r].kind = "remove"
  BY <1>1, <1>2, <1>3, <1>4, BeginRemoveKeeps DEF Apply
<1>5. CASE asked[r].kind # "remove"
  <2>1. asked[r].body \in Bodies /\ BeginSet(r, asked[r].body, r, r, file)
    BY <1>2, <1>5 DEF StoreInv, AskedIsWhole, Apply
  <2>2. r # "adopt"
    BY StoreAssumption
  <2>3. QED
    BY <1>1, <1>2, <1>3, <2>1, <2>2, BeginSetKeeps
<1>6. QED
  BY <1>4, <1>5

-----------------------------------------------------------------------------
(* The ledger is written: the operation is over *)

LEMMA AfterIs ==
  ASSUME StoreInv, Pending
  PROVE  /\ intent.after \in Ledgers /\ intent.op = ops /\ ops \in Operations /\ intent.op # 0
         /\ intent.after.last = ops /\ intent.after.revision = ledger.revision + 1
         /\ intent.after.revision <= ops + 1 /\ intent.after.next <= ops + 1 /\ intent.after.rev <= ops
         /\ intent.after.inc < intent.after.next /\ (intent.after.inc # 0 => intent.after.rev >= 1)
         /\ intent.after.next \in Nat /\ intent.after.inc \in Nat /\ intent.after.rev \in Nat
         /\ ledger.next <= intent.after.next
         /\ \/ intent.after.inc = 0
            \/ intent.kind = "set" /\ ledger.inc = 0 /\ intent.after.inc = ledger.next
            \/ intent.kind = "set" /\ intent.after.inc = ledger.inc /\ intent.after.rev = ledger.rev + 1
            \/ /\ intent.kind = "observe" /\ intent.after.inc = ledger.inc
               /\ intent.after.rev = ledger.rev /\ intent.after.file = ledger.file
<1>1. intent.after \in Ledgers /\ intent.op \in 0 .. MaxOps
  BY IntentFields DEF StoreInv
<1>2. intent.op = ops /\ intent.op # 0 /\ ops \in Operations
  BY <1>1, StoreAssumption DEF StoreInv, CountsAreBounded, Pending, Operations
<1>3. ops \in Nat /\ ledger.revision <= ops /\ ledger.next <= ops /\ ledger.rev <= ops - 1
      /\ ledger.inc < ledger.next /\ (ledger.inc # 0 => ledger.rev >= 1)
  BY CountFields DEF StoreInv, CountsAreBounded, IsBounded
<1>4. /\ intent.after.last = intent.op /\ intent.after.revision = ledger.revision + 1
      /\ Follows(intent.kind, intent.after)
  BY DEF StoreInv, AfterIsNext
<1>5. intent.after.next \in Nat /\ intent.after.inc \in Nat /\ intent.after.rev \in Nat
  BY <1>1, LedgerFields
<1>6. ledger.revision \in Nat /\ ledger.next \in Nat /\ ledger.inc \in Nat /\ ledger.rev \in Nat /\ ledger.next >= 1
  BY CountFields DEF StoreInv
<1>7. CASE intent.kind = "set" /\ ledger.inc = 0
  BY <1>1, <1>2, <1>3, <1>4, <1>5, <1>6, <1>7 DEF Follows
<1>8. CASE intent.kind = "set" /\ ledger.inc # 0
  BY <1>1, <1>2, <1>3, <1>4, <1>5, <1>6, <1>8 DEF Follows
<1>9. CASE intent.kind # "set"
  BY <1>1, <1>2, <1>3, <1>4, <1>5, <1>6, <1>9 DEF Follows
<1>10. QED
  BY <1>7, <1>8, <1>9

\* What has been shown stays behind a ledger that follows.
LEMMA AdvanceKeepsNames ==
  ASSUME StoreInv, Pending, ledger' = intent.after, UNCHANGED <<intent, shown, snapshots, given, hidden>>
  PROVE  NamesAreBehind' /\ SnapshotsAreBehind'
<1>1. \A n \in Names : n[1] \in Nat /\ n[2] \in Nat
  BY DEF StoreInv, HistoryIsTyped, Names, Contents
<1>2. ledger.next \in Nat /\ ledger.inc \in Nat /\ ledger.rev \in Nat /\ ledger.revision \in Nat
  BY CountFields DEF StoreInv
<1>3. ASSUME NEW n \in Names
      PROVE  /\ n[1] # 0 /\ n[1] < intent.after.next
             /\ n[1] = intent.after.inc =>
                  n[2] <= intent.after.rev /\ (n[2] = intent.after.rev => n[3] = intent.after.file.body)
  <2>1. /\ n[1] # 0 /\ n[1] < ledger.next
        /\ n[1] = ledger.inc => n[2] <= ledger.rev /\ (n[2] = ledger.rev => n[3] = ledger.file.body)
    BY DEF StoreInv, NamesAreBehind
  <2>2. n[1] < intent.after.next
    BY <1>1, <1>2, <2>1, AfterIs
  <2>3. n[1] = intent.after.inc =>
          n[2] <= intent.after.rev /\ (n[2] = intent.after.rev => n[3] = intent.after.file.body)
    BY <1>1, <1>2, <2>1, AfterIs
  <2>4. QED
    BY <2>1, <2>2, <2>3
<1>4. \A g \in given : g[1] < intent.after.next
  <2>1. \A g \in given : g[1] \in Nat
    BY DEF StoreInv, HistoryIsTyped
  <2>2. QED
    BY <1>2, <2>1, AfterIs DEF StoreInv, NamesAreBehind
<1>5. NamesAreBehind'
  BY <1>3, <1>4 DEF StoreInv, NamesAreBehind, Names, PairNamesOneBody
<1>6. \A p \in snapshots : p[1] <= intent.after.revision /\ p[1] # intent.after.revision
  <2>1. \A p \in snapshots : p[1] \in Nat /\ p[1] <= ledger.revision
    BY DEF StoreInv, HistoryIsTyped, SnapshotsAreBehind
  <2>2. QED
    BY <1>2, <2>1, AfterIs
<1>7. SnapshotsAreBehind'
  BY <1>6 DEF StoreInv, SnapshotsAreBehind, SnapshotsAreTrue
<1>8. QED
  BY <1>5, <1>7

\* A request that ran is past once the ledger is written, and stays past.
LEMMA AdvanceKeepsRequests ==
  ASSUME StoreInv, Pending, ledger' = intent.after, UNCHANGED <<intent, asked, records, done>>,
         ran' = ran \/ (intent.kind = "observe" /\ ran' = ran \cup {<<intent.op, intent.req>>})
  PROVE  RequestsArePast'
<1>1. ~ Pending'
  BY AfterIs DEF Pending
<1>2. ledger.next \in Nat /\ ledger.inc \in Nat /\ ledger.rev \in Nat /\ ledger.inc < ledger.next
  BY CountFields DEF StoreInv, CountsAreBounded, IsBounded
<1>3. \A w \in ran' : w[2] \in Requests => w \in ran
  BY StoreAssumption DEF StoreInv, StepsAreTrue
<1>4. \A r \in Requests : asked[r].inc \in Nat /\ asked[r].rev \in Nat
                          /\ asked[r].kind \in {"none", "create", "update", "remove"}
  BY DEF StoreInv, TypeOK
<1>5. \A r \in Requests : asked[r].kind \in {"update", "remove"} => asked[r].inc # 0
  BY DEF StoreInv, AskedIsWhole
<1>6. ASSUME NEW r \in Requests, asked[r].kind \in {"update", "remove"}, IsPast(r)
      PROVE  IsPast(r)'
  BY <1>2, <1>4, <1>5, <1>6, AfterIs DEF IsPast
<1>7. ASSUME intent.req \in Requests, asked[intent.req].kind \in {"update", "remove"}
      PROVE  IsPast(intent.req)'
  <2>1. ledger.inc = asked[intent.req].inc /\ ledger.rev = asked[intent.req].rev
    BY <1>7 DEF StoreInv, RequestsArePast
  <2>2. intent.kind # "observe" /\ ledger.inc # 0
    BY <1>5, <1>7, <2>1, StoreAssumption DEF StoreInv, StepsAreTrue
  <2>3. QED
    BY <1>2, <1>4, <1>7, <2>1, <2>2, AfterIs DEF IsPast
<1>8. ASSUME NEW w \in ran', w[2] \in Requests, asked[w[2]].kind # "create", records[w[1]] # "not-committed"
      PROVE  IsPast(w[2])' /\ \A v \in ran' : v[2] = w[2] /\ records[v[1]] # "not-committed" => v = w
  <2>1. w \in ran
    BY <1>3, <1>8
  <2>2. asked[w[2]].kind \in {"update", "remove"}
    BY <1>4, <1>8, <2>1 DEF StoreInv, RequestsArePast
  <2>3. IsPast(w[2]) \/ (Pending /\ w[1] = intent.op)
    BY <1>8, <2>1 DEF StoreInv, RequestsArePast
  <2>4. w[1] = intent.op => w[2] = intent.req
    BY <2>1 DEF StoreInv, StepsAreTrue
  <2>5. IsPast(w[2])'
    BY <1>6, <1>7, <1>8, <2>2, <2>3, <2>4
  <2>6. \A v \in ran' : v[2] = w[2] /\ records[v[1]] # "not-committed" => v = w
    BY <1>3, <1>8, <2>1 DEF StoreInv, RequestsArePast
  <2>7. QED
    BY <2>5, <2>6
<1>9. \A w \in ran' : w[2] \in Requests => asked[w[2]].kind # "none"
  BY <1>3 DEF StoreInv, RequestsArePast
<1>10. \A r \in done : \E w \in ran' : w[2] = r
  BY DEF StoreInv, RequestsArePast, Asked
<1>11. QED
  BY <1>1, <1>8, <1>9, <1>10 DEF RequestsArePast, Asked

LEMMA AdvanceKeepsTellings ==
  ASSUME StoreInv, Pending, ledger' = intent.after, UNCHANGED <<intent, told, records, ops>>,
         ran \subseteq ran', IsFounded(intent.op)'
  PROVE  TellingsAreTrue'
<1>1. ledger'.last = intent.op
  BY AfterIs
<1>2. \A o : IsFounded(o) => IsFounded(o)'
  BY DEF IsFounded, Ran
<1>3. QED
  BY <1>1, <1>2 DEF StoreInv, TellingsAreTrue, Truth, IsFounded, Ran

LEMMA AdvanceKeepsCounts ==
  ASSUME StoreInv, Pending, ledger' = intent.after, UNCHANGED <<intent, records, ops, archive, doing, conflict>>,
         \A w \in ran' : w \in ran \/ w[1] = intent.op,
         \/ stage \in RecoveryStages /\ stage' \in RecoveryStages
         \/ stage \in StepStages /\ stage' \in StepStages
  PROVE  CountsAreBounded' /\ ~ Pending' /\ AfterIsNext'
<1>1. ~ Pending'
  BY AfterIs DEF Pending
<1>2. IsBounded(ops)'
  BY AfterIs, CountFields DEF StoreInv, IsBounded
<1>3. \A w \in ran' : w[1] <= ops'
  BY AfterIs, CountFields DEF StoreInv, CountsAreBounded
<1>4. ~ (stage' \in {"opening", "adopting", "reading", "ready"})
  BY DEF RecoveryStages, StepStages
<1>5. stage' \in RecoveryStages => stage \in RecoveryStages
  BY DEF RecoveryStages, StepStages
<1>6. stage' \in StepStages => stage \in StepStages
  BY DEF RecoveryStages, StepStages
<1>7. CountsAreBounded'
  BY <1>1, <1>2, <1>3, <1>4, <1>5, <1>6 DEF StoreInv, CountsAreBounded
<1>8. QED
  BY <1>1, <1>7 DEF AfterIsNext

\* The holder writes the ledger of its own operation.
LEMMA WriteLedgerKeeps == ASSUME StoreInv, WriteLedger PROVE StoreInv'
<1> USE DEF WriteLedger, reading, outside
<1>1. Pending /\ stage = "ledgering" /\ records[intent.op] = "none" /\ ~ conflict /\ temp = Absent
  BY DEF StoreInv, StepsAreTrue, TempIsPending, StepStages
<1>2. ran \subseteq ran' /\ <<intent.op, intent.req>> \in ran'
      /\ \A w \in ran' : w \in ran \/ (w = <<intent.op, intent.req>> /\ intent.kind = "observe")
  BY <1>1 DEF StoreInv, StepsAreTrue
<1>3. CountsAreBounded' /\ ~ Pending' /\ AfterIsNext'
  <2>1. \A w \in ran' : w \in ran \/ w[1] = intent.op
    BY <1>2
  <2>2. stage \in StepStages /\ stage' \in StepStages
    BY DEF StepStages
  <2>3. QED
    BY <1>1, <2>1, <2>2, AdvanceKeepsCounts
<1>4. NamesAreBehind' /\ SnapshotsAreBehind'
  BY <1>1, AdvanceKeepsNames
<1>5. RequestsArePast'
  BY <1>1, AdvanceKeepsRequests
<1>6. TellingsAreTrue'
  BY <1>1, <1>2, AdvanceKeepsTellings DEF IsFounded, Ran
<1>7. TypeOK'
  <2>1. /\ ledger' \in Ledgers /\ ledger'.revision <= ops' + 1 /\ ledger'.next <= ops' + 1
        /\ doing # "nobody" /\ intent.op = ops
    BY <1>1, AfterIs DEF StoreInv, TypeOK
  <2>2. QED
    BY <2>1 DEF StoreInv, TypeOK
<1>8. HistoryIsTyped'
  <2>1. <<intent.op, intent.req>> \in Operations \X (Requests \cup {NoRequest})
    BY <1>1, AfterIs, IntentFields DEF StoreInv
  <2>2. QED
    BY <1>2, <2>1 DEF StoreInv, HistoryIsTyped
<1>9. HoldIsTrue'
  BY <1>1 DEF StoreInv, HoldIsTrue
<1>10. \A o : IsFounded(o) => IsFounded(o)'
  BY <1>2 DEF IsFounded, Ran
<1>11. PlanIsTrue'
  BY <1>1, <1>10 DEF StoreInv, PlanIsTrue, Truth, RecoveryStages
<1>12. StepsAreTrue'
  BY <1>1, <1>2, <1>3 DEF StoreInv, StepsAreTrue, StepStages
<1>13. SnapshotIsRead'
  <2>1. ASSUME doing = "snapshot" PROVE Content' = intent.after.snap /\ intent.kind = "observe" /\ blind = {}
    <3>1. /\ Content = intent.after.snap /\ intent.after.inc = ledger.inc /\ intent.after.rev = ledger.rev
          /\ intent.after.file = ledger.file /\ intent.kind = "observe" /\ blind = {}
      BY <1>1, <2>1 DEF StoreInv, SnapshotIsRead, StepStages
    <3>2. QED
      BY <3>1 DEF Content
  <2>2. QED
    BY <1>3, <2>1 DEF SnapshotIsRead, StepStages
<1>14. TempIsPending'
  BY <1>1 DEF TempIsPending
<1>15. ReceiptsAreTrue'
  BY <1>2 DEF StoreInv, ReceiptsAreTrue, IsReceipt, Ran, Asked
<1>16. AskedIsWhole' /\ StartsRunTheDefinition'
  BY PartsStay
<1>17. QED
  BY <1>3, <1>4, <1>5, <1>6, <1>7, <1>8, <1>9, <1>11, <1>12, <1>13, <1>14, <1>15, <1>16 DEF StoreInv

\* Recovery writes the intent's ledger, or counts a discarded operation on, or
\* finds it written.
LEMMA SettleForwardKeeps == ASSUME StoreInv, Settle, plan.write = "after" PROVE StoreInv'
<1> USE DEF Settle, reading, outside
<1>1. /\ stage = "settling" /\ stage' = "clearing" /\ ledger' = intent.after /\ temp = Absent
      /\ Pending /\ records[intent.op] # "not-committed" /\ ~ conflict /\ launch = NoLaunch
  BY DEF StoreInv, PlanIsTrue, TempIsPending, HoldIsTrue
<1>2. /\ ran \subseteq ran'
      /\ \A w \in ran' : w \in ran \/ (w = <<intent.op, intent.req>> /\ intent.kind = "observe")
      /\ ran' = ran \/ (intent.kind = "observe" /\ ran' = ran \cup {<<intent.op, intent.req>>})
      /\ intent.kind = "observe" => <<intent.op, intent.req>> \in ran'
  BY DEF StoreInv
<1>3. CountsAreBounded' /\ ~ Pending' /\ AfterIsNext'
  <2>1. \A w \in ran' : w \in ran \/ w[1] = intent.op
    BY <1>2
  <2>2. stage \in RecoveryStages /\ stage' \in RecoveryStages
    BY <1>1 DEF RecoveryStages
  <2>3. QED
    BY <1>1, <2>1, <2>2, AdvanceKeepsCounts
<1>4. NamesAreBehind' /\ SnapshotsAreBehind'
  BY <1>1, AdvanceKeepsNames
<1>5. RequestsArePast'
  BY <1>1, <1>2, AdvanceKeepsRequests
<1>6. IsFounded(intent.op)'
  BY <1>1, <1>2 DEF StoreInv, PlanIsTrue, IsFounded, Ran
<1>7. TellingsAreTrue'
  BY <1>1, <1>2, <1>6, AdvanceKeepsTellings
<1>8. TypeOK'
  <2>1. /\ ledger' \in Ledgers /\ ledger'.revision <= ops' + 1 /\ ledger'.next <= ops' + 1
        /\ plan.op = intent.op /\ plan.op # 0
    BY <1>1, AfterIs DEF StoreInv, TypeOK
  <2>2. QED
    BY <1>1, <2>1 DEF StoreInv, TypeOK
<1>9. HistoryIsTyped'
  <2>1. <<intent.op, intent.req>> \in Operations \X (Requests \cup {NoRequest})
    BY <1>1, AfterIs, IntentFields DEF StoreInv
  <2>2. QED
    BY <1>2, <2>1 DEF StoreInv, HistoryIsTyped
<1>10. HoldIsTrue'
  BY <1>1 DEF StoreInv, HoldIsTrue
<1>11. PlanIsTrue'
  BY <1>1, <1>3 DEF StoreInv, PlanIsTrue, Truth, RecoveryStages
<1>12. StepsAreTrue'
  BY <1>1, <1>2 DEF StoreInv, StepsAreTrue, StepStages
<1>13. SnapshotIsRead' /\ TempIsPending'
  BY <1>1 DEF SnapshotIsRead, TempIsPending, StepStages
<1>14. ReceiptsAreTrue'
  BY <1>2 DEF StoreInv, ReceiptsAreTrue, IsReceipt, Ran, Asked
<1>15. AskedIsWhole' /\ StartsRunTheDefinition'
  BY PartsStay
<1>16. QED
  BY <1>3, <1>4, <1>5, <1>7, <1>8, <1>9, <1>10, <1>11, <1>12, <1>13, <1>14, <1>15 DEF StoreInv

LEMMA SettleWrittenKeeps == ASSUME StoreInv, Settle, plan.write = "none" PROVE StoreInv'
<1> USE DEF Settle, reading, outside
<1>1. /\ stage = "settling" /\ stage' = "clearing" /\ ledger' = ledger /\ ran' = ran
      /\ temp = Absent /\ ~ Pending /\ ~ conflict /\ launch = NoLaunch
  BY DEF StoreInv, PlanIsTrue, TempIsPending, HoldIsTrue
<1>2. TypeOK'
  BY <1>1 DEF StoreInv, TypeOK
<1>3. CountsAreBounded'
  BY <1>1 DEF StoreInv, CountsAreBounded, IsBounded, Pending, RecoveryStages, StepStages
<1>4. HoldIsTrue'
  BY <1>1 DEF StoreInv, HoldIsTrue
<1>5. PlanIsTrue'
  BY <1>1 DEF StoreInv, PlanIsTrue, Truth, RecoveryStages, Pending
<1>6. StepsAreTrue' /\ SnapshotIsRead'
  BY <1>1, StepsStay DEF StepStages
<1>7. TempIsPending'
  BY <1>1 DEF TempIsPending
<1>8. HistoryIsTyped' /\ AfterIsNext' /\ ReceiptsAreTrue' /\ NamesAreBehind' /\ SnapshotsAreBehind'
  BY <1>1, PartsStay
<1>9. TellingsAreTrue' /\ AskedIsWhole' /\ RequestsArePast' /\ StartsRunTheDefinition'
  BY <1>1, PartsStay
<1>10. QED
  BY <1>2, <1>3, <1>4, <1>5, <1>6, <1>7, <1>8, <1>9 DEF StoreInv

LEMMA SettleDiscardedKeeps == ASSUME StoreInv, Settle, plan.write = "kept" PROVE StoreInv'
<1> USE DEF Settle, reading, outside
<1>1. /\ stage = "settling" /\ stage' = "clearing" /\ ran' = ran /\ temp = Absent /\ ~ conflict /\ launch = NoLaunch
      /\ Pending /\ records[intent.op] = "not-committed"
  BY DEF StoreInv, PlanIsTrue, TempIsPending, HoldIsTrue
<1>2. /\ intent.op = ops /\ ops \in Operations /\ intent.op # 0 /\ ledger.next <= intent.after.next
      /\ intent.after.next <= ops + 1 /\ intent.after.next \in Nat
  BY <1>1, AfterIs
<1>3. /\ ledger.next \in Nat /\ ledger.revision \in Nat /\ ledger.inc \in Nat /\ ledger.rev \in Nat /\ ops \in Nat
      /\ ops <= MaxOps /\ MaxOps \in Nat /\ ledger \in Ledgers /\ ledger.next >= 1
  BY CountFields DEF StoreInv
<1>4. IsBounded(ops - 1)
  BY <1>1 DEF StoreInv, CountsAreBounded
<1>5. Spent \in 1 .. (MaxOps + 1) /\ intent.after.next <= Spent /\ ledger.next <= Spent /\ Spent <= ops + 1
  BY <1>2, <1>3 DEF Spent
<1> HIDE DEF Spent
<1> DEFINE changed == [ledger EXCEPT !.next = Spent]
<1>6. /\ changed \in Ledgers /\ changed.next = Spent /\ changed.inc = ledger.inc /\ changed.rev = ledger.rev
      /\ changed.file = ledger.file /\ changed.snap = ledger.snap
  BY <1>3, <1>5 DEF Ledgers
<1>7. ledger' = NextLedger(intent.op, changed)
  BY <1>1
<1> HIDE DEF changed
<1>8. /\ ledger' \in Ledgers /\ ledger'.revision = ledger.revision + 1 /\ ledger'.last = intent.op
      /\ ledger'.next = Spent /\ ledger'.inc = ledger.inc /\ ledger'.rev = ledger.rev
      /\ ledger'.file = ledger.file /\ ledger'.snap = ledger.snap
  <2>1. ledger.revision <= MaxOps
    BY <1>3, <1>4 DEF IsBounded
  <2>2. QED
    BY <1>2, <1>6, <1>7, <2>1, NextLedgerIs
<1>9. ~ Pending'
  BY <1>1, <1>8 DEF Pending
<1>10. IsBounded(ops)'
  BY <1>2, <1>3, <1>4, <1>5, <1>8 DEF IsBounded
<1>11. TypeOK'
  <2>1. ledger'.revision <= ops' + 1 /\ ledger'.next <= ops' + 1
    BY <1>10 DEF IsBounded
  <2>2. plan.op = intent.op /\ plan.op # 0
    BY <1>1 DEF StoreInv, TypeOK
  <2>3. QED
    BY <1>1, <1>8, <2>1, <2>2 DEF StoreInv, TypeOK
<1>12. CountsAreBounded'
  BY <1>1, <1>9, <1>10 DEF StoreInv, CountsAreBounded, RecoveryStages, StepStages
<1>13. HoldIsTrue'
  BY <1>1 DEF StoreInv, HoldIsTrue
<1>14. PlanIsTrue'
  BY <1>1, <1>9 DEF StoreInv, PlanIsTrue, Truth, RecoveryStages
<1>15. AfterIsNext'
  BY <1>9 DEF AfterIsNext
<1>16. StepsAreTrue' /\ SnapshotIsRead' /\ TempIsPending'
  <2>1. StepsAreTrue'
    BY <1>1 DEF StoreInv, StepsAreTrue, StepStages
  <2>2. QED
    BY <1>1, <2>1 DEF SnapshotIsRead, TempIsPending, StepStages
<1>17. HistoryIsTyped' /\ ReceiptsAreTrue'
  BY <1>1, PartsStay
<1>18. NamesAreBehind'
  <2>1. \A n \in Names : n[1] \in Nat
    BY DEF StoreInv, HistoryIsTyped, Names, Contents
  <2>2. \A g \in given : g[1] \in Nat
    BY DEF StoreInv, HistoryIsTyped
  <2>3. \A n \in Names : n[1] < ledger'.next
    BY <1>3, <1>5, <1>8, <2>1 DEF StoreInv, NamesAreBehind
  <2>4. \A g \in given : g[1] < ledger'.next
    BY <1>2, <1>3, <1>5, <1>8, <2>2 DEF StoreInv, NamesAreBehind
  <2>5. QED
    BY <1>8, <2>3, <2>4 DEF StoreInv, NamesAreBehind, Names, PairNamesOneBody
<1>19. SnapshotsAreBehind'
  <2>1. \A p \in snapshots : p[1] \in Nat /\ p[1] <= ledger.revision
    BY DEF StoreInv, HistoryIsTyped, SnapshotsAreBehind
  <2>2. \A p \in snapshots : p[1] <= ledger'.revision /\ p[1] # ledger'.revision
    BY <1>3, <1>8, <2>1
  <2>3. QED
    BY <2>2 DEF StoreInv, SnapshotsAreBehind, SnapshotsAreTrue
<1>20. TellingsAreTrue'
  BY <1>1, <1>8 DEF StoreInv, TellingsAreTrue, IsFounded, Ran, Truth
<1>21. RequestsArePast'
  <2>1. \A r \in Requests : asked[r].inc \in Nat
    BY DEF StoreInv, TypeOK
  <2>2. \A r \in Requests : IsPast(r) => IsPast(r)'
    BY <1>3, <1>5, <1>8, <2>1 DEF IsPast
  <2>3. \A w \in ran : w[2] \in Requests /\ asked[w[2]].kind # "create" /\ records[w[1]] # "not-committed" =>
          /\ IsPast(w[2])
          /\ \A v \in ran : v[2] = w[2] /\ records[v[1]] # "not-committed" => v = w
    BY <1>1 DEF StoreInv, RequestsArePast
  <2>4. QED
    BY <1>1, <1>9, <2>2, <2>3 DEF StoreInv, RequestsArePast, Asked
<1>22. AskedIsWhole' /\ StartsRunTheDefinition'
  BY PartsStay
<1>23. QED
  BY <1>11, <1>12, <1>13, <1>14, <1>15, <1>16, <1>17, <1>18, <1>19, <1>20, <1>21, <1>22 DEF StoreInv

LEMMA SettleKeeps == ASSUME StoreInv, Settle PROVE StoreInv'
<1>1. plan.write \in {"none", "after", "kept"}
  BY DEF StoreInv, TypeOK
<1>2. QED
  BY <1>1, SettleForwardKeeps, SettleWrittenKeeps, SettleDiscardedKeeps

-----------------------------------------------------------------------------
(* The other steps on the disk *)

LEMMA WriteTempKeeps == ASSUME StoreInv, WriteTemp PROVE StoreInv'
<1> USE DEF WriteTemp, reading, outside, history
<1>1. /\ stage = "temping" /\ intent.kind = "set" /\ Pending /\ ~ Ran(intent.op) /\ ~ conflict
      /\ records[intent.op] = "none"
  BY DEF StoreInv, StepsAreTrue, StepStages
<1>2. temp' = intent.after.file /\ temp' \in Versions /\ intent.op # 0
  BY <1>1, IntentFields, LedgerFields DEF StoreInv, Pending
<1>3. intent.op \notin archive /\ file.op # intent.op
  BY <1>1, <1>2 DEF StoreInv, CountsAreBounded, ReceiptsAreTrue, IsReceipt
<1>4. TypeOK'
  BY <1>2 DEF StoreInv, TypeOK
<1>5. CountsAreBounded'
  BY DEF StoreInv, CountsAreBounded, IsBounded, Pending, RecoveryStages, StepStages
<1>6. HoldIsTrue'
  BY <1>1 DEF StoreInv, HoldIsTrue
<1>7. PlanIsTrue'
  BY <1>1 DEF StoreInv, PlanIsTrue, IsFounded, Ran, Truth, RecoveryStages
<1>8. StepsAreTrue'
  BY <1>1, <1>2 DEF StoreInv, StepsAreTrue, StepStages, Pending, Ran
<1>9. SnapshotIsRead'
  BY <1>1 DEF StoreInv, SnapshotIsRead, StepStages
<1>10. TempIsPending'
  BY <1>1, <1>2, <1>3 DEF TempIsPending, Pending
<1>11. HistoryIsTyped' /\ AfterIsNext' /\ ReceiptsAreTrue' /\ NamesAreBehind' /\ SnapshotsAreBehind'
  BY PartsStay
<1>12. TellingsAreTrue' /\ AskedIsWhole' /\ RequestsArePast' /\ StartsRunTheDefinition'
  BY PartsStay
<1>13. QED
  BY <1>4, <1>5, <1>6, <1>7, <1>8, <1>9, <1>10, <1>11, <1>12 DEF StoreInv

\* The file becomes the body, or goes to the trash under the operation's name:
\* either way it says what was done.
LEMMA RenameKeeps == ASSUME StoreInv, Rename PROVE StoreInv'
<1> USE DEF Rename, reading, outside
<1>1. /\ stage = "renaming" /\ Pending /\ ~ Ran(intent.op) /\ ~ conflict /\ records[intent.op] = "none"
      /\ intent.kind = "set" => temp = intent.after.file
  BY DEF StoreInv, StepsAreTrue, StepStages
<1>2. intent.op # 0 /\ intent.op \in Operations /\ intent.op = ops /\ intent.req \in Requests \cup {NoRequest}
  BY <1>1, AfterIs, IntentFields DEF StoreInv
<1>3. \A o : IsFounded(o) => IsFounded(o)'
  BY DEF IsFounded, Ran
<1>4. \A v : IsReceipt(v) => IsReceipt(v)'
  BY DEF IsReceipt, Ran, Asked
<1>5. /\ temp' = Absent /\ file' \in Versions /\ IsReceipt(file)'
      /\ \A t \in trash' : t \in trash \/ (t.op = intent.op /\ t.req = intent.req)
  <2>1. CASE intent.kind = "set" /\ file' = temp /\ temp' = Absent /\ UNCHANGED trash
    <3>1. file' = intent.after.file /\ file' \in Versions
      BY <1>1, <2>1 DEF StoreInv, TypeOK
    <3>2. file'.op = intent.op /\ file'.body \in Bodies
      BY <1>1, <2>1, <3>1 DEF StoreInv, AfterIsNext, Follows
    <3>3. file'.req \in {NoRequest, intent.req} \/ Asked(file'.req)
      BY <1>2, <2>1, <3>1 DEF StoreInv, ReceiptsAreTrue
    <3> DEFINE pair == <<intent.op, intent.req>>
    <3>4. pair \in ran' /\ pair[1] = intent.op /\ pair[2] = intent.req /\ ran \subseteq ran'
      OBVIOUS
    <3> HIDE DEF pair
    <3>5. file'.req # NoRequest => \E w \in ran' : w[2] = file'.req
      BY <3>3, <3>4 DEF Asked
    <3>6. \E w \in ran' : w[1] = file'.op
      BY <3>2, <3>4
    <3>7. IsReceipt(file)'
      BY <3>2, <3>5, <3>6, AbsentIsAVersion DEF IsReceipt, Ran, Asked
    <3>8. QED
      BY <2>1, <3>1, <3>7
  <2>2. CASE intent.kind = "remove" /\ file' = Absent /\ UNCHANGED temp
             /\ trash' = trash \cup {[op |-> intent.op, inc |-> ledger.inc, rev |-> ledger.rev, req |-> intent.req]}
    <3>1. temp = Absent
      BY <2>2 DEF StoreInv, TempIsPending
    <3>2. IsReceipt(file)'
      BY <2>2, AbsentIsAVersion DEF IsReceipt
    <3>3. QED
      BY <2>2, <3>1, <3>2, AbsentIsAVersion
  <2>3. QED
    BY <2>1, <2>2
<1>6. TypeOK'
  <2>1. trash' \subseteq [op : Operations, inc : 1..(MaxOps + 1), rev : 1..(MaxOps + 1),
                          req : Requests \cup {NoRequest}]
    <3>1. CASE intent.kind = "set"
      BY <3>1 DEF StoreInv, TypeOK
    <3>2. CASE intent.kind = "remove"
      <4>1. ledger.inc # 0
        BY <1>1, <3>2 DEF StoreInv, AfterIsNext, Follows
      <4>2. ledger.inc \in 1..(MaxOps + 1) /\ ledger.rev \in 1..(MaxOps + 1)
        BY <4>1, LedgerFields, StoreAssumption DEF StoreInv, TypeOK, CountsAreBounded, IsBounded
      <4>3. QED
        BY <1>2, <3>2, <4>2 DEF StoreInv, TypeOK
    <3>3. QED
      BY <3>1, <3>2
  <2>2. QED
    BY <1>5, <2>1, AbsentIsAVersion DEF StoreInv, TypeOK
<1>7. HistoryIsTyped'
  BY <1>2 DEF StoreInv, HistoryIsTyped
<1>8. CountsAreBounded'
  <2>1. \A w \in ran' : w[1] <= ops'
    BY <1>2, CountFields DEF StoreInv, CountsAreBounded
  <2>2. QED
    BY <2>1 DEF StoreInv, CountsAreBounded, IsBounded, Pending, RecoveryStages, StepStages
<1>9. HoldIsTrue'
  BY <1>1 DEF StoreInv, HoldIsTrue
<1>10. PlanIsTrue'
  BY <1>1, <1>3 DEF StoreInv, PlanIsTrue, Truth, RecoveryStages
<1>11. StepsAreTrue'
  BY <1>1 DEF StoreInv, StepsAreTrue, StepStages, Pending
<1>12. SnapshotIsRead' /\ TempIsPending'
  BY <1>1, <1>5 DEF StoreInv, SnapshotIsRead, StepStages, TempIsPending
<1>13. ReceiptsAreTrue'
  <2>1. \A t \in trash' : <<t.op, t.req>> \in ran'
    BY <1>5 DEF StoreInv, ReceiptsAreTrue
  <2>2. IsReceipt(seen)' /\ IsReceipt(intent.before)'
    BY <1>2, <1>4 DEF StoreInv, ReceiptsAreTrue, IsReceipt, Ran, Asked
  <2>3. QED
    BY <1>2, <1>5, <2>1, <2>2 DEF StoreInv, ReceiptsAreTrue, Asked
<1>14. AfterIsNext' /\ NamesAreBehind' /\ SnapshotsAreBehind' /\ AskedIsWhole' /\ StartsRunTheDefinition'
  BY PartsStay
<1>15. TellingsAreTrue'
  BY <1>3 DEF StoreInv, TellingsAreTrue, Truth
<1>16. RequestsArePast'
  <2>1. Pending' /\ \A r : IsPast(r)' = IsPast(r)
    BY <1>1 DEF Pending, IsPast
  <2>2. intent.req \in Requests /\ asked[intent.req].kind # "create" => ~ IsPast(intent.req)
    <3>1. ledger.rev \in Nat
      BY CountFields DEF StoreInv
    <3>2. QED
      BY <1>1, <3>1 DEF StoreInv, RequestsArePast, IsPast
  <2>3. \A w \in ran : w[1] # intent.op
    BY <1>1 DEF Ran
  <2>4. ASSUME NEW w \in ran', w[2] \in Requests, asked[w[2]].kind # "create", records[w[1]] # "not-committed"
        PROVE  /\ IsPast(w[2]) \/ w[1] = intent.op
               /\ \A v \in ran' : v[2] = w[2] /\ records[v[1]] # "not-committed" => v = w
    BY <2>2, <2>3, <2>4 DEF StoreInv, RequestsArePast
  <2>5. \A w \in ran' : w[2] \in Requests => asked[w[2]].kind # "none"
    BY <1>1 DEF StoreInv, RequestsArePast
  <2>6. QED
    BY <1>1, <2>1, <2>4, <2>5 DEF StoreInv, RequestsArePast, Asked
<1>17. QED
  BY <1>5, <1>6, <1>7, <1>8, <1>9, <1>10, <1>11, <1>12, <1>13, <1>14, <1>15, <1>16 DEF StoreInv

\* A record is made of the operation in hand, which nobody has been told of.
LEMMA RecordingKeeps ==
  ASSUME StoreInv, Pending, records[intent.op] = "none",
         NEW outcome \in {"unknown", "committed", "not-committed"},
         records' = [records EXCEPT ![intent.op] = outcome],
         UNCHANGED <<ledger, ran, told, ops, intent, asked, done>>
  PROVE  /\ records' \in [Operations -> {"none", "unknown", "committed", "not-committed"}]
         /\ records'[intent.op] = outcome /\ \A o \in Operations : o # intent.op => records'[o] = records[o]
         /\ TellingsAreTrue' /\ RequestsArePast'
<1>1. intent.op \in Operations /\ records \in [Operations -> {"none", "unknown", "committed", "not-committed"}]
  BY AfterIs DEF StoreInv, TypeOK
<1>2. /\ records' \in [Operations -> {"none", "unknown", "committed", "not-committed"}]
      /\ records'[intent.op] = outcome /\ \A o \in Operations : o # intent.op => records'[o] = records[o]
  BY <1>1
<1>3. \A o \in Operations : IsFounded(o) => IsFounded(o)'
  BY <1>2 DEF IsFounded, Ran
<1>4. TellingsAreTrue'
  <2>1. ledger.last # 0 => ledger.last \in Operations
    BY LedgerFields, StoreAssumption DEF StoreInv, TypeOK, Operations
  <2>2. \A a \in told : a[1] \in Operations
    BY DEF StoreInv, HistoryIsTyped
  <2>3. \A a \in told : a[2] = Truth(a[1])'
    BY <1>2, <2>2 DEF StoreInv, TellingsAreTrue, Truth
  <2>4. ledger'.last # 0 => IsFounded(ledger.last)'
    BY <1>3, <2>1 DEF StoreInv, TellingsAreTrue
  <2>5. \A a \in told : a[1] <= ops /\ a[1] # intent.op /\ IsFounded(a[1])'
    BY <1>3, <2>2 DEF StoreInv, TellingsAreTrue
  <2>6. QED
    BY <2>3, <2>4, <2>5 DEF TellingsAreTrue, IsFounded, Ran, Truth
<1>5. RequestsArePast'
  <2>1. \A w \in ran : w[1] \in Operations
    BY DEF StoreInv, HistoryIsTyped
  <2>2. \A w \in ran : records'[w[1]] # "not-committed" => records[w[1]] # "not-committed"
    BY <1>2, <2>1
  <2>3. \A r : IsPast(r)' = IsPast(r)
    BY DEF IsPast
  <2>4. QED
    BY <2>2, <2>3 DEF StoreInv, RequestsArePast, Pending, Asked
<1>6. QED
  BY <1>2, <1>4, <1>5

LEMMA RecordKeeps == ASSUME StoreInv, Record PROVE StoreInv'
<1> USE DEF Record, reading, outside, history
<1>1. /\ stage = "recording" /\ Pending /\ records[intent.op] = "none" /\ ~ conflict /\ launch = NoLaunch
      /\ plan.outcome = "unknown" /\ plan.write = "after" /\ plan.op = intent.op
  BY DEF StoreInv, PlanIsTrue, HoldIsTrue, TypeOK
<1>2. /\ records' \in [Operations -> {"none", "unknown", "committed", "not-committed"}]
      /\ records'[intent.op] = "unknown" /\ \A o \in Operations : o # intent.op => records'[o] = records[o]
      /\ TellingsAreTrue' /\ RequestsArePast'
  BY <1>1, RecordingKeeps
<1>3. intent.op \in Operations /\ intent.op = ops /\ ops \in Nat
  BY <1>1, AfterIs, CountFields DEF StoreInv
<1>4. TypeOK'
  BY <1>1, <1>2 DEF StoreInv, TypeOK
<1>5. CountsAreBounded'
  <2>1. \A o \in Operations : o > ops => records'[o] = "none"
    BY <1>2, <1>3 DEF StoreInv, CountsAreBounded
  <2>2. \A o \in archive : records'[o] # "none"
    BY <1>2, <1>3 DEF StoreInv, CountsAreBounded, TypeOK
  <2>3. QED
    BY <1>1, <2>1, <2>2 DEF StoreInv, CountsAreBounded, IsBounded, Pending, RecoveryStages, StepStages
<1>6. HoldIsTrue'
  BY <1>1 DEF StoreInv, HoldIsTrue
<1>7. PlanIsTrue'
  BY <1>1, <1>2 DEF StoreInv, PlanIsTrue, Truth, Pending, RecoveryStages
<1>8. StepsAreTrue'
  BY <1>1 DEF StoreInv, StepsAreTrue, StepStages
<1>9. SnapshotIsRead'
  BY <1>1 DEF SnapshotIsRead, StepStages
<1>10. TempIsPending'
  BY <1>1 DEF StoreInv, TempIsPending, Pending
<1>11. HistoryIsTyped' /\ AfterIsNext' /\ ReceiptsAreTrue' /\ NamesAreBehind' /\ SnapshotsAreBehind'
  BY PartsStay
<1>12. AskedIsWhole' /\ StartsRunTheDefinition'
  BY PartsStay
<1>13. QED
  BY <1>2, <1>4, <1>5, <1>6, <1>7, <1>8, <1>9, <1>10, <1>11, <1>12 DEF StoreInv

LEMMA SettleConflictKeeps == ASSUME StoreInv, SettleConflict PROVE StoreInv'
<1> USE DEF SettleConflict, outside, history
<1>1. /\ stage = "ready" /\ conflict /\ Pending /\ records[intent.op] = "none" /\ plan.op = 0 /\ launch = NoLaunch
  BY DEF StoreInv, HoldIsTrue
<1>2. PICK choice \in {"committed", "not-committed"} : records' = [records EXCEPT ![intent.op] = choice]
  OBVIOUS
<1>3. /\ records' \in [Operations -> {"none", "unknown", "committed", "not-committed"}]
      /\ records'[intent.op] = choice /\ \A o \in Operations : o # intent.op => records'[o] = records[o]
      /\ TellingsAreTrue' /\ RequestsArePast'
  BY <1>1, <1>2, RecordingKeeps
<1>4. intent.op \in Operations /\ intent.op = ops /\ ops \in Nat
  BY <1>1, AfterIs, CountFields DEF StoreInv
<1>5. TypeOK'
  BY <1>3, AbsentIsAVersion, ZenonT(30) DEF StoreInv, TypeOK
<1>6. CountsAreBounded'
  <2>1. \A o \in Operations : o > ops => records'[o] = "none"
    BY <1>3, <1>4 DEF StoreInv, CountsAreBounded
  <2>2. \A o \in archive : records'[o] # "none"
    BY <1>3, <1>4 DEF StoreInv, CountsAreBounded, TypeOK
  <2>3. QED
    BY <1>1, <2>1, <2>2 DEF StoreInv, CountsAreBounded, IsBounded, Pending, RecoveryStages, StepStages
<1>7. HoldIsTrue'
  BY <1>1 DEF StoreInv, HoldIsTrue
<1>8. PlanIsTrue'
  BY <1>1 DEF PlanIsTrue
<1>9. StepsAreTrue'
  BY <1>1 DEF StoreInv, StepsAreTrue, StepStages
<1>10. SnapshotIsRead'
  BY <1>1 DEF SnapshotIsRead, StepStages
<1>11. TempIsPending'
  BY <1>1 DEF StoreInv, TempIsPending, Pending
<1>12. ReceiptsAreTrue'
  BY AbsentIsAVersion DEF StoreInv, ReceiptsAreTrue, IsReceipt, Ran, Asked
<1>13. HistoryIsTyped' /\ AfterIsNext' /\ NamesAreBehind' /\ SnapshotsAreBehind'
  BY PartsStay
<1>14. AskedIsWhole' /\ StartsRunTheDefinition'
  BY PartsStay
<1>15. QED
  BY <1>3, <1>5, <1>6, <1>7, <1>8, <1>9, <1>10, <1>11, <1>12, <1>13, <1>14 DEF StoreInv

LEMMA ArchiveKeeps == ASSUME StoreInv, Archive PROVE StoreInv'
<1> USE DEF Archive, reading, outside, history
<1>1. /\ stage = "archiving" /\ records[intent.op] # "none" /\ ~ conflict /\ launch = NoLaunch
      /\ plan.op = intent.op /\ intent.op # 0 /\ intent.op \in Operations
  BY IntentFields, StoreAssumption DEF StoreInv, PlanIsTrue, HoldIsTrue, TypeOK, Operations
<1>2. temp' = Absent /\ archive' \subseteq archive \cup {intent.op}
  BY DEF StoreInv, TempIsPending, BodyIsPending
<1>3. TypeOK'
  BY <1>1, <1>2, AbsentIsAVersion DEF StoreInv, TypeOK
<1>4. CountsAreBounded'
  BY <1>1, <1>2 DEF StoreInv, CountsAreBounded, IsBounded, Pending, RecoveryStages, StepStages
<1>5. HoldIsTrue'
  BY <1>1 DEF StoreInv, HoldIsTrue
<1>6. PlanIsTrue'
  BY <1>1 DEF StoreInv, PlanIsTrue, Truth, Pending, RecoveryStages, IsFounded
<1>7. StepsAreTrue'
  BY <1>1 DEF StoreInv, StepsAreTrue, StepStages
<1>8. SnapshotIsRead' /\ TempIsPending'
  BY <1>1, <1>2 DEF SnapshotIsRead, StepStages, TempIsPending
<1>9. HistoryIsTyped' /\ AfterIsNext' /\ ReceiptsAreTrue' /\ NamesAreBehind' /\ SnapshotsAreBehind'
  BY PartsStay
<1>10. TellingsAreTrue' /\ AskedIsWhole' /\ RequestsArePast' /\ StartsRunTheDefinition'
  BY PartsStay
<1>11. QED
  BY <1>3, <1>4, <1>5, <1>6, <1>7, <1>8, <1>9, <1>10 DEF StoreInv

-----------------------------------------------------------------------------
(* The intent is deleted *)

\* With no intent, what rested on the intent's rests on the ledger.
LEMMA ForgettingKeeps ==
  ASSUME StoreInv, ~ Pending, intent' = NoIntent,
         UNCHANGED <<file, ledger, temp, trash, records, archive, ran, asked, ops, shown, given, misfit>>,
         seen' \in {seen, Absent}, stage' \notin StepStages
  PROVE  /\ temp' = Absent /\ ~ Pending' /\ AfterIsNext' /\ StepsAreTrue' /\ SnapshotIsRead' /\ TempIsPending'
         /\ ReceiptsAreTrue' /\ AskedIsWhole' /\ StartsRunTheDefinition'
         /\ UNCHANGED snapshots => NamesAreBehind'
         /\ UNCHANGED told => TellingsAreTrue'
         /\ done' = done \/ (done' = done \cup {doing} /\ Asked(doing)) => RequestsArePast'
<1>1. temp = Absent
  BY DEF StoreInv, TempIsPending
<1>2. intent'.op = 0 /\ intent'.kind = "none" /\ intent'.req = NoRequest
  BY NoIntentIsAnIntent
<1>3. ~ Pending' /\ AfterIsNext' /\ TempIsPending' /\ SnapshotIsRead'
  BY <1>1, <1>2 DEF Pending, AfterIsNext, TempIsPending, SnapshotIsRead
<1>4. StepsAreTrue'
  <2>1. \A w \in ran : w[1] # 0
    BY StoreAssumption DEF StoreInv, HistoryIsTyped, Operations
  <2>2. QED
    BY <1>2, <2>1 DEF StepsAreTrue, StepStages
<1>5. ReceiptsAreTrue'
  BY <1>2, AbsentIsAVersion DEF StoreInv, ReceiptsAreTrue, IsReceipt, Ran, Asked
<1>6. UNCHANGED snapshots => NamesAreBehind'
  BY DEF StoreInv, NamesAreBehind, Names, PairNamesOneBody
<1>7. UNCHANGED told => TellingsAreTrue'
  <2>1. \A a \in told : a[1] # 0
    BY StoreAssumption DEF StoreInv, HistoryIsTyped, Operations
  <2>2. QED
    BY <1>2, <2>1 DEF StoreInv, TellingsAreTrue, IsFounded, Ran, Truth
<1>8. done' = done \/ (done' = done \cup {doing} /\ Asked(doing)) => RequestsArePast'
  <2>1. \A r : IsPast(r)' = IsPast(r)
    BY DEF IsPast
  <2>2. QED
    BY <1>3, <2>1 DEF StoreInv, RequestsArePast, Asked
<1>9. AskedIsWhole' /\ StartsRunTheDefinition'
  BY PartsStay
<1>10. QED
  BY <1>1, <1>3, <1>4, <1>5, <1>6, <1>7, <1>8, <1>9

LEMMA ClearKeeps == ASSUME StoreInv, Clear PROVE StoreInv'
<1> USE DEF Clear, reading, outside, history
<1>1. /\ stage = "clearing" /\ ~ Pending /\ ~ conflict /\ launch = NoLaunch /\ plan.op = intent.op
      /\ intent.op # 0 /\ ledger.last = intent.op
  BY DEF StoreInv, PlanIsTrue, HoldIsTrue, TypeOK, Pending
<1>2. intent'.op = 0
  BY NoIntentIsAnIntent
<1>3. TypeOK'
  BY <1>1, NoIntentIsAnIntent DEF StoreInv, TypeOK
<1>4. CountsAreBounded'
  BY <1>1, <1>2 DEF StoreInv, CountsAreBounded, IsBounded, Pending, RecoveryStages, StepStages
<1>5. HoldIsTrue'
  BY <1>1, <1>2 DEF StoreInv, HoldIsTrue
<1>6. PlanIsTrue'
  BY <1>1, <1>2 DEF StoreInv, PlanIsTrue, TellingsAreTrue, Truth, RecoveryStages, IsFounded, Ran
<1>7. /\ AfterIsNext' /\ StepsAreTrue' /\ SnapshotIsRead' /\ TempIsPending' /\ ReceiptsAreTrue'
      /\ NamesAreBehind' /\ TellingsAreTrue' /\ RequestsArePast' /\ AskedIsWhole' /\ StartsRunTheDefinition'
  <2>1. stage' \notin StepStages
    BY DEF StepStages
  <2>2. QED
    BY <1>1, <2>1, ForgettingKeeps
<1>8. HistoryIsTyped' /\ SnapshotsAreBehind'
  BY PartsStay
<1>9. QED
  BY <1>3, <1>4, <1>5, <1>6, <1>7, <1>8 DEF StoreInv

LEMMA DeleteIntentKeeps == ASSUME StoreInv, DeleteIntent PROVE StoreInv'
<1> USE DEF DeleteIntent
<1>1. /\ stage = "deleting" /\ ~ Pending /\ ~ conflict /\ records[intent.op] = "none"
      /\ <<intent.op, intent.req>> \in ran /\ launch = NoLaunch /\ intent.op = ops
      /\ doing \in Requests => intent.req = doing
  BY DEF StoreInv, StepsAreTrue, HoldIsTrue, StepStages, TypeOK
<1>2. intent'.op = 0 /\ intent' = NoIntent
  BY NoIntentIsAnIntent
<1>3. intent.op \in Operations /\ IsFounded(intent.op) /\ Truth(intent.op) = "committed"
  BY <1>1 DEF StoreInv, HistoryIsTyped, IsFounded, Ran, Truth
<1>4. /\ doing = "snapshot" => Content = ledger.snap /\ blind = {}
      /\ doing = "adopt" => ops + 1 <= MaxOps
  BY <1>1 DEF StoreInv, SnapshotIsRead, CountsAreBounded, StepStages
<1>5. plan.op # 0 => IsFounded(plan.op)
  BY <1>1 DEF StoreInv, PlanIsTrue, RecoveryStages
<1>6. CASE doing = "adopt" /\ stage' = "reading"
           /\ UNCHANGED <<doing, reading, told, snapshots, hidden, done, reported>>
  <2> USE <1>6 DEF reading
  <2>1. TypeOK'
    BY <1>2, NoIntentIsAnIntent DEF StoreInv, TypeOK
  <2>2. CountsAreBounded'
    BY <1>1, <1>2, <1>4 DEF StoreInv, CountsAreBounded, IsBounded, Pending, RecoveryStages, StepStages
  <2>3. HoldIsTrue'
    BY <1>1, <1>2 DEF StoreInv, HoldIsTrue
  <2>4. PlanIsTrue'
    BY <1>1, <1>2, <1>5 DEF StoreInv, PlanIsTrue, Truth, RecoveryStages, IsFounded, Ran
  <2>5. /\ AfterIsNext' /\ StepsAreTrue' /\ SnapshotIsRead' /\ TempIsPending' /\ ReceiptsAreTrue'
        /\ NamesAreBehind' /\ TellingsAreTrue' /\ RequestsArePast' /\ AskedIsWhole' /\ StartsRunTheDefinition'
    <3>1. stage' \notin StepStages
      BY DEF StepStages
    <3>2. QED
      BY <1>1, <3>1, ForgettingKeeps
  <2>6. HistoryIsTyped' /\ SnapshotsAreBehind'
    BY PartsStay
  <2>7. QED
    BY <2>1, <2>2, <2>3, <2>4, <2>5, <2>6 DEF StoreInv
<1>7. CASE LetGo
  <2>1. /\ stage' = "free" /\ doing' = "nobody" /\ plan' = NoPlan /\ seen' = Absent /\ listed' = Absent
        /\ conflict' = FALSE /\ blind' = {}
    BY <1>7 DEF LetGo
  <2>2. /\ AfterIsNext' /\ StepsAreTrue' /\ SnapshotIsRead' /\ TempIsPending' /\ ReceiptsAreTrue'
        /\ AskedIsWhole' /\ StartsRunTheDefinition'
        /\ UNCHANGED snapshots => NamesAreBehind'
        /\ UNCHANGED told => TellingsAreTrue'
        /\ done' = done \/ (done' = done \cup {doing} /\ Asked(doing)) => RequestsArePast'
    <3>1. stage' \notin StepStages /\ seen' \in {seen, Absent}
      BY <2>1 DEF StepStages
    <3>2. QED
      BY <1>1, <3>1, ForgettingKeeps
  <2>3. doing # "adopt" /\ reported' \subseteq Requests /\ done' \subseteq Requests
    BY <2>1, StoreAssumption DEF StoreInv, TypeOK, Report
  <2>4. TypeOK'
    <3>1. /\ NoPlan \in [op : 0 .. MaxOps, outcome : {"none", "unknown", "committed", "not-committed"},
                         write : {"none", "after", "kept"}]
          /\ Absent \in Versions
      BY AbsentIsAVersion, StoreAssumption DEF NoPlan
    <3>2. QED
      BY <1>2, <2>1, <2>3, <3>1, NoIntentIsAnIntent DEF StoreInv, TypeOK
  <2>5. CountsAreBounded'
    BY <1>1, <1>2, <2>1 DEF StoreInv, CountsAreBounded, IsBounded, Pending, RecoveryStages, StepStages
  <2>6. HoldIsTrue' /\ PlanIsTrue'
    BY <1>1, <2>1 DEF HoldIsTrue, PlanIsTrue, NoPlan
  <2>7. NamesAreBehind' /\ SnapshotsAreBehind' /\ snapshots' \subseteq (1 .. (MaxOps + 1)) \X Contents
    <3>1. CASE UNCHANGED <<snapshots, hidden>>
      BY <2>2, <3>1, PartsStay DEF StoreInv, HistoryIsTyped
    <3>2. CASE doing = "snapshot" /\ Publish
      BY <1>1, <1>4, <3>2, SnapshotsGrow
    <3>3. QED
      BY <2>3, <3>1, <3>2
  <2>8. TellingsAreTrue' /\ told' \subseteq Operations \X {"unknown", "committed", "not-committed"}
    <3>1. CASE UNCHANGED told
      BY <2>2, <3>1 DEF StoreInv, HistoryIsTyped
    <3>2. CASE told' = told \cup {<<intent.op, "committed">>}
      <4>1. intent.op <= ops /\ intent.op # intent'.op
        BY <1>1, <1>2, <1>3, CountFields, StoreAssumption DEF StoreInv, Operations
      <4>2. \A a \in told' : a \in told \/ \E o \in Operations : a = <<o, Truth(o)>> /\ o <= ops /\ o # intent'.op
                                                                 /\ IsFounded(o)
        BY <1>3, <3>2, <4>1
      <4>3. TellingsAreTrue'
        BY <1>2, <4>2, TellingKeeps
      <4>4. QED
        BY <1>3, <3>2, <4>3 DEF StoreInv, HistoryIsTyped
    <3>3. QED
      BY <2>3, <3>1, <3>2
  <2>9. RequestsArePast'
    <3>1. CASE UNCHANGED done
      BY <2>2, <3>1
    <3>2. CASE doing \in Requests /\ done' = done \cup {doing}
      <4>1. Asked(doing)
        BY <1>1, <3>2 DEF Asked
      <4>2. QED
        BY <2>2, <3>2, <4>1
    <3>3. QED
      BY <2>3, <3>1, <3>2
  <2>10. HistoryIsTyped'
    BY <2>7, <2>8 DEF StoreInv, HistoryIsTyped
  <2>11. QED
    BY <2>2, <2>4, <2>5, <2>6, <2>7, <2>8, <2>9, <2>10 DEF StoreInv
<1>8. QED
  BY <1>6, <1>7 DEF Publish

-----------------------------------------------------------------------------
(* The theorems *)

LEMMA InitIsTrue == ASSUME Init PROVE StoreInv
<1> USE DEF Init
<1>1. /\ intent.op = 0 /\ intent.kind = "none" /\ intent.req = NoRequest /\ ledger \in Ledgers
      /\ ledger.revision = 1 /\ ledger.next = 1 /\ ledger.inc = 0 /\ ledger.rev = 0 /\ ledger.last = 0
  BY NoIntentIsAnIntent
<1>2. ~ Pending
  BY <1>1 DEF Pending
<1>3. TypeOK
  <2>1. /\ NoPlan \in [op : 0 .. MaxOps, outcome : {"none", "unknown", "committed", "not-committed"},
                       write : {"none", "after", "kept"}]
        /\ NoLaunch \in (0 .. (MaxOps + 1)) \X (0 .. (MaxOps + 1))
    BY StoreAssumption DEF NoPlan, NoLaunch
  <2>2. NotAsked \in [kind : {"none", "create", "update", "remove"}, inc : 0 .. (MaxOps + 1),
                      rev : 0 .. (MaxOps + 1), body : Bodies \cup {NoDefinition}]
    BY StoreAssumption DEF NotAsked
  <2>3. /\ asked \in [Requests -> [kind : {"none", "create", "update", "remove"}, inc : 0 .. (MaxOps + 1),
                                   rev : 0 .. (MaxOps + 1), body : Bodies \cup {NoDefinition}]]
        /\ records \in [Operations -> {"none", "unknown", "committed", "not-committed"}]
    BY <2>2
  <2>4. ops \in 0 .. MaxOps /\ handEdits \in 0 .. MaxHandEdits /\ faults \in 0 .. MaxFaults
    BY StoreAssumption
  <2>5. ledger.revision <= ops + 1 /\ ledger.next <= ops + 1
    BY <1>1
  <2>6. QED
    BY <1>1, <2>1, <2>3, <2>4, <2>5, NoIntentIsAnIntent, AbsentIsAVersion DEF TypeOK
<1>4. HistoryIsTyped
  BY DEF HistoryIsTyped
<1>5. CountsAreBounded
  BY <1>1, <1>2 DEF CountsAreBounded, IsBounded, RecoveryStages, StepStages
<1>6. HoldIsTrue /\ PlanIsTrue
  BY DEF HoldIsTrue, PlanIsTrue, NoPlan, NoLaunch
<1>7. AfterIsNext /\ StepsAreTrue /\ SnapshotIsRead /\ TempIsPending
  BY <1>1, <1>2 DEF AfterIsNext, StepsAreTrue, SnapshotIsRead, TempIsPending, StepStages
<1>8. ReceiptsAreTrue
  BY <1>1, AbsentIsAVersion DEF ReceiptsAreTrue, IsReceipt
<1>9. NamesAreBehind /\ SnapshotsAreBehind
  BY DEF NamesAreBehind, Names, PairNamesOneBody, SnapshotsAreBehind, SnapshotsAreTrue
<1>10. TellingsAreTrue
  BY <1>1 DEF TellingsAreTrue
<1>11. AskedIsWhole
  BY DEF AskedIsWhole, NotAsked
<1>12. RequestsArePast /\ StartsRunTheDefinition
  BY <1>2 DEF RequestsArePast, StartsRunTheDefinition
<1>13. QED
  BY <1>3, <1>4, <1>5, <1>6, <1>7, <1>8, <1>9, <1>10, <1>11, <1>12 DEF StoreInv

LEMMA StutterKeeps == ASSUME StoreInv, UNCHANGED vars PROVE StoreInv'
<1> USE DEF vars, disk, hold, history
<1>1. TypeOK'
  BY DEF StoreInv, TypeOK
<1>2. CountsAreBounded' /\ HoldIsTrue'
  BY DEF StoreInv, CountsAreBounded, IsBounded, Pending, HoldIsTrue
<1>3. PlanIsTrue'
  BY DEF StoreInv, PlanIsTrue, IsFounded, Ran, Truth, Pending
<1>4. StepsAreTrue' /\ TempIsPending'
  BY DEF StoreInv, StepsAreTrue, TempIsPending, Pending, Ran
<1>5. SnapshotIsRead'
  BY DEF StoreInv, SnapshotIsRead, Content, Pending
<1>6. HistoryIsTyped' /\ AfterIsNext' /\ ReceiptsAreTrue' /\ NamesAreBehind' /\ SnapshotsAreBehind'
  BY PartsStay
<1>7. TellingsAreTrue' /\ AskedIsWhole' /\ RequestsArePast' /\ StartsRunTheDefinition'
  BY PartsStay
<1>8. QED
  BY <1>1, <1>2, <1>3, <1>4, <1>5, <1>6, <1>7 DEF StoreInv

LEMMA NextKeeps == ASSUME StoreInv, Next PROVE StoreInv'
<1>1. CASE Opening
  BY <1>1, RecoverKeeps, RecordKeeps, ArchiveKeeps, SettleKeeps, ClearKeeps DEF Opening
<1>2. CASE Adopting
  BY <1>2, AdoptVersionKeeps, AdoptRemovalKeeps, AdoptNothingKeeps, AdoptBlindKeeps, ReadKeeps DEF Adopting
<1>3. CASE Operating
  BY <1>3, WriteTempKeeps, RenameKeeps, RenameFailsKeeps, WriteLedgerKeeps, DeleteIntentKeeps DEF Operating
<1>4. CASE Calling
  <2>1. CASE List \/ SetLocal \/ RemoveLocal \/ SettleConflict
    BY <2>1, ListKeeps, SetLocalKeeps, RemoveLocalKeeps, SettleConflictKeeps
  <2>2. CASE AdmitStart \/ Produce \/ Produced
    BY <2>2, AdmitStartKeeps, ProduceKeeps, ProducedKeeps
  <2>3. CASE \E o \in Operations : OutcomeOf(o)
    BY <2>3, OutcomeOfKeeps
  <2>4. CASE \E fresh \in BOOLEAN : TakeSnapshot(fresh)
    BY <2>4, TakeSnapshotKeeps
  <2>5. CASE \E r \in Requests : Answer(r) \/ Apply(r)
    BY <2>5, AnswerKeeps, ApplyKeeps
  <2>6. QED
    BY <1>4, <2>1, <2>2, <2>3, <2>4, <2>5 DEF Calling
<1>5. CASE TakeLock \/ Fault \/ HandEdit \/ \E r \in Requests : Ask(r)
  BY <1>5, TakeLockKeeps, FaultKeeps, HandEditKeeps, AskKeeps
<1>6. QED
  BY <1>1, <1>2, <1>3, <1>4, <1>5 DEF Next

\* The parts of the store's state agree with one another and with what anybody
\* was told, shown or given, through every crash and hand edit.
THEOREM StoreHolds == Spec => []StoreInv
<1>1. Init => StoreInv
  BY InitIsTrue
<1>2. StoreInv /\ [Next]_vars => StoreInv'
  BY NextKeeps, StutterKeeps
<1>3. QED
  BY <1>1, <1>2, PTL DEF Spec

\* An incarnation and revision name one body for ever and a collection revision
\* one snapshot, no snapshot leaves out what it did not look at, and no worker
\* is started from what was replaced (PairNamesOneBody, SnapshotsAreTrue,
\* StartsRunTheDefinition).
THEOREM WhatTheStoreShowsIsTrue == Spec => []StoreIsTrue
<1>1. StoreInv => StoreIsTrue
  BY DEF StoreInv, StoreIsTrue, NamesAreBehind, SnapshotsAreBehind
<1>2. QED
  BY <1>1, StoreHolds, PTL

\* A request whose kind is known to be no creation ran in one operation at most.
LEMMA AtMostOneApplication ==
  ASSUME StoreInv, NEW r \in Requests, asked[r].kind # "create"
  PROVE  Cardinality(Applications(r)) <= 1
<1>1. \A o, p \in Applications(r) : o = p
  <2> SUFFICES ASSUME NEW o \in Applications(r), NEW p \in Applications(r)
               PROVE  o = p
    OBVIOUS
  <2> DEFINE w == <<o, r>>
             v == <<p, r>>
  <2>1. /\ w \in ran /\ w[1] = o /\ w[2] = r /\ records[o] # "not-committed"
        /\ v \in ran /\ v[1] = p /\ v[2] = r /\ records[p] # "not-committed"
    BY DEF Applications
  <2> HIDE DEF w, v
  <2>2. v = w
    BY <2>1 DEF StoreInv, RequestsArePast
  <2>3. QED
    BY <2>1, <2>2
<1>2. CASE Applications(r) = {}
  BY <1>2, FS_EmptySet
<1>3. CASE Applications(r) # {}
  <2>1. PICK o \in Applications(r) : TRUE
    BY <1>3
  <2>2. Applications(r) = {o}
    BY <1>1, <2>1
  <2>3. Cardinality({o}) = 1
    BY FS_Singleton
  <2>4. QED
    BY <2>2, <2>3
<1>4. QED
  BY <1>2, <1>3

\* Everybody is told the same of an operation, "committed" only of one that ran
\* or was settled so; no body is left behind; an update or removal runs at most
\* once however often it is claimed, and one reported done was done
\* (OutcomesAgree, NoBodyIsLeftBehind, RequestRunsOnce).
THEOREM RequestsAreSettledThroughout == Spec => []RequestsAreSettled
<1>1. StoreInv => OutcomesAgree
  <2> SUFFICES ASSUME StoreInv
               PROVE  OutcomesAgree
    OBVIOUS
  <2>1. \A a \in told : a = <<a[1], a[2]>> /\ a[1] \in Operations
    BY DEF StoreInv, HistoryIsTyped
  <2>2. \A a \in told : a[2] = Truth(a[1]) /\ IsFounded(a[1])
    BY DEF StoreInv, TellingsAreTrue
  <2>3. \A a, b \in told : a[1] = b[1] => a = b
    BY <2>1, <2>2
  <2>4. \A a \in told : a[2] = "committed" => records[a[1]] = "committed" \/ \E w \in ran : w[1] = a[1]
    BY <2>2 DEF Truth, IsFounded, Ran
  <2>5. QED
    BY <2>3, <2>4 DEF OutcomesAgree
<1>2. StoreInv => NoBodyIsLeftBehind
  BY DEF StoreInv, TempIsPending, Pending, NoBodyIsLeftBehind
<1>3. StoreInv => RequestRunsOnce
  <2> SUFFICES ASSUME StoreInv
               PROVE  RequestRunsOnce
    OBVIOUS
  <2>1. \A r \in Requests : asked[r].kind # "create" => Cardinality(Applications(r)) <= 1
    BY AtMostOneApplication
  <2>2. ASSUME NEW r \in done
        PROVE  \E o \in Operations : <<o, r>> \in ran
    <3>1. PICK w \in ran : w[2] = r
      BY DEF StoreInv, RequestsArePast, Asked
    <3>2. w[1] \in Operations /\ w = <<w[1], r>>
      BY <3>1 DEF StoreInv, HistoryIsTyped
    <3>3. QED
      BY <3>2
  <2>3. QED
    BY <2>1, <2>2 DEF RequestRunsOnce
<1>4. StoreInv => RequestsAreSettled
  BY <1>1, <1>2, <1>3 DEF RequestsAreSettled
<1>5. QED
  BY <1>4, StoreHolds, PTL
=============================================================================
