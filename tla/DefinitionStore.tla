-------------------------- MODULE DefinitionStore --------------------------
(***************************************************************************)
(* The store of agent definitions: lib/agent-definitions.mjs, with the      *)
(* decisions of agent-definition-recovery.mjs and agent-definition-         *)
(* requests.mjs, and the requests that plugins/aify-comms/definition-       *)
(* sync.mjs claims, applies and reports.                                    *)
(*                                                                          *)
(* One id, one holder of the lock at a time (DefinitionLock).  An operation *)
(* is four durable steps: intent, file, ledger, intent deleted; the process *)
(* may die between any two, and an editor knows nothing of the lock.  A     *)
(* version of the file is its own digest.                                   *)
(***************************************************************************)
EXTENDS Naturals, FiniteSets

CONSTANTS
    Bodies,             \* what a valid definition may say
    Requests,           \* change requests of the service
    NoRequest,
    MaxOps,             \* operations in a behaviour
    MaxHandEdits,           \* hand edits in a behaviour
    MaxFaults           \* crashes and failed listings in a behaviour

\* Besides the bodies: nothing there, not a valid definition, valid but not
\* yet in the ledger, and the digest of a store that never published.
Invalid == "invalid"
NoDefinition == "nothing"
Unadopted == "unadopted"
Never == "never"

ASSUME StoreAssumption ==
    /\ Bodies \cap {Invalid, NoDefinition, Unadopted, Never} = {}
    /\ NoRequest \notin Requests
    /\ {"adopt", "local", "snapshot", "nobody"} \cap Requests = {}
    /\ MaxOps \in Nat /\ MaxHandEdits \in Nat /\ MaxFaults \in Nat

Operations == 1..MaxOps

Versions ==
    [body : Bodies \cup {Invalid, NoDefinition}, op : 0..MaxOps,
     req : Requests \cup {NoRequest}]

\* No file: a version as well.
Absent == [body |-> NoDefinition, op |-> 0, req |-> NoRequest]

Contents ==
    [body : Bodies \cup {Invalid, NoDefinition, Unadopted, Never},
     inc : 0..(MaxOps + 1), rev : 0..(MaxOps + 1)]

NeverPublished == [body |-> Never, inc |-> 0, rev |-> 0]

\* The ledger: the collection's revision, the next incarnation, the id's entry
\* (incarnation 0 is none), the last published content, the last operation.
Ledgers ==
    [revision : 1..(MaxOps + 1), next : 1..(MaxOps + 1),
     inc : 0..(MaxOps + 1), rev : 0..(MaxOps + 1), file : Versions,
     snap : Contents, last : 0..MaxOps]

VARIABLES
    file,       \* <id>.json
    ledger,     \* .collection.json
    intent,     \* .intent.json; operation 0 is none
    temp,       \* the temporary file the intent names
    trash,      \* .trash/: what the names record
    records,    \* .recovered/<operation>.json
    archive     \* .recovered/<operation>.body.json

disk == <<file, ledger, intent, temp, trash, records, archive>>

VARIABLES
    stage,      \* how far the holder of the lock has come
    doing,      \* whose operation it is at
    plan,       \* what recovery decided
    seen,       \* the file as the holder read it
    conflict,   \* recovery could not decide
    blind,      \* which of its two directory listings failed
    listed      \* what the second really held, read or not (for the properties)

hold == <<stage, doing, plan, seen, conflict, blind, listed>>
reading == <<plan, seen, conflict, blind, listed>>

VARIABLES
    asked,      \* what each request asks for
    reported,   \* requests whose report arrived
    launch,     \* the definition a worker is being started from
    ops, handEdits, faults

outside == <<asked, reported, launch, handEdits>>

\* What callers were told and what was really done, kept for the properties.
VARIABLES
    told,       \* <<operation, outcome>> answered to somebody
    ran,        \* <<operation, request>> whose file or ledger step ran
    shown,      \* <<incarnation, revision, body>> shown to somebody
    snapshots,  \* <<collection revision, content>> of complete snapshots
    hidden,     \* a complete snapshot left out a definition
    given,      \* <<incarnation, operation>> that began a new lifetime
    done,       \* requests reported done
    misfit      \* a worker was started from what was no longer defined

history == <<told, ran, shown, snapshots, hidden, given, done, misfit>>

vars == <<disk, hold, asked, reported, launch, ops, handEdits, faults, history>>

NoIntent ==
    [op |-> 0, kind |-> "none", req |-> NoRequest, before |-> Absent,
     after |-> [revision |-> 1, next |-> 1, inc |-> 0, rev |-> 0, file |-> Absent,
                snap |-> NeverPublished, last |-> 0]]

NoPlan == [op |-> 0, outcome |-> "none", write |-> "none"]

NoLaunch == <<0, 0>>

NotAsked == [kind |-> "none", inc |-> 0, rev |-> 0, body |-> NoDefinition]

TypeOK ==
    /\ file \in Versions /\ temp \in Versions
    /\ ledger \in Ledgers
    /\ intent \in [op : 0..MaxOps, kind : {"none", "set", "remove", "observe"},
                   req : Requests \cup {NoRequest}, before : Versions, after : Ledgers]
    /\ trash \subseteq [op : Operations, inc : 1..(MaxOps + 1), rev : 1..(MaxOps + 1),
                        req : Requests \cup {NoRequest}]
    /\ records \in [Operations -> {"none", "unknown", "committed", "not-committed"}]
    /\ archive \subseteq Operations
    /\ stage \in {"free", "opening", "recording", "archiving", "settling", "clearing",
                  "adopting", "reading", "ready", "producing", "temping", "renaming", "ledgering",
                  "deleting"}
    /\ doing \in {"nobody", "adopt", "local", "snapshot"} \cup Requests
    /\ plan \in [op : 0..MaxOps,
                 outcome : {"none", "unknown", "committed", "not-committed"},
                 write : {"none", "after", "kept"}]
    /\ seen \in Versions /\ listed \in Versions
    /\ conflict \in BOOLEAN /\ blind \subseteq {"adoption", "reading"}
    /\ asked \in [Requests -> [kind : {"none", "create", "update", "remove"},
                               inc : 0..(MaxOps + 1), rev : 0..(MaxOps + 1),
                               body : Bodies \cup {NoDefinition}]]
    /\ reported \subseteq Requests /\ done \subseteq Requests
    /\ launch \in (0..(MaxOps + 1)) \X (0..(MaxOps + 1))
    /\ ops \in 0..MaxOps /\ handEdits \in 0..MaxHandEdits /\ faults \in 0..MaxFaults
    /\ ledger.revision <= ops + 1 /\ ledger.next <= ops + 1
    /\ stage \in {"temping", "renaming", "ledgering", "deleting"} =>
         doing # "nobody" /\ intent.op = ops
    /\ stage \in {"recording", "archiving", "settling", "clearing"} =>
         plan.op = intent.op /\ plan.op # 0

Init ==
    /\ file = Absent /\ temp = Absent
    /\ ledger = NoIntent.after
    /\ intent = NoIntent
    /\ trash = {} /\ archive = {}
    /\ records = [o \in Operations |-> "none"]
    /\ stage = "free" /\ doing = "nobody" /\ plan = NoPlan
    /\ seen = Absent /\ listed = Absent /\ conflict = FALSE /\ blind = {}
    /\ asked = [r \in Requests |-> NotAsked]
    /\ reported = {} /\ launch = NoLaunch /\ ops = 0 /\ handEdits = 0 /\ faults = 0
    /\ told = {} /\ ran = {} /\ shown = {} /\ snapshots = {} /\ hidden = FALSE
    /\ given = {} /\ done = {} /\ misfit = FALSE

-----------------------------------------------------------------------------
(* The hold *)

\* Every call is one hold.  MaxOps bounds a behaviour here and nowhere else: a
\* hold makes at most two operations, an adoption and its own.
TakeLock ==
    /\ stage = "free" /\ ops + 2 <= MaxOps
    /\ stage' = "opening"
    /\ UNCHANGED <<disk, doing, reading, outside, ops, faults, history>>

LetGo ==
    /\ stage' = "free" /\ doing' = "nobody" /\ plan' = NoPlan
    /\ seen' = Absent /\ listed' = Absent /\ conflict' = FALSE /\ blind' = {}

\* The holder dies, or a write fails and the call throws: the disk stays as it
\* is, and the lock goes to somebody else.
Fault ==
    /\ stage # "free" /\ faults < MaxFaults
    /\ faults' = faults + 1
    /\ LetGo
    /\ launch' = NoLaunch
    /\ UNCHANGED <<disk, asked, reported, handEdits, ops, history>>

(* The four steps: DefinitionStore.#operate *)

NextLedger(o, changed) == [changed EXCEPT !.revision = ledger.revision + 1, !.last = o]

\* The intent is written, and names the ledger the operation leads to.
Begin(who, kind, req, before, changed) ==
    /\ ops' = ops + 1
    /\ intent' = [op |-> ops + 1, kind |-> kind, req |-> req, before |-> before,
                  after |-> NextLedger(ops + 1, changed)]
    /\ doing' = who
    /\ stage' = (CASE kind = "set" -> "temping"
                   [] kind = "remove" -> "renaming"
                   [] OTHER -> "ledgering")
    /\ UNCHANGED <<file, ledger, temp, trash, records, archive, reading, outside,
                   faults, told, ran, shown, snapshots, hidden, done, misfit>>

\* (Mutant: a changed body keeps its revision.)
RevisedInPlace(body, req) ==
    LET new == ledger.inc = 0 IN
    [ledger EXCEPT !.file = [body |-> body, op |-> ops + 1, req |-> req],
                   !.inc = IF new THEN ledger.next ELSE @,
                   !.rev = IF new THEN 1 ELSE @,
                   !.next = IF new THEN @ + 1 ELSE @]

\* A new lifetime takes the next incarnation; a known id its next revision.
Revised(body, req) ==
    LET new == ledger.inc = 0 IN
    [ledger EXCEPT !.file = [body |-> body, op |-> ops + 1, req |-> req],
                   !.inc = IF new THEN ledger.next ELSE @,
                   !.rev = @ + 1,
                   !.next = IF new THEN @ + 1 ELSE @]

Withdrawn == [ledger EXCEPT !.file = Absent, !.inc = 0, !.rev = 0]

\* A set: of a call, or of an adoption, which keeps what the file says of the
\* request that wrote it.
BeginSet(who, body, kept, req, before) ==
    /\ Begin(who, "set", req, before, Revised(body, kept))
    /\ given' = IF ledger.inc = 0 THEN given \cup {<<ledger.next, ops + 1>>} ELSE given

BeginRemove(who, req) ==
    /\ ledger.inc # 0
    /\ Begin(who, "remove", req, file, Withdrawn)
    /\ UNCHANGED given

BeginObserve(who, changed) ==
    /\ Begin(who, "observe", NoRequest, Absent, changed)
    /\ UNCHANGED given

WriteTemp ==
    /\ stage = "temping"
    /\ temp' = intent.after.file
    /\ stage' = "renaming"
    /\ UNCHANGED <<file, ledger, intent, trash, records, archive, doing, reading,
                   outside, ops, faults, history>>

\* A removal of a file that a hand took first throws, its intent left behind.
Rename ==
    /\ stage = "renaming"
    /\ \/ /\ intent.kind = "set"
          /\ file' = temp /\ temp' = Absent
          /\ UNCHANGED trash
       \/ /\ intent.kind = "remove" /\ file # Absent
          /\ file' = Absent
          /\ trash' = trash \cup {[op |-> intent.op, inc |-> ledger.inc,
                                   rev |-> ledger.rev, req |-> intent.req]}
          /\ UNCHANGED temp
    /\ ran' = ran \cup {<<intent.op, intent.req>>}
    /\ stage' = "ledgering"
    /\ UNCHANGED <<ledger, intent, records, archive, doing, reading, outside, ops,
                   faults, told, shown, snapshots, hidden, given, done, misfit>>

RenameFails ==
    /\ stage = "renaming" /\ intent.kind = "remove" /\ file = Absent
    /\ LetGo
    /\ UNCHANGED <<disk, outside, ops, faults, history>>

WriteLedger ==
    /\ stage = "ledgering"
    /\ ledger' = intent.after
    /\ ran' = IF intent.kind = "observe" THEN ran \cup {<<intent.op, intent.req>>} ELSE ran
    /\ stage' = "deleting"
    /\ UNCHANGED <<file, intent, temp, trash, records, archive, doing, reading,
                   outside, ops, faults, told, shown, snapshots, hidden, given, done,
                   misfit>>

(* Reading the directory *)

\* What a reading shows of the id: an invalid file, and a valid one the ledger
\* does not hold yet, show no identity of their own.
Content ==
    LET shows(body, inc, rev) == [body |-> body, inc |-> inc, rev |-> rev] IN
    IF seen.body \in {NoDefinition, Invalid} THEN shows(seen.body, 0, 0)
    ELSE IF ledger.inc # 0 /\ ledger.file = seen THEN shows(seen.body, ledger.inc, ledger.rev)
    ELSE shows(Unadopted, 0, 0)

\* Everything was listed, read and adopted, as far as the holder can tell.
Complete == blind = {} /\ ~conflict

(* Recovery: recoveryDecision *)

Decide(next, outcome, write) ==
    /\ stage' = next
    /\ plan' = [op |-> intent.op, outcome |-> outcome, write |-> write]
    /\ UNCHANGED conflict

\* A record says what became of the operation.  It is read first: a receipt in
\* the ledger may be the settlement's own.
\* (Mutant: the ledger is read first.)
RecordedUnlessInLedger == records[intent.op] # "none" /\ ledger.last # intent.op

Recorded == records[intent.op] # "none"

\* The step left its receipt: in the file, in the trash, or it is only a ledger.
Receipt ==
    \/ intent.kind = "set" /\ file.op = intent.op
    \/ intent.kind = "remove" /\ \E t \in trash : t.op = intent.op
    \/ intent.kind = "observe"

\* The ledger a recorded outcome still owes.
Owed ==
    IF ledger.last = intent.op THEN "none"
    ELSE IF records[intent.op] = "not-committed" THEN "kept" ELSE "after"

DecideByRecord ==
    /\ Recorded
    /\ Decide("archiving", records[intent.op], Owed)

DecideByReceipt ==
    /\ ~Recorded
    /\ \/ ledger.last = intent.op /\ Decide("settling", "committed", "none")
       \/ ledger.last # intent.op /\ Receipt /\ Decide("settling", "committed", "after")

\* Never run, or run and put back by hand: unknown, and settled forward.
DecideForward ==
    /\ ~Recorded /\ ledger.last # intent.op /\ ~Receipt
    /\ file = intent.before
    /\ Decide("recording", "unknown", "after")

Undecided ==
    /\ ~Recorded /\ ledger.last # intent.op /\ ~Receipt
    /\ file # intent.before
    /\ stage' = "reading" /\ conflict' = TRUE
    /\ UNCHANGED plan

Recover ==
    /\ stage = "opening"
    /\ \/ intent.op = 0 /\ stage' = "adopting" /\ UNCHANGED <<plan, conflict>>
       \/ /\ intent.op # 0
          /\ DecideByRecord \/ DecideByReceipt \/ DecideForward \/ Undecided
    /\ UNCHANGED <<disk, doing, seen, blind, listed, outside, ops, faults, history>>

Record ==
    /\ stage = "recording"
    /\ records' = [records EXCEPT ![intent.op] = "unknown"]
    /\ stage' = "archiving"
    /\ UNCHANGED <<file, ledger, intent, temp, trash, archive, doing, reading, outside,
                   ops, faults, history>>

\* Whenever a record governs, whichever hold wrote it.
BodyIsPending == intent.kind = "set" /\ temp # Absent /\ intent.op \notin archive

Archive ==
    /\ stage = "archiving"
    /\ IF BodyIsPending THEN temp' = Absent /\ archive' = archive \cup {intent.op}
                        ELSE UNCHANGED <<temp, archive>>
    /\ stage' = "settling"
    /\ UNCHANGED <<file, ledger, intent, trash, records, doing, reading, outside, ops,
                   faults, history>>

\* Discarded, an operation's incarnation is still spent.
Spent == IF intent.after.next > ledger.next THEN intent.after.next ELSE ledger.next

Settle ==
    /\ stage = "settling"
    /\ ledger' = (CASE plan.write = "after" -> intent.after
                    [] plan.write = "kept" ->
                         NextLedger(intent.op, [ledger EXCEPT !.next = Spent])
                    [] OTHER -> ledger)
    /\ ran' = IF plan.write = "after" /\ intent.kind = "observe"
              THEN ran \cup {<<intent.op, intent.req>>} ELSE ran
    /\ stage' = "clearing"
    /\ UNCHANGED <<file, intent, temp, trash, records, archive, doing, reading,
                   outside, ops, faults, told, shown, snapshots, hidden, given, done,
                   misfit>>

Clear ==
    /\ stage = "clearing"
    /\ intent' = NoIntent
    /\ stage' = "adopting"
    /\ UNCHANGED <<file, ledger, temp, trash, records, archive, doing, reading, outside,
                   ops, faults, history>>

(* Adoption: adoptionPlan *)

\* The ledger is brought level with the directory, by an operation like any
\* other.  An invalid file leaves the ledger its last good identity.
AdoptVersion ==
    /\ stage = "adopting" /\ file.body \in Bodies
    /\ ledger.inc = 0 \/ ledger.file # file
    /\ BeginSet("adopt", file.body, file.req, NoRequest, file)

AdoptRemoval ==
    /\ stage = "adopting" /\ file = Absent /\ ledger.inc # 0
    /\ BeginObserve("adopt", Withdrawn)

AdoptNothing ==
    /\ stage = "adopting"
    /\ \/ file.body = Invalid
       \/ file = Absent /\ ledger.inc = 0
       \/ file.body \in Bodies /\ ledger.inc # 0 /\ ledger.file = file
    /\ stage' = "reading"
    /\ UNCHANGED <<disk, doing, reading, outside, ops, faults, history>>

\* A directory that cannot be listed says nothing of what it holds.
AdoptBlind ==
    /\ stage = "adopting" /\ faults < MaxFaults
    /\ faults' = faults + 1
    /\ blind' = blind \cup {"adoption"}
    /\ stage' = "reading"
    /\ UNCHANGED <<disk, doing, plan, seen, conflict, listed, outside, ops, history>>

Read ==
    /\ stage = "reading"
    /\ stage' = "ready" /\ doing' = "nobody"
    /\ listed' = file
    /\ \/ /\ seen' = file
          /\ UNCHANGED <<blind, faults>>
       \/ /\ faults < MaxFaults
          /\ faults' = faults + 1 /\ blind' = blind \cup {"reading"}
          /\ seen' = Absent
    /\ UNCHANGED <<disk, plan, conflict, outside, ops, history>>

(* The calls of an operator *)

\* list(): what is defined, and what became of an operation this hold settled.
\* Every call that refuses, and an incomplete snapshot, end the hold like it.
List ==
    /\ stage = "ready"
    /\ shown' = IF Content.inc = 0 THEN shown
                ELSE shown \cup {<<Content.inc, Content.rev, Content.body>>}
    /\ told' = IF plan.op = 0 THEN told ELSE told \cup {<<plan.op, plan.outcome>>}
    /\ LetGo
    /\ UNCHANGED <<disk, outside, ops, faults, ran, snapshots, hidden, given, done,
                   misfit>>

\* Unconditional, and over whatever is there.
SetLocal ==
    /\ stage = "ready" /\ ~conflict
    /\ \E body \in Bodies : BeginSet("local", body, NoRequest, NoRequest, file)

RemoveLocal ==
    /\ stage = "ready" /\ ~conflict
    /\ BeginRemove("local", NoRequest)

OutcomeOf(o) ==
    /\ stage = "ready"
    /\ \/ records[o] # "none" /\ told' = told \cup {<<o, records[o]>>}
       \/ /\ records[o] = "none" /\ ledger.last = o
          /\ told' = told \cup {<<o, "committed">>}
    /\ LetGo
    /\ UNCHANGED <<disk, outside, ops, faults, ran, shown, snapshots, hidden, given,
                   done, misfit>>

\* The choice is recorded first; recovery then runs again in the same hold.
SettleConflict ==
    /\ stage = "ready" /\ conflict
    /\ \E choice \in {"committed", "not-committed"} :
         records' = [records EXCEPT ![intent.op] = choice]
    /\ stage' = "opening" /\ conflict' = FALSE
    /\ seen' = Absent /\ listed' = Absent /\ blind' = {}
    /\ UNCHANGED <<file, ledger, intent, temp, trash, archive, doing, plan, outside, ops,
                   faults, history>>

(* The snapshot *)

Publish ==
    /\ snapshots' = snapshots \cup {<<ledger.revision, Content>>}
    /\ hidden' = (hidden \/ (Content.body = NoDefinition /\ listed # Absent))
    /\ LetGo

Unchanged(fresh) == ~fresh /\ Content = ledger.snap

\* A change, or the wish for a fresh revision, advances the ledger first.
TakeSnapshot(fresh) ==
    /\ stage = "ready" /\ Complete
    /\ \/ /\ Unchanged(fresh)
          /\ Publish
          /\ UNCHANGED <<disk, outside, ops, faults, told, ran, shown, given, done,
                         misfit>>
       \/ /\ ~Unchanged(fresh)
          /\ BeginObserve("snapshot", [ledger EXCEPT !.snap = Content])

(* Starting what is defined: admitStart, startRefusal *)

\* A launch built from a published definition is admitted when the reading still
\* shows that identity; the hold lasts until its process exists.
AdmitStart ==
    /\ stage = "ready" /\ Complete /\ Content.inc # 0
    /\ \E p \in snapshots : p[2].inc = Content.inc /\ p[2].rev = Content.rev
    /\ launch' = <<Content.inc, Content.rev>>
    /\ stage' = "producing"
    /\ UNCHANGED <<disk, doing, reading, asked, reported, handEdits, ops, faults, history>>

Produce ==
    /\ launch # NoLaunch
    /\ misfit' = (misfit \/ launch # <<ledger.inc, ledger.rev>>)
    /\ launch' = NoLaunch
    /\ UNCHANGED <<disk, hold, asked, reported, handEdits, ops, faults, told, ran, shown,
                   snapshots, hidden, given, done>>

Produced ==
    /\ stage = "producing" /\ launch = NoLaunch
    /\ LetGo
    /\ UNCHANGED <<disk, outside, ops, faults, history>>

(* Requests of the service: requestDecision, applyRequest, DefinitionSync *)

\* The service asks for what it last saw published; a creation is of an id it
\* holds no definition of.
Ask(r) ==
    /\ asked[r] = NotAsked
    /\ \E kind \in {"create", "update", "remove"}, body \in Bodies, p \in snapshots :
         /\ kind = "create" <=> p[2].inc = 0
         /\ asked' = [asked EXCEPT ![r] =
                        [kind |-> kind, inc |-> p[2].inc, rev |-> p[2].rev,
                         body |-> IF kind = "remove" THEN NoDefinition ELSE body]]
    /\ UNCHANGED <<disk, hold, reported, launch, ops, handEdits, faults, history>>

\* Claimed, and claimed again until a report has arrived.
Claimed(r) == asked[r] # NotAsked /\ r \notin reported /\ stage = "ready" /\ ~conflict

Defined == Content.inc # 0

\* The file says this request wrote it, or the trash that it removed it.
Recognised(r) ==
    \/ Defined /\ seen.req = r
    \/ asked[r].kind = "remove" /\ \E t \in trash : t.req = r

\* A creation needs no reading and no entry; the others the pair they name.
Admitted(r) ==
    IF asked[r].kind = "create"
    THEN seen = Absent /\ ledger.inc = 0
    ELSE Defined /\ Content.inc = asked[r].inc /\ Content.rev = asked[r].rev

\* The report arrives, or is lost and the request claimed again.
Report(r) == reported' \in {reported, reported \cup {r}}

Answer(r) ==
    /\ Claimed(r)
    /\ \/ Recognised(r) /\ done' = done \cup {r}
       \/ ~Recognised(r) /\ ~Admitted(r) /\ UNCHANGED done
    /\ Report(r)
    /\ LetGo
    /\ UNCHANGED <<disk, asked, launch, handEdits, ops, faults, told, ran, shown, snapshots,
                   hidden, given, misfit>>

Apply(r) ==
    /\ Claimed(r) /\ ~Recognised(r) /\ Admitted(r)
    /\ IF asked[r].kind = "remove" THEN BeginRemove(r, r)
       ELSE BeginSet(r, asked[r].body, r, r, file)

\* The intent is deleted, and the call that made the operation answers.
DeleteIntent ==
    /\ stage = "deleting"
    /\ intent' = NoIntent
    /\ \/ /\ doing = "adopt"
          /\ stage' = "reading"
          /\ UNCHANGED <<doing, reading, told, snapshots, hidden, done, reported>>
       \/ /\ doing = "local" /\ told' = told \cup {<<intent.op, "committed">>}
          /\ LetGo
          /\ UNCHANGED <<snapshots, hidden, done, reported>>
       \/ /\ doing = "snapshot" /\ Publish
          /\ UNCHANGED <<told, done, reported>>
       \/ /\ doing \in Requests /\ done' = done \cup {doing} /\ Report(doing)
          /\ LetGo
          /\ UNCHANGED <<told, snapshots, hidden>>
    /\ UNCHANGED <<file, ledger, temp, trash, records, archive, asked, launch, handEdits, ops,
                   faults, ran, shown, given, misfit>>

(* Somebody else's editor *)

\* At any moment: the file deleted, edited where it stands, its receipt with it,
\* written anew, or put back as it was before the pending operation.
Edits ==
    {Absent} \cup (IF intent.op = 0 THEN {} ELSE {intent.before})
    \cup {[v EXCEPT !.body = body] : v \in {Absent, file}, body \in Bodies \cup {Invalid}}

HandEdit ==
    /\ handEdits < MaxHandEdits /\ handEdits' = handEdits + 1
    /\ file' \in Edits \ {file}
    /\ UNCHANGED <<ledger, intent, temp, trash, records, archive, hold, asked, reported,
                   launch, ops, faults, history>>

-----------------------------------------------------------------------------
Opening == Recover \/ Record \/ Archive \/ Settle \/ Clear

Adopting == AdoptVersion \/ AdoptRemoval \/ AdoptNothing \/ AdoptBlind \/ Read

Operating == WriteTemp \/ Rename \/ RenameFails \/ WriteLedger \/ DeleteIntent

Calling ==
    \/ List \/ SetLocal \/ RemoveLocal \/ SettleConflict
    \/ AdmitStart \/ Produce \/ Produced
    \/ \E o \in Operations : OutcomeOf(o)
    \/ \E fresh \in BOOLEAN : TakeSnapshot(fresh)
    \/ \E r \in Requests : Answer(r) \/ Apply(r)

Next ==
    \/ TakeLock \/ Opening \/ Adopting \/ Operating \/ Calling \/ Fault
    \/ HandEdit \/ \E r \in Requests : Ask(r)

Spec == Init /\ [][Next]_vars

-----------------------------------------------------------------------------
(* Properties *)

\* An incarnation and revision that anybody was shown names one body for ever,
\* through hand edits, crashes, discarded operations and re-creations, and an
\* incarnation that was handed out begins one lifetime, though its operation be
\* discarded (the compare-and-set of set, remove and applyRequest rests on it).
PairNamesOneBody ==
    /\ \A a, b \in given : a[1] = b[1] => a = b
    /\ LET names == shown \cup {<<p[2].inc, p[2].rev, p[2].body>> :
                                    p \in {q \in snapshots : q[2].inc # 0}} IN
       \A a, b \in names : a[1] = b[1] /\ a[2] = b[2] => a = b

\* The collection revision of a complete snapshot names one content, for the
\* service may ignore a revision it has seen; and a complete snapshot never says
\* that nothing is there of a file it did not look at, for the service would
\* withdraw the definition (snapshot, DefinitionSync.push).
SnapshotsAreTrue ==
    /\ \A a, b \in snapshots : a[1] = b[1] => a = b
    /\ ~hidden

\* Everybody who asks what became of an operation is told the same, now or
\* after any number of crashes, and "committed" only of one whose step ran or
\* which the operator settled so (recoveryDecision, outcomeOf).
OutcomesAgree ==
    /\ \A a, b \in told : a[1] = b[1] => a = b
    /\ \A a \in told : a[2] = "committed" =>
         records[a[1]] = "committed" \/ \E w \in ran : w[1] = a[1]

\* A body that was written is on file, pending or archived; none is left behind
\* under a name nobody reads (recovery, "THE BODY IS ARCHIVED").
NoBodyIsLeftBehind == intent.op = 0 => temp = Absent

\* The operations of a request that ran and were not settled otherwise.
Applications(r) == {o \in Operations : <<o, r>> \in ran /\ records[o] # "not-committed"}

\* An update or a removal claimed any number of times, across lost reports and
\* crashes, runs at most once, and a request reported done was done.
RequestRunsOnce ==
    /\ \A r \in Requests :
         asked[r].kind # "create" => Cardinality(Applications(r)) <= 1
    /\ \A r \in done : \E o \in Operations : <<o, r>> \in ran

\* No worker is started from an identity the store has replaced or withdrawn
\* before its process exists (admitStart, "N1").
StartsRunTheDefinition == ~misfit

\* What the store shows of itself is so: a revision names one body, a snapshot
\* says everything there is, and a worker is started from what is defined.
StoreIsTrue == TypeOK /\ PairNamesOneBody /\ SnapshotsAreTrue /\ StartsRunTheDefinition

\* An operation has one outcome, runs once, and leaves no body behind, whatever
\* crashes and edits come between its steps.
RequestsAreSettled == OutcomesAgree /\ NoBodyIsLeftBehind /\ RequestRunsOnce

\* "a report that is lost is redelivered by the next claim, and applying it
\* again is recognised and writes nothing" (definition-sync.mjs), said of every
\* request, a creation included.
RedeliveryWritesNothing ==
    \A r \in Requests : Cardinality(Applications(r)) <= 1
=============================================================================
