----------------------------- MODULE HeartBeats -----------------------------
(***************************************************************************)
(* Telling every registered service what this host can do                  *)
(* (lib/host-advertiser.mjs over lib/advertise.mjs), and what /health says *)
(* of it, on which each service's own bridge stands down.  Several         *)
(* services, whose entries name where and whether they are told, and two   *)
(* of which may share an endpoint with different credentials.              *)
(***************************************************************************)
EXTENDS Naturals, FiniteSets

CONSTANTS BeatNames,     \* registered names
          BeatUrls,      \* endpoints
          BeatStale,     \* MISSED_BEATS_BEFORE_STALE
          BeatRewalk,    \* intervals between two walks for installed harnesses
          MaxTogether,   \* beats in flight at once
          MaxRewrites,   \* changes of the registry
          MaxTurnarounds \* changes of what a service answers, or of what is installed

BeatAssumption == MaxTogether \in Nat /\ BeatStale \in Nat /\ BeatRewalk \in Nat

\* A beat begins every interval, however many are still telling their targets.
BeatSlots == 1..MaxTogether

VARIABLES
  entries,    \* the registry
  readable,   \* whether it can be read
  answers,    \* what each service says to its own credential
  harnesses,  \* what is installed
  heard,      \* each accepted target's intervals since
  attempts,   \* each target's last outcome
  told,       \* the targets of the last beat
  detected,   \* what was installed when it was last looked at, and the intervals since
  inFlight,   \* the beat in each slot: the targets still to be told, and what the others answered
  rewrites, turnarounds,
  said,       \* (history) each target's last conclusive answer
  heldBy,     \* (history) where that answer is: in a beat, kept, or lost under an older one
  installedAt \* (history) intervals since each set of harnesses was the installed one

beatVars == <<entries, readable, answers, harnesses, heard, attempts, told, detected, inFlight, rewrites, turnarounds, said, heldBy, installedAt>>

Entry == [listed : BOOLEAN, url : BeatUrls, advertise : {"absent", "false", "invalid"}, path : {"plugin", "declared", "invalid", "none"}]

\* A target is the service and the endpoint together.
BeatTargets == BeatNames \X BeatUrls
AcceptanceKey(t) == {t}

LongAgo == BeatStale + 1
NotYet == BeatRewalk

\* Where a last answer can be, but for the slots.
Kept == 0
Overtaken == MaxTogether + 1

NoBeat == [left |-> {}, got |-> [t \in {} |-> "none"], sent |-> 0, newest |-> FALSE]
Free(k) == inFlight[k] = NoBeat

BeatsInit ==
  /\ entries \in [BeatNames -> {e \in Entry : e.listed /\ e.advertise = "absent" /\ e.path = "plugin"}]
  /\ readable = TRUE /\ answers = [n \in BeatNames |-> "accepts"] /\ harnesses = 1
  /\ heard = [t \in BeatTargets |-> LongAgo]
  /\ attempts = [t \in BeatTargets |-> "none"]
  /\ told = {} /\ detected = [what |-> 0, age |-> NotYet] /\ inFlight = [k \in BeatSlots |-> NoBeat]
  /\ rewrites = 0 /\ turnarounds = 0
  /\ said = [t \in BeatTargets |-> "none"] /\ heldBy = [t \in BeatTargets |-> Kept]
  /\ installedAt = [h \in 1..2 |-> IF h = 1 THEN 0 ELSE NotYet + 1]

----------------------------------------------------------------------------
(* What surrounds it. *)

\* The operator rewrites one field of an entry, or the file cannot be read for
\* a while.
Rewrites ==
  /\ rewrites < MaxRewrites /\ rewrites' = rewrites + 1
  /\ \/ /\ \E n \in BeatNames, e \in Entry :
             /\ entries' \in {[entries EXCEPT ![n].listed = e.listed], [entries EXCEPT ![n].url = e.url],
                              [entries EXCEPT ![n].advertise = e.advertise], [entries EXCEPT ![n].path = e.path]}
        /\ UNCHANGED readable
     \/ readable' = ~ readable /\ UNCHANGED entries
  /\ UNCHANGED <<answers, harnesses, heard, attempts, told, detected, inFlight, turnarounds, said, heldBy, installedAt>>

\* A key is rotated, a service goes down or comes back, a harness is installed
\* or removed.
Turns ==
  /\ turnarounds < MaxTurnarounds /\ turnarounds' = turnarounds + 1
  /\ \/ \E n \in BeatNames, a \in {"accepts", "refuses", "forbids", "down"} :
          answers' = [answers EXCEPT ![n] = a] /\ UNCHANGED <<harnesses, installedAt>>
     \/ /\ harnesses' = 3 - harnesses
        /\ installedAt' = [installedAt EXCEPT ![harnesses'] = 0]
        /\ UNCHANGED answers
  /\ UNCHANGED <<entries, readable, heard, attempts, told, detected, inFlight, rewrites, said, heldBy>>

----------------------------------------------------------------------------
(* Whom to tell. *)

\* Opted out only by the boolean; any other value is reported and advertises.
\* (Mutant: any value at all opts out.)
OptedOutByAny(e) == e.advertise # "absent"
OptedOut(e) == e.advertise = "false"

\* The entry's own path, or else its plugin's; a declaration that is no path
\* is not replaced by the plugin's.
HasPath(e) == e.path \in {"plugin", "declared"}

TargetsNow == IF ~ readable THEN {}
           ELSE {<<n, entries[n].url>> : n \in {m \in BeatNames :
                   entries[m].listed /\ ~ OptedOut(entries[m]) /\ HasPath(entries[m])}}

----------------------------------------------------------------------------
(* A beat. *)

Older(age, limit) == IF age < limit THEN age + 1 ELSE limit

\* The walk is due again.
WalkIsDue(age) == age >= BeatRewalk

\* What a walk finds, each harness available only where its path was found.
Walked == [what |-> harnesses, age |-> 0]

\* The body: of this host's facts only what is installed changes here.
BodyOf(found) == found.what

\* Every interval, whether the last beat is over or not: the registry is read,
\* the harnesses walked if that is due, and the targets told one after another.
Beats ==
  /\ told' = TargetsNow
  /\ heard' = [t \in BeatTargets |-> Older(heard[t], LongAgo)]
  /\ installedAt' = [h \in 1..2 |-> IF h = harnesses THEN 0 ELSE Older(installedAt[h], NotYet + 1)]
  /\ LET age == Older(detected.age, BeatRewalk) IN
     detected' = IF TargetsNow # {} /\ WalkIsDue(age) THEN Walked
                                                   ELSE [detected EXCEPT !.age = age]
  /\ \E k \in BeatSlots :
       /\ Free(k) /\ \A j \in BeatSlots : j < k => ~ Free(j)
       /\ inFlight' = [j \in BeatSlots |->
            IF j = k /\ TargetsNow # {}
              THEN [left |-> TargetsNow, got |-> [t \in {} |-> "none"], sent |-> BodyOf(detected'), newest |-> TRUE]
              ELSE [inFlight[j] EXCEPT !.newest = FALSE]]
  /\ UNCHANGED <<entries, readable, answers, harnesses, attempts, rewrites, turnarounds, said, heldBy>>

\* One target is told, with its own credential; nothing that goes wrong with
\* it keeps the others from being told.
Tells(k) ==
  /\ \E t \in inFlight[k].left :
       LET outcome == answers[t[1]] IN
       /\ inFlight' = [inFlight EXCEPT
            ![k].left = @ \ {t},
            ![k].got = [u \in DOMAIN inFlight[k].got \cup {t} |-> IF u = t THEN outcome ELSE inFlight[k].got[u]]]
       /\ IF outcome = "down" THEN UNCHANGED <<said, heldBy>>
          ELSE said' = [said EXCEPT ![t] = outcome] /\ heldBy' = [heldBy EXCEPT ![t] = k]
  /\ UNCHANGED <<entries, readable, answers, harnesses, heard, attempts, told, detected, rewrites, turnarounds, installedAt>>

\* Only the service's word against the credential (401), or against this host
\* (403), revokes at once.
Revokes(outcome) == outcome \in {"refuses", "forbids"}

\* Where the last answer is, once the beat in k was kept: an older one kept
\* over it hides it.
HeldAfter(t, k) ==
  IF t \notin DOMAIN inFlight[k].got \/ inFlight[k].got[t] = "down" THEN heldBy[t]
  ELSE IF heldBy[t] = k THEN Kept
  ELSE IF heldBy[t] = Kept THEN Overtaken ELSE heldBy[t]

\* When all were told, what each answered is kept, whatever a beat begun later
\* has kept by now.
BeatEnds(k) ==
  /\ ~ Free(k) /\ inFlight[k].left = {}
  /\ LET got == inFlight[k].got
         from(t) == {u \in DOMAIN got : t \in AcceptanceKey(u)}
         accepted(t) == \E u \in from(t) : got[u] = "accepts"
         revoked(t) == \E u \in from(t) : Revokes(got[u])
     IN
     /\ inFlight' = [inFlight EXCEPT ![k] = NoBeat]
     /\ attempts' = [t \in BeatTargets |-> IF t \in DOMAIN got THEN got[t] ELSE attempts[t]]
     /\ heard' = [t \in BeatTargets |-> IF accepted(t) THEN 0 ELSE IF revoked(t) THEN LongAgo ELSE heard[t]]
     /\ heldBy' = [t \in BeatTargets |-> HeldAfter(t, k)]
  /\ UNCHANGED <<entries, readable, answers, harnesses, told, detected, rewrites, turnarounds, said, installedAt>>

BeatsNext == Rewrites \/ Turns \/ Beats \/ \E k \in BeatSlots : Tells(k) \/ BeatEnds(k)

\* The interval comes round, and every request is answered or times out.
BeatsFair == WF_beatVars(Beats) /\ \A k \in BeatSlots : WF_beatVars(Tells(k)) /\ WF_beatVars(BeatEnds(k))

BeatsSpec == BeatsInit /\ [][BeatsNext]_beatVars /\ BeatsFair

----------------------------------------------------------------------------
(* /health, and what is said of it. *)

\* Told within the last few intervals, at the endpoint it has now.
Fresh(t) == t \in told /\ heard[t] <= BeatStale

\* The row a service's bridge reads, by its name.
AdvertisingTo(n) == \E t \in told : t[1] = n /\ Fresh(t)

\* The last outcome of each target there is now, and none where it was not
\* told yet.
AttemptsByName == {<<t, attempts[t]>> : t \in told}

\* What `aify-env doctor` makes of those: a credential is blamed only where the
\* service said so, and a target that is merely not heard is no verdict.
CauseOf(outcome) == IF outcome = "refuses" THEN "refused-credential" ELSE outcome

DoctorSays(outcomes) ==
  LET causes == {CauseOf(r[2]) : r \in outcomes} IN
  CASE "refused-credential" \in causes -> "failed"
    [] causes \subseteq {"accepts"} -> "passed"
    [] OTHER -> "unanswered"

\* The last conclusive answer of a target is what is kept of it: no beat still
\* holds it, and no answer older than it was kept after it.
IsKept(t) == heldBy[t] = Kept

\* Where the bridge of a service stands down, this host is described: the
\* service's last conclusive answer, at the endpoint it is told at now, was an
\* acceptance of its own credential; but for an answer under way, and for an
\* older beat that ended behind a newer one.
RefusedIsNotFresh ==
  \A t \in BeatTargets : Fresh(t) /\ IsKept(t) => said[t] = "accepts"

\* The last outcome of each target is what it said last, with the same two
\* exceptions, so that an outage is not called a refusal: a refusal noted was
\* said, and nothing was accepted since.
AttemptsAreLast ==
  \A t \in BeatTargets :
    IsKept(t) /\ attempts[t] \in {"accepts", "refuses", "forbids"} => said[t] = attempts[t]

\* The doctor's verdict: "failed" only where a service now told has refused the
\* credential, "passed" only where every one told has accepted, each by its
\* last word where that is what is kept.
DoctorIsFair ==
  /\ DoctorSays(AttemptsByName) = "failed" => \E t \in told : IsKept(t) => said[t] = "refuses"
  /\ DoctorSays(AttemptsByName) = "passed" => \A t \in told : IsKept(t) => said[t] = "accepts"

\* What the beat of this interval says is installed was installed within the
\* walk's interval.
ToldIsRecent == \A k \in BeatSlots : inFlight[k].newest => installedAt[inFlight[k].sent] <= BeatRewalk

HealthIsHonest == RefusedIsNotFresh /\ AttemptsAreLast /\ DoctorIsFair /\ ToldIsRecent

\* A service is to be told unless the operator said no, in so many words, or
\* named no way to it.
ToBeTold(n) ==
  readable /\ entries[n].listed /\ entries[n].advertise \in {"absent", "invalid"} /\ HasPath(entries[n])

\* When the registry and the answers have come to rest, exactly the services
\* that are to be told and accept it have a bridge standing down, whatever
\* overtook what before, and though beats go on overlapping: no more of them
\* than may be missed.
HealthCatchesUp ==
  MaxTogether <= BeatStale =>
    <>[](\A n \in BeatNames : AdvertisingTo(n) <=> ToBeTold(n) /\ answers[n] = "accepts")
=============================================================================
