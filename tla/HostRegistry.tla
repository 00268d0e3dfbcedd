---------------------------- MODULE HostRegistry ----------------------------
(***************************************************************************)
(* How the host follows its service registry: the plugin it runs for a     *)
(* service (service-plugins.mjs, plugin-bootstrap.mjs), which detaches,    *)
(* resumes or is replaced as the registry's entry changes, and the         *)
(* advertisement it sends the service named there (host-advertiser.mjs,    *)
(* advertise.mjs), whose acceptance its health reports.                    *)
(*                                                                         *)
(* One service name, whose entry moves between endpoints.  A plugin is     *)
(* what PluginLife promises: it is kept while it holds workers.            *)
(***************************************************************************)
EXTENDS Naturals, FiniteSets

CONSTANTS
    Endpoints,   \* where the service may be
    MaxEdits,    \* bound: changes of the registry
    StaleBeats,  \* MISSED_BEATS_BEFORE_STALE: beats an acceptance outlives
    MaxBeats     \* bound: advertisements sent

StaleIsPositive == StaleBeats \in Nat \ {0}

NoEndpoint == "none"

VARIABLES
    entry,     \* the registry file, and whether its plugin starts when asked
    edits,
    plugins,   \* ServicePlugins: the plugin objects registered
    follow,    \* followRegistry in progress: where it is, and the entry it read
    target,    \* HostAdvertiser: whom the last beat went to
    post,      \* the advertisement in flight
    beats,
    age,       \* beats since each endpoint's acceptance was recorded; Never
    answered   \* history: the last conclusive answer of each endpoint

registryVars == <<entry, edits, plugins, follow, target, post, beats, age, answered>>

advertiseVars == <<target, post, beats, age, answered>>

Idle == [at |-> "idle"]
Never == StaleBeats + 1

Plugin(e) == [endpoint |-> e, phase |-> "running", workers |-> 0]

Named == IF entry.readable THEN entry.endpoint ELSE NoEndpoint

RegistryInit ==
    /\ \E e \in Endpoints \cup {NoEndpoint} :
         \E s \in BOOLEAN :
           entry = [readable |-> TRUE, endpoint |-> e, advertise |-> TRUE, starts |-> s]
    /\ edits = 0
    \* startServicePlugins: a plugin that fails to start stays registered.
    /\ plugins = IF entry.endpoint = NoEndpoint THEN {}
                 ELSE {[endpoint |-> entry.endpoint, workers |-> 0,
                        phase |-> IF entry.starts THEN "running" ELSE "failed"]}
    /\ follow = Idle
    /\ target = NoEndpoint /\ post = Idle /\ beats = 0
    /\ age = [e \in Endpoints |-> Never]
    /\ answered = [e \in Endpoints |-> "none"]

\* The operator edits the registry, it cannot be read for a while, or a plugin
\* that would not start would now.
Edit(e) ==
    /\ edits < MaxEdits
    /\ \/ e # entry.endpoint /\ entry' = [entry EXCEPT !.endpoint = e]
       \/ entry' = [entry EXCEPT !.readable = ~@]
       \/ entry' = [entry EXCEPT !.advertise = ~@]
       \/ entry' = [entry EXCEPT !.starts = ~@]
    /\ edits' = edits + 1
    /\ UNCHANGED <<plugins, follow, advertiseVars>>

(***************************************************************************)
(* Following: planPluginChanges, then resume, detach and add.              *)
(***************************************************************************)
\* One plugin object steps: its phase, or its workers, as PluginLife has it.
Becomes(p, q) == plugins' = (plugins \ {p}) \cup {q}

WorkerComes(p) ==
    /\ p.phase \in {"running", "leaving"} /\ p.workers = 0
    /\ Becomes(p, [p EXCEPT !.workers = 1])
    /\ UNCHANGED <<entry, edits, follow, advertiseVars>>

WorkerGoes(p) ==
    /\ p.workers > 0
    /\ Becomes(p, [p EXCEPT !.workers = 0])
    /\ UNCHANGED <<entry, edits, follow, advertiseVars>>

\* (Mutant: a plugin whose change was undone is left held.)
FollowWithoutResume ==
    IF follow # Idle THEN UNCHANGED <<plugins, follow>>
    ELSE follow' = [at |-> "detaching", wants |-> entry.endpoint] /\ UNCHANGED plugins

\* A plugin whose entry is the one named is left, and resumed if it was held;
\* any other of this name is to detach.  A second reading waits for this one.
BeginFollow ==
    IF follow # Idle THEN UNCHANGED <<plugins, follow>>
    ELSE /\ follow' = [at |-> "detaching", wants |-> entry.endpoint]
         /\ plugins' = {IF p.endpoint = entry.endpoint /\ p.phase = "held"
                        THEN [p EXCEPT !.phase = "running"] ELSE p : p \in plugins}

\* A plugin object that is asked to detach settles only when it answers.
AskDetach(p) ==
    /\ follow.at = "detaching"
    /\ p.endpoint # follow.wants /\ p.phase # "leaving"
    /\ Becomes(p, [p EXCEPT !.phase = "leaving"])
    /\ UNCHANGED <<entry, edits, follow, advertiseVars>>

\* ServicePlugins.detach: it leaves the list only once it says it has let go.
DetachAnswered(p) ==
    /\ p.phase = "leaving" /\ follow.at = "detaching"
    /\ IF p.workers = 0
       THEN plugins' = plugins \ {p}
       ELSE Becomes(p, [p EXCEPT !.phase = "held"])
    /\ follow' = [follow EXCEPT !.at = "adding"]
    /\ UNCHANGED <<entry, edits, advertiseVars>>

NothingToDetach ==
    /\ follow.at = "detaching"
    /\ \A p \in plugins : p.endpoint = follow.wants
    /\ follow' = [follow EXCEPT !.at = "adding"]
    /\ UNCHANGED <<entry, edits, plugins, advertiseVars>>

\* taken, and register's own check: no plugin of the name is left.
NameIsFree == plugins = {}

\* ServicePlugins.add: a plugin that does not start is unregistered again.
Add ==
    /\ follow.at = "adding"
    /\ IF NameIsFree /\ follow.wants # NoEndpoint
       THEN plugins' = plugins \cup (IF entry.starts THEN {Plugin(follow.wants)} ELSE {})
       ELSE UNCHANGED plugins
    /\ follow' = Idle
    /\ UNCHANGED <<entry, edits, advertiseVars>>

(***************************************************************************)
(* The advertisement.                                                      *)
(***************************************************************************)
\* One beat: the registry is read and followed, and its target is sent to.  One
\* advertisement is under way here; HeartBeats has them overlap.
BeatBegins ==
    /\ post = Idle /\ beats < MaxBeats
    /\ beats' = beats + 1
    /\ age' = [e \in Endpoints |-> IF age[e] < Never THEN age[e] + 1 ELSE Never]
    /\ IF entry.readable
       THEN /\ BeginFollow
            /\ target' = IF entry.advertise THEN entry.endpoint ELSE NoEndpoint
       ELSE /\ UNCHANGED <<plugins, follow>>
            /\ target' = NoEndpoint
    /\ post' = IF target' = NoEndpoint THEN Idle ELSE [at |-> "sent", e |-> target']
    /\ UNCHANGED <<entry, edits, answered>>

\* The registry goes on being read when the bound on advertisements is reached.
FollowOnly ==
    /\ post = Idle /\ beats = MaxBeats /\ entry.readable
    /\ BeginFollow
    /\ UNCHANGED <<entry, edits, advertiseVars>>

\* acceptanceKey, revokesAcceptance: filed under the name and the endpoint; a
\* credential refused takes it back, an outage lets it age.
Accepts(e, answer) ==
    age' = CASE answer = "ok" -> [age EXCEPT ![e] = 0]
             [] answer = "refused" -> [age EXCEPT ![e] = Never]
             [] OTHER -> age

Answered(answer) ==
    /\ post # Idle
    /\ Accepts(post.e, answer)
    /\ answered' = IF answer = "down" THEN answered
                   ELSE [answered EXCEPT ![post.e] = answer]
    /\ post' = Idle
    /\ UNCHANGED <<entry, edits, plugins, follow, target, beats>>

\* advertisementHealth: the targets of the last beat, each fresh or not.
Fresh(e) == target = e /\ e # NoEndpoint /\ age[e] <= StaleBeats

RegistryNext ==
    \/ \E e \in Endpoints \cup {NoEndpoint} : Edit(e)
    \/ \E p \in plugins :
         WorkerComes(p) \/ WorkerGoes(p) \/ AskDetach(p) \/ DetachAnswered(p)
    \/ NothingToDetach \/ Add
    \/ BeatBegins \/ FollowOnly
    \/ \E answer \in {"ok", "refused", "down"} : Answered(answer)

\* The interval fires, requests time out, and a detach's long-polls come back.
RegistryFairness ==
    /\ WF_registryVars(BeatBegins \/ FollowOnly)
    /\ WF_registryVars(\E answer \in {"ok", "refused", "down"} : Answered(answer))
    /\ WF_registryVars(NothingToDetach \/ (\E p \in plugins : AskDetach(p) \/ DetachAnswered(p)))
    /\ WF_registryVars(Add)

RegistrySpec == RegistryInit /\ [][RegistryNext]_registryVars /\ RegistryFairness

(***************************************************************************)
(* Properties.                                                             *)
(***************************************************************************)
\* A service is never served by two plugins at once, and none with a worker is
\* dropped (plugin-bootstrap.mjs: after an endpoint change the new plugin waits
\* until the old one has let go).
OnePluginServes == Cardinality(plugins) <= 1

\* What health calls fresh is an endpoint that accepted this host and has not
\* refused its credential since: not the endpoint the service had before, and
\* not one whose registry entry went unread.
FreshWasAccepted == \A e \in Endpoints : Fresh(e) => answered[e] = "ok"

RegistryIsSafe == OnePluginServes /\ FreshWasAccepted

\* A registry left alone is followed in the end: once plugins start when asked
\* and no worker holds one, the endpoint named is the one served, and nothing
\* is when none is named.  (A plugin that failed to start at boot stays
\* registered, so while its entry stands it is not tried again.)
Served ==
    IF entry.endpoint = NoEndpoint THEN plugins = {}
    ELSE /\ plugins # {}
         /\ \A p \in plugins : p.endpoint = entry.endpoint /\ p.phase \in {"running", "failed"}
RegistryIsFollowed ==
    <>[](entry.readable /\ entry.starts /\ \A p \in plugins : p.workers = 0) => <>[]Served

=============================================================================
