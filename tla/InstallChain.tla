---------------------------- MODULE InstallChain ----------------------------
(***************************************************************************)
(* `aify-env install` (lib/install-chain.mjs and its ports in              *)
(* lib/install-chain-host.mjs): the keys are looked for, the services'     *)
(* installers acquired, every service connected, the launchers rendered    *)
(* and the clients' assets applied, and the first failure stops the rest.  *)
(*                                                                         *)
(* A service may serve another specification each time it is read: once    *)
(* to ask for approval, once to acquire, once by aify-wrapper's connect    *)
(* and once to find the assets entry.  Other programs write the registry   *)
(* and the package directories meanwhile.                                  *)
(*                                                                         *)
(* A served artifact is its kind, its repository and its revision; its     *)
(* digest is all of it, and a package's directory is its revision alone.   *)
(***************************************************************************)
EXTENDS Naturals, Sequences, FiniteSets, SequencesExt

CONSTANTS Connects,     \* the services of --connect, in order
          Selected,     \* the clients of --client, in order
          Artifacts,    \* what may be served: [kind, repo, revision]
          Plans,        \* the command lines: [noPrompt, approve, checkouts, supplied]
          MaxServings,  \* how often a service changes what it serves
          MaxWrites,    \* how often others write the registry or a directory
          MaxHitches    \* reads and commands that fail

\* A service that is connected twice is refused, and so is a run without
\* services or clients (parseChainArgs, #selectedClients).
ASSUME ChainAssumption ==
  /\ Connects \in Seq(STRING) /\ Connects # <<>>
  /\ \A i, j \in DOMAIN Connects : Connects[i] = Connects[j] => i = j
  /\ Selected \in Seq(STRING) /\ Selected # <<>>

Services == ToSet(Connects)
Revisions == {a.revision : a \in Artifacts}
NoArtifact == [kind |-> "none", repo |-> "none", revision |-> "none"]
NoInstaller == [from |-> "none", artifact |-> NoArtifact]

VARIABLES
  plan,       \* the command line: approvals, checkouts, keys, --no-prompt
  serving,    \* what each service serves now
  approve,    \* digests approved for this run
  phase, at, client,  \* the phase, the service and the client it has come to
  asked,      \* the artifact on the terminal
  installers, \* each service's installer as this run resolved it
  placed,     \* package directories on disk: revision -> what is in it
  published,  \* services with a key this host can read
  registry,   \* the registry's bytes, numbered
  before,     \* the registry as assets found it
  problems, pending,
  budget,     \* servings, writes and hitches so far
  executed,   \* (history) every installer run: phase, service, what it was
  joined,     \* (history) services whose connect answered
  connected,  \* (history) what this run's connects recorded installing
  assetsWrote \* (history) an installer wrote the registry in the assets phase

chainVars == <<plan, serving, approve, phase, at, client, asked, installers, placed, published, registry, before, problems,
               pending, budget, executed, joined, connected, assetsWrote>>

ChainInit ==
  /\ plan \in Plans
  /\ serving \in [Services -> Artifacts \cup {NoArtifact}]
  /\ approve = plan.approve
  /\ phase = "keys" /\ at = 1 /\ client = 1
  /\ asked = NoArtifact
  /\ installers = [s \in Services |-> IF s \in plan.checkouts THEN [from |-> "operator", artifact |-> NoArtifact] ELSE NoInstaller]
  /\ placed = [v \in Revisions |-> NoArtifact]
  /\ published \in {{}, Services}
  /\ registry = 0 /\ before = 0
  /\ problems = FALSE /\ pending = {}
  /\ budget = [servings |-> 0, writes |-> 0, hitches |-> 0]
  /\ executed = {} /\ joined = {} /\ connected = [s \in Services |-> {}] /\ assetsWrote = FALSE

Service == Connects[at]
Url == serving[Service]

\* The chain's own variables, for the steps of others.
chainSteps == <<plan, approve, phase, at, client, asked, installers, before, problems, pending, executed, joined, connected>>

----------------------------------------------------------------------------
(* What others do meanwhile. *)

\* A service begins to serve another specification.
ServesAnew ==
  /\ phase # "done" /\ budget.servings < MaxServings
  /\ \E s \in Services, a \in Artifacts \cup {NoArtifact} : serving' = [serving EXCEPT ![s] = a]
  /\ budget' = [budget EXCEPT !.servings = @ + 1]
  /\ UNCHANGED <<chainSteps, placed, published, registry, assetsWrote>>

\* Another connect of this host writes the registry, or installs a package.
OthersWrite ==
  /\ phase # "done" /\ budget.writes < MaxWrites
  /\ budget' = [budget EXCEPT !.writes = @ + 1]
  /\ \/ registry' = registry + 1 /\ UNCHANGED placed
     \/ \E a \in Artifacts : a.kind = "package" /\ placed' = [placed EXCEPT ![a.revision] = a] /\ UNCHANGED registry
  /\ UNCHANGED <<chainSteps, serving, published, assetsWrote>>

----------------------------------------------------------------------------
(* The chain. *)

MayHitch == budget.hitches < MaxHitches
Hitch == MayHitch /\ budget' = [budget EXCEPT !.hitches = @ + 1]

\* A problem ends the phase, and the phases after it do not begin.
Stops == problems' = TRUE /\ phase' = "done"

\* The next service of this phase, or the first of the next.
NextService(following) ==
  IF at < Len(Connects) THEN at' = at + 1 /\ UNCHANGED phase
  ELSE at' = 1 /\ phase' = following

\* A connect needs its key, supplied or published: looked for before anything
\* runs.  A store that cannot be read holds none.
HasKey(s) == s \in plan.supplied \cup published

KeysPresent ==
  /\ phase = "keys"
  /\ UNCHANGED <<plan, serving, approve, at, client, asked, installers, placed, published, registry, before, pending, executed, joined, connected, assetsWrote>>
  /\ \/ /\ \A s \in Services : HasKey(s)
        /\ phase' = "packages"
        /\ UNCHANGED <<problems, budget>>
     \/ (\E s \in Services : ~ HasKey(s)) /\ Stops /\ UNCHANGED budget
     \/ ~ (Services \subseteq plan.supplied) /\ Hitch /\ Stops

\* aify-wrapper is installed if it is missing, and must offer what the chain
\* calls.
EnsuresPackages ==
  /\ phase = "packages"
  /\ \/ phase' = (IF plan.noPrompt THEN "acquire" ELSE "ask") /\ UNCHANGED <<problems, budget>>
     \/ Hitch /\ Stops
  /\ UNCHANGED <<plan, serving, approve, at, client, asked, installers, placed, published, registry, before, pending, executed, joined, connected, assetsWrote>>

\* The artifact nothing approves yet, as this service serves it now; one that
\* cannot be read is left to the phases that refuse it.
AskNext ==
  /\ phase = "ask" /\ asked = NoArtifact
  /\ UNCHANGED <<plan, serving, approve, client, installers, placed, published, registry, before, problems, pending, executed, joined, connected, assetsWrote>>
  /\ \/ /\ Url # NoArtifact /\ Url \notin approve
        /\ asked' = Url /\ UNCHANGED <<at, phase, budget>>
     \/ /\ Url = NoArtifact \/ Url \in approve
        /\ NextService("acquire") /\ UNCHANGED <<asked, budget>>
     \/ Hitch /\ NextService("acquire") /\ UNCHANGED asked

\* Yes approves exactly what was shown, no stops the run, and no terminal
\* leaves the rest to be refused.
AnswerAsked ==
  /\ phase = "ask" /\ asked # NoArtifact
  /\ asked' = NoArtifact
  /\ UNCHANGED <<plan, serving, client, installers, placed, published, registry, before, pending, executed, joined, connected, assetsWrote, budget>>
  /\ \/ approve' = approve \cup {asked} /\ UNCHANGED <<at, phase, problems>>
     \/ Stops /\ UNCHANGED <<approve, at>>
     \/ phase' = "acquire" /\ at' = 1 /\ UNCHANGED <<approve, problems>>

\* What runs, with its exit.  An installer may write the registry.
Runs(how, installer) ==
  /\ executed' = executed \cup {[phase |-> how, service |-> Service, installer |-> installer]}
  /\ \/ UNCHANGED <<registry, assetsWrote>>
     \/ budget.writes < MaxWrites /\ registry' = registry + 1 /\ assetsWrote' = (assetsWrote \/ how = "assets")

\* The checkout of an approved artifact, read back: what is there must be the
\* revision that was approved.
CheckedOut(a, head) == a.kind = "file-set" /\ a \in approve /\ head = a

Acquire ==
  /\ phase = "acquire"
  /\ UNCHANGED <<plan, serving, approve, client, asked, placed, published, before, pending, joined, connected>>
  /\ \/ \* the operator's checkout, or an approved one, runs its first mode
        \E installer \in {installers[Service]} \cup {[from |-> "checkout", artifact |-> h] : h \in {Url, NoArtifact}} :
          /\ installer # NoInstaller
          /\ installers[Service] = NoInstaller => CheckedOut(Url, installer.artifact)
          /\ installers[Service] # NoInstaller => installer = installers[Service]
          /\ installers' = [installers EXCEPT ![Service] = installer]
          /\ Runs("acquire", installer)
          /\ \/ NextService("connect") /\ UNCHANGED <<problems, budget>>
             \/ Hitch /\ Stops /\ UNCHANGED at
     \/ \* a package, or no artifact: nothing is acquired here
        /\ installers[Service] = NoInstaller /\ Url.kind # "file-set"
        /\ NextService("connect")
        /\ UNCHANGED <<installers, problems, budget, executed, registry, assetsWrote>>
     \/ \* not approved, not at its revision, or not readable
        /\ installers[Service] = NoInstaller
        /\ \/ Url.kind = "file-set" /\ Url \notin approve /\ UNCHANGED budget
           \/ Hitch
        /\ Stops /\ UNCHANGED <<at, installers, executed, registry, assetsWrote>>

\* aify-wrapper's connect reads the specification itself, installs an approved
\* package, publishes the entry and its key, and records what it installed.
\* Without a record nothing counts as installed.
ConnectInstalls ==
  /\ phase = "connect" /\ asked = NoArtifact
  /\ UNCHANGED <<plan, serving, approve, client, installers, before, pending, executed, assetsWrote, at>>
  /\ \/ /\ Url = NoArtifact \/ Url \in approve
        /\ placed' = IF Url.kind = "package" THEN [placed EXCEPT ![Url.revision] = Url] ELSE placed
        /\ joined' = joined \cup {Service} /\ published' = published \cup {Service} /\ registry' = registry + 1
        /\ phase' = "entry"
        /\ UNCHANGED <<problems, asked>>
        /\ \/ connected' = [connected EXCEPT ![Service] = IF Url.kind = "package" THEN {Url} ELSE {}] /\ UNCHANGED budget
           \/ Hitch /\ UNCHANGED connected
     \/ /\ \/ Url # NoArtifact /\ Url \notin approve /\ UNCHANGED budget
           \/ Hitch
        /\ Stops /\ UNCHANGED <<placed, published, registry, joined, connected, asked>>

\* The assets entry of the package served now: approved for this run, and in
\* the very directory this run's connect recorded.
IsAccepted(a) == a \in approve /\ \E c \in connected[Service] : c.revision = a.revision

\* A package's directory holds something.
IsPlaced(a) == a.kind = "package" /\ a.revision \in Revisions /\ placed[a.revision] # NoArtifact

PackageEntry ==
  /\ phase = "entry"
  /\ UNCHANGED <<plan, serving, approve, client, asked, placed, published, registry, before, pending, executed, joined, connected, assetsWrote>>
  /\ \/ \* known already, or none declared
        /\ (installers[Service] # NoInstaller \/ Url.kind # "package" \/ IsPlaced(Url)) = TRUE
        /\ IF at < Len(Connects) THEN at' = at + 1 /\ phase' = "connect" ELSE at' = 1 /\ phase' = "render"
        /\ UNCHANGED <<installers, problems, budget>>
     \/ /\ installers[Service] = NoInstaller /\ IsPlaced(Url)
        /\ IsAccepted(Url)
        /\ installers' = [installers EXCEPT ![Service] = [from |-> "package", artifact |-> placed[Url.revision]]]
        /\ IF at < Len(Connects) THEN at' = at + 1 /\ phase' = "connect" ELSE at' = 1 /\ phase' = "render"
        /\ UNCHANGED <<problems, budget>>
     \/ /\ installers[Service] = NoInstaller
        /\ \/ Url.kind = "package" /\ ~ (IsPlaced(Url) /\ IsAccepted(Url)) /\ UNCHANGED budget
           \/ Hitch
        /\ Stops /\ UNCHANGED <<at, installers>>

\* Each client's launcher, once every service is connected.
Render ==
  /\ phase = "render"
  /\ UNCHANGED <<plan, serving, approve, at, asked, installers, placed, published, registry, pending, executed, joined, connected, assetsWrote>>
  /\ \/ /\ client < Len(Selected) /\ client' = client + 1 /\ UNCHANGED <<phase, problems, budget, before>>
     \/ /\ client = Len(Selected) /\ client' = 1 /\ phase' = "assets" /\ before' = registry
        /\ UNCHANGED <<problems, budget>>
     \/ Hitch /\ Stops /\ UNCHANGED <<client, before>>

\* (Mutant: the registry is not read again.)
ComparedNever(reg) == UNCHANGED problems

\* The next service of this client, the next client, or the end of the run:
\* the registry must then be as assets found it.
Compared(reg) == IF reg = before THEN UNCHANGED problems ELSE problems' = TRUE

Advances(reg, service, person) ==
  \/ service < Len(Connects) /\ at' = service + 1 /\ client' = person /\ UNCHANGED <<phase, problems>>
  \/ /\ service = Len(Connects) /\ at' = 1
     /\ IF person < Len(Selected) THEN client' = person + 1 /\ UNCHANGED <<phase, problems>>
        ELSE UNCHANGED client /\ phase' = "done" /\ Compared(reg)

Assets ==
  /\ phase = "assets"
  /\ UNCHANGED <<plan, serving, approve, asked, installers, placed, published, before, joined, connected>>
  /\ \/ \* the client's command is missing
        /\ at = 1 /\ pending' = pending \cup {Selected[client]}
        /\ Advances(registry, Len(Connects), client)
        /\ UNCHANGED <<executed, registry, assetsWrote, budget>>
     \/ \* nothing was resolved for this service
        /\ installers[Service] = NoInstaller /\ Advances(registry, at, client)
        /\ UNCHANGED <<executed, registry, assetsWrote, budget, pending>>
     \/ /\ installers[Service] # NoInstaller /\ Runs("assets", installers[Service])
        /\ \/ Advances(registry', at, client) /\ UNCHANGED budget
           \/ Hitch /\ Stops /\ UNCHANGED <<at, client>>
        /\ UNCHANGED pending
     \/ \* the variables to withhold cannot be read
        /\ at = 1 /\ client = 1 /\ Hitch /\ Stops
        /\ UNCHANGED <<at, client, executed, registry, assetsWrote, pending>>

\* The exit the run ends in.
Complete == phase = "done" /\ ~ problems /\ (plan.noPrompt => pending = {})

ChainNext ==
  \/ ServesAnew \/ OthersWrite
  \/ KeysPresent \/ EnsuresPackages \/ AskNext \/ AnswerAsked \/ Acquire \/ ConnectInstalls \/ PackageEntry \/ Render \/ Assets

ChainSpec == ChainInit /\ [][ChainNext]_chainVars

----------------------------------------------------------------------------
(* Properties. *)

\* Nothing of a service's runs but a checkout the operator named, or exactly
\* what this run approved; and a package only if this run's connect installed
\* into the directory it runs from.
OnlyApprovedRuns ==
  \A e \in executed :
    \/ e.installer.from = "operator" /\ e.service \in plan.checkouts
    \/ e.installer.from = "checkout" /\ e.installer.artifact \in approve
    \/ e.installer.from = "package" /\ \E c \in connected[e.service] : c.revision = e.installer.artifact.revision

\* A run that says it is complete has connected every service and run the
\* assets of each for every client that is not pending, and nothing wrote the
\* registry while it applied them.
CompleteIsComplete ==
  Complete =>
    /\ joined = Services
    /\ \A s \in Services : installers[s] # NoInstaller /\ ~ (ToSet(Selected) \subseteq pending)
         => [phase |-> "assets", service |-> s, installer |-> installers[s]] \in executed
    /\ ~ assetsWrote

\* No client's assets are applied before every service is connected.
AssetsComeLast ==
  (\E e \in executed : e.phase = "assets") => joined = Services

ChainIsSafe == OnlyApprovedRuns /\ CompleteIsComplete /\ AssetsComeLast
=============================================================================
