-------- MODULE MCServices --------------------------------------------------
(***************************************************************************)
(* The plugins, what the host tells its services, and what it does on      *)
(* their behalf, side by side: a behaviour is one component's, with its    *)
(* neighbours as its module has them.  The plugin is EXTENDed: its promise *)
(* to the host is a property of the whole run.                             *)
(***************************************************************************)
EXTENDS CommsPlugin, Naturals, Sequences, FiniteSets, TLC

CONSTANTS Endpoints, MaxEdits, StaleBeats, MaxBeats, Targets, MaxMoves,
    MaxTargetEdits, MaxStrays, Homesteads, Largest, MaxTenures, MaxMishaps,
    Checkouts, MaxHeads, MaxFailures, MaxOthers, SweepFolders, SweepHeads,
    MaxHeadMoves, MaxConfigs, MaxMisruns, Envs, BatchLimit, MaxEvents,
    MaxSwaps, MaxHitches, ClientPids, ClientPid, MaxBirths, MaxRefusals
CONSTANTS r1

VARIABLES
  part,  \* the component this behaviour is of
  entry, edits, plugins, follow, target, post, beats, age, answered,
  row, whole, moves, endings, named, targetEdits, gathering, more, slot,
  publishing, net, published, sentTo, frozen, closing, outcome, takes,
  bound, tenures, role, tenure, generation, operation, leaving, saved,
  descriptor, turnsBy, bodies, shown, mishaps,
  checkout, refWrites, headMoves, dash, elsewhere, noticed, others,
  yielding, folder, kept, look, failures,
  watchedHead, section, calls, headMoveCount, misruns, sweeper, provider,
  pass, warnings,
  raw, mark, appended, swaps, agentLives, expired, checkpoint, reclaiming,
  passes, dashboard, passed, reclaimed, hitches,
  procs, births, exitSeen, run, helper, reached, refusals

Reg == INSTANCE HostRegistry
Pub == INSTANCE StatePublication WITH edits <- targetEdits, request <-
    publishing, MaxEdits <- MaxTargetEdits
Res == INSTANCE Residents
Watch == INSTANCE HeadWatch
Sweep == INSTANCE SweepRuns
Ledger == INSTANCE ActivityLedger
Client == INSTANCE ClientRun

ASSUME Reg!StaleIsPositive
ASSUME Res!HomeAssumption
ASSUME Client!ClientPidIsAPid

registryVars == <<entry, edits, plugins, follow, target, post, beats, age,
    answered>>
publicationVars == <<row, whole, moves, endings, named, targetEdits,
    gathering, more, slot, publishing, net, published, sentTo, frozen,
    closing, outcome, takes>>
residentsVars == <<bound, tenures, role, tenure, generation, operation,
    leaving, saved, descriptor, turnsBy, bodies, shown, mishaps>>
watchVars == <<checkout, refWrites, headMoves, dash, elsewhere, noticed,
    others, yielding, folder, kept, look, failures>>
sweepVars == <<watchedHead, section, calls, headMoveCount, misruns, sweeper,
    provider, pass, warnings>>
ledgerVars == <<raw, mark, appended, swaps, agentLives, expired, checkpoint,
    reclaiming, passes, dashboard, passed, reclaimed, hitches>>
clientRunVars == <<procs, births, exitSeen, run, helper, reached, refusals>>
vars == <<part, pluginVars, registryVars, publicationVars, residentsVars,
    watchVars, sweepVars, ledgerVars, clientRunVars>>

\* The components at rest are where they begin.
Init ==
  /\ part \in {"plugin", "registry", "publication", "residents", "watch", "sweeps", "activity", "client"}
  /\ PluginInit
  /\ part # "plugin" => inside = {}
  /\ Reg!RegistryInit
  /\ part # "registry" => entry.endpoint = Reg!NoEndpoint /\ entry.starts
  /\ Pub!PublicationInit
  /\ part # "publication" => row = "cold"
  /\ Res!ResidentsInit
  /\ Watch!WatchInit
  /\ Sweep!SweepInit
  /\ part # "sweeps" => calls = FALSE /\ watchedHead = [f \in SweepFolders |-> "h1"]
  /\ Ledger!LedgerInit
  /\ Client!ClientRunInit
  /\ part # "client" => \A p \in ClientPids : procs[p].ours \/ ~ procs[p].alive

Of(name) ==
  /\ part = name /\ part' = part
  /\ IF name = "plugin" THEN TRUE ELSE UNCHANGED pluginVars
  /\ IF name = "registry" THEN TRUE ELSE UNCHANGED registryVars
  /\ IF name = "publication" THEN TRUE ELSE UNCHANGED publicationVars
  /\ IF name = "residents" THEN TRUE ELSE UNCHANGED residentsVars
  /\ IF name = "watch" THEN TRUE ELSE UNCHANGED watchVars
  /\ IF name = "sweeps" THEN TRUE ELSE UNCHANGED sweepVars
  /\ IF name = "activity" THEN TRUE ELSE UNCHANGED ledgerVars
  /\ IF name = "client" THEN TRUE ELSE UNCHANGED clientRunVars

PluginActs == Of("plugin") /\ PluginNext
RegistryActs == Of("registry") /\ Reg!RegistryNext
PublicationActs == Of("publication") /\ Pub!PublicationNext
ResidentsActs == Of("residents") /\ Res!ResidentsNext
WatchActs == Of("watch") /\ Watch!WatchNext
SweepActs == Of("sweeps") /\ Sweep!SweepNext
ActivityActs == Of("activity") /\ Ledger!LedgerNext
ClientActs == Of("client") /\ Client!ClientRunNext

Next == PluginActs \/ RegistryActs \/ PublicationActs \/ ResidentsActs \/
    WatchActs \/ SweepActs \/ ActivityActs \/ ClientActs

Spec == Init /\ [][Next]_vars

\* Each component's own fairness, where the behaviour is of it.
PluginFair ==
  /\ WF_pluginVars(part = "plugin" /\ Lives(BeatSettled))
  /\ WF_pluginVars(part = "plugin" /\ Lives(ClaimStep))
  /\ \A l \in Loops :
       /\ WF_pluginVars(part = "plugin" /\ Lives(BeginOrEnd(l)))
       /\ WF_pluginVars(part = "plugin" /\ Lives(SetUp(l)))
       /\ WF_pluginVars(part = "plugin" /\ Lives(PassEnds(l)))
       /\ WF_pluginVars(part = "plugin" /\ Lives(WorkerStarts(l)))
  /\ WF_pluginVars(part = "plugin" /\ (Lives(Hold \/ LetGo)))

RegFair ==
  /\ WF_registryVars(part = "registry" /\ (Reg!BeatBegins \/ Reg!FollowOnly))
  /\ WF_registryVars(part = "registry" /\ (\E answer \in {"ok", "refused", "down"} : Reg!Answered(answer)))
  /\ WF_registryVars(part = "registry" /\ (Reg!NothingToDetach \/ \E p \in plugins : Reg!AskDetach(p) \/ Reg!DetachAnswered(p)))
  /\ WF_registryVars(part = "registry" /\ Reg!Add)

PubFair ==
  /\ WF_publicationVars(part = "publication" /\ (Pub!Tick /\ gathering = "no"))
  /\ SF_publicationVars(part = "publication" /\ Pub!RegistryIsRead)
  /\ WF_publicationVars(part = "publication" /\ Pub!StatesAreRead)
  /\ SF_publicationVars(part = "publication" /\ Pub!CredentialIsRead)
  /\ WF_publicationVars(part = "publication" /\ Pub!RequestSettles)
  /\ WF_publicationVars(part = "publication" /\ Pub!EpochBegins)
  /\ \A t \in Targets :
       /\ SF_publicationVars(part = "publication" /\ (net[t] # <<>> /\ Pub!Take(t, Len(net[t]))))

ResFair ==
  /\ \A d \in Homesteads :
       /\ SF_residentsVars(part = "residents" /\ Res!TryToBind(d))
       /\ WF_residentsVars(part = "residents" /\ (Res!TakeGeneration(d) \/ Res!GenerationRefused(d) \/ Res!Boot(d) \/ Res!CloseEndpoint(d)))

WatchFair ==
  /\ WF_watchVars(part = "watch" /\ Watch!LookSteps)

SweepFair ==
  /\ WF_sweepVars(part = "sweeps" /\ Sweep!PassSteps)
  /\ \A f \in SweepFolders :
       /\ WF_sweepVars(part = "sweeps" /\ Sweep!WaitIsOver(f))

LedgerFair ==
  /\ WF_ledgerVars(part = "activity" /\ Ledger!LedgerPasses)

ClientFair ==
  /\ WF_clientRunVars(part = "client" /\ Client!EndRun)
  /\ WF_clientRunVars(part = "client" /\ Client!KillDeadline)

-----------------------------------------------------------------------------
\* While it runs its loops run, held only its controls, and detached none is
\* in a pass; and of a request that the host heard it claimed something is
\* told, unless the host is stopped.
LoopsServeTheirClaims ==
  /\ [](part = "plugin" => LoopsFollowThePhase)
  /\ (part = "plugin" /\ PluginFair => ClaimsAreTold)

\* One plugin serves, and fresh means accepted; and the registry's last word
\* is what runs, once the workers it keeps alive are gone.
RegistryIsKept ==
  /\ [](part = "registry" => Reg!RegistryIsSafe)
  /\ (part = "registry" /\ RegFair => Reg!RegistryIsFollowed)

\* However bodies are lost, refused or overtaken, the target the registry
\* ends up naming holds the agent's row as it is.
StateIsTold == (part = "publication" /\ PubFair => Pub!StateIsTold)

\* Of two daemons of one home only the holder writes, and whoever reads it
\* twice reads no older holder; and the role is taken again and again while
\* somebody could take it.
RoleIsKept ==
  /\ [][part = "residents" => (turnsBy' # turnsBy => bound # Res!Nobody /\ turnsBy' = tenure[bound])]_residentsVars
  /\ [][part = "residents" => shown'.tenure >= shown.tenure]_residentsVars
  /\ (part = "residents" /\ ResFair => Res!RoleIsTaken)

\* What the dashboard acknowledged it has or knows to be missing; and it
\* comes to the folder's head, its commits and its files, after resets,
\* failures and another aify-env's turn.
DashboardIsTrue ==
  /\ [](part = "watch" => Watch!CoverageIsHonest)
  /\ (part = "watch" /\ WatchFair => Watch!DashboardCatchesUp)

\* What the rows show is so; and every folder is swept at its head, or it is
\* said, under today's configuration, that it was not.
SweepsAreKept ==
  /\ [](part = "sweeps" => Sweep!SweepsAreHonest)
  /\ (part = "sweeps" /\ SweepFair => Sweep!SweptOrSaid)

\* What hooks append is shipped or counted as lost, and the file of an ended
\* agent goes, unless nobody can tell what became of it.
ActivityIsShipped == (part = "activity" /\ LedgerFair => Ledger!ActivityIsShipped)

\* A client's helper holds nothing that is not the client's, and a clean end
\* leaves nothing of it; and every run settles.
ClientRunsEnd ==
  /\ [](part = "client" => Client!ClientRunIsHonest)
  /\ (part = "client" /\ ClientFair => Client!RunSettles)

=============================================================================
