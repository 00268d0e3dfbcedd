----------------------------- MODULE PluginLife -----------------------------
(***************************************************************************)
(* What a service plugin promises the registry that steers it, whatever    *)
(* loops it runs inside (the PluginPhase of                                *)
(* lib/plugins/aify-comms/plugin-phase.mjs as ServicePlugins.detach and    *)
(* resume use it): it lets go only when it runs no worker, it starts none  *)
(* once it has been found holding some, and what it let go of it never     *)
(* serves again.                                                           *)
(***************************************************************************)
EXTENDS Naturals

VARIABLES
    standing, \* what the registry may believe of the plugin
    workers   \* how many of its workers run

lifeVars == <<standing, workers>>

Standings == {"off", "serving", "leaving", "held", "gone"}

LifeInit == standing = "off" /\ workers = 0

Serve == standing = "off" /\ standing' = "serving" /\ UNCHANGED workers

\* A start that was admitted before the plugin began to leave may still come.
StartWorker ==
    /\ standing \in {"serving", "leaving"}
    /\ workers' = workers + 1
    /\ UNCHANGED standing

EndWorker == workers > 0 /\ workers' = workers - 1 /\ UNCHANGED standing

Leave == standing \in {"serving", "held"} /\ standing' = "leaving" /\ UNCHANGED workers

Keep == standing = "leaving" /\ workers > 0 /\ standing' = "held" /\ UNCHANGED workers

LetGo == standing = "leaving" /\ workers = 0 /\ standing' = "gone" /\ UNCHANGED workers

Resume == standing = "held" /\ standing' = "serving" /\ UNCHANGED workers

LifeNext ==
    \/ Serve \/ StartWorker \/ EndWorker
    \/ Leave \/ Keep \/ LetGo \/ Resume

LifeSpec == LifeInit /\ [][LifeNext]_lifeVars

\* What follows for anyone who steers it.
GoneHoldsNothing == standing = "gone" => workers = 0

=============================================================================
