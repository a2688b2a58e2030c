---------------------------- MODULE MCLifecycle ----------------------------
(* Instances of the mission's life, of the authority bootstrap, of the       *)
(* production gate and of a staging deployment.  They share no state: a      *)
(* behaviour is about the part its focus names.                              *)
EXTENDS MissionLifecycle, AuthorityBootstrap, ProductionGate, StagingDeploy, TLC

CONSTANTS main, sub, late, tests, trace, Focuses, key, onMain, pushed, old

VARIABLE focus

mcVars == <<lifecycleVars, bootstrapVars, gateVars, stagingVars, focus>>

\* One key and another commit are deployed.
MCReleaseOf == key :> onMain
MCParent == (main :> None) @@ (sub :> main) @@ (late :> main)
MCSelected == (main :> {tests, trace}) @@ (sub :> {trace}) @@ (late :> {trace})
\* Calls, control-plane runs and sources are the same model values.
MCSymmetry == Permutations(Calls)

MCInit ==
  /\ focus \in Focuses /\ LifecycleInit /\ BootstrapInit /\ GateInit /\ StagingInit
  /\ focus # "promotion" => proven

\* Bounds: two calls run beside each other; alerts are raised about a mission with one
\* submission and one call.
UnderWay == {c \in Calls : stage'[c] \in {"running", "settled"}}
Used == {c \in Calls : stage'[c] # "idle"}

MCLifecycleStep ==
  \/ focus = "missions" /\ PhaseStep /\ Cardinality(UnderWay) <= 2
  \/ focus = "alerts" /\ (PhaseStep \/ AlertStep) /\ Cardinality(Used) <= 1 /\ state'[late] = "ABSENT"

\* Two runs, or one started again; and a receipt ends the deployment.
StagingStep ==
  /\ focus = "staging" /\ receipt[key] = None /\ StagingNext
  /\ \A i \in DOMAIN runs' : Len(runs') + runs'[i].attempt <= 3

MCNext ==
  /\ UNCHANGED focus
  /\ \/ MCLifecycleStep /\ UNCHANGED <<bootstrapVars, gateVars, stagingVars>>
     \/ focus = "bootstrap" /\ BootstrapNext /\ UNCHANGED <<lifecycleVars, gateVars, stagingVars>>
     \/ focus = "promotion" /\ GateNext /\ UNCHANGED <<lifecycleVars, bootstrapVars, stagingVars>>
     \/ StagingStep /\ UNCHANGED <<lifecycleVars, bootstrapVars, gateVars>>

MCSpec == MCInit /\ [][MCNext]_mcVars
=============================================================================
