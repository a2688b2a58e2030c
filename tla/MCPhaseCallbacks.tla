-------------------------- MODULE MCPhaseCallbacks --------------------------
(***************************************************************************)
(* Instances of PhaseCallbacks for TLC.                                    *)
(***************************************************************************)
EXTENDS PhaseCallbacks, TLC

CONSTANTS m1, deploy, ci, local, k1, k2, p1

ask(m, a, k, p) == [mission |-> m, adapter |-> a, key |-> k, contents |-> p]

\* A deployment, the tests of the same mission, and a phase of neither kind.
MissionRequests ==
  {ask(m1, deploy, k1, p1), ask(m1, ci, k2, p1), ask(m1, local, k2, p1)}

\* Deployments and phases without an adapter.
DeployRequests == {ask(m1, deploy, k1, p1), ask(m1, local, k2, p1)}

TestRequests == {ask(m1, ci, k2, p1)}

CallbackSymmetry == Permutations(Call) \cup Permutations(Delivery)
=============================================================================
