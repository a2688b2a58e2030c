-------------------------- MODULE MCMissionRuntime --------------------------
(***************************************************************************)
(* Instances of MissionRuntime for TLC.                                    *)
(***************************************************************************)
EXTENDS MissionRuntime, TLC

CONSTANTS m1, m2, comment, deploy, branch, ci, local, k1, p1, p2

ask(m, a, p) == [mission |-> m, adapter |-> a, key |-> k1, contents |-> p]

\* One scope contended by two missions, and by two contents of the same key.
ScopedRequests == {ask(m1, deploy, p1), ask(m2, deploy, p1), ask(m2, deploy, p2)}
BranchRequests == {ask(m1, branch, p1)}
\* Every kind of adapter, and skills without one, for the calls of one mission.
LiveRequests == {ask(m1, a, p1) : a \in {deploy, comment, branch, ci, local}}

CallSymmetry == Permutations(Call)
=============================================================================
