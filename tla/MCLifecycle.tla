----------------------------- MODULE MCLifecycle ----------------------------
(* Instances of Lifecycle for TLC. *)
EXTENDS Lifecycle, TLC

CONSTANTS e1, e2, alice, root, k1, k2, r1, r2

\* Environments are interchangeable: nothing orders them.
EnvSymmetry == Permutations(Env)

AliceRole == [u \in {alice} |-> "developer"]
=============================================================================
