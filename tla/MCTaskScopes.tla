---------------------------- MODULE MCTaskScopes ----------------------------
(* A managed scope with two tasks, or one that the host drives with one    *)
(* task, and one thread beside the runtime's.                              *)
EXTENDS TaskScopes, TLC

CONSTANTS t1, t2, th

Symmetry == Permutations(Tasks)

\* A scope that the host drives spawns one task.
Spawns == managed \/ Cardinality({t \in Tasks : state[t] # "fresh"}) <= 1
=============================================================================
