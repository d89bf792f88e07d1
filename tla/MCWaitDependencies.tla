------------------------- MODULE MCWaitDependencies -------------------------
(* Sessions and tasks for model checking the dependency registry.          *)
EXTENDS WaitDependencies, TLC

CONSTANTS s1, s2, s3, t1, t2

MCSessions == {s1, s2, s3}
MCTasks == {t1, t2}
Symmetry == Permutations(MCSessions) \cup Permutations(MCTasks)
=============================================================================
