-------------------------- MODULE MCTaskLifecycle --------------------------
(***************************************************************************)
(* TaskLifecycle on small instances: a few tasks and two nodes.            *)
(***************************************************************************)
EXTENDS TaskLifecycle, TLC

CONSTANTS t1, t2, n1, n2

OneTask  == {t1}
TwoTasks == {t1, t2}
OneNode  == {n1}
TwoNodes == {n1, n2}
NoTasks  == {}

(* Nodes and tasks are interchangeable in safety checks. *)
NodeSymmetry == Permutations(TwoNodes)
=============================================================================
