-------------------------- MODULE MCClientMetrics --------------------------
(***************************************************************************)
(* Model checking of ClientMetrics.  No task is told from another, so that *)
(* states that differ in the names of the tasks need not be told apart.    *)
(***************************************************************************)
EXTENDS ClientMetrics, TLC

Symmetry == Permutations(Tasks)
=============================================================================
