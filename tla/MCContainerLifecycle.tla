----------------------- MODULE MCContainerLifecycle -----------------------
(***************************************************************************)
(* ContainerLifecycle and its refinement for TLC.  Clients, names and pids *)
(* are compared only for equality, so each of the three sets may be        *)
(* permuted: the properties checked with symmetry have no liveness part,   *)
(* and the CHOOSE in Promised has at most one candidate.                   *)
(***************************************************************************)
EXTENDS LifecycleRefinement, TLC

Symmetry == Permutations(Clients) \cup Permutations(Names)
                                  \cup Permutations(Pids)
=============================================================================
