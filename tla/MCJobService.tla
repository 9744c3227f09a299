---------------------------- MODULE MCJobService ----------------------------
(* JobService with two jobs, which nothing but their ids tells apart.       *)
EXTENDS JobService

Symmetry == Permutations(Jobs)
=============================================================================
