--------------------------- MODULE MCProjectStore ---------------------------
(* ProjectStore with requests and jobs that can be told apart by what they   *)
(* do only.                                                                  *)
EXTENDS ProjectStore, TLC

Symmetry == Permutations(Clients) \cup Permutations(Jobs)
=============================================================================
