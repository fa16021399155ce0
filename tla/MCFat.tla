-------------------------------- MODULE MCFat --------------------------------
(* Fat on a disk of three clusters of two bytes. *)
EXTENDS Fat
CONSTANTS a, b, p
Symmetry == Permutations(Procs) \cup Permutations(Names)
=============================================================================
