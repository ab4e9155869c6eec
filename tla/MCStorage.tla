------------------------------ MODULE MCStorage ------------------------------
(* Values of StorageSim's constants for TLC.                                *)
EXTENDS StorageSim, TLC

CONSTANTS b1, b2, v1, v2, v3, s1, g1, g2

IdSymmetry == Permutations(Backends) \cup Permutations(Volumes)
              \cup Permutations(Goroutines)
=============================================================================
