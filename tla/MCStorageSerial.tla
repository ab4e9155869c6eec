--------------------------- MODULE MCStorageSerial ---------------------------
(* Values of the constants of StorageSerial for TLC.                        *)
EXTENDS StorageSerial, TLC

CONSTANTS b1, b2, v1, v2, s1, g1, g2

IdSymmetry == Permutations(Backends) \cup Permutations(Volumes)
              \cup Permutations(Goroutines)
=============================================================================
