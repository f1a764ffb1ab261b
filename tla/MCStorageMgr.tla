---------------------------- MODULE MCStorageMgr ----------------------------
(* StorageMgr for TLC. *)
EXTENDS StorageMgr, TLC

CONSTANTS k1, k2, t1, t2, t3

OneKey == {k1}
TwoKeys == {k1, k2}
TwoThreads == {t1, t2}
ThreeThreads == {t1, t2, t3}

(* Keys and threads are only compared and used as indices. *)
Symmetry == Permutations(Keys) \union Permutations(Threads)
=============================================================================
