---------------------------- MODULE MCDiskCache ----------------------------
(* DiskCache for TLC. *)
EXTENDS DiskCache, TLC

CONSTANTS k1, k2, t1, t2

OneKey == {k1}
MCKeys == {k1, k2}
MCThreads == {t1, t2}
=============================================================================
