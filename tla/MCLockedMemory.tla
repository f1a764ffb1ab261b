--------------------------- MODULE MCLockedMemory ---------------------------
(* LockedMemory for TLC. *)
EXTENDS LockedMemory

CONSTANTS t1, t2, t3, t4, k1, k2

MCThreads == {t1, t2, t3, t4}
MCKeys == {k1, k2}
=============================================================================
