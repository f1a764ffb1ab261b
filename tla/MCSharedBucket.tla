--------------------------- MODULE MCSharedBucket ---------------------------
(* SharedBucket for TLC: two threads, of one daemon or of two. *)
EXTENDS SharedBucket, TLC

CONSTANTS k1, k2, t1, t2, h1, h2

OneKey == {k1}
TwoKeys == {k1, k2}
MCThreads == {t1, t2}
OneHost == {h1}
OnOneHost == [t \in MCThreads |-> h1]
TwoHosts == {h1, h2}
OnTwoHosts == t1 :> h1 @@ t2 :> h2
=============================================================================
