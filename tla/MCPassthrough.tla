--------------------------- MODULE MCPassthrough ---------------------------
(* Passthrough for TLC. *)
EXTENDS Passthrough, TLC

CONSTANTS a, b, x, y, i1, i2, i3, h1, h2, t1, t2, d1

MCNames == {a, b, x, y}
MCHidden == {x, y}
MCInodes == {i1, i2, i3}
MCHandles == {h1, h2}
MCThreads == {t1, t2}
MCData == {d1}

(* Names, inodes, handles and threads are only compared and used as indices. *)
Symmetry == Permutations(Visible) \union Permutations(Hidden) \union Permutations(Inodes)
              \union Permutations(Handles) \union Permutations(Threads)
=============================================================================
