------------------------------ MODULE Md5Words ------------------------------
(***************************************************************************)
(* The arithmetic of MD5 on 32-bit words, in Md5.cpp and in md5.c.  A word *)
(* is the set of its bits that are 1.                                      *)
(***************************************************************************)
EXTENDS Integers

Bits == 0..31

Word32 == SUBSET Bits

Not(x) == Bits \ x

Xor(x, y) == (x \ y) \union (y \ x)

ShiftLeft(x, n) == {i + n : i \in x} \intersect Bits

ShiftRight(x, n) == {i - n : i \in x} \intersect Bits

(* x + y modulo 2^32: a bit is set if one or all of its two bits and the   *)
(* carry are. *)
Sum32(x, y) ==
  LET carry[i \in 0..32] ==
        IF i = 0 THEN FALSE
        ELSE \/ i - 1 \in x /\ i - 1 \in y
             \/ carry[i - 1] /\ (i - 1 \in x \/ i - 1 \in y)
  IN  {i \in Bits : ((i \in x) # (i \in y)) # carry[i]}

-----------------------------------------------------------------------------
(* Md5.cpp. *)

F(x, y, z) == (x \intersect y) \union (Not(x) \intersect z)
G(x, y, z) == (x \intersect z) \union (y \intersect Not(z))
H(x, y, z) == Xor(Xor(x, y), z)
I(x, y, z) == Xor(y, x \union Not(z))

rotate_left(x, n) == ShiftLeft(x, n) \union ShiftRight(x, 32 - n)

(* The function of a round, numbered from 0. *)
Function2(round, x, y, z) == IF round = 0 THEN F(x, y, z)
                             ELSE IF round = 1 THEN G(x, y, z)
                             ELSE IF round = 2 THEN H(x, y, z)
                             ELSE I(x, y, z)

(* FF, GG, HH and II: the new value of a. *)
Mixed2(round, a, b, c, d, x, s, ac) ==
  Sum32(rotate_left(Sum32(Sum32(Sum32(a, Function2(round, b, c, d)), x), ac), s), b)

-----------------------------------------------------------------------------
(* md5.c.  Its first function saves an operation, its second is the first  *)
(* with the arguments in another order.                                    *)

(* Slip: the arguments of the second function are not moved. *)
SlipMacroFG(b, c, d) == Xor(d, b \intersect Xor(c, d))

MacroFF(b, c, d) == Xor(d, b \intersect Xor(c, d))
MacroFG(b, c, d) == MacroFF(d, b, c)
MacroFH(b, c, d) == Xor(Xor(b, c), d)
MacroFI(b, c, d) == Xor(c, b \union Not(d))

(* CYCLIC(w, s). *)
Cyclic(w, s) == ShiftLeft(w, s) \union ShiftRight(w, 32 - s)

Function1(round, b, c, d) == IF round = 0 THEN MacroFF(b, c, d)
                             ELSE IF round = 1 THEN MacroFG(b, c, d)
                             ELSE IF round = 2 THEN MacroFH(b, c, d)
                             ELSE MacroFI(b, c, d)

(* OP: the new value of a, added to in three statements. *)
Mixed1(round, a, b, c, d, word, s, T) ==
  Sum32(Cyclic(Sum32(a, Sum32(Sum32(Function1(round, b, c, d), word), T)), s), b)
=============================================================================
