----------------------------- MODULE Md5Proofs -----------------------------
(***************************************************************************)
(* Proofs about MD5 in both daemons: they compute the same words in every  *)
(* step of every block, neither loses count of the bytes it is fed, and no *)
(* copy of md5.c ends past its buffer.                                     *)
(***************************************************************************)
EXTENDS MCMd5, Md5Words, SequenceTheorems, TLAPS

-----------------------------------------------------------------------------
(* Addition on words.                                                      *)

(* What holds at bit 0 and goes on to the next bit holds at all of them.   *)
LEMMA BitByBit ==
  ASSUME NEW S, 0 \in S, \A i \in 0..31 : i \in S => i + 1 \in S
  PROVE  0..32 \subseteq S
<1>1. 1 \in S /\ 2 \in S /\ 3 \in S /\ 4 \in S /\ 5 \in S /\ 6 \in S /\ 7 \in S /\ 8 \in S
  OBVIOUS
<1>2. 9 \in S /\ 10 \in S /\ 11 \in S /\ 12 \in S /\ 13 \in S /\ 14 \in S /\ 15 \in S /\ 16 \in S
  BY <1>1
<1>3. 17 \in S /\ 18 \in S /\ 19 \in S /\ 20 \in S /\ 21 \in S /\ 22 \in S /\ 23 \in S /\ 24 \in S
  BY <1>2
<1>4. 25 \in S /\ 26 \in S /\ 27 \in S /\ 28 \in S /\ 29 \in S /\ 30 \in S /\ 31 \in S /\ 32 \in S
  BY <1>3
<1>5. QED
  BY <1>1, <1>2, <1>3, <1>4

(* r is the sum of p and q, c the bits that a carry goes into.             *)
Adds(p, q, c, r) ==
  /\ 0 \notin c
  /\ \A i \in 0..31 : i + 1 \in c <=> \/ i \in p /\ i \in q
                                      \/ i \in c /\ (i \in p \/ i \in q)
  /\ r \subseteq Bits
  /\ \A i \in Bits : i \in r <=> ((i \in p <=> i \in q) <=> i \in c)

(* The recursive function of Sum32 is defined on all of its bits.          *)
CarryInto(p, q, f, i) == IF i = 0 THEN FALSE
                         ELSE \/ i - 1 \in p /\ i - 1 \in q
                              \/ f[i - 1] /\ (i - 1 \in p \/ i - 1 \in q)

Carries(p, q, f, n) == f = [i \in 0..n |-> CarryInto(p, q, f, i)]

LEMMA CarryDefined ==
  ASSUME NEW p, NEW q
  PROVE  \E f : Carries(p, q, f, 32)
<1> DEFINE S == {n \in 0..32 : \E f : Carries(p, q, f, n)}
<1>1. 0 \in S
  <2> DEFINE f == [i \in 0..0 |-> FALSE]
  <2>1. Carries(p, q, f, 0)
    BY DEF Carries, CarryInto
  <2> HIDE DEF f
  <2>2. QED
    BY <2>1
<1>2. ASSUME NEW n \in 0..31, n \in S
      PROVE  n + 1 \in S
  <2>1. PICK f : Carries(p, q, f, n)
    BY <1>2
  <2> DEFINE g == [i \in 0..n + 1 |-> IF i = n + 1 THEN CarryInto(p, q, f, i) ELSE f[i]]
  <2>2. \A i \in 0..n : g[i] = f[i]
    OBVIOUS
  <2>3. ASSUME NEW i \in 0..n + 1
        PROVE  CarryInto(p, q, g, i) = CarryInto(p, q, f, i)
    <3>1. i = 0 \/ i - 1 \in 0..n
      OBVIOUS
    <3> HIDE DEF g
    <3>2. QED
      BY <2>2, <3>1 DEF CarryInto
  <2>4. ASSUME NEW i \in 0..n + 1
        PROVE  g[i] = CarryInto(p, q, f, i)
    <3>1. CASE i = n + 1
      BY <3>1
    <3>2. CASE i # n + 1
      <4>1. i \in 0..n
        BY <3>2
      <4>2. f[i] = CarryInto(p, q, f, i)
        BY <2>1, <4>1 DEF Carries
      <4>3. QED
        BY <2>2, <4>1, <4>2
    <3>3. QED
      BY <3>1, <3>2
  <2>5. Carries(p, q, g, n + 1)
    BY <2>3, <2>4 DEF Carries
  <2> HIDE DEF g
  <2>6. QED
    BY <2>5
<1> HIDE DEF S
<1>3. 32 \in S
  BY <1>1, <1>2, BitByBit
<1>4. QED
  BY <1>3 DEF S

LEMMA SumAdds ==
  ASSUME NEW p, NEW q
  PROVE  \E c : Adds(p, q, c, Sum32(p, q))
<1> DEFINE f == CHOOSE g : g = [i \in 0..32 |-> CarryInto(p, q, g, i)]
           c == {i \in 0..32 : f[i]}
<1>1. f = [i \in 0..32 |-> CarryInto(p, q, f, i)]
  BY CarryDefined DEF Carries
<1>2. Sum32(p, q) = {i \in Bits : ((i \in p) # (i \in q)) # f[i]}
  BY DEF Sum32, CarryInto
<1> HIDE DEF f
<1>3. f[0] = FALSE
  BY <1>1 DEF CarryInto
<1>4. ASSUME NEW i \in 0..31
      PROVE  f[i + 1] = (\/ i \in p /\ i \in q
                         \/ f[i] /\ (i \in p \/ i \in q))
  <2>1. f[i + 1] = CarryInto(p, q, f, i + 1)
    BY <1>1
  <2>2. i + 1 # 0 /\ (i + 1) - 1 = i
    OBVIOUS
  <2>3. QED
    BY <2>1, <2>2 DEF CarryInto
<1>5. ASSUME NEW i \in 0..31
      PROVE  f[i] \in BOOLEAN /\ i \in 0..32 /\ i + 1 \in 0..32
  <2>1. CASE i = 0
    <3>1. f[i] \in BOOLEAN
      BY <1>3, <2>1
    <3>2. QED
      BY <3>1
  <2>2. CASE i # 0
    <3>1. i - 1 \in 0..31 /\ (i - 1) + 1 = i
      BY <2>2
    <3>2. f[i] = (\/ i - 1 \in p /\ i - 1 \in q
                  \/ f[i - 1] /\ (i - 1 \in p \/ i - 1 \in q))
      BY <1>4, <3>1
    <3>3. f[i] \in BOOLEAN
      BY <3>2
    <3>4. QED
      BY <3>3
  <2>3. QED
    BY <2>1, <2>2
<1>6. Adds(p, q, c, Sum32(p, q))
  <2>1. 0 \notin c
    BY <1>3
  <2>2. ASSUME NEW i \in 0..31
        PROVE  i + 1 \in c <=> \/ i \in p /\ i \in q
                               \/ i \in c /\ (i \in p \/ i \in q)
    BY <1>4, <1>5
  <2>3. ASSUME NEW i \in Bits
        PROVE  i \in Sum32(p, q) <=> ((i \in p <=> i \in q) <=> i \in c)
    <3>1. (i \in c <=> f[i]) /\ f[i] \in BOOLEAN
      BY <1>5 DEF Bits
    <3>2. i \in Sum32(p, q) <=> ((i \in p) # (i \in q)) # f[i]
      BY <1>2
    <3>3. QED
      BY <3>1, <3>2
  <2>4. QED
    BY <1>2, <2>1, <2>2, <2>3 DEF Adds
<1>7. QED
  BY <1>6

(* Three words have the same sum from the left and from the right: at every*)
(* bit as many carries come in from below on both ways.                    *)
LEMMA AddsBothWays ==
  ASSUME NEW p, NEW q, NEW r, NEW c1, NEW c2, NEW d1, NEW d2,
         NEW pq, NEW qr, NEW left, NEW right,
         Adds(p, q, c1, pq), Adds(pq, r, c2, left),
         Adds(q, r, d1, qr), Adds(p, qr, d2, right)
  PROVE  left = right
<1> DEFINE S == {i \in 0..32 : /\ (i \in c1 /\ i \in c2) <=> (i \in d1 /\ i \in d2)
                               /\ (i \in c1 \/ i \in c2) <=> (i \in d1 \/ i \in d2)}
<1>1. 0 \in S
  BY DEF Adds
<1>2. ASSUME NEW i \in 0..31, i \in S
      PROVE  i + 1 \in S /\ (i \in left <=> i \in right)
  <2>1. i \in Bits
    BY DEF Bits
  <2>2. /\ i \in pq <=> ((i \in p <=> i \in q) <=> i \in c1)
        /\ i \in left <=> ((i \in pq <=> i \in r) <=> i \in c2)
        /\ i \in qr <=> ((i \in q <=> i \in r) <=> i \in d1)
        /\ i \in right <=> ((i \in p <=> i \in qr) <=> i \in d2)
    BY <2>1 DEF Adds
  <2>3. /\ i + 1 \in c1 <=> (i \in p /\ i \in q) \/ (i \in c1 /\ (i \in p \/ i \in q))
        /\ i + 1 \in c2 <=> (i \in pq /\ i \in r) \/ (i \in c2 /\ (i \in pq \/ i \in r))
        /\ i + 1 \in d1 <=> (i \in q /\ i \in r) \/ (i \in d1 /\ (i \in q \/ i \in r))
        /\ i + 1 \in d2 <=> (i \in p /\ i \in qr) \/ (i \in d2 /\ (i \in p \/ i \in qr))
    BY DEF Adds
  <2>4. /\ (i \in c1 /\ i \in c2) <=> (i \in d1 /\ i \in d2)
        /\ (i \in c1 \/ i \in c2) <=> (i \in d1 \/ i \in d2)
    BY <1>2
  <2>5. /\ (i + 1 \in c1 /\ i + 1 \in c2) <=> (i + 1 \in d1 /\ i + 1 \in d2)
        /\ (i + 1 \in c1 \/ i + 1 \in c2) <=> (i + 1 \in d1 \/ i + 1 \in d2)
        /\ i \in left <=> i \in right
    BY <2>2, <2>3, <2>4
  <2>6. QED
    BY <2>5
<1> HIDE DEF S
<1>3. 0..32 \subseteq S
  BY <1>1, <1>2, BitByBit
<1>4. \A i \in Bits : i \in left <=> i \in right
  BY <1>2, <1>3 DEF Bits
<1>5. QED
  BY <1>4 DEF Adds

LEMMA SumAssociates ==
  ASSUME NEW p, NEW q, NEW r
  PROVE  Sum32(Sum32(p, q), r) = Sum32(p, Sum32(q, r))
<1>1. PICK c1, c2, d1, d2 :
        /\ Adds(p, q, c1, Sum32(p, q)) /\ Adds(Sum32(p, q), r, c2, Sum32(Sum32(p, q), r))
        /\ Adds(q, r, d1, Sum32(q, r)) /\ Adds(p, Sum32(q, r), d2, Sum32(p, Sum32(q, r)))
  BY SumAdds
<1>2. QED
  BY <1>1, AddsBothWays

-----------------------------------------------------------------------------
(* The steps of a block.                                                   *)

(* md5.c picks bits of y or of z by x with three operations instead of     *)
(* four: F and FF are the same function.                                   *)
LEMMA SavedOperation ==
  ASSUME NEW p \in Word32, NEW q \in Word32, NEW r \in Word32
  PROVE  MacroFF(p, q, r) = F(p, q, r)
<1>1. p \subseteq Bits /\ q \subseteq Bits /\ r \subseteq Bits
  BY DEF Word32
<1>2. ASSUME NEW i
      PROVE  i \in MacroFF(p, q, r) <=> i \in F(p, q, r)
  BY <1>1 DEF MacroFF, F, Xor, Not
<1>9. QED  BY <1>2

(* The second function of RFC 1321 is the first with its arguments turned: *)
(* what the macro FG of md5.c makes of it.                                 *)
LEMMA TurnedArguments ==
  ASSUME NEW p \in Word32, NEW q \in Word32, NEW r \in Word32
  PROVE  F(r, p, q) = G(p, q, r)
<1>1. ASSUME NEW i
      PROVE  i \in F(r, p, q) <=> i \in G(p, q, r)
  BY DEF F, G, Not
<1>9. QED  BY <1>1

(* Every round of transform (Md5.cpp) and of md5_process_block (md5.c) has *)
(* the same function.                                                      *)
LEMMA SameFunctions ==
  ASSUME NEW round, NEW p \in Word32, NEW q \in Word32, NEW r \in Word32
  PROVE  Function1(round, p, q, r) = Function2(round, p, q, r)
<1>1. CASE round = 0
  BY <1>1, SavedOperation DEF Function1, Function2
<1>2. CASE round = 1
  <2>1. MacroFG(p, q, r) = F(r, p, q)
    BY SavedOperation DEF MacroFG
  <2>2. MacroFG(p, q, r) = G(p, q, r)
    BY <2>1, TurnedArguments
  <2>9. QED  BY <1>2, <2>2 DEF Function1, Function2
<1>3. CASE round = 2
  BY <1>3 DEF Function1, Function2, MacroFH, H
<1>4. CASE round \notin {0, 1, 2}
  BY <1>4 DEF Function1, Function2, MacroFI, I
<1>9. QED  BY <1>1, <1>2, <1>3, <1>4

(* A step of transform, which adds from the left, and one of               *)
(* md5_process_block, which adds to a what it has added up by itself, give *)
(* the same word, whatever the four words, the word of the block, the      *)
(* rotation and the constant.                                              *)
THEOREM SameStep ==
  ASSUME NEW round, NEW a, NEW b \in Word32, NEW c \in Word32, NEW d \in Word32,
         NEW word, NEW s, NEW T
  PROVE  Mixed1(round, a, b, c, d, word, s, T) = Mixed2(round, a, b, c, d, word, s, T)
<1> DEFINE f == Function2(round, b, c, d)
<1>1. Function1(round, b, c, d) = f
  BY SameFunctions
<1>2. Sum32(a, Sum32(Sum32(f, word), T)) = Sum32(Sum32(Sum32(a, f), word), T)
  <2>1. Sum32(a, Sum32(Sum32(f, word), T)) = Sum32(Sum32(a, Sum32(f, word)), T)
    BY SumAssociates
  <2>2. Sum32(a, Sum32(f, word)) = Sum32(Sum32(a, f), word)
    BY SumAssociates
  <2>3. QED
    BY <2>1, <2>2
<1> HIDE DEF f
<1>3. \A w : Cyclic(w, s) = rotate_left(w, s)
  BY DEF Cyclic, rotate_left
<1>4. QED
  BY <1>1, <1>2, <1>3 DEF Mixed1, Mixed2, f

(* Md5Rounds has the arithmetic of Md5Words.                               *)
LEMMA RoundsSum ==
  ASSUME NEW p, NEW q
  PROVE  Rounds!Sum32(p, q) = Sum32(p, q)
BY DEF Rounds!Sum32, Sum32, Rounds!Bits, Bits

LEMMA RoundsMixed1 ==
  ASSUME NEW round, NEW a, NEW b, NEW c, NEW d, NEW word, NEW s, NEW T
  PROVE  Rounds!Mixed1(round, a, b, c, d, word, s, T) = Mixed1(round, a, b, c, d, word, s, T)
<1>1. Rounds!Function1(round, b, c, d) = Function1(round, b, c, d)
  BY DEF Rounds!Function1, Function1, Rounds!MacroFF, MacroFF, Rounds!MacroFG, MacroFG,
         Rounds!MacroFH, MacroFH, Rounds!MacroFI, MacroFI, Rounds!Xor, Xor, Rounds!Not, Not,
         Rounds!Bits, Bits
<1>2. \A w : Rounds!Cyclic(w, s) = Cyclic(w, s)
  BY DEF Rounds!Cyclic, Cyclic, Rounds!ShiftLeft, ShiftLeft, Rounds!ShiftRight, ShiftRight,
         Rounds!Bits, Bits
<1>3. QED
  BY <1>1, <1>2, RoundsSum DEF Rounds!Mixed1, Mixed1

LEMMA RoundsMixed2 ==
  ASSUME NEW round, NEW a, NEW b, NEW c, NEW d, NEW word, NEW s, NEW ac
  PROVE  Rounds!Mixed2(round, a, b, c, d, word, s, ac) = Mixed2(round, a, b, c, d, word, s, ac)
<1>1. Rounds!Function2(round, b, c, d) = Function2(round, b, c, d)
  BY DEF Rounds!Function2, Function2, Rounds!F, F, Rounds!G, G, Rounds!H, H, Rounds!I, I,
         Rounds!Xor, Xor, Rounds!Not, Not, Rounds!Bits, Bits
<1>2. \A w : Rounds!rotate_left(w, s) = rotate_left(w, s)
  BY DEF Rounds!rotate_left, rotate_left, Rounds!ShiftLeft, ShiftLeft, Rounds!ShiftRight,
         ShiftRight, Rounds!Bits, Bits
<1>3. QED
  BY <1>1, <1>2, RoundsSum DEF Rounds!Mixed2, Mixed2

(* A sum is a word, and so is a step's result.                             *)
LEMMA MixedIsWord ==
  ASSUME NEW round, NEW a, NEW b, NEW c, NEW d, NEW word, NEW s, NEW ac
  PROVE  Mixed2(round, a, b, c, d, word, s, ac) \in Word32
BY DEF Mixed2, Sum32, Word32

(* The tables of md5.c, from which the last three rounds take the words of *)
(* the block, say what the arguments in Md5.cpp do.                        *)
LEMMA SameWordOrder ==
  ASSUME NEW i \in 16..63
  PROVE  Rounds!WordOf1[i \div 16][(i % 16) + 1] = Rounds!WordOf2(i)
<1> DEFINE n == i % 16
<1>1. n \in 0..15
  OBVIOUS
<1>2. CASE i < 32
  <2>1. i \div 16 = 1 /\ i = 16 + n
    BY <1>2
  <2>2. Rounds!WordOf2(i) = (5 * n + 1) % 16
    BY <1>1, <1>2, <2>1 DEF Rounds!WordOf2
  <2> HIDE DEF n
  <2>3. Rounds!WordOf1[1][n + 1] = (5 * n + 1) % 16
    BY <1>1 DEF Rounds!WordOf1
  <2>4. QED
    BY <2>1, <2>2, <2>3 DEF n
<1>3. CASE i >= 32 /\ i < 48
  <2>1. i \div 16 = 2 /\ i = 32 + n
    BY <1>3
  <2>2. Rounds!WordOf2(i) = (3 * n + 5) % 16
    BY <1>1, <1>3, <2>1 DEF Rounds!WordOf2
  <2> HIDE DEF n
  <2>3. Rounds!WordOf1[2][n + 1] = (3 * n + 5) % 16
    BY <1>1 DEF Rounds!WordOf1
  <2>4. QED
    BY <2>1, <2>2, <2>3 DEF n
<1>4. CASE i >= 48
  <2>1. i \div 16 = 3 /\ i = 48 + n
    BY <1>4
  <2>2. Rounds!WordOf2(i) = (7 * n) % 16
    BY <1>1, <1>4, <2>1 DEF Rounds!WordOf2
  <2> HIDE DEF n
  <2>3. Rounds!WordOf1[3][n + 1] = (7 * n) % 16
    BY <1>1 DEF Rounds!WordOf1
  <2>4. QED
    BY <2>1, <2>2, <2>3 DEF n
<1>5. QED
  BY <1>2, <1>3, <1>4

(* What the rounds of the two have in common, and how far md5.c has taken  *)
(* the words of the block over into correct_words.                         *)
Registers == [0..3 -> Word32]

RoundsInv ==
  /\ regs1 = regs2 /\ state1 = state2
  /\ regs2 \in Registers
  /\ done \in Nat /\ step \in 0..64
  /\ done < Len(message) => x = Rounds!Decode(message[done + 1])
  /\ correct_words \in [0..15 -> Word32]
  /\ done < Len(message) => \A i \in 0..15 : i < step => correct_words[i] = x[i]

LEMMA DecodeGivesWords ==
  ASSUME NEW block
  PROVE  Rounds!Decode(block) \in [0..15 -> Word32]
BY DEF Rounds!Decode, Rounds!ShiftLeft, Rounds!Bits, Word32, Bits

LEMMA RoundsStart == Rounds!Init => RoundsInv
<1> SUFFICES ASSUME Rounds!Init
             PROVE  RoundsInv
  OBVIOUS
<1>1. ASSUME NEW hi, NEW lo
      PROVE  Rounds!BitsOfWord(hi, lo) \in Word32
  BY DEF Rounds!BitsOfWord, Rounds!ShiftLeft, Rounds!Bits, Word32, Bits
<1>2. Rounds!Magic \in Registers
  BY <1>1 DEF Rounds!Magic, Registers
<1>3. QED
  BY <1>2 DEF Rounds!Init, RoundsInv, Word32

(* correct_words after a step, and the word of it that the step adds.      *)
WordsAfter == IF step < 16
              THEN [correct_words EXCEPT ![step] = Rounds!Decode(message[done + 1])[step]]
              ELSE correct_words

WordAdded == IF step < 16 THEN WordsAfter[step]
             ELSE WordsAfter[Rounds!WordOf1[step \div 16][(step % 16) + 1]]

LEMMA SameWordOfBlock ==
  ASSUME RoundsInv, Rounds!Step
  PROVE  /\ WordAdded = x[Rounds!WordOf2(step)]
         /\ WordsAfter \in [0..15 -> Word32]
         /\ \A i \in 0..15 : i < step + 1 => WordsAfter[i] = x[i]
<1>1. /\ step \in 0..63 /\ done < Len(message)
      /\ x = Rounds!Decode(message[done + 1])
      /\ correct_words \in [0..15 -> Word32]
      /\ \A i \in 0..15 : i < step => correct_words[i] = x[i]
  BY DEF RoundsInv, Rounds!Step
<1>2. x \in [0..15 -> Word32]
  BY <1>1, DecodeGivesWords
<1>3. CASE step < 16
  <2>1. Rounds!WordOf2(step) = step /\ step \in 0..15
    BY <1>1, <1>3 DEF Rounds!WordOf2
  <2>2. WordsAfter = [correct_words EXCEPT ![step] = x[step]]
    BY <1>1, <1>3 DEF WordsAfter
  <2>3. WordAdded = WordsAfter[step]
    BY <1>3 DEF WordAdded
  <2>4. WordsAfter \in [0..15 -> Word32]
    BY <1>1, <1>2, <2>1, <2>2
  <2>5. \A i \in 0..15 : WordsAfter[i] = IF i = step THEN x[step] ELSE correct_words[i]
    BY <1>1, <2>1, <2>2
  <2>6. WordAdded = x[Rounds!WordOf2(step)]
    BY <2>1, <2>3, <2>5
  <2>7. \A i \in 0..15 : i < step + 1 => WordsAfter[i] = x[i]
    <3>1. \A i \in 0..15 : i < step + 1 => i < step \/ i = step
      BY <2>1
    <3>2. QED
      BY <1>1, <2>5, <3>1, Zenon
  <2>8. QED
    BY <2>4, <2>6, <2>7
<1>4. CASE step >= 16
  <2>1. step \in 16..63 /\ ~(step < 16)
    <3>1. step \in 0..63
      BY <1>1
    <3>2. QED
      BY <1>4, <3>1
  <2>2. Rounds!WordOf1[step \div 16][(step % 16) + 1] = Rounds!WordOf2(step)
    BY <2>1, SameWordOrder, Zenon
  <2>3. Rounds!WordOf2(step) \in 0..15
    <3>1. \A n \in Nat : n % 16 \in 0..15
      OBVIOUS
    <3>2. PICK n \in Nat : Rounds!WordOf2(step) = n % 16
      BY <2>1 DEF Rounds!WordOf2
    <3>3. QED
      BY <3>1, <3>2
  <2>4. WordsAfter = correct_words
    BY <2>1 DEF WordsAfter
  <2>5. WordAdded = correct_words[Rounds!WordOf2(step)]
    BY <2>1, <2>2, <2>4 DEF WordAdded
  <2>6. \A i \in 0..15 : correct_words[i] = x[i]
    <3>1. \A i \in 0..15 : i < step
      BY <2>1
    <3>2. QED
      BY <1>1, <3>1
  <2>7. WordAdded = x[Rounds!WordOf2(step)]
    BY <2>3, <2>5, <2>6
  <2>8. QED
    BY <1>1, <2>4, <2>6, <2>7
<1>5. QED
  BY <1>1, <1>3, <1>4

(* Both take the same step.                                                *)
LEMMA RoundsStep ==
  ASSUME RoundsInv, Rounds!Step
  PROVE  RoundsInv'
<1> DEFINE i == step
           k == Rounds!Target(i)
           round == i \div 16
           b == Rounds!Reg(regs2, i, 1)
           c == Rounds!Reg(regs2, i, 2)
           d == Rounds!Reg(regs2, i, 3)
           word == x[Rounds!WordOf2(i)]
           mixed == Mixed2(round, regs2[k], b, c, d, word, Rounds!Shift(i), Rounds!StepConstant(i))
<1>1. /\ i \in 0..63 /\ done < Len(message) /\ done \in Nat
      /\ regs1 = regs2 /\ state1 = state2 /\ regs2 \in Registers
      /\ x = Rounds!Decode(message[done + 1])
      /\ step' = step + 1 /\ UNCHANGED <<message, done, state1, state2, x>>
  BY DEF RoundsInv, Rounds!Step
<1>2. k \in 0..3
  BY <1>1 DEF Rounds!Target
<1>3. b \in Word32 /\ c \in Word32 /\ d \in Word32
  BY <1>1, <1>2 DEF Rounds!Reg, Registers
<1> HIDE DEF k, b, c, d, word, round, mixed
<1>4. mixed \in Word32
  BY MixedIsWord DEF mixed
<1>5. regs2' = [regs2 EXCEPT ![k] = mixed]
  BY RoundsMixed2
     DEF Rounds!Step, Rounds!Step2, k, b, c, d, word, round, mixed
<1>6. regs1' = [regs1 EXCEPT ![k] = mixed]
  <2>1. regs1' = [regs1 EXCEPT ![k] =
           Mixed1(round, regs1[k], b, c, d, word, Rounds!Shift(i), Rounds!StepConstant(i))]
    <3>1. regs1' = [regs1 EXCEPT ![k] =
             Rounds!Mixed1(round, regs1[k], b, c, d, word, Rounds!Shift(i), Rounds!StepConstant(i))]
      <4>1. Rounds!Step1(i)
        BY DEF Rounds!Step
      <4>2. WordAdded = word
        BY SameWordOfBlock DEF word
      <4>3. regs1' = [regs1 EXCEPT ![Rounds!Target(i)] =
               Rounds!Mixed1(i \div 16, regs1[Rounds!Target(i)], Rounds!Reg(regs1, i, 1),
                             Rounds!Reg(regs1, i, 2), Rounds!Reg(regs1, i, 3), WordAdded,
                             Rounds!Shift(i), Rounds!StepConstant(i))]
        BY <4>1 DEF Rounds!Step1, WordAdded, WordsAfter
      <4>4. QED
        BY <1>1, <4>2, <4>3 DEF k, b, c, d, round
    <3>2. QED
      BY <3>1, RoundsMixed1
  <2>2. regs1[k] = regs2[k]
    BY <1>1
  <2>3. Mixed1(round, regs2[k], b, c, d, word, Rounds!Shift(i), Rounds!StepConstant(i)) = mixed
    BY <1>3, SameStep DEF mixed
  <2>4. QED
    BY <2>1, <2>2, <2>3
<1>7. regs1' = regs2' /\ regs2' \in Registers
  BY <1>1, <1>2, <1>4, <1>5, <1>6 DEF Registers
<1>8. /\ correct_words' \in [0..15 -> Word32]
      /\ \A j \in 0..15 : j < step + 1 => correct_words'[j] = x[j]
  <2>1. correct_words' = WordsAfter
    BY DEF Rounds!Step, Rounds!Step1, WordsAfter
  <2>2. QED
    BY <2>1, SameWordOfBlock
<1>9. QED
  BY <1>1, <1>7, <1>8 DEF RoundsInv

LEMMA RoundsEndOfBlock ==
  ASSUME RoundsInv, Rounds!EndOfBlock
  PROVE  RoundsInv'
<1>1. /\ state1' = state2' /\ regs1' = regs2'
  BY DEF RoundsInv, Rounds!EndOfBlock
<1>2. regs2' \in Registers
  BY RoundsSum DEF Rounds!EndOfBlock, Rounds!Added, Registers, Sum32, Word32
<1>3. done' \in Nat /\ step' \in 0..64
  BY DEF RoundsInv, Rounds!EndOfBlock
<1>4. done' < Len(message') => x' = Rounds!Decode(message'[done' + 1])
  BY DEF RoundsInv, Rounds!EndOfBlock
<1>5. correct_words' \in [0..15 -> Word32] /\ \A i \in 0..15 : ~(i < step')
  BY DEF RoundsInv, Rounds!EndOfBlock
<1>6. QED
  BY <1>1, <1>2, <1>3, <1>4, <1>5 DEF RoundsInv

(* transform of Md5.cpp and md5_process_block of md5.c go through the same *)
(* registers and states, step by step, whatever the blocks: a block has    *)
(* the same key in both daemons.                                           *)
THEOREM AlwaysSameRegisters == MCSpec => []SameRegisters
<1>1. MCInit => RoundsInv
  BY RoundsStart DEF MCInit
<1>2. RoundsInv /\ [MCNext]_<<part, vars, ctxVars, roundVars>> => RoundsInv'
  <2> SUFFICES ASSUME RoundsInv, [MCNext]_<<part, vars, ctxVars, roundVars>>
               PROVE  RoundsInv'
    OBVIOUS
  <2>1. Rounds!Next \/ UNCHANGED roundVars
    BY DEF MCNext
  <2>2. CASE UNCHANGED roundVars
    BY <2>2 DEF roundVars, RoundsInv
  <2>3. QED
    BY <2>1, <2>2, RoundsStep, RoundsEndOfBlock DEF Rounds!Next
<1>3. RoundsInv => SameRegisters
  BY DEF RoundsInv, SameRegisters, Rounds!SameRegisters
<1>4. QED
  BY <1>1, <1>2, <1>3, PTL DEF MCSpec

-----------------------------------------------------------------------------
(* Quotients, remainders and double words.                                 *)

LEMMA Mono ==
  ASSUME NEW w \in Nat, NEW a \in Nat, NEW b \in Nat, a < b
  PROVE  w * a + w <= w * b
<1>1. b = a + 1 + (b - a - 1) /\ b - a - 1 \in Nat
  OBVIOUS
<1>2. w * b = w * a + w + w * (b - a - 1)
  BY <1>1
<1>3. w * (b - a - 1) \in Nat
  BY <1>1
<1>4. w * a \in Nat /\ w * b \in Nat
  OBVIOUS
<1>5. QED BY <1>2, <1>3, <1>4

LEMMA DivMod ==
  ASSUME NEW w \in Nat \ {0}, NEW a \in Nat
  PROVE  /\ a \div w \in Nat /\ a % w \in 0..w - 1
         /\ a = w * (a \div w) + (a % w)
OBVIOUS

(* Only one quotient and remainder make up a number.                       *)
LEMMA DivModUnique ==
  ASSUME NEW w \in Nat \ {0}, NEW q \in Nat, NEW r \in 0..w - 1, NEW a \in Nat, a = w * q + r
  PROVE  a \div w = q /\ a % w = r
<1> DEFINE p == a \div w
           s == a % w
<1>1. p \in Nat /\ s \in 0..w - 1 /\ a = w * p + s
  BY DivMod
<1> HIDE DEF p, s
<1>2. w * p \in Nat /\ w * q \in Nat
  BY <1>1
<1>3. CASE p < q
  <2>1. w * p + w <= w * q
    BY <1>1, <1>3, Mono
  <2>2. QED BY <1>1, <1>2, <2>1
<1>4. CASE q < p
  <2>1. w * q + w <= w * p
    BY <1>1, <1>4, Mono
  <2>2. QED BY <1>1, <1>2, <2>1
<1>5. CASE p = q
  BY <1>1, <1>2, <1>5 DEF p, s
<1>6. QED
  BY <1>1, <1>3, <1>4, <1>5

(* What is left of a sum may be taken of a term first.                     *)
LEMMA ModPlus ==
  ASSUME NEW w \in Nat \ {0}, NEW a \in Nat, NEW k \in Nat
  PROVE  ((a % w) + k) % w = (a + k) % w
<1> DEFINE b == (a % w) + k
<1>1. /\ a \div w \in Nat /\ a % w \in Nat /\ a = w * (a \div w) + (a % w)
  BY DivMod
<1>2. b \in Nat /\ b \div w \in Nat /\ b % w \in 0..w - 1 /\ b = w * (b \div w) + (b % w)
  <2>1. b \in Nat
    BY <1>1
  <2> HIDE DEF b
  <2>2. QED
    BY <2>1, DivMod
<1>3. a + k = w * ((a \div w) + (b \div w)) + (b % w)
  <2>1. a + k = w * (a \div w) + b
    BY <1>1
  <2>2. w * ((a \div w) + (b \div w)) = w * (a \div w) + w * (b \div w)
    BY <1>1, <1>2
  <2>3. w * (a \div w) \in Nat /\ w * (b \div w) \in Nat
    BY <1>1, <1>2
  <2> HIDE DEF b
  <2>4. QED
    BY <1>2, <2>1, <2>2, <2>3
<1> HIDE DEF b
<1>4. (a \div w) + (b \div w) \in Nat /\ a + k \in Nat
  BY <1>1, <1>2
<1>5. (a + k) % w = b % w
  <2> DEFINE sum == a + k
             quotient == (a \div w) + (b \div w)
             rest == b % w
  <2>1. sum \in Nat /\ quotient \in Nat /\ rest \in 0..w - 1 /\ sum = w * quotient + rest
    BY <1>2, <1>3, <1>4
  <2> HIDE DEF sum, quotient, rest
  <2>2. sum % w = rest
    BY <2>1, DivModUnique
  <2>3. QED
    BY <2>2 DEF sum, rest
<1>6. QED
  BY <1>5 DEF b

(* A low word that is less than what was added to it has overflowed, once: *)
(* both daemons add double words this way.                                 *)
LEMMA AddWithCarry ==
  ASSUME NEW w \in Nat \ {0}, NEW a \in Nat, NEW b \in Nat
  PROVE  LET low == ((a % w) + (b % w)) % w
         IN  /\ (a + b) % w = low
             /\ (a + b) \div w = (a \div w) + (b \div w) + (IF low < b % w THEN 1 ELSE 0)
<1> DEFINE p == a \div w
           r == a % w
           q == b \div w
           s == b % w
<1>1. p \in Nat /\ r \in 0..w - 1 /\ a = w * p + r
  BY DivMod
<1>2. q \in Nat /\ s \in 0..w - 1 /\ b = w * q + s
  BY DivMod
<1> HIDE DEF p, q, r, s
<1>3. w * (p + q) = w * p + w * q /\ w * p \in Nat /\ w * q \in Nat
  BY <1>1, <1>2
<1>4. a + b = w * (p + q) + (r + s) /\ p + q \in Nat /\ a + b \in Nat
  BY <1>1, <1>2, <1>3
<1>5. CASE r + s < w
  <2>1. (a + b) \div w = p + q /\ (a + b) % w = r + s
    BY <1>1, <1>2, <1>4, <1>5, DivModUnique
  <2>2. (r + s) % w = r + s
    BY <1>1, <1>2, <1>5
  <2>3. QED
    BY <1>1, <1>2, <2>1, <2>2 DEF p, q, r, s
<1>6. CASE r + s >= w
  <2>1. r + s - w \in 0..w - 1 /\ p + q + 1 \in Nat /\ w * (p + q + 1) = w * (p + q) + w
    BY <1>1, <1>2, <1>6
  <2>2. a + b = w * (p + q + 1) + (r + s - w)
    BY <1>1, <1>2, <1>3, <1>4, <2>1
  <2>3. (a + b) \div w = p + q + 1 /\ (a + b) % w = r + s - w
    <3> DEFINE sum == a + b
               quotient == p + q + 1
               rest == r + s - w
    <3>1. sum \in Nat /\ quotient \in Nat /\ rest \in 0..w - 1 /\ sum = w * quotient + rest
      BY <1>4, <2>1, <2>2
    <3> HIDE DEF sum, quotient, rest
    <3>2. sum \div w = quotient /\ sum % w = rest
      BY <3>1, DivModUnique
    <3>3. QED
      BY <3>2 DEF sum, quotient, rest
  <2>4. (r + s) % w = r + s - w
    <3>1. r + s = w * 1 + (r + s - w) /\ r + s \in Nat
      BY <1>1, <1>2
    <3>2. QED
      BY <2>1, <3>1, DivModUnique
  <2>5. r + s - w < s
    BY <1>1, <1>2
  <2>6. QED
    BY <1>1, <1>2, <2>3, <2>4, <2>5 DEF p, q, r, s
<1>7. QED
  BY <1>1, <1>2, <1>5, <1>6
-----------------------------------------------------------------------------
(* The count of Md5.cpp.                                                   *)

LEMMA WordHoldsBlocks == \E n \in Nat \ {0} : Word = 8 * BlockSize * n
<1>1. PICK n \in 1..Word : Word = 8 * BlockSize * n
  BY SizesAssumption
<1>2. QED
  BY <1>1, SizesAssumption

LEMMA Sizes ==
  BlockSize \in Nat \ {0} /\ Word \in Nat \ {0} /\ LengthSize \in Nat /\ LengthSize < BlockSize
<1>1. BlockSize \in Nat \ {0} /\ Word \in Nat
  BY SizesAssumption
<1>2. PICK n \in Nat \ {0} : Word = 8 * BlockSize * n
  BY WordHoldsBlocks
<1>3. 8 * BlockSize * n \in Nat \ {0}
  BY <1>1
<1>4. QED
  BY <1>1, <1>2, <1>3, SizesAssumption

(* A remainder may be taken in two steps, the first by a multiple of the   *)
(* second.                                                                 *)
LEMMA ModOfMod ==
  ASSUME NEW b \in Nat \ {0}, NEW n \in Nat \ {0}, NEW a \in Nat
  PROVE  (a % (b * n)) % b = a % b
<1> DEFINE v == b * n
           q == a \div v
           r == a % v
           p == r \div b
           s == r % b
<1>1. v \in Nat \ {0}
  BY SMT
<1> HIDE DEF v
<1>2. q \in Nat /\ r \in Nat /\ a = v * q + r
  BY <1>1, DivMod
<1> HIDE DEF q, r
<1>3. p \in Nat /\ s \in 0..b - 1 /\ r = b * p + s
  BY <1>2, DivMod
<1> HIDE DEF p, s
<1>4. v * q = b * (n * q) /\ n * q \in Nat
  BY <1>2 DEF v
<1>5. b * (n * q + p) = b * (n * q) + b * p
  BY <1>3, <1>4
<1> DEFINE k == n * q + p
<1>6. k \in Nat /\ a = b * k + s
  BY <1>2, <1>3, <1>4, <1>5
<1> HIDE DEF k
<1>7. a % b = s
  BY <1>3, <1>6, DivModUnique
<1>8. QED
  BY <1>7 DEF s, r, v

(* The bits of n bytes, in two words. *)
CountOf(n) == <<(8 * n) % Word, ((8 * n) \div Word) % Word>>

(* What the low word keeps of the number of bits says how many bytes are in*)
(* the buffer.                                                             *)
LEMMA IndexOfCount ==
  ASSUME NEW n \in Nat
  PROVE  Index(CountOf(n)) = n % BlockSize
<1>1. PICK k \in Nat \ {0} : Word = 8 * BlockSize * k
  BY WordHoldsBlocks
<1> DEFINE v == BlockSize * k
           q == n \div v
           r == n % v
           low == (8 * n) % Word
<1>2. v \in Nat \ {0} /\ Word = 8 * v
  BY <1>1, Sizes
<1> HIDE DEF v
<1>3. q \in Nat /\ r \in 0..v - 1 /\ n = v * q + r
  BY <1>2, DivMod
<1> HIDE DEF q, r
<1>4. Word * q = 8 * (v * q)
  BY <1>2, <1>3
<1>5. 8 * n = Word * q + 8 * r /\ 8 * r \in 0..Word - 1
  <2>1. v * q \in Nat
    BY <1>2, <1>3
  <2>2. QED
    BY <1>2, <1>3, <1>4, <2>1
<1>6. low = 8 * r
  <2> DEFINE a == 8 * n
             b == 8 * r
  <2>1. Word \in Nat \ {0} /\ q \in Nat /\ a \in Nat /\ b \in 0..Word - 1 /\ a = Word * q + b
    BY <1>3, <1>5, Sizes
  <2> HIDE DEF a, b
  <2>2. a % Word = b
    BY <2>1, DivModUnique
  <2>3. QED
    BY <2>2 DEF a, b
<1> HIDE DEF low
<1>7. low \div 8 = r
  BY <1>3, <1>6
<1>8. r % BlockSize = n % BlockSize
  BY <1>1, Sizes, ModOfMod DEF r, v
<1>9. Index(CountOf(n)) = (low \div 8) % BlockSize
  BY DEF Index, CountOf, low
<1>10. QED
  BY <1>7, <1>8, <1>9

(* The count after a piece, of whatever length, is that of all bytes.      *)
LEMMA CountAdds ==
  ASSUME NEW n \in Nat, NEW k \in Nat
  PROVE  CountAfter(CountOf(n), k) = CountOf(n + k)
<1> DEFINE a == 8 * n
           b == 8 * k
           added == b % Word
           low == ((a % Word) + added) % Word
           carry == IF low < added THEN 1 ELSE 0
<1>1. a \in Nat /\ b \in Nat /\ 8 * (n + k) = a + b
  OBVIOUS
<1>2. CountAfter(CountOf(n), k) = <<low, (((a \div Word) % Word) + carry + (b \div Word)) % Word>>
  BY DEF CountAfter, CountOf
<1> HIDE DEF a, b
<1>3. (a + b) % Word = low /\ (a + b) \div Word = (a \div Word) + (b \div Word) + carry
  BY <1>1, Sizes, AddWithCarry
<1>4. a \div Word \in Nat /\ b \div Word \in Nat /\ carry \in Nat
  BY <1>1, Sizes, DivMod
<1> HIDE DEF carry, low
<1>5. (((a \div Word) % Word) + carry + (b \div Word)) % Word
        = ((a \div Word) + carry + (b \div Word)) % Word
  <2> DEFINE h == a \div Word
             g == carry + (b \div Word)
  <2>1. h \in Nat /\ g \in Nat
    BY <1>4
  <2> HIDE DEF h, g
  <2>2. h % Word \in Nat
    BY <2>1, Sizes, DivMod
  <2>3. (h % Word) + carry + (b \div Word) = (h % Word) + g /\ h + carry + (b \div Word) = h + g
    BY <1>4, <2>1, <2>2 DEF g
  <2>4. ((h % Word) + g) % Word = (h + g) % Word
    BY <2>1, Sizes, ModPlus
  <2>5. QED
    BY <2>3, <2>4 DEF h
<1>6. (a \div Word) + carry + (b \div Word) = (a + b) \div Word
  BY <1>3, <1>4
<1>7. CountOf(n + k) = <<(a + b) % Word, ((a + b) \div Word) % Word>>
  BY <1>1 DEF CountOf
<1>8. QED
  BY <1>2, <1>3, <1>5, <1>6, <1>7

-----------------------------------------------------------------------------
(* The buffer and the blocks of Md5.cpp.                                   *)

Elements == Bytes \union Nat

(* The block after the first from elements of t. *)
BlockAt(t, from) == [p \in 1..BlockSize |-> t[from + p]]

LEMMA PartOf ==
  ASSUME NEW S, NEW t \in Seq(S), NEW a \in Nat, NEW n \in Nat, a + n <= Len(t)
  PROVE  /\ SubSeq(t, a + 1, a + n) = [p \in 1..n |-> t[a + p]]
         /\ SubSeq(t, a + 1, a + n) \in Seq(S) /\ Len(SubSeq(t, a + 1, a + n)) = n
<1> DEFINE u == SubSeq(t, a + 1, a + n)
<1>1. Len(t) \in Nat /\ \A i \in 1..Len(t) : t[i] \in S
  BY LenProperties, ElementOfSeq
<1>2. \A i \in a + 1..a + n : t[i] \in S
  BY <1>1
<1>3. a + 1 \in Int /\ a + n \in Int /\ (a + n) - (a + 1) + 1 = n /\ (a + 1 <= a + n <=> n # 0)
  OBVIOUS
<1>4. /\ u \in Seq(S) /\ Len(u) = IF a + 1 <= a + n THEN (a + n) - (a + 1) + 1 ELSE 0
      /\ \A i \in 1..(a + n) - (a + 1) + 1 : u[i] = t[(a + 1) + i - 1]
  BY <1>2, <1>3, SubSeqProperties
<1> HIDE DEF u
<1>5. u \in Seq(S) /\ Len(u) = n /\ \A i \in 1..n : u[i] = t[a + i]
  <2>1. \A i \in 1..n : (a + 1) + i - 1 = a + i
    OBVIOUS
  <2>2. Len(u) = n
    BY <1>3, <1>4
  <2>3. QED
    BY <1>3, <1>4, <2>1, <2>2
<1>6. u \in [1..n -> S]
  BY <1>5, LenProperties
<1>7. u = [p \in 1..n |-> t[a + p]]
  BY <1>5, <1>6
<1>8. QED
  BY <1>5, <1>7 DEF u

LEMMA BlocksOf ==
  ASSUME NEW S, NEW t \in Seq(S), NEW from \in Nat, NEW n \in Nat,
         from + n * BlockSize <= Len(t)
  PROVE  /\ Blocks(t, from, n) \in Seq(Seq(S)) /\ Len(Blocks(t, from, n)) = n
         /\ \A j \in 1..n : Blocks(t, from, n)[j] = BlockAt(t, from + (j - 1) * BlockSize)
<1> DEFINE u == Blocks(t, from, n)
<1>1. ASSUME NEW j \in 1..n
      PROVE  /\ u[j] = BlockAt(t, from + (j - 1) * BlockSize)
             /\ u[j] \in Seq(S)
  <2> DEFINE a == from + (j - 1) * BlockSize
  <2>1. (j - 1) * BlockSize \in Nat /\ (n - j) * BlockSize \in Nat
    BY Sizes
  <2>2. j * BlockSize = (j - 1) * BlockSize + BlockSize
    BY Sizes
  <2>3. n * BlockSize = j * BlockSize + (n - j) * BlockSize
    BY Sizes
  <2>4. a \in Nat /\ a + BlockSize <= Len(t) /\ from + j * BlockSize = a + BlockSize
    BY <2>1, <2>2, <2>3, Sizes, LenProperties
  <2>5. u[j] = SubSeq(t, a + 1, a + BlockSize)
    BY <2>4 DEF Blocks
  <2> HIDE DEF a, u
  <2>6. QED
    BY <2>4, <2>5, Sizes, PartOf DEF BlockAt, a
<1>2. u = [j \in 1..n |-> u[j]]
  BY DEF Blocks
<1> HIDE DEF u
<1>3. u \in [1..n -> Seq(S)]
  BY <1>1, <1>2
<1>4. u \in Seq(Seq(S)) /\ Len(u) = n
  BY <1>3
<1>5. QED
  BY <1>1, <1>4 DEF u

LEMMA ConcatElements ==
  ASSUME NEW S, NEW m \in Seq(S), NEW s \in Seq(S)
  PROVE  /\ m \o s \in Seq(S) /\ Len(m \o s) = Len(m) + Len(s)
         /\ Len(m) \in Nat /\ Len(s) \in Nat
         /\ \A i \in 1..Len(m) : (m \o s)[i] = m[i]
         /\ \A i \in 1..Len(s) : (m \o s)[Len(m) + i] = s[i]
<1> DEFINE t == m \o s
<1>1. Len(m) \in Nat /\ Len(s) \in Nat
  BY LenProperties
<1>2. /\ t \in Seq(S) /\ Len(t) = Len(m) + Len(s)
      /\ \A i \in 1..Len(m) + Len(s) : t[i] = IF i <= Len(m) THEN m[i] ELSE s[i - Len(m)]
  BY ConcatProperties
<1> HIDE DEF t
<1>3. ASSUME NEW i \in 1..Len(m)
      PROVE  t[i] = m[i]
  <2>1. i \in 1..Len(m) + Len(s) /\ i <= Len(m)
    BY <1>1
  <2>2. QED
    BY <1>2, <2>1
<1>4. ASSUME NEW i \in 1..Len(s)
      PROVE  t[Len(m) + i] = s[i]
  <2>1. /\ Len(m) + i \in 1..Len(m) + Len(s) /\ ~(Len(m) + i <= Len(m))
        /\ (Len(m) + i) - Len(m) = i
    BY <1>1
  <2>2. QED
    BY <1>2, <2>1
<1>5. QED
  BY <1>1, <1>2, <1>3, <1>4 DEF t

(* t has the elements of m, then those of s. *)
Follows(S, t, m, s) ==
  /\ t \in Seq(S) /\ Len(t) = Len(m) + Len(s) /\ Len(m) \in Nat /\ Len(s) \in Nat
  /\ \A i \in 1..Len(m) : t[i] = m[i]
  /\ \A i \in 1..Len(s) : t[Len(m) + i] = s[i]

LEMMA ConcatFollows ==
  ASSUME NEW S, NEW m \in Seq(S), NEW s \in Seq(S)
  PROVE  Follows(S, m \o s, m, s)
BY ConcatElements DEF Follows

Joins(S, all, old, first, more) ==
  /\ all \in Seq(S) /\ Len(all) = Len(old) + (1 + Len(more))
  /\ Len(old) \in Nat /\ Len(more) \in Nat
  /\ \A i \in 1..Len(old) : all[i] = old[i]
  /\ all[Len(old) + 1] = first
  /\ \A i \in 1..Len(more) : all[Len(old) + (1 + i)] = more[i]

LEMMA Joined ==
  ASSUME NEW S, NEW old \in Seq(S), NEW first \in S, NEW more \in Seq(S)
  PROVE  Joins(S, old \o (<<first>> \o more), old, first, more)
<1> DEFINE one == <<first>>
           w == one \o more
           all == old \o w
<1>1. one \in Seq(S) /\ Len(one) = 1 /\ one[1] = first
  OBVIOUS
<1> HIDE DEF one
<1>3. Follows(S, w, one, more)
  BY <1>1, ConcatFollows, Zenon
<1> HIDE DEF w
<1>4. w \in Seq(S) /\ Len(w) = 1 + Len(more) /\ Len(more) \in Nat
  BY <1>1, <1>3 DEF Follows
<1>5. Follows(S, all, old, w)
  BY <1>4, ConcatFollows, Zenon
<1> HIDE DEF all
<1>6. w[1] = first /\ \A i \in 1..Len(more) : w[1 + i] = more[i]
  BY <1>1, <1>3 DEF Follows
<1>7. 1 \in 1..Len(w) /\ \A i \in 1..Len(more) : 1 + i \in 1..Len(w)
  BY <1>4
<1>8. all[Len(old) + 1] = first
  BY <1>5, <1>6, <1>7 DEF Follows
<1>9. \A i \in 1..Len(more) : all[Len(old) + (1 + i)] = more[i]
  BY <1>5, <1>6, <1>7 DEF Follows
<1>10. QED
  BY <1>4, <1>5, <1>8, <1>9 DEF Follows, Joins, all, w, one

LEMMA Cut ==
  ASSUME NEW n \in Nat
  PROVE  /\ n \div BlockSize \in Nat /\ n % BlockSize \in 0..BlockSize - 1
         /\ BlockSize * (n \div BlockSize) \in Nat
         /\ n = BlockSize * (n \div BlockSize) + (n % BlockSize)
<1>1. BlockSize \in Nat \ {0}
  BY Sizes
<1>2. /\ n \div BlockSize \in Nat /\ n % BlockSize \in 0..BlockSize - 1
      /\ n = BlockSize * (n \div BlockSize) + (n % BlockSize)
  BY <1>1, DivMod
<1> DEFINE q == n \div BlockSize
<1> HIDE DEF q
<1>3. q \in Nat => BlockSize * q \in Nat
  BY <1>1
<1>4. QED
  BY <1>2, <1>3 DEF q

LEMMA CutIs ==
  ASSUME NEW n \in Nat, NEW q \in Nat, NEW r \in 0..BlockSize - 1, n = BlockSize * q + r
  PROVE  n \div BlockSize = q /\ n % BlockSize = r
<1>1. BlockSize \in Nat \ {0}
  BY Sizes
<1>2. QED
  BY <1>1, DivModUnique

LEMMA Commutes ==
  ASSUME NEW a \in Int, NEW b \in Int
  PROVE  a * b = b * a
OBVIOUS

(* The j-th of n blocks ends where they do, or before.                     *)
LEMMA BlocksFit ==
  ASSUME NEW n \in Nat, NEW j \in 1..n
  PROVE  /\ (j - 1) * BlockSize \in Nat
         /\ (j - 1) * BlockSize + BlockSize <= n * BlockSize
<1>1. BlockSize \in Nat
  BY Sizes
<1>2. (j - 1) * BlockSize \in Nat /\ (n - j) * BlockSize \in Nat
  BY <1>1
<1>3. n * BlockSize = (j - 1) * BlockSize + BlockSize + (n - j) * BlockSize
  BY <1>1
<1>4. QED
  BY <1>1, <1>2, <1>3

LEMMA BlocksFromStart ==
  ASSUME NEW S, NEW t \in Seq(S), NEW n \in Nat, n * BlockSize <= Len(t)
  PROVE  /\ Blocks(t, 0, n) \in Seq(Seq(S)) /\ Len(Blocks(t, 0, n)) = n
         /\ \A j \in 1..n : Blocks(t, 0, n)[j] = BlockAt(t, (j - 1) * BlockSize)
<1>1. 0 + n * BlockSize <= Len(t) /\ 0 \in Nat
  BY Sizes
<1>2. \A j \in 1..n : 0 + (j - 1) * BlockSize = (j - 1) * BlockSize
  BY Sizes
<1>3. /\ Blocks(t, 0, n) \in Seq(Seq(S)) /\ Len(Blocks(t, 0, n)) = n
      /\ \A j \in 1..n : Blocks(t, 0, n)[j] = BlockAt(t, 0 + (j - 1) * BlockSize)
  BY <1>1, BlocksOf, Zenon
<1>4. QED
  BY <1>2, <1>3, Zenon

(* The blocks of the beginning of a message are those of the message.      *)
LEMMA SameBlocks ==
  ASSUME NEW S, NEW t \in Seq(S), NEW m \in Seq(S), NEW n \in Nat,
         n * BlockSize <= Len(m), Len(m) <= Len(t), \A i \in 1..Len(m) : t[i] = m[i]
  PROVE  Blocks(t, 0, n) = Blocks(m, 0, n)
<1> DEFINE u == Blocks(t, 0, n)
           v == Blocks(m, 0, n)
<1>1. n * BlockSize \in Nat /\ Len(m) \in Nat /\ Len(t) \in Nat /\ BlockSize \in Nat
  BY Sizes, LenProperties
<1>2. 0 + n * BlockSize <= Len(m) /\ 0 + n * BlockSize <= Len(t)
  BY <1>1
<1>3. /\ u \in Seq(Seq(S)) /\ Len(u) = n
      /\ \A j \in 1..n : u[j] = BlockAt(t, 0 + (j - 1) * BlockSize)
  BY <1>2, BlocksOf
<1>4. /\ v \in Seq(Seq(S)) /\ Len(v) = n
      /\ \A j \in 1..n : v[j] = BlockAt(m, 0 + (j - 1) * BlockSize)
  BY <1>2, BlocksOf
<1> HIDE DEF u, v
<1>5. ASSUME NEW j \in 1..n
      PROVE  u[j] = v[j]
  <2> DEFINE from == 0 + (j - 1) * BlockSize
  <2>1. from \in Nat /\ from + BlockSize <= Len(m)
    BY <1>1, BlocksFit
  <2> HIDE DEF from
  <2>2. \A p \in 1..BlockSize : from + p \in 1..Len(m)
    BY <1>1, <2>1
  <2>3. BlockAt(t, from) = BlockAt(m, from)
    BY <2>2 DEF BlockAt
  <2>4. QED
    BY <1>3, <1>4, <2>3 DEF from
<1>6. u = v
  BY <1>3, <1>4, <1>5, SeqEqual
<1>7. QED
  BY <1>6 DEF u, v

(* A context that has absorbed m: its blocks in state, the rest in buffer. *)
Represents(c, m) ==
  /\ c.count = CountOf(Len(m))
  /\ c.state = InBlocks(m)
  /\ \A p \in 1..Len(m) % BlockSize : c.buffer[p] = m[BlockSize * (Len(m) \div BlockSize) + p]

(* update, of a piece that does not fill the buffer.                       *)
LEMMA AbsorbShort ==
  ASSUME NEW m \in Seq(Elements), NEW s \in Seq(Elements), NEW c, Represents(c, m),
         Len(s) < BlockSize - (Len(m) % BlockSize)
  PROVE  Represents(Absorb(c, s), m \o s)
<1> DEFINE t == m \o s
           q == Len(m) \div BlockSize
           r == Len(m) % BlockSize
           k == r + Len(s)
           start == BlockSize * q
           d == Absorb(c, s)
<1>1. /\ t \in Seq(Elements) /\ Len(t) = Len(m) + Len(s) /\ Len(m) \in Nat /\ Len(s) \in Nat
      /\ \A i \in 1..Len(m) : t[i] = m[i]
      /\ \A i \in 1..Len(s) : t[Len(m) + i] = s[i]
  BY ConcatElements
<1>2. BlockSize \in Nat \ {0}
  BY Sizes
<1>3. q \in Nat /\ r \in 0..BlockSize - 1 /\ Len(m) = start + r /\ start \in Nat
  BY <1>1, Cut
<1>4. Index(c.count) = r
  BY <1>1, IndexOfCount DEF Represents
<1>5. d.count = CountOf(Len(t))
  <2>1. d.count = CountAfter(c.count, Len(s))
    BY DEF Absorb
  <2>2. QED
    BY <1>1, <2>1, CountAdds DEF Represents
<1>6. c.state = Blocks(m, 0, q) /\ \A p \in 1..r : c.buffer[p] = m[start + p]
  BY DEF Represents, InBlocks
<1>7. d.state = c.state /\ d.buffer = CopyTo(c.buffer, r, s)
  <2>1. ~(Len(s) >= BlockSize - Index(c.count))
    BY <1>1, <1>2, <1>3, <1>4
  <2>2. QED
    BY <1>4, <2>1 DEF Absorb
<1>8. Len(s) < BlockSize - r
  OBVIOUS
<1>9. q * BlockSize = start
  BY <1>2, <1>3, Commutes
<1>10. Represents(d, t) <=>
         /\ d.count = CountOf(Len(t)) /\ d.state = Blocks(t, 0, Len(t) \div BlockSize)
         /\ \A p \in 1..Len(t) % BlockSize : d.buffer[p] = t[BlockSize * (Len(t) \div BlockSize) + p]
  BY DEF Represents, InBlocks
<1>11. Len(t) \div BlockSize = q /\ Len(t) % BlockSize = k
  <2> HIDE DEF t, q, r, start, k
  <2> DEFINE sum == Len(t)
  <2>1. k \in 0..BlockSize - 1 /\ sum = start + k /\ sum \in Nat
    BY <1>1, <1>2, <1>3, <1>8 DEF k
  <2> HIDE DEF sum
  <2>2. sum = BlockSize * q + k
    BY <2>1 DEF start
  <2>3. sum \div BlockSize = q /\ sum % BlockSize = k
    BY <1>3, <2>1, <2>2, CutIs
  <2>4. QED
    BY <2>3 DEF sum
<1>12. Blocks(t, 0, q) = Blocks(m, 0, q)
  <2> HIDE DEF t, q, r, start
  <2>1. q * BlockSize <= Len(m) /\ Len(m) <= Len(t)
    BY <1>1, <1>3, <1>9
  <2>2. QED
    BY <1>1, <1>3, <2>1, SameBlocks
<1>13. ASSUME NEW p \in 1..k
       PROVE  d.buffer[p] = t[start + p]
  <2> HIDE DEF d, t, q, r, start
  <2>1. p \in 1..BlockSize
    BY <1>1, <1>2, <1>3, <1>8
  <2>2. d.buffer[p] = IF p \in r + 1..r + Len(s) THEN s[p - r] ELSE c.buffer[p]
    BY <1>7, <2>1 DEF CopyTo
  <2>3. CASE p <= r
    <3>1. p \in 1..r /\ p \notin r + 1..r + Len(s) /\ start + p \in 1..Len(m)
      BY <1>1, <1>3, <2>3
    <3>2. QED
      BY <1>1, <1>6, <2>2, <3>1
  <2>4. CASE p > r
    <3>1. p \in r + 1..r + Len(s) /\ p - r \in 1..Len(s) /\ Len(m) + (p - r) = start + p
      BY <1>1, <1>3, <2>4
    <3>2. t[Len(m) + (p - r)] = s[p - r]
      BY <1>1, <3>1
    <3>3. QED
      BY <2>2, <3>1, <3>2
  <2>5. QED
    BY <1>3, <2>3, <2>4
<1> HIDE DEF t, d, q, r, k
<1>14. Represents(d, t)
  BY <1>5, <1>6, <1>7, <1>10, <1>11, <1>12, <1>13 DEF start
<1>15. QED
  BY <1>14 DEF d, t

(* update, of a piece that fills the buffer and perhaps more blocks.       *)
LEMMA AbsorbLong ==
  ASSUME NEW m \in Seq(Elements), NEW s \in Seq(Elements), NEW c, Represents(c, m),
         Len(s) >= BlockSize - (Len(m) % BlockSize)
  PROVE  Represents(Absorb(c, s), m \o s)
<1> DEFINE t == m \o s
           q == Len(m) \div BlockSize
           r == Len(m) % BlockSize
           start == BlockSize * q
           d == Absorb(c, s)
           f == BlockSize - r
           n == (Len(s) - f) \div BlockSize
           rest == (Len(s) - f) % BlockSize
           i == f + n * BlockSize
           filled == CopyTo(c.buffer, r, SubSeq(s, 1, f))
           more == Blocks(s, f, n)
           size == q + 1 + n
<1>1. /\ t \in Seq(Elements) /\ Len(t) = Len(m) + Len(s) /\ Len(m) \in Nat /\ Len(s) \in Nat
      /\ \A k \in 1..Len(m) : t[k] = m[k]
      /\ \A k \in 1..Len(s) : t[Len(m) + k] = s[k]
  BY ConcatElements
<1>2. BlockSize \in Nat \ {0}
  BY Sizes
<1>3. q \in Nat /\ r \in 0..BlockSize - 1 /\ Len(m) = start + r /\ start \in Nat
  BY <1>1, Cut
<1>4. Index(c.count) = r
  BY <1>1, IndexOfCount DEF Represents
<1>5. d.count = CountOf(Len(t))
  <2>1. d.count = CountAfter(c.count, Len(s))
    BY DEF Absorb
  <2>2. QED
    BY <1>1, <2>1, CountAdds DEF Represents
<1>6. c.state = Blocks(m, 0, q) /\ \A p \in 1..r : c.buffer[p] = m[start + p]
  BY DEF Represents, InBlocks
<1>7. Len(s) >= f
  OBVIOUS
<1>8. /\ d.state = c.state \o (<<filled>> \o more)
      /\ d.buffer = CopyTo(filled, 0, SubSeq(s, i + 1, Len(s)))
  <2>1. Len(s) >= BlockSize - Index(c.count)
    BY <1>4
  <2>2. QED
    BY <1>4, <2>1 DEF Absorb, Transformed
<1>9. q * BlockSize = start
  BY <1>2, <1>3, Commutes
<1>10. Represents(d, t) <=>
         /\ d.count = CountOf(Len(t)) /\ d.state = Blocks(t, 0, Len(t) \div BlockSize)
         /\ \A p \in 1..Len(t) % BlockSize : d.buffer[p] = t[BlockSize * (Len(t) \div BlockSize) + p]
  BY DEF Represents, InBlocks
<1> DEFINE left == Len(s) - f
           wholes == BlockSize * n
<1> HIDE DEF t, q, r
<1>11. f \in Nat /\ left \in Nat /\ f + r = BlockSize /\ f > 0
  BY <1>1, <1>2, <1>3, <1>7
<1>12. n \in Nat /\ rest \in 0..BlockSize - 1 /\ wholes \in Nat /\ left = wholes + rest
  <2>1. /\ n = left \div BlockSize /\ rest = left % BlockSize
        /\ wholes = BlockSize * (left \div BlockSize)
    OBVIOUS
  <2> HIDE DEF left, n, rest, wholes
  <2>2. QED
    BY <1>11, <2>1, Cut
<1> HIDE DEF n, rest, start, d
<1>13. i = f + wholes /\ i \in Nat /\ Len(s) = i + rest
  <2>1. n * BlockSize = wholes
    BY <1>2, <1>12, Commutes
  <2> HIDE DEF wholes, f
  <2>2. i = f + wholes
    BY <2>1
  <2> HIDE DEF i
  <2>3. QED
    BY <1>1, <1>11, <1>12, <2>2 DEF left
<1> HIDE DEF left, i, f, wholes
<1>14. size \in Nat /\ BlockSize * size = start + BlockSize + wholes /\ Len(m) + i = start + BlockSize + wholes
  <2>1. BlockSize * (q + 1 + n) = BlockSize * q + BlockSize + BlockSize * n
    BY <1>2, <1>3, <1>12
  <2>2. BlockSize * size = start + BlockSize + wholes
    BY <2>1 DEF start, wholes
  <2>3. Len(m) + i = start + BlockSize + wholes
    BY <1>1, <1>2, <1>3, <1>11, <1>12, <1>13
  <2>4. QED
    BY <1>3, <1>12, <2>2, <2>3
<1> HIDE DEF size
<1>15. Len(t) \div BlockSize = size /\ Len(t) % BlockSize = rest
  <2> DEFINE sum == Len(t)
             whole == BlockSize * size
  <2>0. whole = start + BlockSize + wholes
    BY <1>14
  <2> HIDE DEF sum, whole
  <2>1. sum \in Nat /\ whole \in Nat /\ sum = whole + rest
    <3>1. sum = Len(m) + Len(s) /\ Len(m) \in Nat
      BY <1>1 DEF sum
    <3>2. /\ Len(s) = i + rest /\ Len(m) + i = start + BlockSize + wholes
          /\ start \in Nat /\ BlockSize \in Nat /\ wholes \in Nat /\ rest \in Nat /\ i \in Nat
      BY <1>2, <1>3, <1>12, <1>13, <1>14
    <3>3. QED
      BY <2>0, <3>1, <3>2
  <2>2. sum = BlockSize * size + rest
    BY <2>1 DEF whole
  <2>3. sum \div BlockSize = size /\ sum % BlockSize = rest
    BY <1>12, <1>14, <2>1, <2>2, CutIs
  <2>4. QED
    BY <2>3 DEF sum
(* The buffer, filled, is the block that earlier pieces have begun.        *)
<1>16. filled = BlockAt(t, start)
  <2> DEFINE first == SubSeq(s, 1, f)
  <2>1. first = [p \in 1..f |-> s[0 + p]] /\ Len(first) = f
    <3>1. 0 + f <= Len(s) /\ 0 + 1 = 1 /\ 0 + f = f
      BY <1>1, <1>11, <1>12, <1>13
    <3>2. SubSeq(s, 0 + 1, 0 + f) = [p \in 1..f |-> s[0 + p]] /\ Len(SubSeq(s, 0 + 1, 0 + f)) = f
      BY <1>11, <3>1, PartOf
    <3>3. QED
      BY <3>1, <3>2
  <2> HIDE DEF first
  <2>2. ASSUME NEW p \in 1..BlockSize
        PROVE  (IF p \in r + 1..r + Len(first) THEN first[p - r] ELSE c.buffer[p]) = t[start + p]
    <3>1. CASE p <= r
      <4>1. p \in 1..r /\ p \notin r + 1..r + Len(first) /\ start + p \in 1..Len(m)
        BY <1>3, <1>11, <2>1, <3>1
      <4>2. QED
        BY <1>1, <1>6, <4>1
    <3>2. CASE p > r
      <4>1. /\ p \in r + 1..r + Len(first) /\ p - r \in 1..f /\ p - r \in 1..Len(s)
            /\ Len(m) + (p - r) = start + p /\ 0 + (p - r) = p - r
        BY <1>1, <1>2, <1>3, <1>11, <1>12, <1>13, <2>1, <3>2
      <4>2. t[Len(m) + (p - r)] = s[p - r]
        BY <1>1, <4>1
      <4>3. first[p - r] = s[p - r]
        BY <2>1, <4>1
      <4>4. QED
        BY <4>1, <4>2, <4>3
    <3>3. QED
      BY <1>3, <3>1, <3>2
  <2>3. filled = [p \in 1..BlockSize |-> t[start + p]]
    BY <2>2 DEF CopyTo, first
  <2>4. QED
    BY <2>3 DEF BlockAt
<1>17. ASSUME NEW from \in Nat, from + BlockSize <= Len(t)
       PROVE  BlockAt(t, from) \in Seq(Elements)
  <2>1. \A p \in 1..BlockSize : from + p \in 1..Len(t)
    BY <1>1, <1>2, <1>17
  <2>2. \A p \in 1..BlockSize : t[from + p] \in Elements
    BY <1>1, <2>1, ElementOfSeq
  <2>3. QED
    BY <1>2, <2>2 DEF BlockAt
<1>18. start + BlockSize <= Len(t)
  BY <1>1, <1>2, <1>3, <1>11, <1>12, <1>13
<1> HIDE DEF filled
<1>19. /\ more \in Seq(Seq(Elements)) /\ Len(more) = n
       /\ \A j \in 1..n : more[j] = BlockAt(t, start + BlockSize + (j - 1) * BlockSize)
  <2>1. f + n * BlockSize <= Len(s)
    <3>1. i <= Len(s)
      BY <1>1, <1>12, <1>13
    <3>2. QED
      BY <3>1 DEF i
  <2>2. /\ more \in Seq(Seq(Elements)) /\ Len(more) = n
        /\ \A j \in 1..n : more[j] = BlockAt(s, f + (j - 1) * BlockSize)
    BY <1>11, <1>12, <2>1, BlocksOf
  <2> HIDE DEF more
  <2>3. ASSUME NEW j \in 1..n
        PROVE  BlockAt(s, f + (j - 1) * BlockSize) = BlockAt(t, start + BlockSize + (j - 1) * BlockSize)
    <3> DEFINE a == (j - 1) * BlockSize
               e == n * BlockSize
    <3>1. a \in Nat /\ a + BlockSize <= e /\ f + e <= Len(s) /\ e \in Nat
      BY <1>2, <1>12, <2>1, BlocksFit
    <3> HIDE DEF a, e
    <3>2. ASSUME NEW p \in 1..BlockSize
          PROVE  s[f + a + p] = t[start + BlockSize + a + p]
      <4>1. f + a + p \in 1..Len(s) /\ Len(m) + (f + a + p) = start + BlockSize + a + p
        BY <1>1, <1>2, <1>3, <1>11, <3>1
      <4>2. QED
        BY <1>1, <4>1
    <3>3. BlockAt(s, f + a) = BlockAt(t, start + BlockSize + a)
      BY <3>2 DEF BlockAt
    <3>4. QED
      BY <3>3 DEF a
  <2>4. QED
    BY <2>2, <2>3
<1> HIDE DEF more
<1>20. c.state \o (<<filled>> \o more) = Blocks(t, 0, size)
  <2> DEFINE old == Blocks(m, 0, q)
             new == Blocks(t, 0, size)
             u == old \o (<<filled>> \o more)
             v == Blocks(t, 0, q)
  <2>1. BlockSize * size <= Len(t) /\ size * BlockSize = BlockSize * size
    <3>1. BlockSize * size = start + BlockSize + wholes /\ Len(t) = Len(m) + Len(s)
      BY <1>1, <1>14
    <3>2. /\ Len(m) + i = start + BlockSize + wholes /\ Len(s) = i + rest
          /\ Len(m) \in Nat /\ rest \in Nat /\ i \in Nat
      BY <1>1, <1>12, <1>13, <1>14
    <3> HIDE DEF t
    <3>3. start + BlockSize + wholes <= Len(t)
      BY <3>1, <3>2
    <3>4. QED
      BY <1>2, <1>14, <3>1, <3>3, Commutes
  <2>2. /\ new \in Seq(Seq(Elements)) /\ Len(new) = size
        /\ \A j \in 1..size : new[j] = BlockAt(t, (j - 1) * BlockSize)
    <3>1. size * BlockSize <= Len(t) /\ size \in Nat /\ t \in Seq(Elements)
      BY <1>1, <1>14, <2>1
    <3>2. QED
      BY <3>1, BlocksFromStart, Zenon
  <2>3. /\ v \in Seq(Seq(Elements)) /\ Len(v) = q
        /\ \A j \in 1..q : v[j] = BlockAt(t, (j - 1) * BlockSize)
    <3>1. q * BlockSize <= Len(t) /\ q \in Nat /\ t \in Seq(Elements)
      BY <1>1, <1>3, <1>9
    <3>2. QED
      BY <3>1, BlocksFromStart, Zenon
  <2>4. v = old
    <3>1. q * BlockSize <= Len(m) /\ Len(m) <= Len(t)
      BY <1>1, <1>3, <1>9
    <3>2. QED
      BY <1>1, <1>3, <3>1, SameBlocks
  <2> HIDE DEF old, new, v
  <2>5. filled \in Seq(Elements)
    BY <1>3, <1>16, <1>17, <1>18
  <2>6. /\ u \in Seq(Seq(Elements)) /\ Len(u) = q + (1 + n)
        /\ \A j \in 1..q : u[j] = old[j]
        /\ u[q + 1] = filled
        /\ \A j \in 1..n : u[q + (1 + j)] = more[j]
    <3>1. Joins(Seq(Elements), u, old, filled, more)
      BY <1>19, <2>3, <2>4, <2>5, Joined, Zenon
    <3>2. Len(old) = q /\ Len(more) = n
      BY <1>19, <2>3, <2>4
    <3> HIDE DEF u
    <3>3. QED
      BY <3>1, <3>2 DEF Joins
  <2> HIDE DEF u
  <2>7. ASSUME NEW j \in 1..size
        PROVE  u[j] = new[j]
    <3>1. CASE j <= q
      <4>1. j \in 1..q
        BY <1>3, <1>14, <3>1
      <4>2. QED
        BY <2>2, <2>3, <2>4, <2>6, <4>1
    <3>2. CASE j = q + 1
      <4>1. j - 1 = q
        BY <1>3, <3>2
      <4>2. u[j] = filled /\ new[j] = BlockAt(t, start)
        BY <1>9, <2>2, <2>6, <3>2, <4>1
      <4>3. QED
        BY <1>16, <4>2
    <3>3. CASE j > q + 1
      <4> DEFINE k == j - (q + 1)
      <4>1. k \in 1..n /\ j = q + (1 + k) /\ j - 1 = q + 1 + (k - 1)
        BY <1>3, <1>12, <3>3 DEF size
      <4> HIDE DEF k
      <4>2. (j - 1) * BlockSize = start + BlockSize + (k - 1) * BlockSize
        <5>1. (q + 1 + (k - 1)) * BlockSize = q * BlockSize + BlockSize + (k - 1) * BlockSize
          BY <1>2, <1>3, <1>12, <4>1
        <5>2. QED
          BY <1>9, <4>1, <5>1
      <4>3. u[j] = more[k]
        BY <2>6, <4>1
      <4>4. more[k] = BlockAt(t, start + BlockSize + (k - 1) * BlockSize)
        BY <1>19, <4>1
      <4>5. new[j] = BlockAt(t, (j - 1) * BlockSize)
        BY <2>2
      <4>6. QED
        BY <4>2, <4>3, <4>4, <4>5
    <3>4. QED
      BY <1>3, <3>1, <3>2, <3>3
  <2>8. u = new
    <3>1. Len(u) = Len(new)
      BY <1>3, <1>12, <2>2, <2>6 DEF size
    <3>2. QED
      BY <2>2, <2>6, <2>7, <3>1, SeqEqual
  <2>9. QED
    BY <1>6, <2>8 DEF u, old, new
<1>21. ASSUME NEW p \in 1..rest
       PROVE  d.buffer[p] = t[BlockSize * size + p]
  <2> DEFINE tail == SubSeq(s, i + 1, Len(s))
  <2>1. tail = [k \in 1..rest |-> s[i + k]] /\ Len(tail) = rest
    <3>1. i + rest <= Len(s) /\ Len(s) = i + rest /\ rest \in Nat /\ i \in Nat
      BY <1>12, <1>13
    <3>2. /\ SubSeq(s, i + 1, i + rest) = [k \in 1..rest |-> s[i + k]]
          /\ Len(SubSeq(s, i + 1, i + rest)) = rest
      BY <3>1, PartOf
    <3>3. QED
      BY <3>1, <3>2
  <2>2. p \in 1..BlockSize /\ p \in 0 + 1..0 + rest /\ p - 0 = p
    BY <1>2, <1>12
  <2>3. d.buffer = CopyTo(filled, 0, tail)
    BY <1>8
  <2> HIDE DEF tail
  <2>4. d.buffer[p] = tail[p]
    BY <2>1, <2>2, <2>3 DEF CopyTo
  <2>5. tail[p] = s[i + p]
    BY <2>1
  <2>6. i + p \in 1..Len(s) /\ Len(m) + (i + p) = BlockSize * size + p
    <3> DEFINE whole == BlockSize * size
    <3>1. Len(m) + i = whole
      BY <1>14
    <3> HIDE DEF whole
    <3>2. i + p \in 1..Len(s) /\ Len(m) + (i + p) = whole + p
      <4>1. i \in Nat /\ rest \in Nat /\ Len(m) \in Nat /\ Len(s) = i + rest
        BY <1>1, <1>12, <1>13
      <4>2. QED
        BY <3>1, <4>1
    <3>3. QED
      BY <3>2 DEF whole
  <2>7. QED
    BY <1>1, <2>4, <2>5, <2>6
<1>22. Represents(d, t)
  BY <1>5, <1>8, <1>10, <1>15, <1>20, <1>21
<1>23. QED
  BY <1>22 DEF d, t

(* update: what has absorbed m and absorbs s has absorbed m \o s.          *)
LEMMA AbsorbRepresents ==
  ASSUME NEW m \in Seq(Elements), NEW s \in Seq(Elements), NEW c, Represents(c, m)
  PROVE  Represents(Absorb(c, s), m \o s)
<1>1. Len(m) \in Nat /\ Len(s) \in Nat
  BY LenProperties
<1>2. Len(s) \in Int /\ BlockSize - (Len(m) % BlockSize) \in Int
  BY <1>1, Cut, Sizes
<1>3. CASE Len(s) < BlockSize - (Len(m) % BlockSize)
  BY <1>3, AbsorbShort
<1>4. CASE Len(s) >= BlockSize - (Len(m) % BlockSize)
  BY <1>4, AbsorbLong
<1>5. QED
  BY <1>2, <1>3, <1>4

(* A message has one padding that ends a block.                            *)
LEMMA OnePadding ==
  ASSUME NEW a \in Nat, NEW z1 \in 0..BlockSize - 1, NEW z2 \in 0..BlockSize - 1,
         (a + z1) % BlockSize = 0, (a + z2) % BlockSize = 0, z1 < z2
  PROVE  FALSE
<1> DEFINE p == a + z1
           q == a + z2
           i == p \div BlockSize
           j == q \div BlockSize
<1>1. BlockSize \in Nat \ {0}
  BY Sizes
<1>2. p \in Nat /\ q \in Nat /\ p < q /\ q < p + BlockSize /\ p % BlockSize = 0 /\ q % BlockSize = 0
  BY <1>1
<1> HIDE DEF p, q
<1>3. i \in Nat /\ j \in Nat /\ p = BlockSize * i /\ q = BlockSize * j
  <2>1. /\ i \in Nat /\ BlockSize * i \in Nat /\ p = BlockSize * i + (p % BlockSize)
        /\ j \in Nat /\ BlockSize * j \in Nat /\ q = BlockSize * j + (q % BlockSize)
    BY <1>2, Cut
  <2> HIDE DEF i, j
  <2>2. QED
    BY <1>2, <2>1
<1> HIDE DEF i, j
<1>4. CASE i < j
  <2>1. BlockSize * i + BlockSize <= BlockSize * j
    BY <1>1, <1>3, <1>4, Mono
  <2>2. QED
    BY <1>1, <1>2, <1>3, <2>1
<1>5. CASE j < i
  <2>1. BlockSize * j + BlockSize <= BlockSize * i
    BY <1>1, <1>3, <1>5, Mono
  <2>2. QED
    BY <1>1, <1>2, <1>3, <2>1
<1>6. CASE i = j
  BY <1>2, <1>3, <1>6
<1>7. QED
  BY <1>3, <1>4, <1>5, <1>6

(* finalize adds that padding.                                             *)
LEMMA PadLenEndsBlock ==
  ASSUME NEW n \in Nat
  PROVE  LET k == PadLen(n % BlockSize)
         IN  /\ k \in 1..BlockSize
             /\ ((n + 1 + LengthSize) + (k - 1)) % BlockSize = 0
<1> DEFINE r == n % BlockSize
           q == n \div BlockSize
           whole == BlockSize * q
           k == PadLen(r)
           all == (n + 1 + LengthSize) + (k - 1)
<1>1. /\ BlockSize \in Nat \ {0} /\ LengthSize \in Nat /\ LengthSize < BlockSize
      /\ q \in Nat /\ r \in 0..BlockSize - 1 /\ whole \in Nat /\ n = whole + r
  BY Sizes, Cut
<1> HIDE DEF r
<1>2. CASE r < BlockSize - LengthSize
  <2>1. k = BlockSize - LengthSize - r
    BY <1>2 DEF PadLen
  <2> HIDE DEF k, q, whole
  <2>2. k \in 1..BlockSize /\ all = whole + BlockSize /\ all \in Nat
    BY <1>1, <1>2, <2>1
  <2>3. BlockSize * (q + 1) = BlockSize * q + BlockSize /\ q + 1 \in Nat /\ 0 \in 0..BlockSize - 1
    BY <1>1
  <2> HIDE DEF all
  <2>4. all = BlockSize * (q + 1) + 0
    <3>1. BlockSize * (q + 1) = whole + BlockSize
      BY <2>3 DEF whole
    <3>2. all = whole + BlockSize + 0
      BY <1>1, <2>2
    <3>3. QED
      BY <3>1, <3>2
  <2>5. all % BlockSize = 0
    BY <2>2, <2>3, <2>4, CutIs
  <2>6. QED
    BY <2>2, <2>5 DEF all, k, r
<1>3. CASE r >= BlockSize - LengthSize
  <2>1. k = 2 * BlockSize - LengthSize - r
    BY <1>1, <1>3 DEF PadLen
  <2> HIDE DEF k, q, whole
  <2>2. k \in 1..BlockSize /\ all = whole + 2 * BlockSize /\ all \in Nat
    BY <1>1, <1>3, <2>1
  <2>3. BlockSize * (q + 2) = BlockSize * q + 2 * BlockSize /\ q + 2 \in Nat /\ 0 \in 0..BlockSize - 1
    BY <1>1
  <2> HIDE DEF all
  <2>4. all = BlockSize * (q + 2) + 0
    <3>1. BlockSize * (q + 2) = whole + 2 * BlockSize
      BY <2>3 DEF whole
    <3>2. all = whole + 2 * BlockSize + 0
      BY <1>1, <2>2
    <3>3. QED
      BY <3>1, <3>2
  <2>5. all % BlockSize = 0
    BY <2>2, <2>3, <2>4, CutIs
  <2>6. QED
    BY <2>2, <2>5 DEF all, k, r
<1>4. QED
  BY <1>1, <1>2, <1>3

LEMMA PaddedIs ==
  ASSUME NEW S, NEW m \in Seq(S)
  PROVE  Padded(m) = (m \o Padding(PadLen(Len(m) % BlockSize))) \o Encode(CountOf(Len(m)))
<1> DEFINE n == Len(m)
           k == PadLen(n % BlockSize)
           Ends(z) == (n + 1 + z + LengthSize) % BlockSize = 0
           zeros == CHOOSE z \in 0..BlockSize - 1 : Ends(z)
           a == n + 1 + LengthSize
<1>1. n \in Nat /\ BlockSize \in Nat \ {0} /\ LengthSize \in Nat /\ a \in Nat
  BY LenProperties, Sizes
<1>2. \A z \in 0..BlockSize - 1 : n + 1 + z + LengthSize = a + z
  BY <1>1
<1>3. k \in 1..BlockSize /\ k - 1 \in 0..BlockSize - 1 /\ (a + (k - 1)) % BlockSize = 0
  <2>1. k \in 1..BlockSize /\ (a + (k - 1)) % BlockSize = 0
    BY <1>1, PadLenEndsBlock
  <2> HIDE DEF k, a
  <2>2. QED
    BY <1>1, <2>1
<1>4. \A z \in 0..BlockSize - 1 : Ends(z) <=> (a + z) % BlockSize = 0
  BY <1>2
<1> HIDE DEF a, Ends
<1>5. zeros \in 0..BlockSize - 1 /\ (a + zeros) % BlockSize = 0
  BY <1>3, <1>4
<1> HIDE DEF zeros
<1>6. zeros = k - 1
  <2> DEFINE other == k - 1
  <2>1. other \in 0..BlockSize - 1 /\ (a + other) % BlockSize = 0
    BY <1>3
  <2> HIDE DEF other
  <2>2. ~(zeros < other) /\ ~(other < zeros)
    BY <1>1, <1>5, <2>1, OnePadding
  <2>3. zeros = other
    BY <1>1, <1>5, <2>1, <2>2
  <2>4. QED
    BY <2>3 DEF other
<1>7. 1 + zeros = k
  <2> HIDE DEF k
  <2>1. QED
    BY <1>1, <1>3, <1>6
<1>8. Padded(m) = (m \o Padding(1 + zeros)) \o Encode(CountOf(n))
  BY DEF Padded, BitLength, CountOf, zeros, Ends
<1>9. QED
  BY <1>7, <1>8

LEMMA PaddingIsOfElements ==
  ASSUME NEW k \in Nat
  PROVE  Padding(k) \in Seq(Elements)
BY DEF Padding, Elements

LEMMA EncodeIsOfElements ==
  ASSUME NEW n \in Nat
  PROVE  Encode(CountOf(n)) \in Seq(Elements)
<1> DEFINE a == 8 * n
           b == a \div Word
<1>1. a \in Nat /\ Word \in Nat \ {0} /\ LengthSize \in Nat
  BY Sizes
<1> HIDE DEF a
<1>2. a % Word \in Nat /\ b \in Nat
  BY <1>1, DivMod
<1> HIDE DEF b
<1>3. b % Word \in Nat
  BY <1>1, <1>2, DivMod
<1>4. CountOf(n)[1] \in Nat /\ CountOf(n)[2] \in Nat
  BY <1>2, <1>3 DEF CountOf, a, b
<1>5. QED
  BY <1>1, <1>4 DEF Encode, Elements

(* The state that finalize keeps.                                          *)
LEMMA FinalStateIs ==
  ASSUME fed \in Seq(Bytes), Represents(Context, fed)
  PROVE  FinalState = InBlocks(Padded(fed))
<1> DEFINE n == Len(fed)
           padding == Padding(PadLen(n % BlockSize))
           length == Encode(CountOf(n))
           padded == Absorb(Context, padding)
           all == Absorb(padded, length)
<1>1. n \in Nat
  BY LenProperties
<1>2. count = CountOf(n) /\ Index(count) = n % BlockSize
  BY <1>1, IndexOfCount DEF Represents, Context
<1>3. fed \in Seq(Elements)
  BY SeqMonotonic DEF Elements
<1>4. PadLen(n % BlockSize) \in Nat
  <2>1. PadLen(n % BlockSize) \in 1..BlockSize
    BY <1>1, PadLenEndsBlock
  <2>2. QED
    BY <2>1, Sizes
<1>5. padding \in Seq(Elements) /\ length \in Seq(Elements)
  BY <1>1, <1>4, PaddingIsOfElements, EncodeIsOfElements
<1>6. FinalState = all.state
  BY <1>2 DEF FinalState
<1> HIDE DEF padding, length, n
<1>7. Represents(padded, fed \o padding) /\ fed \o padding \in Seq(Elements)
  BY <1>3, <1>5, AbsorbRepresents, ConcatProperties
<1> HIDE DEF padded
<1>8. Represents(all, (fed \o padding) \o length)
  BY <1>5, <1>7, AbsorbRepresents
<1> HIDE DEF all
<1>9. all.state = InBlocks((fed \o padding) \o length)
  BY <1>8 DEF Represents
<1>10. Padded(fed) = (fed \o padding) \o length
  BY PaddedIs DEF padding, length, n
<1>11. QED
  BY <1>6, <1>9, <1>10

-----------------------------------------------------------------------------
(* While update is called, the object holds the message: all that it needs *)
(* to know of the message to take its digest.                              *)
StreamInv ==
  /\ fed \in Seq(Bytes) /\ finalized \in BOOLEAN
  /\ ~finalized => Represents(Context, fed)
  /\ DigestIsOfMessage

LEMMA StreamStart == Init => StreamInv
<1> SUFFICES ASSUME Init
             PROVE  StreamInv
  OBVIOUS
<1>1. fed = <<>> /\ fed \in Seq(Bytes) /\ Len(fed) = 0 /\ ~finalized
  BY EmptySeq DEF Init
<1>2. 0 \div BlockSize = 0 /\ 0 % BlockSize = 0 /\ 0 % Word = 0 /\ 0 \div Word = 0
  BY Sizes
<1>3. CountOf(0) = <<0, 0>>
  BY <1>2 DEF CountOf
<1>4. InBlocks(<<>>) = <<>>
  BY <1>1, <1>2 DEF InBlocks, Blocks
<1>5. Represents(Context, fed)
  BY <1>1, <1>2, <1>3, <1>4 DEF Represents, Context, Init
<1>6. QED
  BY <1>1, <1>5 DEF StreamInv, DigestIsOfMessage, Init

LEMMA StreamUpdate ==
  ASSUME StreamInv, NEW n, NEW piece \in SeqOf(Bytes, n), Update(piece)
  PROVE  StreamInv'
<1>1. piece \in Seq(Bytes)
  BY DEF SeqOf
<1>2. fed \in Seq(Elements) /\ piece \in Seq(Elements) /\ fed \o piece \in Seq(Bytes)
  BY <1>1, SeqMonotonic, ConcatProperties DEF StreamInv, Elements
<1>3. CASE finalized
  BY <1>3 DEF StreamInv, Update, DigestIsOfMessage, InBlocks, Padded, Blocks, BitLength
<1>4. CASE ~finalized
  <2>1. Represents(Absorb(Context, piece), fed \o piece)
    BY <1>2, <1>4, AbsorbRepresents DEF StreamInv
  <2>2. fed' = fed \o piece /\ finalized' = finalized
    BY <1>4 DEF Update
  <2>3. /\ Context'.count = Absorb(Context, piece).count
        /\ Context'.buffer = Absorb(Context, piece).buffer
        /\ Context'.state = Absorb(Context, piece).state
    BY DEF Update, Context
  <2>4. Represents(Context, fed)'
    BY <2>1, <2>2, <2>3 DEF Represents
  <2>5. QED
    BY <1>2, <1>4, <2>2, <2>4 DEF StreamInv, DigestIsOfMessage
<1>5. QED
  BY <1>3, <1>4 DEF StreamInv

LEMMA StreamFinalize ==
  ASSUME StreamInv, Finalize
  PROVE  StreamInv'
<1>1. digest' = InBlocks(Padded(fed)) /\ finalized' = TRUE /\ fed' = fed
  BY FinalStateIs DEF StreamInv, Finalize
<1>2. DigestIsOfMessage'
  BY <1>1 DEF DigestIsOfMessage
<1>3. QED
  BY <1>1, <1>2 DEF StreamInv

LEMMA StreamStep ==
  ASSUME StreamInv, [MCNext]_<<part, vars, ctxVars, roundVars>>
  PROVE  StreamInv'
<1>1. Next \/ UNCHANGED vars
  BY DEF MCNext
<1>2. CASE UNCHANGED vars
  BY <1>2 DEF vars, StreamInv, DigestIsOfMessage, Represents, Context
<1>3. ASSUME NEW piece \in SeqOf(Bytes, MaxBytes - Len(fed)), Update(piece)
      PROVE  StreamInv'
  BY <1>3, StreamUpdate
<1>4. QED
  BY <1>1, <1>2, <1>3, StreamFinalize DEF Next

(* The digest is taken of the message, padded, in blocks, however the      *)
(* message is cut into pieces and however long it is.                      *)
THEOREM DigestsAreOfMessages == MCSpec => []DigestIsOfMessage
<1>1. MCInit => StreamInv
  BY StreamStart DEF MCInit
<1>2. StreamInv => DigestIsOfMessage
  BY DEF StreamInv
<1>3. QED
  BY <1>1, <1>2, StreamStep, PTL DEF MCSpec

(* The two words of count hold the number of bits.                         *)
THEOREM CountsAreExact == MCSpec => []CountIsExact
<1>1. MCInit => StreamInv
  BY StreamStart DEF MCInit
<1>2. StreamInv => CountIsExact
  BY DEF StreamInv, CountIsExact, Represents, Context, CountOf, BitLength
<1>3. QED
  BY <1>1, <1>2, StreamStep, PTL DEF MCSpec

(* No call changes a digest that has been taken.                           *)
THEOREM DigestsAreFrozen == MCSpec => DigestIsFrozen
<1>1. [MCNext]_<<part, vars, ctxVars, roundVars>>
        => [finalized => UNCHANGED <<digest, finalized>>]_vars
  BY DEF MCNext, Next, Update, Finalize, vars
<1>2. QED
  BY <1>1, PTL DEF MCSpec, DigestIsFrozen

-----------------------------------------------------------------------------
(* The count, the buffer and the blocks of md5.c.                          *)

(* n bytes of the message after the first a.                               *)
Run(a, n) == [p \in 1..n |-> a + p]

LEMMA RunIsSequence ==
  ASSUME NEW a \in Nat, NEW n \in Nat
  PROVE  Run(a, n) \in Seq(Nat) /\ Len(Run(a, n)) = n
BY DEF Run

(* After i bytes of a run of n, the next k; and all the rest.              *)
PartIsRun(a, n, i, k) == SubSeq(Run(a, n), i + 1, i + k) = Run(a + i, k)

RestIsRun(a, n, i) == SubSeq(Run(a, n), i + 1, Len(Run(a, n))) = Run(a + i, n - i)

LEMMA PartOfRun ==
  ASSUME NEW a \in Nat, NEW n \in Nat, NEW i \in Nat, NEW k \in Nat, i + k <= n
  PROVE  PartIsRun(a, n, i, k)
<1> DEFINE t == Run(a, n)
<1>1. t \in Seq(Nat) /\ Len(t) = n
  BY RunIsSequence
<1>2. \A p \in 1..k : t[i + p] = a + i + p
  <2>1. \A p \in 1..k : i + p \in 1..n
    OBVIOUS
  <2>2. QED
    BY <2>1 DEF Run
<1> HIDE DEF t
<1>3. SubSeq(t, i + 1, i + k) = [p \in 1..k |-> t[i + p]]
  BY <1>1, PartOf
<1>4. [p \in 1..k |-> t[i + p]] = Run(a + i, k)
  BY <1>2 DEF Run
<1>5. QED
  BY <1>3, <1>4 DEF t, PartIsRun

LEMMA StartOfRun ==
  ASSUME NEW a \in Nat, NEW n \in Nat, NEW k \in Nat, k <= n
  PROVE  SubSeq(Run(a, n), 1, k) = Run(a, k)
<1> DEFINE i == 0
<1>1. i \in Nat /\ i + k <= n /\ i + 1 = 1 /\ i + k = k /\ a + i = a
  OBVIOUS
<1> HIDE DEF i
<1>2. PartIsRun(a, n, i, k)
  BY <1>1, PartOfRun
<1>3. QED
  BY <1>1, <1>2 DEF PartIsRun

LEMMA RestOfRun ==
  ASSUME NEW a \in Nat, NEW n \in Nat, NEW i \in Nat, i <= n
  PROVE  RestIsRun(a, n, i)
<1> DEFINE k == n - i
<1>1. k \in Nat /\ i + k = n
  OBVIOUS
<1> HIDE DEF k
<1>2. PartIsRun(a, n, i, k)
  BY <1>1, PartOfRun
<1>3. Len(Run(a, n)) = i + k
  BY <1>1, RunIsSequence
<1>4. QED
  BY <1>2, <1>3 DEF k, PartIsRun, RestIsRun

(* The double word that stands for n. *)
Double(n) == <<n % Word, (n \div Word) % Word>>

(* Adding to it is exact if what is added is not larger than a word holds. *)
LEMMA PlusIsExact ==
  ASSUME NEW n \in Nat, NEW m \in Nat, m <= Word
  PROVE  Ctx!Plus(Double(n), m) = Double(n + m)
<1> DEFINE h == n \div Word
           l == n % Word
           low == (l + m) % Word
           carry == IF low < m THEN 1 ELSE 0
           sum == n + m
<1>1. Word \in Nat \ {0}
  BY Sizes
<1>2. h \in Nat /\ l \in 0..Word - 1 /\ n = Word * h + l
  BY <1>1, DivMod
<1>3. Ctx!Plus(Double(n), m) = <<low, ((h % Word) + carry) % Word>>
  BY DEF Ctx!Plus, Double
<1>4. Double(n + m) = <<sum % Word, (sum \div Word) % Word>>
  BY DEF Double
<1> HIDE DEF h, l
<1> DEFINE whole == Word * h
<1>5. sum \in Nat /\ whole \in Nat /\ sum = whole + (l + m)
  BY <1>1, <1>2
<1> HIDE DEF sum, whole
<1>6. sum \div Word = h + carry /\ sum % Word = low
  <2>1. CASE l + m < Word
    <3> DEFINE r == l + m
    <3>1. r \in 0..Word - 1 /\ r \in Nat /\ ~(r < m) /\ sum = whole + r
      BY <1>1, <1>2, <1>5, <2>1
    <3> HIDE DEF r
    <3>2. sum \div Word = h /\ sum % Word = r
      <4>1. sum = Word * h + r /\ sum \in Nat
        BY <1>5, <3>1 DEF whole
      <4>2. QED
        BY <1>1, <1>2, <3>1, <4>1, DivModUnique
    <3>3. r % Word = r
      BY <1>1, <3>1
    <3>4. low = r
      BY <3>3 DEF r
    <3> HIDE DEF low
    <3>5. QED
      BY <1>2, <3>1, <3>2, <3>4
  <2>2. CASE l + m >= Word
    <3> DEFINE r == l + m - Word
               g == h + 1
               lm == l + m
    <3>1. r \in 0..Word - 1 /\ r < m /\ g \in Nat /\ lm \in Nat /\ lm = Word * 1 + r
      BY <1>1, <1>2, <2>2
    <3>2. Word * g = whole + Word
      BY <1>1, <1>2 DEF whole
    <3>3. sum = whole + Word + r /\ sum \in Nat
      BY <1>1, <1>2, <1>5
    <3> HIDE DEF r, g, lm
    <3>4. sum \div Word = g /\ sum % Word = r
      <4>1. sum = Word * g + r
        BY <3>2, <3>3
      <4>2. g \in Nat /\ r \in 0..Word - 1 /\ sum \in Nat
        BY <3>1, <3>3
      <4>3. QED
        BY <1>1, <4>1, <4>2, DivModUnique
    <3>5. lm % Word = r
      BY <1>1, <3>1, DivModUnique
    <3>6. low = r
      BY <3>5 DEF lm
    <3> HIDE DEF low
    <3>7. QED
      BY <1>2, <3>1, <3>4, <3>6 DEF g
  <2>3. QED
    BY <1>1, <1>2, <2>1, <2>2
<1>7. carry \in Nat
  OBVIOUS
<1> HIDE DEF carry, low
<1>8. ((h % Word) + carry) % Word = (h + carry) % Word
  BY <1>1, <1>2, <1>7, ModPlus
<1>9. QED
  BY <1>3, <1>4, <1>6, <1>8

(* A context is a record.                                                  *)
Rec(t, l, b, s) == [total |-> t, buflen |-> l, buffer |-> b, state |-> s]

IsContext(c) == c = Rec(c.total, c.buflen, c.buffer, c.state)

(* The first k blocks of the message.                                      *)
FirstBlocks(k) == [j \in 1..k |-> Run((j - 1) * BlockSize, BlockSize)]

(* The next n bytes of the message after those of k blocks are in buf.     *)
Continues(buf, k, n) == \A p \in 1..n : buf[p] = BlockSize * k + p

LEMMA BlocksFollow ==
  ASSUME NEW k \in Nat, NEW j \in Nat, NEW buf, Continues(buf, k, BlockSize * j)
  PROVE  FirstBlocks(k) \o [i \in 1..j |-> Ctx!Part(buf, (i - 1) * BlockSize, BlockSize)]
           = FirstBlocks(k + j)
<1> DEFINE old == FirstBlocks(k)
           new == [i \in 1..j |-> Ctx!Part(buf, (i - 1) * BlockSize, BlockSize)]
           all == FirstBlocks(k + j)
           both == old \o new
<1>1. BlockSize \in Nat \ {0}
  BY Sizes
<1>2. ASSUME NEW i \in Nat, NEW n \in 1..i
      PROVE  (n - 1) * BlockSize \in Nat /\ Run((n - 1) * BlockSize, BlockSize) \in Seq(Nat)
  <2>1. (n - 1) * BlockSize \in Nat
    BY BlocksFit
  <2>2. QED
    BY <1>1, <2>1, RunIsSequence
<1>3. ASSUME NEW i \in Nat
      PROVE  FirstBlocks(i) \in Seq(Seq(Nat)) /\ Len(FirstBlocks(i)) = i
  BY <1>2 DEF FirstBlocks
<1>4. ASSUME NEW i \in 1..j
      PROVE  new[i] = Run((k + i - 1) * BlockSize, BlockSize)
  <2> DEFINE from == (i - 1) * BlockSize
  <2>1. from \in Nat /\ from + BlockSize <= j * BlockSize /\ j * BlockSize = BlockSize * j
    BY <1>1, BlocksFit, Commutes
  <2>2. (k + i - 1) * BlockSize = BlockSize * k + from
    BY <1>1
  <2>3. BlockSize * k \in Nat /\ j * BlockSize \in Nat
    BY <1>1
  <2> HIDE DEF from
  <2>4. \A p \in 1..BlockSize : from + p \in 1..BlockSize * j
    BY <1>1, <2>1, <2>3
  <2>5. \A p \in 1..BlockSize : buf[from + p] = BlockSize * k + (from + p)
    BY <2>4 DEF Continues
  <2>6. \A p \in 1..BlockSize : BlockSize * k + (from + p) = BlockSize * k + from + p
    BY <2>1, <2>3
  <2>7. new[i] = [p \in 1..BlockSize |-> buf[from + p]]
    BY DEF Ctx!Part, from
  <2> HIDE DEF new
  <2>8. QED
    BY <2>2, <2>5, <2>6, <2>7 DEF Run
<1>5. new \in Seq(Seq(Nat)) /\ Len(new) = j
  <2>1. \A i \in 1..j : new[i] \in Seq(Nat)
    <3> SUFFICES ASSUME NEW i \in 1..j
                 PROVE  new[i] \in Seq(Nat)
      OBVIOUS
    <3> DEFINE n == k + i
    <3>1. n \in Nat /\ n \in 1..n
      OBVIOUS
    <3> HIDE DEF n
    <3>2. Run((n - 1) * BlockSize, BlockSize) \in Seq(Nat)
      BY <1>2, <3>1
    <3>3. QED
      BY <1>4, <3>2 DEF n
  <2>2. new = [i \in 1..j |-> new[i]]
    OBVIOUS
  <2> HIDE DEF new
  <2>3. new \in [1..j -> Seq(Nat)]
    BY <2>1, <2>2
  <2>4. QED
    BY <2>3
<1>6. old \in Seq(Seq(Nat)) /\ Len(old) = k /\ all \in Seq(Seq(Nat)) /\ Len(all) = k + j
  BY <1>3
<1>7. /\ \A i \in 1..k : old[i] = Run((i - 1) * BlockSize, BlockSize)
      /\ \A i \in 1..k + j : all[i] = Run((i - 1) * BlockSize, BlockSize)
  BY DEF FirstBlocks
<1> HIDE DEF old, new, all
<1>8. Follows(Seq(Nat), both, old, new)
  BY <1>5, <1>6, ConcatFollows, Zenon
<1> HIDE DEF both
<1>9. /\ both \in Seq(Seq(Nat)) /\ Len(both) = k + j
      /\ \A i \in 1..k : both[i] = old[i]
      /\ \A i \in 1..j : both[k + i] = new[i]
  BY <1>5, <1>6, <1>8 DEF Follows
<1>10. ASSUME NEW i \in 1..k + j
       PROVE  both[i] = all[i]
  <2>1. CASE i <= k
    BY <1>7, <1>9, <2>1
  <2>2. CASE i > k
    <3> DEFINE n == i - k
    <3>1. n \in 1..j /\ i = k + n
      BY <2>2
    <3> HIDE DEF n
    <3>2. both[i] = Run((k + n - 1) * BlockSize, BlockSize)
      BY <1>4, <1>9, <3>1
    <3>3. QED
      BY <1>7, <3>1, <3>2
  <2>3. QED
    BY <2>1, <2>2
<1>11. both = all
  BY <1>6, <1>9, <1>10, SeqEqual
<1>12. QED
  BY <1>11 DEF both, all, old, new

LEMMA WholeBlocks ==
  ASSUME NEW j \in Nat
  PROVE  /\ BlockSize * j \in Nat /\ (BlockSize * j) \div BlockSize = j
         /\ (BlockSize * j) % BlockSize = 0
<1> DEFINE n == BlockSize * j
<1>1. BlockSize \in Nat \ {0}
  BY Sizes
<1>2. n \in Nat /\ n = BlockSize * j + 0 /\ 0 \in 0..BlockSize - 1
  BY <1>1
<1> HIDE DEF n
<1>3. n \div BlockSize = j /\ n % BlockSize = 0
  BY <1>2, CutIs
<1>4. QED
  BY <1>2, <1>3 DEF n

LEMMA WithTotal ==
  ASSUME NEW t, NEW l, NEW b, NEW s, NEW u
  PROVE  [Rec(t, l, b, s) EXCEPT !.total = u] = Rec(u, l, b, s)
BY SMTT(30) DEF Rec

LEMMA WithLength ==
  ASSUME NEW t, NEW l, NEW b, NEW s, NEW u
  PROVE  [Rec(t, l, b, s) EXCEPT !.buflen = u] = Rec(t, u, b, s)
BY SMTT(30) DEF Rec

LEMMA WithBuffer ==
  ASSUME NEW t, NEW l, NEW b, NEW s, NEW u
  PROVE  [Rec(t, l, b, s) EXCEPT !.buffer = u] = Rec(t, l, u, s)
BY SMTT(30) DEF Rec

LEMMA WithState ==
  ASSUME NEW t, NEW l, NEW b, NEW s, NEW u
  PROVE  [Rec(t, l, b, s) EXCEPT !.state = u] = Rec(t, l, b, u)
BY SMTT(30) DEF Rec

LEMMA FieldsOfRec ==
  ASSUME NEW t, NEW l, NEW b, NEW s
  PROVE  LET c == Rec(t, l, b, s)
         IN  c.total = t /\ c.buflen = l /\ c.buffer = b /\ c.state = s
BY DEF Rec

(* A context of which two fields are set.                                 *)
SetTotalState(c, u, v) == [c EXCEPT !.total = u, !.state = v]
SetBufferLength(c, u, v) == [c EXCEPT !.buffer = u, !.buflen = v]
SetLengthBuffer(c, u, v) == [c EXCEPT !.buflen = u, !.buffer = v]
SetTotalBuffer(c, u, v) == [c EXCEPT !.total = u, !.buffer = v]

LEMMA WithTotalAndState ==
  ASSUME NEW t, NEW l, NEW b, NEW s, NEW u, NEW v
  PROVE  SetTotalState(Rec(t, l, b, s), u, v) = Rec(u, l, b, v)
<1> DEFINE c == Rec(t, l, b, s)
           d == Rec(u, l, b, s)
           e == Rec(u, l, b, v)
<1>1. [c EXCEPT !.total = u] = d
  BY WithTotal
<1>2. [d EXCEPT !.state = v] = e
  BY WithState
<1> HIDE DEF c, d, e
<1>3. [c EXCEPT !.total = u, !.state = v] = [[c EXCEPT !.total = u] EXCEPT !.state = v]
  OBVIOUS
<1>4. [[c EXCEPT !.total = u] EXCEPT !.state = v] = [d EXCEPT !.state = v]
  BY <1>1
<1>5. QED
  BY <1>2, <1>3, <1>4 DEF c, e, SetTotalState

LEMMA WithBufferAndLength ==
  ASSUME NEW t, NEW l, NEW b, NEW s, NEW u, NEW v
  PROVE  SetBufferLength(Rec(t, l, b, s), u, v) = Rec(t, v, u, s)
<1> DEFINE c == Rec(t, l, b, s)
           d == Rec(t, l, u, s)
           e == Rec(t, v, u, s)
<1>1. [c EXCEPT !.buffer = u] = d
  BY WithBuffer
<1>2. [d EXCEPT !.buflen = v] = e
  BY WithLength
<1> HIDE DEF c, d, e
<1>3. [c EXCEPT !.buffer = u, !.buflen = v] = [[c EXCEPT !.buffer = u] EXCEPT !.buflen = v]
  OBVIOUS
<1>4. [[c EXCEPT !.buffer = u] EXCEPT !.buflen = v] = [d EXCEPT !.buflen = v]
  BY <1>1
<1>5. QED
  BY <1>2, <1>3, <1>4 DEF c, e, SetBufferLength

LEMMA WithLengthAndBuffer ==
  ASSUME NEW t, NEW l, NEW b, NEW s, NEW u, NEW v
  PROVE  SetLengthBuffer(Rec(t, l, b, s), u, v) = Rec(t, u, v, s)
<1> DEFINE c == Rec(t, l, b, s)
           d == Rec(t, u, b, s)
           e == Rec(t, u, v, s)
<1>1. [c EXCEPT !.buflen = u] = d
  BY WithLength
<1>2. [d EXCEPT !.buffer = v] = e
  BY WithBuffer
<1> HIDE DEF c, d, e
<1>3. [c EXCEPT !.buflen = u, !.buffer = v] = [[c EXCEPT !.buflen = u] EXCEPT !.buffer = v]
  OBVIOUS
<1>4. [[c EXCEPT !.buflen = u] EXCEPT !.buffer = v] = [d EXCEPT !.buffer = v]
  BY <1>1
<1>5. QED
  BY <1>2, <1>3, <1>4 DEF c, e, SetLengthBuffer

LEMMA WithTotalAndBuffer ==
  ASSUME NEW t, NEW l, NEW b, NEW s, NEW u, NEW v
  PROVE  SetTotalBuffer(Rec(t, l, b, s), u, v) = Rec(u, l, v, s)
<1> DEFINE c == Rec(t, l, b, s)
           d == Rec(u, l, b, s)
           e == Rec(u, l, v, s)
<1>1. [c EXCEPT !.total = u] = d
  BY WithTotal
<1>2. [d EXCEPT !.buffer = v] = e
  BY WithBuffer
<1> HIDE DEF c, d, e
<1>3. [c EXCEPT !.total = u, !.buffer = v] = [[c EXCEPT !.total = u] EXCEPT !.buffer = v]
  OBVIOUS
<1>4. [[c EXCEPT !.total = u] EXCEPT !.buffer = v] = [d EXCEPT !.buffer = v]
  BY <1>1
<1>5. QED
  BY <1>2, <1>3, <1>4 DEF c, e, SetTotalBuffer

LEMMA ProcessBlockOfRec ==
  ASSUME NEW t, NEW l, NEW b, NEW s, NEW buf, NEW n, NEW j, n \div BlockSize = j
  PROVE  Ctx!ProcessBlock(Rec(t, l, b, s), buf, n)
           = Rec(Ctx!Plus(t, n), l, b,
                 s \o [i \in 1..j |-> Ctx!Part(buf, (i - 1) * BlockSize, BlockSize)])
<1> DEFINE new == [i \in 1..j |-> Ctx!Part(buf, (i - 1) * BlockSize, BlockSize)]
           c == Rec(t, l, b, s)
           u == Ctx!Plus(t, n)
           v == s \o new
<1>1. Ctx!ProcessBlock(c, buf, n) = [c EXCEPT !.total = Ctx!Plus(@, n), !.state = @ \o new]
  BY DEF Ctx!ProcessBlock
<1> HIDE DEF new
<1>2. c.total = t /\ c.state = s
  BY FieldsOfRec
<1>3. [c EXCEPT !.total = u, !.state = v] = Rec(u, l, b, v)
  <2> HIDE DEF u, v
  <2>1. SetTotalState(c, u, v) = Rec(u, l, b, v)
    BY WithTotalAndState
  <2>2. QED
    BY <2>1 DEF SetTotalState
<1> HIDE DEF c
<1>4. Ctx!ProcessBlock(c, buf, n) = [c EXCEPT !.total = u, !.state = v]
  BY <1>1, <1>2
<1>5. QED
  BY <1>3, <1>4 DEF new, c

(* A context, c before, that has processed all in all n blocks.            *)
HasProcessed(d, c, n, fits) ==
  /\ d = Rec(d.total, c.buflen, c.buffer, FirstBlocks(n))
  /\ fits => d.total = Double(BlockSize * n)

(* md5_process_block of the next j blocks.  If fits, no count of bytes has *)
(* been larger than a word.                                                *)
LEMMA Processed ==
  ASSUME NEW c, IsContext(c), NEW k \in Nat, NEW j \in Nat, NEW fits, NEW buf,
         c.state = FirstBlocks(k), Continues(buf, k, BlockSize * j),
         fits => c.total = Double(BlockSize * k) /\ BlockSize * j <= Word
  PROVE  HasProcessed(Ctx!ProcessBlock(c, buf, BlockSize * j), c, k + j, fits)
<1> DEFINE n == BlockSize * j
           d == Ctx!ProcessBlock(c, buf, n)
           done1 == BlockSize * k
           new == [i \in 1..j |-> Ctx!Part(buf, (i - 1) * BlockSize, BlockSize)]
<1>1. n \in Nat /\ n \div BlockSize = j /\ done1 \in Nat
  BY WholeBlocks
<1>2. c.state \o new = FirstBlocks(k + j)
  BY BlocksFollow
<1>3. BlockSize * (k + j) = done1 + n
  BY Sizes
<1> HIDE DEF n, done1
<1>4. d = Rec(Ctx!Plus(c.total, n), c.buflen, c.buffer, c.state \o new)
  <2> DEFINE t == c.total
             l == c.buflen
             b == c.buffer
             s == c.state
  <2>1. c = Rec(t, l, b, s)
    BY DEF IsContext
  <2> HIDE DEF t, l, b, s
  <2>2. d = Rec(Ctx!Plus(t, n), l, b, s \o new)
    BY <1>1, <2>1, ProcessBlockOfRec
  <2>3. QED
    BY <2>2 DEF t, l, b, s
<1> HIDE DEF new
<1>5. d = Rec(d.total, c.buflen, c.buffer, FirstBlocks(k + j)) /\ d.total = Ctx!Plus(c.total, n)
  BY <1>2, <1>4 DEF Rec
<1>6. ASSUME fits
      PROVE  d.total = Double(BlockSize * (k + j))
  <2>1. c.total = Double(done1) /\ n <= Word
    BY <1>6 DEF done1, n
  <2>2. Ctx!Plus(Double(done1), n) = Double(done1 + n)
    BY <1>1, <2>1, PlusIsExact
  <2>3. QED
    BY <1>3, <1>5, <2>1, <2>2
<1> HIDE DEF d
<1>7. HasProcessed(d, c, k + j, fits)
  BY <1>5, <1>6, Zenon DEF HasProcessed
<1>8. QED
  BY <1>7 DEF d, n

(* In new, s of length n is at position index, and all else as in buf.     *)
CopyHas(new, buf, index, s, n) ==
  /\ DOMAIN new = 1..Ctx!Capacity
  /\ \A p \in 1..index : new[p] = buf[p]
  /\ \A p \in 1..n : new[index + p] = s[p]
  /\ \A p \in 1..Ctx!Capacity : p > index + n => new[p] = buf[p]

LEMMA Copied ==
  ASSUME NEW buf, DOMAIN buf = 1..Ctx!Capacity, NEW index \in Nat, NEW s, NEW n \in Nat,
         Len(s) = n, index + n <= Ctx!Capacity
  PROVE  CopyHas(Ctx!CopyTo(buf, index, s), buf, index, s, n)
<1> DEFINE size == Ctx!Capacity
           new == Ctx!CopyTo(buf, index, s)
<1>1. size \in Nat
  BY Sizes DEF Ctx!Capacity
<1> HIDE DEF size
<1>2. index + n <= size /\ DOMAIN buf = 1..size
  BY DEF size
<1>3. DOMAIN buf \union (index + 1..index + n) = 1..size
  <2>1. \A p \in index + 1..index + n : p \in 1..size
    BY <1>1, <1>2
  <2>2. QED
    BY <1>2, <2>1
<1>4. new = [p \in 1..size |-> IF p \in index + 1..index + n THEN s[p - index] ELSE buf[p]]
  BY <1>3 DEF Ctx!CopyTo
<1> HIDE DEF new
<1>5. DOMAIN new = 1..size
  BY <1>4
<1>6. ASSUME NEW p \in 1..index
      PROVE  new[p] = buf[p]
  <2>1. p \in 1..size /\ p \notin index + 1..index + n
    BY <1>1, <1>2
  <2>2. QED
    BY <1>4, <2>1
<1>7. ASSUME NEW p \in 1..n
      PROVE  new[index + p] = s[p]
  <2>1. index + p \in 1..size /\ index + p \in index + 1..index + n /\ (index + p) - index = p
    BY <1>1, <1>2
  <2>2. QED
    BY <1>4, <2>1
<1>8. ASSUME NEW p \in 1..size, p > index + n
      PROVE  new[p] = buf[p]
  <2>1. p \notin index + 1..index + n
    BY <1>8
  <2>2. QED
    BY <1>4, <2>1
<1>9. QED
  BY <1>5, <1>6, <1>7, <1>8 DEF new, size, CopyHas

(* A context that has processed k blocks of the message and whose buffer   *)
(* has what was fed after them.  If fits, its count of bytes is exact.     *)
Buffers(c, k, fits) ==
  /\ IsContext(c)
  /\ c.buflen \in Nat /\ c.buflen <= Ctx!Capacity
  /\ DOMAIN c.buffer = 1..Ctx!Capacity
  /\ Continues(c.buffer, k, c.buflen)
  /\ c.state = FirstBlocks(k)
  /\ fits => c.total = Double(BlockSize * k)

(* One block may wait there. *)
Holds(c, k, fits) == Buffers(c, k, fits) /\ c.buflen <= BlockSize

LEMMA BufferFits == Ctx!Capacity = BlockSize + BlockSize /\ Ctx!Capacity <= Word
<1>1. PICK n \in Nat \ {0} : Word = 8 * BlockSize * n
  BY WordHoldsBlocks
<1>2. BlockSize \in Nat /\ BlockSize * (n - 1) \in Nat /\ 8 * BlockSize * n = 8 * BlockSize + 8 * (BlockSize * (n - 1))
  BY Sizes
<1>3. QED
  BY <1>1, <1>2 DEF Ctx!Capacity

LEMMA DownIs ==
  ASSUME NEW n \in Nat
  PROVE  /\ Ctx!Down(n) = BlockSize * (n \div BlockSize)
         /\ Ctx!Down(n) \in Nat /\ Ctx!Down(n) + (n % BlockSize) = n
<1> DEFINE q == n \div BlockSize
           r == n % BlockSize
           whole == BlockSize * q
<1>1. whole \in Nat /\ r \in Nat /\ n = whole + r
  BY Cut, Sizes
<1>2. Ctx!Down(n) = n - r
  BY DEF Ctx!Down
<1> HIDE DEF whole, r
<1>3. Ctx!Down(n) = whole /\ whole \in Nat /\ whole + r = n
  BY <1>1, <1>2
<1>4. QED
  BY <1>3 DEF whole, r

LEMMA PartLength ==
  ASSUME NEW buf, NEW first, NEW n \in Nat
  PROVE  Len(Ctx!Part(buf, first, n)) = n
<1> DEFINE S == {buf[first + p] : p \in 1..n}
<1>1. Ctx!Part(buf, first, n) \in [1..n -> S]
  BY DEF Ctx!Part
<1>2. QED
  BY <1>1

(* What md5_process_bytes does to the buffer: bytes are appended; what is  *)
(* behind the first n is moved to where it begins.                         *)
Appended(c, s, used) == [c EXCEPT !.buffer = Ctx!CopyTo(@, c.buflen, s), !.buflen = used]

Moved(c, n, r) ==
  [Ctx!ProcessBlock(c, c.buffer, n) EXCEPT
     !.buflen = r,
     !.buffer = Ctx!CopyTo(@, 0, Ctx!Part(@, n, r))]

(* The bytes that follow are copied to where the buffer ends.              *)
LEMMA Filled ==
  ASSUME NEW c, NEW k \in Nat, NEW fits, Buffers(c, k, fits), NEW n \in Nat,
         c.buflen + n <= Ctx!Capacity, NEW add, add = Run(BlockSize * k + c.buflen, n)
  PROVE  LET f == Appended(c, add, c.buflen + n)
         IN  Buffers(f, k, fits) /\ f.buflen = c.buflen + n
<1> DEFINE t == c.total
           l == c.buflen
           b == c.buffer
           s == c.state
           size == Ctx!Capacity
           used == l + n
           from == BlockSize * k
           new == Ctx!CopyTo(b, l, add)
           f == Appended(c, add, used)
<1>1. /\ c = Rec(t, l, b, s) /\ l \in Nat /\ DOMAIN b = 1..size
      /\ s = FirstBlocks(k) /\ (fits => t = Double(BlockSize * k))
  BY DEF Buffers, IsContext
<1>2. from \in Nat /\ used \in Nat /\ used <= size
  BY <1>1, Sizes
<1>3. \A p \in 1..l : b[p] = from + p
  BY DEF Buffers, Continues
<1>4. f = Rec(t, used, new, s)
  <2>1. f = SetBufferLength(c, new, used)
    BY DEF SetBufferLength, Appended
  <2> HIDE DEF t, l, b, s, used, new, f
  <2>2. QED
    BY <1>1, <2>1, WithBufferAndLength
<1>5. Len(add) = n /\ \A p \in 1..n : add[p] = from + l + p
  <2> HIDE DEF from
  <2>1. from + l \in Nat
    BY <1>1, <1>2
  <2>2. QED
    BY <2>1, RunIsSequence DEF Run, from
<1> HIDE DEF f, t, b, s
<1>6. /\ DOMAIN new = 1..size
      /\ \A p \in 1..l : new[p] = b[p]
      /\ \A p \in 1..n : new[l + p] = add[p]
  <2>1. DOMAIN b = 1..Ctx!Capacity /\ l \in Nat /\ l + n <= Ctx!Capacity /\ Len(add) = n
    BY <1>1, <1>2, <1>5
  <2> HIDE DEF l
  <2>2. CopyHas(new, b, l, add, n)
    BY <2>1, Copied, Zenon
  <2>3. QED
    BY <2>2 DEF CopyHas
<1> HIDE DEF new, from, size, l
<1>7. \A p \in 1..used : new[p] = from + p
  <2> SUFFICES ASSUME NEW p \in 1..used
               PROVE  new[p] = from + p
    OBVIOUS
  <2>1. CASE p <= l
    BY <1>1, <1>3, <1>6, <2>1
  <2>2. CASE p > l
    <3> DEFINE i == p - l
    <3>1. i \in 1..n /\ p = l + i /\ from + l + i = from + p
      BY <1>1, <1>2, <2>2
    <3> HIDE DEF i
    <3>2. QED
      BY <1>5, <1>6, <3>1
  <2>3. QED
    BY <1>1, <2>1, <2>2
<1>8. f.total = t /\ f.buflen = used /\ f.buffer = new /\ f.state = s
  <2> HIDE DEF used
  <2>1. QED
    BY <1>4, FieldsOfRec
<1>9. IsContext(f)
  BY <1>4, <1>8 DEF IsContext
<1> HIDE DEF used
<1>10. Continues(f.buffer, k, f.buflen)
  BY <1>7, <1>8 DEF Continues, from
<1>11. Buffers(f, k, fits)
  <2>1. f.buflen \in Nat /\ f.buflen <= Ctx!Capacity /\ DOMAIN f.buffer = 1..Ctx!Capacity
    BY <1>2, <1>6, <1>8 DEF size
  <2>2. f.state = FirstBlocks(k) /\ (fits => f.total = Double(BlockSize * k))
    BY <1>1, <1>8, Zenon
  <2>3. QED
    BY <1>9, <1>10, <2>1, <2>2, Zenon DEF Buffers
<1>12. QED
  BY <1>8, <1>11 DEF f, used, l

(* Its first j blocks are processed, and what follows them is moved to     *)
(* where it begins.                                                        *)
LEMMA Flushed ==
  ASSUME NEW f, NEW k \in Nat, NEW fits, Buffers(f, k, fits), NEW j \in Nat,
         NEW r \in 0..BlockSize, f.buflen = BlockSize * j + r
  PROVE  LET d == Moved(f, BlockSize * j, r)
         IN  Holds(d, k + j, fits) /\ d.buflen = r
<1> DEFINE n == BlockSize * j
           from == BlockSize * k
           size == Ctx!Capacity
           old == f.buffer
           rest == Ctx!Part(old, n, r)
           new == Ctx!CopyTo(old, 0, rest)
           g == Ctx!ProcessBlock(f, old, n)
           s == FirstBlocks(k + j)
           d == Moved(f, n, r)
<1>1. /\ IsContext(f) /\ DOMAIN old = 1..size /\ f.state = FirstBlocks(k)
      /\ f.buflen <= size /\ (fits => f.total = Double(from))
  BY DEF Buffers
<1>2. n \in Nat /\ from \in Nat /\ size \in Nat /\ r \in Nat /\ BlockSize \in Nat /\ k + j \in Nat
  BY Sizes DEF Ctx!Capacity
<1>3. BlockSize * (k + j) = from + n
  BY Sizes
<1> HIDE DEF n, from, size
<1>4. n + r <= size /\ f.buflen = n + r /\ n <= size
  <2>1. f.buflen = n + r
    BY DEF n
  <2>2. QED
    BY <1>1, <1>2, <2>1
<1>5. \A p \in 1..n + r : old[p] = from + p
  BY <1>4 DEF Buffers, Continues, from
<1>6. g = Rec(g.total, f.buflen, old, s) /\ (fits => g.total = Double(BlockSize * (k + j)))
  <2>1. Continues(old, k, BlockSize * j)
    <3>1. \A p \in 1..n : old[p] = from + p
      BY <1>2, <1>5
    <3>2. QED
      BY <3>1 DEF Continues, n, from
  <2>2. BlockSize * j <= Word
    <3>1. n <= Word
      BY <1>2, <1>4, BufferFits, Sizes DEF size
    <3>2. QED
      BY <3>1 DEF n
  <2>3. fits => f.total = Double(BlockSize * k) /\ BlockSize * j <= Word
    BY <1>1, <2>2, Zenon DEF from
  <2> DEFINE u == BlockSize * j
             e == Ctx!ProcessBlock(f, old, u)
  <2>4. /\ e = Rec(e.total, f.buflen, f.buffer, FirstBlocks(k + j))
        /\ fits => e.total = Double(BlockSize * (k + j))
    <3> HIDE DEF old
    <3>1. HasProcessed(e, f, k + j, fits)
      BY <1>1, <2>1, <2>3, Processed DEF old
    <3> HIDE DEF e
    <3>2. QED
      BY <3>1, Zenon DEF HasProcessed
  <2>5. QED
    BY <2>4 DEF n
<1>7. d = SetLengthBuffer(g, r, new)
  <2>1. g.buffer = old
    <3> HIDE DEF old, s, g
    <3>1. QED
      BY <1>6 DEF Rec
  <2>2. d = [g EXCEPT !.buflen = r, !.buffer = Ctx!CopyTo(@, 0, Ctx!Part(@, n, r))]
    BY DEF Moved
  <2> HIDE DEF g, old, d
  <2>3. QED
    BY <2>1, <2>2 DEF SetLengthBuffer
<1>8. Len(rest) = r /\ \A p \in 1..r : rest[p] = old[n + p]
  BY <1>2, PartLength DEF Ctx!Part
<1> HIDE DEF old, rest, s, g, d
<1>9. DOMAIN new = 1..size /\ \A p \in 1..r : new[p] = rest[p]
  <2>1. 0 + r <= size
    BY <1>2, <1>4
  <2>2. DOMAIN old = 1..Ctx!Capacity /\ 0 \in Nat /\ 0 + r <= Ctx!Capacity
    BY <1>1, <2>1 DEF size
  <2>3. CopyHas(new, old, 0, rest, r)
    BY <1>2, <1>8, <2>2, Copied, Zenon
  <2> HIDE DEF new
  <2>4. QED
    BY <2>3 DEF CopyHas, size
<1> HIDE DEF new
<1>10. d = Rec(g.total, r, new, s)
  <2> DEFINE t == g.total
             l == f.buflen
  <2> HIDE DEF t, l
  <2>1. g = Rec(t, l, old, s)
    BY <1>6 DEF t, l
  <2>2. d = Rec(t, r, new, s)
    BY <1>7, <2>1, WithLengthAndBuffer
  <2>3. QED
    BY <2>2 DEF t
<1>11. d.total = g.total /\ d.buflen = r /\ d.buffer = new /\ d.state = s
  BY <1>10, FieldsOfRec
<1>12. IsContext(d)
  BY <1>10, <1>11 DEF IsContext
<1>13. \A p \in 1..r : new[p] = from + n + p
  <2>1. \A p \in 1..r : n + p \in 1..n + r /\ from + (n + p) = from + n + p
    BY <1>2
  <2>2. QED
    BY <1>5, <1>8, <1>9, <2>1
<1>14. Continues(d.buffer, k + j, d.buflen)
  BY <1>3, <1>11, <1>13 DEF Continues
<1>15. r <= size /\ r <= BlockSize
  BY <1>2, <1>4
<1>16. Holds(d, k + j, fits)
  BY <1>2, <1>6, <1>9, <1>11, <1>12, <1>14, <1>15 DEF Holds, Buffers, size, s
<1>17. QED
  BY <1>11, <1>16 DEF d, g, old, n

(* A context that holds the message up to n.                               *)
HoldsUpTo(c, n, fits) ==
  \E k \in Nat : Holds(c, k, fits) /\ BlockSize * k + c.buflen = n

LEMMA FillIs ==
  ASSUME NEW c, NEW s
  PROVE  Ctx!Fill(c, s) =
           IF c.buflen + Len(s) <= BlockSize THEN Appended(c, s, c.buflen + Len(s))
           ELSE Moved(Appended(c, s, c.buflen + Len(s)), Ctx!Down(c.buflen + Len(s)),
                      (c.buflen + Len(s)) % BlockSize)
BY Zenon DEF Ctx!Fill, Appended, Moved

LEMMA KeepIs ==
  ASSUME NEW c, NEW s
  PROVE  Ctx!Keep(c, s) =
           IF c.buflen + Len(s) < BlockSize THEN Appended(c, s, c.buflen + Len(s))
           ELSE Moved(Appended(c, s, c.buflen + Len(s)), BlockSize,
                      (c.buflen + Len(s)) - BlockSize)
BY Zenon DEF Ctx!Keep, Appended, Moved

LEMMA FillHolds ==
  ASSUME NEW c, NEW k \in Nat, NEW fits, Holds(c, k, fits), NEW n \in Nat,
         c.buflen + n <= Ctx!Capacity, NEW add, add = Run(BlockSize * k + c.buflen, n)
  PROVE  /\ HoldsUpTo(Ctx!Fill(c, add), BlockSize * k + c.buflen + n, fits)
         /\ c.buflen + n = Ctx!Capacity => Ctx!Fill(c, add).buflen = 0
<1> DEFINE used == c.buflen + n
           from == BlockSize * k
           j == used \div BlockSize
           r == used % BlockSize
           whole == BlockSize * j
           f == Appended(c, add, used)
           d == Moved(f, whole, r)
<1>1. Buffers(f, k, fits) /\ f.buflen = used
  BY Filled DEF Holds
<1>2. from \in Nat /\ c.buflen \in Nat /\ used \in Nat /\ BlockSize \in Nat \ {0}
  BY Sizes DEF Holds, Buffers
<1>3. Len(add) = n
  <2>1. from + c.buflen \in Nat
    BY <1>2
  <2> HIDE DEF from
  <2>2. add = Run(from + c.buflen, n)
    BY DEF from
  <2>3. QED
    BY <2>1, <2>2, RunIsSequence
<1> HIDE DEF f
<1>4. j \in Nat /\ r \in 0..BlockSize /\ Ctx!Down(used) = whole /\ used = whole + r
  <2> HIDE DEF used
  <2>1. j \in Nat /\ r \in 0..BlockSize - 1 /\ used = whole + r
    BY <1>2, Cut
  <2>2. Ctx!Down(used) = whole
    BY <1>2, DownIs
  <2> HIDE DEF j, r, whole
  <2>3. QED
    BY <1>2, <2>1, <2>2
<1>5. Ctx!Fill(c, add) = IF used <= BlockSize THEN f ELSE d
  <2>1. Ctx!Fill(c, add) = IF used <= BlockSize THEN f ELSE Moved(f, Ctx!Down(used), r)
    BY <1>3, FillIs, Zenon DEF f
  <2> HIDE DEF used, r, whole
  <2>2. QED
    BY <1>4, <2>1
<1>6. Holds(d, k + j, fits) /\ d.buflen = r
  <2> HIDE DEF used, r, j
  <2>1. f.buflen = BlockSize * j + r
    BY <1>1, <1>4
  <2>2. QED
    BY <1>1, <1>4, <2>1, Flushed
<1>7. BlockSize * (k + j) = from + whole
  <2> HIDE DEF j
  <2>1. QED
    BY <1>2, <1>4
<1>8. used = Ctx!Capacity => r = 0 /\ ~(used <= BlockSize)
  <2>1. BlockSize * 2 = Ctx!Capacity /\ (BlockSize * 2) % BlockSize = 0
    BY WholeBlocks, Sizes DEF Ctx!Capacity
  <2>2. Ctx!Capacity > BlockSize
    BY <1>2, BufferFits
  <2> HIDE DEF used
  <2>3. QED
    BY <1>2, <2>1, <2>2
<1>9. from + c.buflen + n = from + used
  <2> HIDE DEF from
  <2>1. QED
    BY <1>2
<1> HIDE DEF j, d, used, r, whole, from
<1>10. CASE used <= BlockSize
  <2>1. Holds(f, k, fits) /\ from + f.buflen = from + used
    BY <1>1, <1>10 DEF Holds
  <2>2. HoldsUpTo(f, from + used, fits)
    BY <2>1 DEF HoldsUpTo, from
  <2>3. QED
    BY <1>5, <1>8, <1>9, <1>10, <2>2 DEF from, used
<1>11. CASE ~(used <= BlockSize)
  <2>1. k + j \in Nat /\ BlockSize * (k + j) + d.buflen = from + used
    <3>1. whole \in Nat
      BY <1>2, <1>4 DEF whole
    <3> DEFINE all == BlockSize * (k + j)
    <3> HIDE DEF all
    <3>2. all = from + whole
      BY <1>7 DEF all
    <3>3. all + d.buflen = from + used
      BY <1>2, <1>4, <1>6, <3>1, <3>2
    <3>4. QED
      BY <1>4, <3>3 DEF all
  <2>2. HoldsUpTo(d, from + used, fits)
    BY <1>6, <2>1 DEF HoldsUpTo
  <2>3. QED
    BY <1>5, <1>6, <1>8, <1>9, <1>11, <2>2 DEF from, used
<1>12. QED
  BY <1>10, <1>11

LEMMA KeepHolds ==
  ASSUME NEW c, NEW k \in Nat, NEW fits, Holds(c, k, fits), c.buflen = 0,
         NEW n \in 1..BlockSize, NEW input, input = Run(BlockSize * k, n)
  PROVE  HoldsUpTo(Ctx!Keep(c, input), BlockSize * k + n, fits)
<1> DEFINE from == BlockSize * k
           f == Appended(c, input, c.buflen + n)
           d == Moved(f, BlockSize * 1, 0)
<1>1. from \in Nat /\ n \in Nat /\ BlockSize \in Nat \ {0}
  BY Sizes
<1>2. c.buflen + n <= Ctx!Capacity /\ c.buflen + n = n /\ input = Run(from + c.buflen, n)
  <2> HIDE DEF from
  <2>1. from + c.buflen = from /\ input = Run(from, n) /\ c.buflen + n = n
    BY <1>1 DEF from
  <2>2. n <= Ctx!Capacity
    BY <1>1, BufferFits
  <2>3. QED
    BY <2>1, <2>2
<1>3. Buffers(f, k, fits) /\ f.buflen = n
  BY <1>1, <1>2, Filled DEF Holds
<1>4. Len(input) = n
  BY <1>1, RunIsSequence
<1>5. Ctx!Keep(c, input) =
        IF n < BlockSize THEN f
        ELSE Moved(f, BlockSize, n - BlockSize)
  <2>1. Ctx!Keep(c, input) =
          IF c.buflen + n < BlockSize THEN f
          ELSE Moved(f, BlockSize, (c.buflen + n) - BlockSize)
    BY <1>4, KeepIs, Zenon
  <2> HIDE DEF f
  <2>2. QED
    BY <1>2, <2>1
<1> HIDE DEF f
<1>6. CASE n < BlockSize
  <2>1. Holds(f, k, fits) /\ from + f.buflen = from + n
    BY <1>1, <1>3, <1>6 DEF Holds
  <2>2. HoldsUpTo(f, from + n, fits)
    BY <2>1 DEF HoldsUpTo
  <2>3. QED
    BY <1>5, <1>6, <2>2
<1>7. CASE n = BlockSize
  <2>1. n - BlockSize = 0 /\ ~(n < BlockSize) /\ BlockSize * 1 = BlockSize
    BY <1>1, <1>7
  <2>2. Ctx!Keep(c, input) = d
    BY <1>5, <2>1
  <2>3. Holds(d, k + 1, fits) /\ d.buflen = 0
    <3>1. f.buflen = BlockSize * 1 + 0 /\ 0 \in 0..BlockSize /\ 1 \in Nat
      BY <1>1, <1>3, <1>7
    <3>2. QED
      BY <1>3, <3>1, Flushed
  <2> HIDE DEF d
  <2>4. k + 1 \in Nat /\ BlockSize * (k + 1) + d.buflen = BlockSize * k + n
    <3>1. BlockSize * (k + 1) = from + BlockSize
      BY <1>1
    <3> HIDE DEF from
    <3>2. QED
      BY <1>1, <1>7, <2>3, <3>1 DEF from
  <2>5. HoldsUpTo(d, BlockSize * k + n, fits)
    BY <2>3, <2>4 DEF HoldsUpTo
  <2>6. QED
    BY <2>2, <2>5
<1>8. QED
  BY <1>1, <1>6, <1>7

LEMMA WholeBytesAre ==
  ASSUME NEW input, NEW n \in Nat, Len(input) = n, NEW aligned
  PROVE  \E j \in Nat : /\ Ctx!WholeBytes(input, aligned) = BlockSize * j
                        /\ BlockSize * j <= n /\ n - BlockSize * j <= BlockSize
<1>1. BlockSize \in Nat \ {0}
  BY Sizes
<1>2. CASE n < BlockSize
  <2>1. Ctx!WholeBytes(input, aligned) = 0 /\ BlockSize * 0 = 0
    BY <1>1, <1>2 DEF Ctx!WholeBytes
  <2>2. QED
    BY <1>1, <1>2, <2>1
<1>3. ASSUME ~(n < BlockSize), NEW m \in Nat, m \in {n - 1, n},
             Ctx!WholeBytes(input, aligned) = Ctx!Down(m)
      PROVE  \E j \in Nat : /\ Ctx!WholeBytes(input, aligned) = BlockSize * j
                            /\ BlockSize * j <= n /\ n - BlockSize * j <= BlockSize
  <2> DEFINE j == m \div BlockSize
             r == m % BlockSize
             whole == BlockSize * j
  <2>1. j \in Nat /\ r \in 0..BlockSize - 1 /\ whole \in Nat /\ m = whole + r
    BY Cut
  <2>2. Ctx!Down(m) = whole
    BY DownIs
  <2> HIDE DEF j, r, whole
  <2>3. whole <= n /\ n - whole <= BlockSize
    BY <1>1, <1>3, <2>1
  <2>4. QED
    BY <1>3, <2>1, <2>2, <2>3 DEF whole
<1>4. CASE ~(n < BlockSize)
  <2>1. n - 1 \in Nat
    BY <1>1, <1>4
  <2>2. \/ Ctx!WholeBytes(input, aligned) = Ctx!Down(n)
        \/ Ctx!WholeBytes(input, aligned) = Ctx!Down(n - 1)
    BY <1>4 DEF Ctx!WholeBytes
  <2>3. QED
    BY <1>3, <1>4, <2>1, <2>2
<1>5. QED
  BY <1>2, <1>4

(* What Whole does not take of the input is at most a block.               *)
LEMMA WholeHolds ==
  ASSUME NEW c, NEW k \in Nat, NEW fits, Holds(c, k, fits), NEW n \in Nat,
         c.buflen = 0 \/ n = 0, fits => n <= Word,
         NEW input, input = Run(BlockSize * k + c.buflen, n), NEW aligned
  PROVE  \E j \in Nat : /\ Ctx!WholeBytes(input, aligned) = BlockSize * j
                        /\ BlockSize * j <= n /\ n - BlockSize * j <= BlockSize
                        /\ Holds(Ctx!Whole(c, input, aligned), k + j, fits)
                        /\ Ctx!Whole(c, input, aligned).buflen = c.buflen
<1> DEFINE from == BlockSize * k
<1>1. /\ BlockSize \in Nat \ {0} /\ from \in Nat /\ c.buflen \in Nat
      /\ IsContext(c) /\ DOMAIN c.buffer = 1..Ctx!Capacity /\ c.state = FirstBlocks(k)
  BY Sizes DEF Holds, Buffers
<1>2. fits => c.total = Double(from)
  BY Zenon DEF Holds, Buffers
<1>3. Len(input) = n /\ \A p \in 1..n : input[p] = from + c.buflen + p
  <2> HIDE DEF from
  <2>1. from + c.buflen \in Nat
    BY <1>1
  <2>2. QED
    BY <2>1, RunIsSequence DEF Run, from
<1>4. PICK j \in Nat : /\ Ctx!WholeBytes(input, aligned) = BlockSize * j
                       /\ BlockSize * j <= n /\ n - BlockSize * j <= BlockSize
  BY <1>3, WholeBytesAre
<1> DEFINE whole == BlockSize * j
           direct == Ctx!ProcessBlock(c, input, whole)
           new == Ctx!CopyTo(c.buffer, 0, Ctx!Part(input, whole - BlockSize, BlockSize))
           d == Ctx!Whole(c, input, aligned)
           s == FirstBlocks(k + j)
<1>5. whole \in Nat /\ (whole # 0 => c.buflen = 0) /\ whole <= n
  <2>1. whole \in Nat
    BY <1>1
  <2> HIDE DEF whole
  <2>2. whole <= n
    BY <1>4 DEF whole
  <2>3. QED
    BY <2>1, <2>2
<1>6. Continues(input, k, whole)
  <2> HIDE DEF whole, from
  <2>1. \A p \in 1..whole : c.buflen = 0 /\ p \in 1..n
    BY <1>5
  <2>2. \A p \in 1..whole : input[p] = from + p
    BY <1>1, <1>3, <2>1
  <2>3. QED
    BY <2>2 DEF Continues, from
<1>7. direct = Rec(direct.total, c.buflen, c.buffer, s) /\ (fits => direct.total = Double(BlockSize * (k + j)))
  <2>1. ASSUME fits
        PROVE  c.total = Double(BlockSize * k) /\ BlockSize * j <= Word
    <3>1. n <= Word
      BY <2>1
    <3> HIDE DEF whole
    <3>2. whole <= Word
      BY <1>5, <3>1, Sizes
    <3>3. QED
      BY <1>2, <2>1, <3>2 DEF whole, from
  <2>2. HasProcessed(Ctx!ProcessBlock(c, input, BlockSize * j), c, k + j, fits)
    <3>1. fits => c.total = Double(BlockSize * k) /\ BlockSize * j <= Word
      BY <2>1
    <3>2. IsContext(c) /\ c.state = FirstBlocks(k) /\ Continues(input, k, BlockSize * j)
      BY <1>1, <1>6
    <3>3. QED
      BY <3>1, <3>2, Processed, Zenon
  <2>3. QED
    BY <2>2, Zenon DEF HasProcessed, direct, whole
<1>8. k + j \in Nat
  OBVIOUS
<1> HIDE DEF direct, s
<1>9. direct.buflen = c.buflen /\ direct.buffer = c.buffer /\ direct.state = s
  <2> DEFINE t == direct.total
             l == c.buflen
             b == c.buffer
  <2> HIDE DEF t, l, b
  <2>1. direct = Rec(t, l, b, s)
    BY <1>7 DEF t, l, b
  <2>2. direct.buflen = l /\ direct.buffer = b /\ direct.state = s
    BY <2>1, FieldsOfRec
  <2>3. QED
    BY <2>2 DEF l, b
<1>10. c.buflen <= BlockSize /\ c.buflen <= Ctx!Capacity /\ Continues(c.buffer, k, c.buflen)
  BY DEF Holds, Buffers
<1>11. \A b : Continues(b, k + j, 0)
  BY DEF Continues
<1>12. CASE aligned \/ whole = 0
  <2>1. d = direct
    BY <1>4, <1>12 DEF Ctx!Whole, direct
  <2>2. IsContext(direct)
    BY <1>7, <1>9 DEF IsContext
  <2>3. Continues(direct.buffer, k + j, direct.buflen)
    <3>1. CASE whole = 0
      <4>1. j = 0
        BY <1>1, <3>1
      <4>2. k + j = k
        BY <4>1
      <4>3. QED
        BY <1>9, <1>10, <4>2
    <3>2. CASE whole # 0
      BY <1>5, <1>9, <1>11, <3>2
    <3>3. QED
      BY <3>1, <3>2
  <2>4. Buffers(direct, k + j, fits)
    BY <1>1, <1>7, <1>9, <1>10, <2>2, <2>3, Zenon DEF Buffers, s
  <2>5. Holds(direct, k + j, fits) /\ direct.buflen = c.buflen
    BY <1>9, <1>10, <2>4 DEF Holds
  <2>6. QED
    BY <1>4, <2>1, <2>5 DEF d
<1>13. CASE ~(aligned \/ whole = 0)
  <2>1. c.buflen = 0
    BY <1>5, <1>13
  <2>2. d = [direct EXCEPT !.buffer = Ctx!CopyTo(@, 0, Ctx!Part(input, whole - BlockSize, BlockSize))]
    BY <1>4, <1>13 DEF Ctx!Whole, direct
  <2>3. d = [direct EXCEPT !.buffer = new]
    <3> HIDE DEF d, whole
    <3>1. QED
      BY <1>9, <2>2
  <2> HIDE DEF d
  <2>4. d = Rec(direct.total, 0, new, s)
    <3> DEFINE t == direct.total
               b == c.buffer
    <3> HIDE DEF t, b, new
    <3>1. direct = Rec(t, 0, b, s)
      BY <1>7, <2>1 DEF t, b
    <3>2. d = Rec(t, 0, new, s)
      BY <2>3, <3>1, WithBuffer
    <3>3. QED
      BY <3>2 DEF t
  <2>5. DOMAIN new = 1..Ctx!Capacity
    <3> DEFINE last == Ctx!Part(input, whole - BlockSize, BlockSize)
    <3>1. Len(last) = BlockSize /\ 0 \in Nat /\ 0 + BlockSize <= Ctx!Capacity
      BY <1>1, PartLength, BufferFits
    <3> HIDE DEF last
    <3>2. CopyHas(Ctx!CopyTo(c.buffer, 0, last), c.buffer, 0, last, BlockSize)
      BY <1>1, <3>1, Copied
    <3>3. QED
      BY <3>2 DEF CopyHas, last
  <2> HIDE DEF new
  <2>6. d.total = direct.total /\ d.buflen = 0 /\ d.buffer = new /\ d.state = s
    BY <2>4, FieldsOfRec
  <2>7. IsContext(d)
    BY <2>4, <2>6 DEF IsContext
  <2>8. 0 \in Nat /\ 0 <= Ctx!Capacity /\ 0 <= BlockSize
    BY <1>1, BufferFits
  <2>9. Buffers(d, k + j, fits)
    BY <1>7, <1>11, <2>5, <2>6, <2>7, <2>8, Zenon DEF Buffers, s
  <2>10. Holds(d, k + j, fits) /\ d.buflen = c.buflen
    BY <2>1, <2>6, <2>8, <2>9 DEF Holds
  <2>11. QED
    BY <1>4, <2>10 DEF d
<1>14. QED
  BY <1>12, <1>13

LEMMA AdditionIs ==
  ASSUME NEW c, c.buflen \in 0..BlockSize, NEW input, NEW n \in Nat, Len(input) = n
  PROVE  LET add == Ctx!Addition(c, input)
         IN  /\ add \in 0..n
             /\ add = 0 => c.buflen = 0 \/ n = 0
             /\ add # 0 => /\ c.buflen + add <= Ctx!Capacity
                           /\ add = n \/ c.buflen + add = Ctx!Capacity
<1>1. BlockSize \in Nat \ {0} /\ Ctx!Capacity = BlockSize + BlockSize
  BY Sizes, BufferFits
<1>2. QED
  BY <1>1 DEF Ctx!Addition

(* md5_process_bytes of the next n bytes.                                  *)
LEMMA ProcessBytesHolds ==
  ASSUME NEW c, NEW at \in Nat, NEW fits, HoldsUpTo(c, at, fits), NEW n \in Nat,
         fits => n <= Word, NEW input, input = Run(at, n), NEW aligned
  PROVE  HoldsUpTo(Ctx!ProcessBytes(c, input, aligned), at + n, fits)
<1> DEFINE add == Ctx!Addition(c, input)
           filled == IF add = 0 THEN c ELSE Ctx!Fill(c, SubSeq(input, 1, add))
           rest == SubSeq(input, add + 1, Len(input))
           w == Ctx!WholeBytes(rest, aligned)
           tail == SubSeq(rest, w + 1, Len(rest))
           whole == Ctx!Whole(filled, rest, aligned)
           m == n - add
           at1 == at + add
<1>1. PICK k \in Nat : Holds(c, k, fits) /\ BlockSize * k + c.buflen = at
  BY DEF HoldsUpTo
<1>2. c.buflen \in 0..BlockSize /\ BlockSize \in Nat \ {0}
  BY <1>1, Sizes DEF Holds, Buffers
<1>3. Len(input) = n /\ input \in Seq(Nat)
  BY RunIsSequence
<1>4. /\ add \in 0..n
      /\ add = 0 => c.buflen = 0 \/ n = 0
      /\ add # 0 => /\ c.buflen + add <= Ctx!Capacity
                    /\ add = n \/ c.buflen + add = Ctx!Capacity
  BY <1>2, <1>3, AdditionIs
<1> HIDE DEF add
<1>5. m \in Nat /\ m <= n /\ at1 \in Nat /\ add + m = n /\ add \in Nat /\ at1 + m = at + n
  BY <1>4
<1>6. HoldsUpTo(filled, at1, fits) /\ (filled.buflen = 0 \/ m = 0)
  <2>1. CASE add = 0
    <3>1. filled = c /\ at1 = at
      BY <2>1
    <3>2. c.buflen = 0 \/ m = 0
      BY <1>4, <2>1
    <3>3. QED
      BY <3>1, <3>2
  <2>2. CASE add # 0
    <3> DEFINE head == SubSeq(input, 1, add)
    <3>1. head = Run(at, add)
      <4>1. add <= n
        BY <1>4
      <4>2. QED
        BY <1>5, <4>1, StartOfRun
    <3> HIDE DEF head
    <3>2. head = Run(BlockSize * k + c.buflen, add) /\ c.buflen + add <= Ctx!Capacity
      <4>1. head = Run(BlockSize * k + c.buflen, add)
        BY <1>1, <3>1, Zenon
      <4>2. c.buflen + add <= Ctx!Capacity
        BY <1>4, <2>2
      <4>3. QED
        BY <4>1, <4>2, Zenon
    <3>3. /\ HoldsUpTo(Ctx!Fill(c, head), BlockSize * k + c.buflen + add, fits)
          /\ c.buflen + add = Ctx!Capacity => Ctx!Fill(c, head).buflen = 0
      BY <1>1, <1>5, <3>2, FillHolds
    <3>4. BlockSize * k + c.buflen + add = at1
      BY <1>1
    <3>5. filled = Ctx!Fill(c, head)
      BY <2>2 DEF head
    <3> HIDE DEF filled, at1
    <3>6. HoldsUpTo(filled, at1, fits)
      BY <3>3, <3>4, <3>5
    <3>7. filled.buflen = 0 \/ m = 0
      BY <1>4, <1>5, <2>2, <3>3, <3>5
    <3>8. QED
      BY <3>6, <3>7
  <2>3. QED
    BY <2>1, <2>2
<1>7. rest = Run(at1, m) /\ Len(rest) = m
  <2>1. add <= n
    BY <1>4
  <2>2. rest = Run(at1, m)
    <3>1. RestIsRun(at, n, add)
      BY <1>5, <2>1, RestOfRun
    <3>2. QED
      BY <3>1 DEF RestIsRun
  <2> HIDE DEF rest, m, at1
  <2>3. QED
    BY <1>5, <2>2, RunIsSequence
<1> HIDE DEF filled, rest, m, at1
<1>8. PICK i \in Nat : Holds(filled, i, fits) /\ BlockSize * i + filled.buflen = at1
  BY <1>6 DEF HoldsUpTo
<1>9. PICK j \in Nat : /\ w = BlockSize * j
                       /\ BlockSize * j <= m /\ m - BlockSize * j <= BlockSize
                       /\ Holds(whole, i + j, fits)
                       /\ whole.buflen = filled.buflen
  <2>1. filled.buflen = 0 \/ m = 0
    BY <1>6
  <2>2. rest = Run(BlockSize * i + filled.buflen, m)
    BY <1>7, <1>8
  <2>3. ASSUME fits
        PROVE  m <= Word
    <3>1. n <= Word
      BY <2>3
    <3>2. QED
      BY <1>5, <3>1, Sizes
  <2>4. QED
    BY <1>5, <1>8, <2>1, <2>2, <2>3, WholeHolds
<1> HIDE DEF w, whole
<1>10. w \in Nat /\ w <= m /\ m - w \in 0..BlockSize
  <2>1. BlockSize * j \in Nat
    BY <1>2
  <2>2. w \in Nat /\ w <= m /\ m - w <= BlockSize
    BY <1>9, <2>1
  <2>3. QED
    BY <1>2, <1>5, <2>2
<1> DEFINE left == m - w
           at2 == at1 + w
<1>11. left \in Nat /\ at2 \in Nat /\ w + left = m /\ at2 + left = at + n
  BY <1>5, <1>10
<1>12. tail = Run(at2, left) /\ Len(tail) = left
  <2>1. tail = Run(at2, left)
    <3>1. RestIsRun(at1, m, w)
      BY <1>5, <1>10, RestOfRun
    <3>2. QED
      BY <1>7, <3>1 DEF RestIsRun
  <2> HIDE DEF tail, left, at2
  <2>2. QED
    BY <1>11, <2>1, RunIsSequence
<1>13. Ctx!ProcessBytes(c, input, aligned) = IF tail = <<>> THEN whole ELSE Ctx!Keep(whole, tail)
  BY Zenon DEF Ctx!ProcessBytes, add, filled, rest, w, whole
<1>14. BlockSize * (i + j) + whole.buflen = at2
  <2> DEFINE p == BlockSize * i
             q == BlockSize * j
  <2>1. BlockSize * (i + j) = p + q /\ p \in Nat /\ q \in Nat
    BY <1>2
  <2>2. filled.buflen \in Nat
    BY <1>8 DEF Holds, Buffers
  <2>3. p + filled.buflen = at1 /\ w = q
    BY <1>8, <1>9
  <2> HIDE DEF p, q
  <2>4. QED
    BY <1>9, <2>1, <2>2, <2>3
<1> HIDE DEF tail, left, at2
<1>15. i + j \in Nat
  OBVIOUS
<1>16. CASE left = 0
  <2>1. tail = <<>>
    BY <1>12, <1>16 DEF Run
  <2>2. at2 = at + n
    BY <1>11, <1>16
  <2>3. HoldsUpTo(whole, at2, fits)
    BY <1>9, <1>14, <1>15 DEF HoldsUpTo
  <2>4. QED
    BY <1>13, <2>1, <2>2, <2>3
<1>17. CASE left # 0
  <2>1. tail # <<>>
    <3>1. Len(<<>>) = 0
      OBVIOUS
    <3>2. QED
      BY <1>12, <1>17, <3>1
  <2>2. left \in 1..BlockSize /\ m # 0
    BY <1>2, <1>5, <1>10, <1>11, <1>17 DEF left
  <2>3. whole.buflen = 0
    BY <1>6, <1>9, <2>2
  <2> DEFINE from == BlockSize * (i + j)
  <2>4. from = at2
    <3>1. from \in Nat
      BY <1>2
    <3> HIDE DEF from
    <3>2. from + whole.buflen = at2
      BY <1>14 DEF from
    <3>3. QED
      BY <2>3, <3>1, <3>2
  <2> HIDE DEF from
  <2>5. tail = Run(BlockSize * (i + j), left)
    BY <1>12, <2>4 DEF from
  <2>6. HoldsUpTo(Ctx!Keep(whole, tail), BlockSize * (i + j) + left, fits)
    BY <1>9, <1>15, <2>2, <2>3, <2>5, KeepHolds
  <2>7. HoldsUpTo(Ctx!Keep(whole, tail), at + n, fits)
    <3>1. from + left = at + n
      BY <1>11, <2>4
    <3>2. QED
      BY <2>6, <3>1 DEF from
  <2>8. QED
    BY <1>13, <2>1, <2>7
<1>18. QED
  BY <1>16, <1>17

LEMMA ModOfMultiple ==
  ASSUME NEW w \in Nat \ {0}, NEW y \in Nat, NEW a \in Nat
  PROVE  (w * y + a) % w = a % w
<1> DEFINE q == a \div w
           r == a % w
           b == w * y + a
<1>1. q \in Nat /\ r \in 0..w - 1 /\ a = w * q + r
  BY DivMod
<1> HIDE DEF q, r
<1>2. w * (y + q) = w * y + w * q /\ w * y \in Nat /\ w * q \in Nat /\ y + q \in Nat
  BY <1>1
<1> DEFINE wy == w * y
           wq == w * q
           wyq == w * (y + q)
<1>3. wyq = wy + wq /\ wy \in Nat /\ wq \in Nat /\ a = wq + r /\ b = wy + a
  BY <1>1, <1>2
<1> HIDE DEF b, wy, wq, wyq
<1>4. b = wyq + r /\ b \in Nat
  BY <1>1, <1>3
<1>5. b = w * (y + q) + r
  BY <1>4 DEF wyq
<1>6. b % w = r
  <2> DEFINE yq == y + q
  <2>1. yq \in Nat /\ r \in 0..w - 1 /\ b \in Nat /\ b = w * yq + r
    BY <1>1, <1>2, <1>4, <1>5
  <2> HIDE DEF yq
  <2>2. QED
    BY <2>1, DivModUnique
<1>7. QED
  BY <1>6 DEF b, r

(* The number of bits that md5_finish_ctx appends is what MD5 asks for.    *)
LEMMA BitsOfDouble ==
  ASSUME NEW n \in Nat
  PROVE  Ctx!BitsOf(Double(n)) = Encode(CountOf(n))
<1>1. PICK m \in Nat \ {0} : Word = 8 * BlockSize * m
  BY WordHoldsBlocks
<1> DEFINE q == BlockSize * m
           h == n \div Word
           l == n % Word
           d == l \div q
           e == l % q
           g == h \div Word
           b == h % Word
<1>2. q \in Nat \ {0} /\ Word = 8 * q /\ Word \in Nat \ {0}
  BY <1>1, Sizes
<1>3. Word \div 8 = q
  <2> HIDE DEF q
  <2>1. QED
    BY <1>2
<1> HIDE DEF q
<1>4. h \in Nat /\ l \in 0..Word - 1 /\ n = Word * h + l
  BY <1>2, DivMod
<1> HIDE DEF h, l
<1>5. g \in Nat /\ b \in 0..Word - 1 /\ h = Word * g + b
  BY <1>2, <1>4, DivMod
<1>6. d \in Nat /\ e \in 0..q - 1 /\ l = q * d + e
  <2>1. l \in Nat /\ q \in Nat \ {0}
    BY <1>2, <1>4
  <2>2. QED
    BY <2>1, DivMod
<1> HIDE DEF g, b, d, e
<1> DEFINE qd == q * d
           wd == Word * d
           bits == 8 * l
           low == 8 * e
           all == 8 * n
           wh == Word * h
           w8h == Word * (8 * h)
           high == 8 * h + d
           wg == Word * g
           w8g == Word * (8 * g)
           some == 8 * b + d
           whigh == Word * high
<1>7. /\ qd \in Nat /\ wd = 8 * qd /\ wh \in Nat /\ w8h = 8 * wh /\ high \in Nat
      /\ wg \in Nat /\ w8g = 8 * wg /\ whigh = w8h + wd
  BY <1>2, <1>4, <1>5, <1>6
<1>8. /\ n = wh + l /\ h = wg + b /\ l = qd + e
      /\ bits = 8 * l /\ all = 8 * n /\ low = 8 * e /\ high = 8 * h + d /\ some = 8 * b + d
  BY <1>4, <1>5, <1>6
<1> HIDE DEF qd, wd, bits, low, all, wh, w8h, high, wg, w8g, some, whigh
<1>9. /\ low \in 0..Word - 1 /\ bits = wd + low /\ bits \in Nat /\ all \in Nat
      /\ all = whigh + low /\ some \in Nat /\ high = w8g + some
  BY <1>2, <1>4, <1>5, <1>6, <1>7, <1>8
<1>10. bits % Word = low
  <2>1. Word \in Nat \ {0} /\ d \in Nat /\ low \in 0..Word - 1 /\ bits \in Nat
    BY <1>2, <1>6, <1>9
  <2>2. bits = Word * d + low
    BY <1>9 DEF wd
  <2>3. QED
    BY <2>1, <2>2, DivModUnique
<1>11. all \div Word = high /\ all % Word = low
  BY <1>2, <1>7, <1>9, DivModUnique DEF whigh
<1>12. high % Word = some % Word
  <2>1. 8 * g \in Nat
    BY <1>5
  <2>2. (Word * (8 * g) + some) % Word = some % Word
    BY <1>2, <1>9, <2>1, ModOfMultiple
  <2>3. QED
    BY <1>9, <2>2 DEF w8g
<1>13. Double(n)[1] = l /\ Double(n)[2] = b
  BY DEF Double, h, l, b
<1>14. Ctx!BitsOf(Double(n)) =
         [p \in 1..LengthSize |-> IF p <= LengthSize \div 2 THEN bits % Word ELSE some % Word]
  BY <1>3, <1>13 DEF Ctx!BitsOf, bits, some, d
<1>15. Encode(CountOf(n)) =
         [p \in 1..LengthSize |->
            IF p <= LengthSize \div 2 THEN all % Word ELSE (all \div Word) % Word]
  BY DEF Encode, CountOf, all
<1>16. QED
  BY <1>10, <1>11, <1>12, <1>14, <1>15

(* t is m, then s, then e. *)
FollowsBoth(S, t, m, s, e) ==
  /\ t \in Seq(S) /\ Len(t) = Len(m) + Len(s) + Len(e)
  /\ \A i \in 1..Len(m) : t[i] = m[i]
  /\ \A i \in 1..Len(s) : t[Len(m) + i] = s[i]
  /\ \A i \in 1..Len(e) : t[Len(m) + Len(s) + i] = e[i]

LEMMA ConcatBoth ==
  ASSUME NEW S, NEW m \in Seq(S), NEW s \in Seq(S), NEW e \in Seq(S)
  PROVE  FollowsBoth(S, (m \o s) \o e, m, s, e)
<1> DEFINE u == m \o s
           t == u \o e
<1>1. Follows(S, u, m, s)
  BY ConcatFollows, Zenon
<1> HIDE DEF u
<1>2. /\ u \in Seq(S) /\ Len(u) = Len(m) + Len(s) /\ Len(m) \in Nat /\ Len(s) \in Nat
      /\ \A i \in 1..Len(m) : u[i] = m[i]
      /\ \A i \in 1..Len(s) : u[Len(m) + i] = s[i]
  BY <1>1 DEF Follows
<1>3. Follows(S, t, u, e)
  BY <1>2, ConcatFollows, Zenon
<1> HIDE DEF t
<1>4. /\ t \in Seq(S) /\ Len(t) = Len(u) + Len(e) /\ Len(e) \in Nat
      /\ \A i \in 1..Len(u) : t[i] = u[i]
      /\ \A i \in 1..Len(e) : t[Len(u) + i] = e[i]
  BY <1>3 DEF Follows
<1> DEFINE a == Len(m)
           b == Len(s)
<1>5. a \in Nat /\ b \in Nat /\ Len(u) = a + b
  BY <1>2
<1> HIDE DEF a, b
<1>6. \A i \in 1..a : i \in 1..Len(u)
  BY <1>5
<1>7. \A i \in 1..b : a + i \in 1..Len(u)
  BY <1>5
<1>8. /\ \A i \in 1..a : t[i] = m[i]
      /\ \A i \in 1..b : t[a + i] = s[i]
      /\ \A i \in 1..Len(e) : t[a + b + i] = e[i]
  BY <1>2, <1>4, <1>5, <1>6, <1>7 DEF a, b
<1>9. t \in Seq(S) /\ Len(t) = a + b + Len(e)
  BY <1>4, <1>5
<1>10. QED
  BY <1>8, <1>9 DEF FollowsBoth, a, b, t, u

(* How long the padding is of what waits in the buffer of md5.c, where a   *)
(* whole block may wait.                                                   *)
LEMMA LastBytesAre ==
  ASSUME NEW c, NEW k \in Nat, c.buflen \in 0..BlockSize
  PROVE  \E j \in {1, 2} :
           LET size == Ctx!LastBytes(c)
               zeros == size - LengthSize - c.buflen
           IN  /\ size = BlockSize * j /\ size <= Ctx!Capacity /\ zeros \in 1..BlockSize
               /\ zeros = PadLen((BlockSize * k + c.buflen) % BlockSize)
<1> DEFINE l == c.buflen
           size == Ctx!LastBytes(c)
           n == BlockSize * k + l
<1>1. BlockSize \in Nat \ {0} /\ LengthSize \in Nat /\ LengthSize < BlockSize
  BY Sizes
<1>2. Ctx!Capacity = 2 * BlockSize /\ BlockSize * 1 = BlockSize /\ BlockSize * 2 = 2 * BlockSize
  BY <1>1 DEF Ctx!Capacity
<1>3. size = IF l < BlockSize - LengthSize THEN BlockSize ELSE 2 * BlockSize
  BY <1>2 DEF Ctx!LastBytes
<1> HIDE DEF size
<1>4. /\ size = BlockSize * 1 \/ size = BlockSize * 2
      /\ size <= Ctx!Capacity /\ size - LengthSize - l \in 1..BlockSize
  BY <1>1, <1>2, <1>3
<1>5. n \in Nat /\ n = BlockSize * k + l
  BY <1>1
<1>6. CASE l < BlockSize
  <2>1. l \in 0..BlockSize - 1
    BY <1>1, <1>6
  <2>2. n % BlockSize = l
    <3> HIDE DEF n
    <3>1. QED
      BY <1>5, <2>1, CutIs
  <2>3. size - LengthSize - l = PadLen(n % BlockSize)
    BY <1>1, <1>3, <1>6, <2>2 DEF PadLen
  <2>4. QED
    BY <1>4, <2>3 DEF size
<1>7. CASE l = BlockSize
  <2>1. n % BlockSize = 0
    <3> DEFINE k1 == k + 1
    <3>1. BlockSize * k1 = BlockSize * k + BlockSize
      BY <1>1
    <3>2. 0 \in 0..BlockSize - 1 /\ k1 \in Nat
      BY <1>1
    <3>3. n = BlockSize * k1 + 0
      BY <1>1, <1>7, <3>1
    <3> HIDE DEF n, k1
    <3>4. QED
      BY <1>5, <3>2, <3>3, CutIs
  <2>2. size - LengthSize - l = PadLen(n % BlockSize)
    <3> HIDE DEF n
    <3>1. QED
      BY <1>1, <1>3, <1>7, <2>1 DEF PadLen
  <2>3. QED
    BY <1>4, <2>2 DEF size
<1>8. QED
  BY <1>1, <1>6, <1>7

(* The buffer as md5_finish_ctx completes it.                              *)
Completed(c) ==
  Ctx!CopyTo(Ctx!CopyTo(c.buffer, Ctx!LastBytes(c) - LengthSize, Ctx!BitsOf(Ctx!Counted(c))),
             c.buflen, Padding(Ctx!LastBytes(c) - LengthSize - c.buflen))

LEMMA FinishCtxIs ==
  ASSUME NEW c
  PROVE  Ctx!FinishCtx(c) =
           Ctx!ProcessBlock(SetTotalBuffer(c, Ctx!Counted(c), Completed(c)),
                            Completed(c), Ctx!LastBytes(c))
BY Zenon DEF Ctx!FinishCtx, Completed, Padding, SetTotalBuffer

(* What is in it.                                                          *)
CompletedHas(new, c, size, zeros) ==
  /\ DOMAIN new = 1..Ctx!Capacity
  /\ \A p \in 1..c.buflen : new[p] = c.buffer[p]
  /\ \A p \in 1..zeros : new[c.buflen + p] = Padding(zeros)[p]
  /\ \A p \in 1..LengthSize : new[c.buflen + zeros + p] = Ctx!BitsOf(Ctx!Counted(c))[p]

LEMMA CompletedIs ==
  ASSUME NEW c, c.buflen \in Nat, DOMAIN c.buffer = 1..Ctx!Capacity,
         NEW size, size = Ctx!LastBytes(c), NEW zeros \in Nat,
         zeros = size - LengthSize - c.buflen, size \in Nat, size <= Ctx!Capacity
  PROVE  CompletedHas(Completed(c), c, size, zeros)
<1> DEFINE l == c.buflen
           bits == Ctx!BitsOf(Ctx!Counted(c))
           room == Ctx!Capacity
           at == size - LengthSize
           first == Ctx!CopyTo(c.buffer, at, bits)
           new == Ctx!CopyTo(first, l, Padding(zeros))
<1>1. LengthSize \in Nat /\ room \in Nat /\ l \in Nat
  BY Sizes DEF Ctx!Capacity
<1>2. at \in Nat /\ at + LengthSize = size /\ l + zeros = at
  BY <1>1
<1>3. Len(bits) = LengthSize
  <2> DEFINE S == {bits[p] : p \in 1..LengthSize}
  <2>1. bits = [p \in 1..LengthSize |-> bits[p]]
    BY DEF Ctx!BitsOf
  <2> HIDE DEF bits
  <2>2. bits \in [1..LengthSize -> S]
    BY <2>1
  <2> HIDE DEF S
  <2>3. QED
    BY <1>1, <2>2
<1>4. Len(Padding(zeros)) = zeros
  BY DEF Padding
<1>5. Completed(c) = new
  BY DEF Completed
<1> HIDE DEF at, l, bits, room
<1>6. CopyHas(first, c.buffer, at, bits, LengthSize)
  <2>1. at + LengthSize <= Ctx!Capacity
    BY <1>2
  <2>2. QED
    BY <1>1, <1>2, <1>3, <2>1, Copied
<1> HIDE DEF first
<1>7. CopyHas(new, first, l, Padding(zeros), zeros)
  <2>1. l + zeros <= Ctx!Capacity
    BY <1>1, <1>2 DEF room
  <2>2. DOMAIN first = 1..Ctx!Capacity
    BY <1>6 DEF CopyHas
  <2>3. QED
    BY <1>1, <1>4, <2>1, <2>2, Copied
<1> HIDE DEF new
<1>8. \A p \in 1..l : new[p] = c.buffer[p]
  <2>1. \A p \in 1..l : p \in 1..at
    BY <1>1, <1>2
  <2>2. QED
    BY <1>6, <1>7, <2>1 DEF CopyHas
<1>9. \A p \in 1..LengthSize : new[at + p] = bits[p]
  <2>1. \A p \in 1..LengthSize : at + p \in 1..Ctx!Capacity /\ at + p > l + zeros
    BY <1>1, <1>2 DEF room
  <2>2. QED
    BY <1>6, <1>7, <2>1 DEF CopyHas
<1>10. CompletedHas(new, c, size, zeros)
  <2>1. DOMAIN new = 1..Ctx!Capacity /\ \A p \in 1..zeros : new[l + p] = Padding(zeros)[p]
    BY <1>7 DEF CopyHas
  <2>2. QED
    BY <1>2, <1>8, <1>9, <2>1 DEF CompletedHas, l, bits
<1>11. QED
  BY <1>5, <1>10

(* The blocks processed, then those of the buffer, are the blocks of P.    *)
AreBlocksOf(P, k, j, buf) ==
  FirstBlocks(k) \o [i \in 1..j |-> Ctx!Part(buf, (i - 1) * BlockSize, BlockSize)] = InBlocks(P)

LEMMA BlocksComplete ==
  ASSUME NEW k \in Nat, NEW j \in Nat, NEW S, NEW P \in Seq(S), NEW buf,
         Len(P) = BlockSize * (k + j), \A p \in 1..BlockSize * k : P[p] = p,
         \A p \in 1..BlockSize * j : P[BlockSize * k + p] = buf[p]
  PROVE  AreBlocksOf(P, k, j, buf)
<1> DEFINE old == FirstBlocks(k)
           new == [i \in 1..j |-> Ctx!Part(buf, (i - 1) * BlockSize, BlockSize)]
           all == InBlocks(P)
           both == old \o new
           n == k + j
           begin == BlockSize * k
           size == BlockSize * j
<1>1. BlockSize \in Nat \ {0} /\ n \in Nat /\ begin \in Nat /\ size \in Nat
  BY Sizes
<1>2. Len(P) \div BlockSize = n
  BY <1>1, WholeBlocks
<1>3. n * BlockSize = Len(P)
  BY <1>1, Commutes
<1>4. /\ all \in Seq(Seq(S)) /\ Len(all) = n
      /\ \A i \in 1..n : all[i] = BlockAt(P, (i - 1) * BlockSize)
  <2> DEFINE blocks == Blocks(P, 0, n)
  <2>1. all = blocks
    BY <1>2 DEF InBlocks
  <2> HIDE DEF n, all
  <2>2. n * BlockSize <= Len(P)
    BY <1>1, <1>3
  <2>3. /\ blocks \in Seq(Seq(S)) /\ Len(blocks) = n
        /\ \A i \in 1..n : blocks[i] = BlockAt(P, (i - 1) * BlockSize)
    BY <1>1, <2>2, BlocksFromStart, Zenon
  <2> HIDE DEF blocks
  <2>4. QED
    BY <2>1, <2>3
<1> HIDE DEF all
<1>5. ASSUME NEW i \in 1..k
      PROVE  old[i] = all[i]
  <2> DEFINE from == (i - 1) * BlockSize
  <2>1. from \in Nat /\ from + BlockSize <= k * BlockSize /\ k * BlockSize = begin
    BY <1>1, BlocksFit, Commutes
  <2>2. i \in 1..n
    OBVIOUS
  <2>3. old[i] = Run(from, BlockSize) /\ all[i] = BlockAt(P, from)
    BY <1>4, <2>2 DEF FirstBlocks
  <2> HIDE DEF from, begin
  <2>4. \A p \in 1..BlockSize : from + p \in 1..begin
    BY <1>1, <2>1
  <2>5. \A p \in 1..BlockSize : P[from + p] = from + p
    BY <2>4 DEF begin
  <2>6. QED
    BY <2>3, <2>5 DEF Run, BlockAt
<1>6. ASSUME NEW i \in 1..j
      PROVE  new[i] = all[k + i]
  <2> DEFINE from == (i - 1) * BlockSize
             from2 == ((k + i) - 1) * BlockSize
  <2>1. from \in Nat /\ from + BlockSize <= j * BlockSize /\ j * BlockSize = size
    BY <1>1, BlocksFit, Commutes
  <2>2. from2 = begin + from
    BY <1>1
  <2>3. k + i \in 1..n
    OBVIOUS
  <2>4. new[i] = [p \in 1..BlockSize |-> buf[from + p]] /\ all[k + i] = BlockAt(P, from2)
    BY <1>4, <2>3 DEF Ctx!Part
  <2> HIDE DEF from, from2, begin, size, new
  <2>5. \A p \in 1..BlockSize : from + p \in 1..size /\ begin + (from + p) = from2 + p
    BY <1>1, <2>1, <2>2
  <2>6. \A p \in 1..BlockSize : P[from2 + p] = buf[from + p]
    <3>1. \A q \in 1..size : P[begin + q] = buf[q]
      BY DEF begin, size
    <3>2. QED
      BY <2>5, <3>1
  <2>7. QED
    BY <2>4, <2>6 DEF BlockAt
<1>7. old \in Seq(Seq(S)) /\ Len(old) = k
  <2>1. \A i \in 1..k : old[i] \in Seq(S)
    <3>1. \A i \in 1..k : i \in 1..n
      OBVIOUS
    <3>2. QED
      BY <1>4, <1>5, <3>1
  <2>2. old = [i \in 1..k |-> old[i]]
    BY DEF FirstBlocks
  <2> HIDE DEF old
  <2>3. old \in [1..k -> Seq(S)]
    BY <2>1, <2>2
  <2>4. QED
    BY <2>3
<1>8. new \in Seq(Seq(S)) /\ Len(new) = j
  <2>1. \A i \in 1..j : new[i] \in Seq(S)
    <3>1. \A i \in 1..j : k + i \in 1..n
      OBVIOUS
    <3>2. QED
      BY <1>4, <1>6, <3>1
  <2>2. new = [i \in 1..j |-> new[i]]
    OBVIOUS
  <2> HIDE DEF new
  <2>3. new \in [1..j -> Seq(S)]
    BY <2>1, <2>2
  <2>4. QED
    BY <2>3
<1> HIDE DEF old, new
<1>9. Follows(Seq(S), both, old, new)
  BY <1>7, <1>8, ConcatFollows, Zenon
<1> HIDE DEF both
<1>10. /\ both \in Seq(Seq(S)) /\ Len(both) = k + j
       /\ \A i \in 1..k : both[i] = old[i]
       /\ \A i \in 1..j : both[k + i] = new[i]
  BY <1>7, <1>8, <1>9 DEF Follows
<1>11. ASSUME NEW i \in 1..k + j
       PROVE  both[i] = all[i]
  <2>1. CASE i <= k
    BY <1>5, <1>10, <2>1
  <2>2. CASE i > k
    <3> DEFINE q == i - k
    <3>1. q \in 1..j /\ i = k + q
      BY <2>2
    <3> HIDE DEF q
    <3>2. QED
      BY <1>6, <1>10, <3>1
  <2>3. QED
    BY <2>1, <2>2
<1>12. both = all
  BY <1>4, <1>10, <1>11, SeqEqual
<1>13. QED
  BY <1>12 DEF both, all, old, new, AreBlocksOf

(* A context that md5_finish_ctx has left.                                 *)
Finished(f, n, fits) ==
  /\ f.buflen \in Nat /\ f.buflen <= BlockSize
  /\ DOMAIN f.buffer = 1..Ctx!Capacity
  /\ fits => f.state = InBlocks(Padded(Ctx!Message(n)))

LEMMA FinishHolds ==
  ASSUME NEW c, NEW n \in Nat, NEW fits, HoldsUpTo(c, n, fits)
  PROVE  Finished(Ctx!FinishCtx(c), n, fits)
<1>1. PICK k \in Nat : Holds(c, k, fits) /\ BlockSize * k + c.buflen = n
  BY DEF HoldsUpTo
<1> DEFINE l == c.buflen
           size == Ctx!LastBytes(c)
           zeros == size - LengthSize - l
           begin == BlockSize * k
           new == Completed(c)
           f == Ctx!FinishCtx(c)
<1>2. /\ IsContext(c) /\ l \in 0..BlockSize /\ l \in Nat /\ l <= BlockSize
      /\ DOMAIN c.buffer = 1..Ctx!Capacity /\ c.state = FirstBlocks(k)
      /\ \A p \in 1..l : c.buffer[p] = begin + p
  BY <1>1, Sizes DEF Holds, Buffers, Continues
<1>3. fits => c.total = Double(begin)
  BY <1>1, Zenon DEF Holds, Buffers
<1>4. PICK j \in {1, 2} : /\ size = BlockSize * j /\ size <= Ctx!Capacity /\ zeros \in 1..BlockSize
                          /\ zeros = PadLen(n % BlockSize)
  BY <1>1, <1>2, LastBytesAre
<1>5. j \in Nat /\ size \in Nat /\ zeros \in Nat /\ LengthSize \in Nat /\ begin \in Nat
  <2>1. BlockSize \in Nat /\ LengthSize \in Nat /\ j \in Nat
    BY Sizes
  <2>2. BlockSize * j \in Nat /\ begin \in Nat
    BY <2>1
  <2>3. QED
    BY <1>4, <2>1, <2>2
<1> HIDE DEF size
<1>6. l + zeros + LengthSize = size /\ begin + l = n
  <2> HIDE DEF begin
  <2>1. begin + l = n
    BY <1>1 DEF begin
  <2>2. QED
    BY <1>2, <1>5, <2>1
<1>7. CompletedHas(new, c, size, zeros)
  <2> HIDE DEF zeros
  <2>1. zeros = size - LengthSize - c.buflen
    BY DEF zeros
  <2>2. QED
    BY <1>2, <1>4, <1>5, <2>1, CompletedIs DEF size
<1> DEFINE blocks == [i \in 1..j |-> Ctx!Part(new, (i - 1) * BlockSize, BlockSize)]
<1> HIDE DEF new, zeros, begin, f
<1>8. f.buflen = l /\ f.buffer = new /\ f.state = c.state \o blocks
  <2> DEFINE t == c.total
             b == c.buffer
             s == c.state
             u == Ctx!Counted(c)
  <2>1. c = Rec(t, l, b, s)
    BY <1>2 DEF IsContext
  <2>2. f = Ctx!ProcessBlock(SetTotalBuffer(c, u, new), new, size)
    BY FinishCtxIs DEF f, new, size
  <2> HIDE DEF t, b, s, u, l, blocks
  <2>3. SetTotalBuffer(c, u, new) = Rec(u, l, new, s)
    BY <2>1, WithTotalAndBuffer
  <2>4. size \div BlockSize = j
    BY <1>4, <1>5, WholeBlocks
  <2>5. Ctx!ProcessBlock(Rec(u, l, new, s), new, size) = Rec(Ctx!Plus(u, size), l, new, s \o blocks)
    BY <2>4, ProcessBlockOfRec DEF blocks
  <2> DEFINE v == Ctx!Plus(u, size)
             w == s \o blocks
  <2>6. f = Rec(v, l, new, w)
    BY <2>2, <2>3, <2>5
  <2> HIDE DEF v, w
  <2>7. f.buflen = l /\ f.buffer = new /\ f.state = w
    BY <2>6, FieldsOfRec
  <2>8. QED
    BY <2>7 DEF w, s
<1>9. ASSUME fits
      PROVE  f.state = InBlocks(Padded(Ctx!Message(n)))
  <2> DEFINE m == Ctx!Message(n)
             padding == Padding(zeros)
             length == Encode(CountOf(n))
             P == (m \o padding) \o length
  <2>1. m \in Seq(Elements) /\ Len(m) = n /\ \A p \in 1..n : m[p] = p
    BY DEF Ctx!Message, Elements
  <2>2. padding \in Seq(Elements) /\ Len(padding) = zeros
    BY <1>5, PaddingIsOfElements DEF Padding
  <2>3. length \in Seq(Elements) /\ Len(length) = LengthSize
    <3>1. length \in Seq(Elements)
      BY EncodeIsOfElements
    <3>2. QED
      BY <1>5, <3>1 DEF Encode
  <2>4. Padded(m) = P
    BY <1>4, <2>1, PaddedIs
  <2>5. Ctx!BitsOf(Ctx!Counted(c)) = length
    <3>1. l <= Word
      BY <1>2, BufferFits, Sizes
    <3>2. Ctx!Plus(Double(begin), l) = Double(begin + l)
      BY <1>2, <1>5, <3>1, PlusIsExact
    <3>3. Ctx!Counted(c) = Double(n)
      BY <1>3, <1>6, <1>9, <3>2 DEF Ctx!Counted
    <3>4. QED
      BY <3>3, BitsOfDouble
  <2> HIDE DEF m, padding, length
  <2>6. FollowsBoth(Elements, P, m, padding, length)
    BY <2>1, <2>2, <2>3, ConcatBoth, Zenon
  <2> HIDE DEF P
  <2>7. /\ P \in Seq(Elements) /\ Len(P) = n + zeros + LengthSize
        /\ \A p \in 1..n : P[p] = p
        /\ \A p \in 1..zeros : P[n + p] = padding[p]
        /\ \A p \in 1..LengthSize : P[n + zeros + p] = length[p]
    BY <2>1, <2>2, <2>3, <2>6 DEF FollowsBoth
  <2>8. /\ \A p \in 1..l : new[p] = c.buffer[p]
        /\ \A p \in 1..zeros : new[l + p] = padding[p]
        /\ \A p \in 1..LengthSize : new[l + zeros + p] = length[p]
    BY <1>7, <2>5 DEF CompletedHas, padding
  <2>9. ASSUME NEW p \in 1..size
        PROVE  P[begin + p] = new[p]
    <3>1. CASE p <= l
      <4>1. p \in 1..l /\ begin + p \in 1..n
        BY <1>2, <1>5, <1>6, <3>1
      <4>2. QED
        BY <1>2, <2>7, <2>8, <4>1
    <3>2. CASE p > l /\ p <= l + zeros
      <4> DEFINE q == p - l
      <4>1. q \in 1..zeros /\ p = l + q /\ begin + p = n + q
        <5>1. l \in Nat /\ zeros \in Nat /\ begin \in Nat /\ p \in Int /\ begin + l = n
          BY <1>2, <1>5, <1>6
        <5> HIDE DEF l
        <5>2. QED
          BY <3>2, <5>1
      <4> HIDE DEF q
      <4>2. QED
        BY <2>7, <2>8, <4>1
    <3>3. CASE p > l + zeros
      <4> DEFINE q == p - (l + zeros)
      <4>1. q \in 1..LengthSize /\ p = l + zeros + q /\ begin + p = n + zeros + q
        <5>1. /\ l \in Nat /\ zeros \in Nat /\ LengthSize \in Nat /\ begin \in Nat
              /\ p \in Int /\ p <= size /\ l + zeros + LengthSize = size /\ begin + l = n
          BY <1>2, <1>5, <1>6
        <5> HIDE DEF l
        <5>2. QED
          BY <3>3, <5>1
      <4> HIDE DEF q
      <4>2. QED
        BY <2>7, <2>8, <4>1
    <3>4. QED
      BY <1>2, <1>5, <3>1, <3>2, <3>3
  <2>10. \A p \in 1..begin : P[p] = p
    <3>1. \A p \in 1..begin : p \in 1..n
      BY <1>2, <1>5, <1>6
    <3>2. QED
      BY <2>7, <3>1
  <2>11. Len(P) = BlockSize * (k + j)
    <3>1. BlockSize * (k + j) = begin + BlockSize * j
      BY Sizes DEF begin
    <3>2. Len(P) = begin + size
      <4>1. /\ l \in Nat /\ zeros \in Nat /\ LengthSize \in Nat /\ begin \in Nat
            /\ l + zeros + LengthSize = size /\ begin + l = n
        BY <1>2, <1>5, <1>6
      <4>2. Len(P) = n + zeros + LengthSize
        BY <2>7
      <4> HIDE DEF l
      <4>3. QED
        BY <4>1, <4>2
    <3>3. QED
      BY <1>4, <3>1, <3>2
  <2>12. FirstBlocks(k) \o blocks = InBlocks(P)
    <3>1. /\ \A p \in 1..BlockSize * k : P[p] = p
          /\ \A p \in 1..BlockSize * j : P[BlockSize * k + p] = new[p]
      BY <1>4, <2>9, <2>10 DEF begin
    <3>2. AreBlocksOf(P, k, j, new)
      BY <1>5, <2>7, <2>11, <3>1, BlocksComplete
    <3>3. QED
      BY <3>2 DEF AreBlocksOf
  <2>13. QED
    BY <1>2, <1>8, <2>4, <2>12 DEF m
<1>10. DOMAIN f.buffer = 1..Ctx!Capacity
  BY <1>7, <1>8 DEF CompletedHas
<1>11. f.buflen \in Nat /\ f.buflen <= BlockSize
  BY <1>2, <1>8
<1>12. Finished(f, n, fits)
  BY <1>9, <1>10, <1>11, Zenon DEF Finished
<1>13. QED
  BY <1>12 DEF f

-----------------------------------------------------------------------------
(* The message that comes next, and what md5_stream has read of it.        *)

LEMMA PieceIsRun ==
  ASSUME cfed \in Nat, NEW n \in Nat
  PROVE  Ctx!Piece(n) = Run(cfed, n)
<1>1. \A p \in 1..n : cfed + p \in 1..cfed + n
  OBVIOUS
<1>2. \A p \in 1..n : Ctx!Message(cfed + n)[cfed + p] = cfed + p
  BY <1>1 DEF Ctx!Message
<1> DEFINE m == Ctx!Message(cfed + n)
<1> HIDE DEF m
<1>3. Ctx!Part(m, cfed, n) = [p \in 1..n |-> m[cfed + p]]
  BY DEF Ctx!Part
<1>4. \A p \in 1..n : m[cfed + p] = cfed + p
  BY <1>2 DEF m
<1>5. QED
  BY <1>3, <1>4 DEF Ctx!Piece, Run, m

LEMMA RunsJoin ==
  ASSUME NEW a \in Nat, NEW m \in Nat, NEW n \in Nat
  PROVE  Run(a, m) \o Run(a + m, n) = Run(a, m + n)
<1> DEFINE s == Run(a, m)
           t == Run(a + m, n)
           u == s \o t
           v == Run(a, m + n)
<1>1. /\ s \in Seq(Nat) /\ Len(s) = m /\ t \in Seq(Nat) /\ Len(t) = n
      /\ v \in Seq(Nat) /\ Len(v) = m + n
  <2>1. a + m \in Nat /\ m + n \in Nat
    OBVIOUS
  <2>2. QED
    BY <2>1, RunIsSequence, Zenon
<1>2. /\ \A p \in 1..m : s[p] = a + p
      /\ \A p \in 1..n : t[p] = a + m + p
      /\ \A p \in 1..m + n : v[p] = a + p
  BY DEF Run
<1> HIDE DEF s, t, v
<1>3. Follows(Nat, u, s, t)
  BY <1>1, ConcatFollows, Zenon
<1> HIDE DEF u
<1>4. /\ u \in Seq(Nat) /\ Len(u) = m + n
      /\ \A p \in 1..m : u[p] = s[p]
      /\ \A p \in 1..n : u[m + p] = t[p]
  BY <1>1, <1>3 DEF Follows
<1>5. ASSUME NEW p \in 1..m + n
      PROVE  u[p] = v[p]
  <2>1. CASE p <= m
    BY <1>2, <1>4, <2>1
  <2>2. CASE p > m
    <3> DEFINE q == p - m
    <3>1. q \in 1..n /\ p = m + q
      BY <2>2
    <3> HIDE DEF q
    <3>2. a + m + q = a + p
      BY <3>1
    <3>3. QED
      BY <1>2, <1>4, <3>1, <3>2
  <2>3. QED
    BY <2>1, <2>2
<1>6. u = v
  BY <1>1, <1>4, <1>5, SeqEqual
<1>7. QED
  BY <1>6 DEF u, s, t, v

(* The context holds the message up to a, the chunk the m bytes after that.*)
Holding(a, m, fits) ==
  /\ a \in Nat /\ m \in Nat /\ a + m = cfed
  /\ chunk = Run(a, m) /\ m <= ChunkBlocks * BlockSize
  /\ HoldsUpTo(Ctx!Ctx, a, fits)

CtxInv(fits) ==
  /\ cfed \in Nat
  /\ DOMAIN cbuffer = 1..Ctx!Capacity /\ buflen \in Nat /\ buflen <= BlockSize
  /\ phase \in {"bytes", "stream"} => \E a, m \in Nat : Holding(a, m, fits)
  /\ phase = "bytes" => chunk = <<>>
  /\ phase = "stream" => buflen = 0
  /\ phase = "done" => (fits => resbuf = InBlocks(Padded(Ctx!Message(cfed))))

LEMMA EmptyRun ==
  ASSUME NEW a \in Nat, NEW n \in Nat
  PROVE  Run(a, n) = <<>> <=> n = 0
<1>1. CASE n = 0
  BY <1>1 DEF Run
<1>2. CASE n # 0
  <2>1. Len(Run(a, n)) = n /\ Len(<<>>) = 0
    BY RunIsSequence
  <2>2. QED
    BY <1>2, <2>1
<1>3. QED
  BY <1>1, <1>2

LEMMA CtxIsRec ==
  /\ Ctx!Ctx = Rec(total, buflen, cbuffer, cstate)
  /\ Ctx!Ctx.total = total /\ Ctx!Ctx.buflen = buflen
  /\ Ctx!Ctx.buffer = cbuffer /\ Ctx!Ctx.state = cstate
BY DEF Ctx!Ctx, Rec

LEMMA CtxStart ==
  ASSUME NEW CONSTANT fits, Ctx!Init
  PROVE  CtxInv(fits)
<1>1. /\ total = <<0, 0>> /\ buflen = 0 /\ DOMAIN cbuffer = 1..Ctx!Capacity
      /\ cstate = <<>> /\ chunk = <<>> /\ phase \in {"bytes", "stream"} /\ cfed = 0
  BY DEF Ctx!Init
<1>2. BlockSize \in Nat /\ BlockSize * 0 = 0 /\ 0 <= Ctx!Capacity /\ 0 <= ChunkBlocks * BlockSize
  BY Sizes, ChunksAssumption DEF Ctx!Capacity
<1>3. Double(0) = <<0, 0>>
  BY Sizes DEF Double
<1>4. FirstBlocks(0) = <<>>
  BY DEF FirstBlocks
<1>5. IsContext(Ctx!Ctx)
  BY CtxIsRec, Zenon DEF IsContext
<1>6. Continues(cbuffer, 0, 0)
  BY DEF Continues
<1>7. Buffers(Ctx!Ctx, 0, fits)
  <2>1. total = Double(BlockSize * 0) /\ 0 \in Nat /\ cstate = FirstBlocks(0)
    BY <1>1, <1>2, <1>3, <1>4
  <2>2. QED
    BY <1>1, <1>2, <1>5, <1>6, <2>1, CtxIsRec, Zenon DEF Buffers
<1>8. HoldsUpTo(Ctx!Ctx, 0, fits)
  <2>1. 0 \in Nat /\ Ctx!Ctx.buflen <= BlockSize /\ BlockSize * 0 + Ctx!Ctx.buflen = 0
    BY <1>1, <1>2, CtxIsRec
  <2>2. QED
    BY <1>7, <2>1 DEF HoldsUpTo, Holds
<1>9. chunk = Run(0, 0)
  BY <1>1, EmptyRun
<1>10. Holding(0, 0, fits)
  BY <1>1, <1>2, <1>8, <1>9 DEF Holding
<1>11. QED
  BY <1>1, <1>2, <1>10 DEF CtxInv

(* The context of the next state.                                          *)
LEMMA BecomesHolding ==
  ASSUME NEW c, NEW n \in Nat, NEW fits, HoldsUpTo(c, n, fits), Ctx!Become(c)
  PROVE  /\ HoldsUpTo(Ctx!Ctx', n, fits)
         /\ DOMAIN cbuffer' = 1..Ctx!Capacity /\ buflen' \in Nat /\ buflen' <= BlockSize
<1>1. PICK k \in Nat : Holds(c, k, fits) /\ BlockSize * k + c.buflen = n
  BY DEF HoldsUpTo
<1>2. c = Rec(c.total, c.buflen, c.buffer, c.state)
  BY <1>1 DEF Holds, Buffers, IsContext
<1>3. total' = c.total /\ buflen' = c.buflen /\ cbuffer' = c.buffer /\ cstate' = c.state
  BY DEF Ctx!Become
<1>4. Ctx!Ctx' = Rec(total', buflen', cbuffer', cstate')
  BY DEF Ctx!Ctx, Rec
<1>5. Ctx!Ctx' = c
  BY <1>2, <1>3, <1>4, Zenon
<1>6. QED
  BY <1>1, <1>3, <1>5 DEF Holds, Buffers

(* md5_process_bytes, of any length.                                       *)
LEMMA CtxFeed ==
  ASSUME NEW CONSTANT fits, CtxInv(fits), NEW n \in Nat, NEW aligned,
         Ctx!Feed(n, aligned), fits => n <= Word
  PROVE  CtxInv(fits)'
<1> DEFINE c == Ctx!ProcessBytes(Ctx!Ctx, Ctx!Piece(n), aligned)
<1>1. /\ phase = "bytes" /\ Ctx!Become(c) /\ cfed' = cfed + n
      /\ resbuf' = resbuf /\ chunk' = chunk /\ phase' = phase
  BY DEF Ctx!Feed
<1>2. cfed \in Nat /\ chunk = <<>>
  BY <1>1 DEF CtxInv
<1>3. PICK a \in Nat, m \in Nat : Holding(a, m, fits)
  BY <1>1 DEF CtxInv
<1>4. m = 0 /\ a = cfed /\ HoldsUpTo(Ctx!Ctx, a, fits)
  <2>1. chunk = Run(a, m) /\ a + m = cfed /\ HoldsUpTo(Ctx!Ctx, a, fits)
    BY <1>3 DEF Holding
  <2>2. m = 0
    BY <1>2, <2>1, EmptyRun
  <2>3. QED
    BY <2>1, <2>2
<1>5. HoldsUpTo(c, a + n, fits)
  <2>1. Ctx!Piece(n) = Run(a, n)
    BY <1>2, <1>4, PieceIsRun
  <2>2. QED
    BY <1>4, <2>1, ProcessBytesHolds
<1> HIDE DEF c
<1> DEFINE b == a + n
<1>6. b \in Nat /\ b = cfed'
  BY <1>1, <1>4
<1>7. /\ HoldsUpTo(Ctx!Ctx', b, fits)
      /\ DOMAIN cbuffer' = 1..Ctx!Capacity /\ buflen' \in Nat /\ buflen' <= BlockSize
  BY <1>1, <1>5, <1>6, BecomesHolding
<1> HIDE DEF b
<1>8. Holding(b, 0, fits)'
  <2>1. chunk' = Run(b, 0)
    BY <1>1, <1>2, <1>6, EmptyRun
  <2>2. 0 <= ChunkBlocks * BlockSize
    BY ChunksAssumption, Sizes
  <2>3. b + 0 = cfed' /\ 0 \in Nat
    <3>1. b \in Nat
      BY <1>6
    <3>2. b + 0 = b
      BY <3>1
    <3>3. QED
      BY <1>6, <3>2
  <2>4. QED
    BY <1>6, <1>7, <2>1, <2>2, <2>3, Zenon DEF Holding
<1>9. QED
  <2>1. 0 \in Nat
    OBVIOUS
  <2>2. \E a1 \in Nat, m1 \in Nat : Holding(a1, m1, fits)'
    BY <1>6, <1>8, <2>1
  <2>3. QED
    BY <1>1, <1>2, <1>6, <1>7, <2>2 DEF CtxInv

(* md5_finish_ctx.                                                         *)
LEMMA CtxFinish ==
  ASSUME NEW CONSTANT fits, cfed \in Nat, NEW c, HoldsUpTo(c, cfed, fits), Ctx!Finish(c)
  PROVE  CtxInv(fits)'
<1> DEFINE f == Ctx!FinishCtx(c)
<1>1. Ctx!Become(f) /\ resbuf' = f.state /\ phase' = "done" /\ cfed' = cfed
  BY DEF Ctx!Finish
<1>2. Finished(f, cfed, fits)
  BY FinishHolds
<1> HIDE DEF f
<1>3. DOMAIN cbuffer' = 1..Ctx!Capacity /\ buflen' \in Nat /\ buflen' <= BlockSize
  BY <1>1, <1>2 DEF Ctx!Become, Finished
<1>4. fits => resbuf' = InBlocks(Padded(Ctx!Message(cfed)))
  BY <1>1, <1>2, Zenon DEF Finished
<1>5. phase' = "done" => (fits => resbuf' = InBlocks(Padded(Ctx!Message(cfed'))))
  BY <1>1, <1>4
<1>6. QED
  BY <1>1, <1>3, <1>5, Zenon DEF CtxInv

(* md5_stream reads: a chunk that is full is processed at once.            *)
LEMMA CtxFread ==
  ASSUME NEW CONSTANT fits, CtxInv(fits), NEW n \in Nat, Ctx!Fread(n)
  PROVE  CtxInv(fits)'
<1> DEFINE got == chunk \o Ctx!Piece(n)
           size == ChunkBlocks * BlockSize
           full == Len(got) = size
           d == Ctx!ProcessBlock(Ctx!Ctx, got, Len(got))
<1>1. /\ phase = "stream" /\ n > 0 /\ Len(got) <= size
      /\ chunk' = IF full THEN <<>> ELSE got
      /\ Ctx!Become(IF full THEN d ELSE Ctx!Ctx)
      /\ cfed' = cfed + n /\ resbuf' = resbuf /\ phase' = phase
  BY DEF Ctx!Fread
<1>2. PICK a \in Nat, m \in Nat : Holding(a, m, fits)
  BY <1>1 DEF CtxInv
<1>3. /\ cfed \in Nat /\ cfed = a + m /\ chunk = Run(a, m) /\ HoldsUpTo(Ctx!Ctx, a, fits)
      /\ buflen = 0 /\ size \in Nat
  BY <1>1, <1>2, ChunksAssumption, Sizes DEF CtxInv, Holding
<1> DEFINE l == m + n
<1>4. got = Run(a, l) /\ Len(got) = l /\ l \in Nat
  <2>1. Ctx!Piece(n) = Run(a + m, n)
    BY <1>3, PieceIsRun
  <2>2. l \in Nat
    OBVIOUS
  <2>3. got = Run(a, l)
    <3>1. Run(a, m) \o Run(a + m, n) = Run(a, m + n)
      BY RunsJoin, Zenon
    <3>2. QED
      BY <1>3, <2>1, <3>1, Zenon
  <2> HIDE DEF got, l
  <2>4. QED
    BY <2>2, <2>3, RunIsSequence
<1> HIDE DEF got
<1>5. l <= size /\ a + l = cfed'
  <2>1. cfed' = a + m + n
    BY <1>1, <1>3
  <2>2. l <= size
    BY <1>1, <1>4
  <2>3. QED
    BY <1>3, <2>1, <2>2
<1>6. phase' = "stream" /\ cfed' \in Nat
  BY <1>1, <1>3
<1> HIDE DEF size, l
<1>7. ASSUME NEW a1 \in Nat, NEW m1 \in Nat, a1 + m1 = cfed', m1 <= size, NEW c,
             Ctx!Become(c), HoldsUpTo(c, a1, fits), c.buflen = 0, chunk' = Run(a1, m1)
      PROVE  CtxInv(fits)'
  <2>1. /\ HoldsUpTo(Ctx!Ctx', a1, fits)
        /\ DOMAIN cbuffer' = 1..Ctx!Capacity /\ buflen' \in Nat /\ buflen' <= BlockSize
    BY <1>7, BecomesHolding
  <2>2. Holding(a1, m1, fits)'
    BY <1>7, <2>1, Zenon DEF Holding, size
  <2>3. \E a2 \in Nat, m2 \in Nat : Holding(a2, m2, fits)'
    BY <2>2
  <2>4. buflen' = 0
    BY <1>7 DEF Ctx!Become
  <2>5. QED
    BY <1>6, <2>1, <2>3, <2>4 DEF CtxInv
<1>8. CASE ~full
  <2>1. Ctx!Become(Ctx!Ctx) /\ chunk' = Run(a, l)
    BY <1>1, <1>4, <1>8
  <2>2. Ctx!Ctx.buflen = 0
    BY <1>3, CtxIsRec
  <2>3. QED
    BY <1>3, <1>4, <1>5, <1>7, <2>1, <2>2
<1>9. CASE full
  <2>1. PICK k \in Nat : Holds(Ctx!Ctx, k, fits) /\ BlockSize * k + Ctx!Ctx.buflen = a
    BY <1>3 DEF HoldsUpTo
  <2> DEFINE from == BlockSize * k
             j == ChunkBlocks
             all == BlockSize * j
  <2>2. j \in Nat /\ from \in Nat /\ all = size /\ all \in Nat /\ all <= Word
    BY ChunksAssumption, Sizes, Commutes DEF size
  <2>3. from = a
    <3> HIDE DEF from
    <3>1. from + 0 = a
      BY <1>3, <2>1, CtxIsRec DEF from
    <3>2. QED
      BY <2>2, <3>1
  <2>4. l = all
    BY <1>4, <1>9, <2>2
  <2>5. IsContext(Ctx!Ctx) /\ Ctx!Ctx.state = FirstBlocks(k)
    BY <2>1 DEF Holds, Buffers
  <2>6. fits => Ctx!Ctx.total = Double(BlockSize * k)
    BY <2>1, Zenon DEF Holds, Buffers
  <2>7. Continues(got, k, BlockSize * j)
    <3>1. \A p \in 1..l : got[p] = a + p
      BY <1>4 DEF Run
    <3>2. QED
      BY <2>3, <2>4, <3>1 DEF Continues
  <2>8. HasProcessed(Ctx!ProcessBlock(Ctx!Ctx, got, BlockSize * j), Ctx!Ctx, k + j, fits)
    <3>1. fits => Ctx!Ctx.total = Double(BlockSize * k) /\ BlockSize * j <= Word
      BY <2>2, <2>6
    <3> HIDE DEF j
    <3>2. QED
      BY <2>2, <2>5, <2>7, <3>1, Processed, Zenon
  <2>9. HasProcessed(d, Ctx!Ctx, k + j, fits)
    BY <1>4, <2>4, <2>8
  <2> HIDE DEF d
  <2>10. d = Rec(d.total, 0, cbuffer, FirstBlocks(k + j)) /\ (fits => d.total = Double(BlockSize * (k + j)))
    BY <1>3, <2>9, CtxIsRec, Zenon DEF HasProcessed
  <2>11. d.buflen = 0 /\ d.buffer = cbuffer /\ d.state = FirstBlocks(k + j)
    <3> DEFINE t == d.total
    <3> HIDE DEF t
    <3>1. d = Rec(t, 0, cbuffer, FirstBlocks(k + j))
      BY <2>10 DEF t
    <3>2. QED
      BY <3>1, FieldsOfRec
  <2>12. HoldsUpTo(d, a + l, fits)
    <3> DEFINE n1 == k + j
    <3>1. n1 \in Nat
      BY <2>2
    <3>2. BlockSize * n1 + 0 = a + l
      <4>1. BlockSize * n1 = from + all
        BY <2>2, Sizes
      <4> HIDE DEF from, all, n1
      <4>2. QED
        BY <2>2, <2>3, <2>4, <4>1
    <3>3. d = Rec(d.total, d.buflen, d.buffer, d.state)
      BY <2>10, <2>11, Zenon
    <3>4. DOMAIN d.buffer = 1..Ctx!Capacity
      BY <2>11 DEF CtxInv
    <3>5. Continues(d.buffer, n1, 0)
      BY DEF Continues
    <3>6. 0 \in Nat /\ 0 <= Ctx!Capacity /\ 0 <= BlockSize
      BY Sizes DEF Ctx!Capacity
    <3> HIDE DEF n1
    <3>7. d.state = FirstBlocks(n1) /\ (fits => d.total = Double(BlockSize * n1))
      BY <2>10, <2>11, Zenon DEF n1
    <3>8. Buffers(d, n1, fits)
      BY <2>11, <3>3, <3>4, <3>5, <3>6, <3>7, Zenon DEF Buffers, IsContext
    <3>9. Holds(d, n1, fits) /\ BlockSize * n1 + d.buflen = a + l
      BY <2>11, <3>2, <3>6, <3>8 DEF Holds
    <3>10. QED
      BY <3>1, <3>9 DEF HoldsUpTo
  <2> DEFINE b == a + l
  <2>13. b \in Nat /\ b + 0 = cfed' /\ 0 \in Nat /\ 0 <= size
    BY <1>3, <1>4, <1>5
  <2>14. chunk' = Run(b, 0) /\ Ctx!Become(d)
    <3>1. chunk' = <<>> /\ Ctx!Become(d)
      BY <1>1, <1>9
    <3> HIDE DEF b
    <3>2. QED
      BY <2>13, <3>1, EmptyRun
  <2>15. QED
    BY <1>7, <2>11, <2>12, <2>13, <2>14
<1>10. QED
  BY <1>8, <1>9

(* The context and the chunk hold all that was read.                       *)
LEMMA CtxEndOfFile ==
  ASSUME NEW CONSTANT fits, CtxInv(fits), NEW aligned, Ctx!EndOfFile(aligned)
  PROVE  CtxInv(fits)'
<1>1. phase = "stream" /\ cfed \in Nat
  BY DEF Ctx!EndOfFile, CtxInv
<1>2. PICK a \in Nat, m \in Nat : Holding(a, m, fits)
  BY <1>1 DEF CtxInv
<1>3. /\ a + m = cfed /\ chunk = Run(a, m) /\ HoldsUpTo(Ctx!Ctx, a, fits)
      /\ m <= ChunkBlocks * BlockSize
  BY <1>2 DEF Holding
<1> DEFINE fed1 == Ctx!ProcessBytes(Ctx!Ctx, chunk, aligned)
<1>4. Ctx!Finish(IF chunk = <<>> THEN Ctx!Ctx ELSE fed1)
  BY DEF Ctx!EndOfFile
<1>5. HoldsUpTo(fed1, cfed, fits)
  <2>1. ASSUME fits
        PROVE  m <= Word
    <3> DEFINE size == ChunkBlocks * BlockSize
    <3>1. size \in Nat /\ size <= Word /\ m <= size /\ Word \in Nat
      BY <1>3, ChunksAssumption, Sizes
    <3> HIDE DEF size
    <3>2. QED
      BY <3>1
  <2>2. HoldsUpTo(fed1, a + m, fits)
    BY <1>3, <2>1, ProcessBytesHolds
  <2>3. QED
    BY <1>3, <2>2
<1> HIDE DEF fed1
<1>6. CASE chunk = <<>>
  <2>1. a = cfed
    <3>1. m = 0
      BY <1>3, <1>6, EmptyRun
    <3>2. QED
      BY <1>3, <3>1
  <2>2. HoldsUpTo(Ctx!Ctx, cfed, fits) /\ Ctx!Finish(Ctx!Ctx)
    BY <1>3, <1>4, <1>6, <2>1
  <2>3. QED
    BY <1>1, <2>2, CtxFinish
<1>7. CASE chunk # <<>>
  <2>1. Ctx!Finish(fed1)
    BY <1>4, <1>7
  <2>2. QED
    BY <1>1, <1>5, <2>1, CtxFinish
<1>8. QED
  BY <1>6, <1>7

LEMMA CtxFinishBytes ==
  ASSUME NEW CONSTANT fits, CtxInv(fits), Ctx!FinishBytes
  PROVE  CtxInv(fits)'
<1>1. phase = "bytes" /\ cfed \in Nat /\ chunk = <<>> /\ Ctx!Finish(Ctx!Ctx)
  BY DEF Ctx!FinishBytes, CtxInv
<1>2. PICK a \in Nat, m \in Nat : Holding(a, m, fits)
  BY <1>1 DEF CtxInv
<1>3. a + m = cfed /\ chunk = Run(a, m) /\ HoldsUpTo(Ctx!Ctx, a, fits)
  BY <1>2 DEF Holding
<1>4. m = 0
  BY <1>1, <1>3, EmptyRun
<1>5. a = cfed
  BY <1>3, <1>4
<1>6. QED
  BY <1>1, <1>3, <1>5, CtxFinish

LEMMA CtxSame ==
  ASSUME NEW CONSTANT fits, CtxInv(fits),
         phase' = phase \/ phase' = "error",
         UNCHANGED <<total, buflen, cbuffer, cstate, resbuf, chunk, cfed>>
  PROVE  CtxInv(fits)'
<1>1. Ctx!Ctx' = Ctx!Ctx
  BY DEF Ctx!Ctx
<1>2. ASSUME NEW a, NEW m, Holding(a, m, fits)
      PROVE  Holding(a, m, fits)'
  BY <1>1, <1>2 DEF Holding
<1>3. phase' \in {"bytes", "stream"} => \E a \in Nat, m \in Nat : Holding(a, m, fits)'
  BY <1>2 DEF CtxInv
<1>4. QED
  BY <1>3 DEF CtxInv

(* Every step of md5.c.                                                    *)
LEMMA CtxStep ==
  ASSUME NEW CONSTANT fits, CtxInv(fits), [MCNext]_<<part, vars, ctxVars, roundVars>>,
         fits => cfed' - cfed <= Word \/ cfed' = cfed
  PROVE  CtxInv(fits)'
<1>1. Ctx!Next \/ UNCHANGED ctxVars
  BY DEF MCNext
<1>2. CASE UNCHANGED ctxVars
  BY <1>2, CtxSame DEF ctxVars
<1>3. cfed \in Nat
  BY DEF CtxInv
<1>4. ASSUME NEW n \in 0..CtxMaxBytes - cfed, NEW aligned \in BOOLEAN, Ctx!Feed(n, aligned)
      PROVE  CtxInv(fits)'
  <2>1. n \in Nat /\ cfed' = cfed + n
    BY <1>4 DEF Ctx!Feed
  <2>2. ASSUME fits
        PROVE  n <= Word
    <3>1. cfed' - cfed = n
      BY <1>3, <2>1
    <3>2. cfed' - cfed <= Word \/ n = 0
      BY <1>3, <2>1, <2>2
    <3>3. QED
      BY <2>1, <3>1, <3>2, Sizes
  <2>3. QED
    BY <1>4, <2>1, <2>2, CtxFeed
<1>5. ASSUME NEW n \in 0..CtxMaxBytes - cfed, Ctx!Fread(n)
      PROVE  CtxInv(fits)'
  <2>1. n \in Nat
    OBVIOUS
  <2>2. QED
    BY <1>5, <2>1, CtxFread
<1>6. CASE Ctx!ReadError
  <2>1. phase' = "error" /\ UNCHANGED <<total, buflen, cbuffer, cstate, resbuf, chunk, cfed>>
    BY <1>6 DEF Ctx!ReadError
  <2>2. QED
    BY <2>1, CtxSame
<1>7. ASSUME NEW aligned \in BOOLEAN, Ctx!EndOfFile(aligned)
      PROVE  CtxInv(fits)'
  BY <1>7, CtxEndOfFile
<1>8. CASE Ctx!FinishBytes
  BY <1>8, CtxFinishBytes
<1>9. QED
  BY <1>1, <1>2, <1>4, <1>5, <1>6, <1>7, <1>8 DEF Ctx!Next

LEMMA CtxBegins ==
  ASSUME NEW CONSTANT fits, MCInit
  PROVE  CtxInv(fits)
BY CtxStart DEF MCInit

(* No copy of md5.c ends past its buffer, whatever it is given.            *)
THEOREM BuffersAreNotOverrun == MCSpec => []BufferNotOverrun
<1>1. MCInit => CtxInv(FALSE)
  BY CtxBegins
<1>2. CtxInv(FALSE) /\ [MCNext]_<<part, vars, ctxVars, roundVars>> => CtxInv(FALSE)'
  BY CtxStep
<1>3. CtxInv(FALSE) => BufferNotOverrun
  BY DEF CtxInv, BufferNotOverrun, Ctx!BufferNotOverrun
<1>4. QED
  BY <1>1, <1>2, <1>3, PTL DEF MCSpec

(* No piece of the message is longer than what a word counts: 4 GiB.  A    *)
(* longer one would carry more than once into the high word.               *)
PiecesFit == [][cfed' - cfed <= Word]_cfed

LEMMA FittingPieces ==
  CtxInv(TRUE) /\ [MCNext]_<<part, vars, ctxVars, roundVars>> /\ [cfed' - cfed <= Word]_cfed
    => CtxInv(TRUE)'
BY CtxStep

(* md5.c counts every byte of the message once.                            *)
THEOREM BytesAreAccounted == MCSpec /\ PiecesFit => []BytesAccounted
<1>1. MCInit => CtxInv(TRUE)
  BY CtxBegins
<1>2. CtxInv(TRUE) => BytesAccounted
  <2> SUFFICES ASSUME CtxInv(TRUE), phase \in {"bytes", "stream"}
               PROVE  total = Double(cfed - buflen - Len(chunk))
    BY DEF BytesAccounted, Ctx!BytesAccounted, Double
  <2>1. PICK a \in Nat, m \in Nat : Holding(a, m, TRUE)
    BY DEF CtxInv
  <2>2. PICK k \in Nat : Holds(Ctx!Ctx, k, TRUE) /\ BlockSize * k + Ctx!Ctx.buflen = a
    BY <2>1 DEF Holding, HoldsUpTo
  <2> DEFINE n == BlockSize * k
  <2>3. total = Double(n) /\ n \in Nat /\ buflen \in Nat /\ n + buflen = a
    BY <2>2, CtxIsRec, Sizes DEF Holds, Buffers
  <2>4. Len(chunk) = m /\ a + m = cfed
    BY <2>1, RunIsSequence DEF Holding
  <2> HIDE DEF n
  <2>5. n = cfed - buflen - Len(chunk)
    BY <2>3, <2>4
  <2>6. QED
    BY <2>3, <2>5
<1>3. QED
  BY <1>1, <1>2, FittingPieces, PTL DEF MCSpec, PiecesFit

(* md5.c, too, takes the digest of the padded message, however its bytes   *)
(* come and however long it is.                                            *)
THEOREM ContextDigestsAreOfMessages == MCSpec /\ PiecesFit => []ContextDigestIsOfMessage
<1>1. MCInit => CtxInv(TRUE)
  BY CtxBegins
<1>2. CtxInv(TRUE) => ContextDigestIsOfMessage
  BY DEF CtxInv, ContextDigestIsOfMessage
<1>3. QED
  BY <1>1, <1>2, FittingPieces, PTL DEF MCSpec, PiecesFit
=============================================================================
