----------------------------- MODULE Md5Rounds -----------------------------
(***************************************************************************)
(* transform of Md5.cpp and md5_process_block of md5.c, side by side: what *)
(* a block of 64 bytes does to the state, in 64 steps.                     *)
(***************************************************************************)
EXTENDS Md5Words, Sequences

CONSTANTS Messages,     \* padded messages: sequences of blocks of 64 bytes
          Known         \* [message, digest] of which the digest is known

VARIABLES
  message,      \* the blocks
  done,         \* how many have been processed
  step,         \* steps of the next one that have been taken
  state2, regs2, x,                 \* state; a, b, c, d; x of transform
  state1, regs1, correct_words      \* A to D of the context and of the call

rvars == <<message, done, step, state2, regs2, x, state1, regs1, correct_words>>

BitsOfByte(n) == {i \in 0..7 : (n \div 2^i) % 2 = 1}

BitsOfWord(hi, lo) == {i \in 0..15 : (lo \div 2^i) % 2 = 1}
                        \union ShiftLeft({i \in 0..15 : (hi \div 2^i) % 2 = 1}, 16)

(* decode: words of four bytes, the first of which is the lowest. *)
Decode(block) ==
  [k \in 0..15 |-> UNION {ShiftLeft(BitsOfByte(block[4 * k + j + 1]), 8 * j) : j \in 0..3}]

(* encode: the digest, byte by byte; a byte is the set of its bits.        *)
Digest(state) ==
  [p \in 1..16 |-> ShiftRight(state[(p - 1) \div 4], 8 * ((p - 1) % 4)) \intersect 0..7]

(* The constants that the state begins with ...                            *)
Magic == [i \in 0..3 |-> IF i = 0 THEN BitsOfWord(\h6745, \h2301)
                         ELSE IF i = 1 THEN BitsOfWord(\hefcd, \hab89)
                         ELSE IF i = 2 THEN BitsOfWord(\h98ba, \hdcfe)
                         ELSE BitsOfWord(\h1032, \h5476)]

(* ... and those of the steps, each as two half words. *)
Table == <<
  <<\hd76a, \ha478>>, <<\he8c7, \hb756>>, <<\h2420, \h70db>>, <<\hc1bd, \hceee>>,
  <<\hf57c, \h0faf>>, <<\h4787, \hc62a>>, <<\ha830, \h4613>>, <<\hfd46, \h9501>>,
  <<\h6980, \h98d8>>, <<\h8b44, \hf7af>>, <<\hffff, \h5bb1>>, <<\h895c, \hd7be>>,
  <<\h6b90, \h1122>>, <<\hfd98, \h7193>>, <<\ha679, \h438e>>, <<\h49b4, \h0821>>,
  <<\hf61e, \h2562>>, <<\hc040, \hb340>>, <<\h265e, \h5a51>>, <<\he9b6, \hc7aa>>,
  <<\hd62f, \h105d>>, <<\h0244, \h1453>>, <<\hd8a1, \he681>>, <<\he7d3, \hfbc8>>,
  <<\h21e1, \hcde6>>, <<\hc337, \h07d6>>, <<\hf4d5, \h0d87>>, <<\h455a, \h14ed>>,
  <<\ha9e3, \he905>>, <<\hfcef, \ha3f8>>, <<\h676f, \h02d9>>, <<\h8d2a, \h4c8a>>,
  <<\hfffa, \h3942>>, <<\h8771, \hf681>>, <<\h6d9d, \h6122>>, <<\hfde5, \h380c>>,
  <<\ha4be, \hea44>>, <<\h4bde, \hcfa9>>, <<\hf6bb, \h4b60>>, <<\hbebf, \hbc70>>,
  <<\h289b, \h7ec6>>, <<\heaa1, \h27fa>>, <<\hd4ef, \h3085>>, <<\h0488, \h1d05>>,
  <<\hd9d4, \hd039>>, <<\he6db, \h99e5>>, <<\h1fa2, \h7cf8>>, <<\hc4ac, \h5665>>,
  <<\hf429, \h2244>>, <<\h432a, \hff97>>, <<\hab94, \h23a7>>, <<\hfc93, \ha039>>,
  <<\h655b, \h59c3>>, <<\h8f0c, \hcc92>>, <<\hffef, \hf47d>>, <<\h8584, \h5dd1>>,
  <<\h6fa8, \h7e4f>>, <<\hfe2c, \he6e0>>, <<\ha301, \h4314>>, <<\h4e08, \h11a1>>,
  <<\hf753, \h7e82>>, <<\hbd3a, \hf235>>, <<\h2ad7, \hd2bb>>, <<\heb86, \hd391>> >>

StepConstant(i) == BitsOfWord(Table[i + 1][1], Table[i + 1][2])

Shifts == << <<7, 12, 17, 22>>, <<5, 9, 14, 20>>, <<4, 11, 16, 23>>, <<6, 10, 15, 21>> >>

Shift(i) == Shifts[(i \div 16) + 1][(i % 4) + 1]

(* The word of x that step i takes. *)
WordOf2(i) == (IF i < 16 THEN i
               ELSE IF i < 32 THEN 5 * i + 1
               ELSE IF i < 48 THEN 3 * i + 5
               ELSE 7 * i) % 16

(* The words of correct_words that the second to the fourth round take.    *)
WordOf1 == << << 1, 6, 11, 0, 5, 10, 15, 4, 9, 14, 3, 8, 13, 2, 7, 12 >>,
              << 5, 8, 11, 14, 1, 4, 7, 10, 13, 0, 3, 6, 9, 12, 15, 2 >>,
              << 0, 7, 14, 5, 12, 3, 10, 1, 8, 15, 6, 13, 4, 11, 2, 9 >> >>

(* The registers take turns: step i changes this one, and reads the three  *)
(* that follow.                                                            *)
Target(i) == (4 - (i % 4)) % 4

Reg(regs, i, j) == regs[(Target(i) + j) % 4]

Init == /\ message \in Messages
        /\ done = 0 /\ step = 0
        /\ state2 = Magic /\ regs2 = Magic /\ x = Decode(message[1])
        /\ state1 = Magic /\ regs1 = Magic
        /\ correct_words = [k \in 0..15 |-> {}]

(* A step of transform. *)
Step2(i) == regs2' = [regs2 EXCEPT ![Target(i)] =
                        Mixed2(i \div 16, @, Reg(regs2, i, 1), Reg(regs2, i, 2),
                               Reg(regs2, i, 3), x[WordOf2(i)], Shift(i), StepConstant(i))]

(* A step of md5_process_block; those of the first round fill              *)
(* correct_words from the block.                                           *)
Step1(i) ==
  LET words == IF i < 16 THEN [correct_words EXCEPT ![i] = Decode(message[done + 1])[i]]
               ELSE correct_words
      word == IF i < 16 THEN words[i] ELSE words[WordOf1[i \div 16][(i % 16) + 1]]
  IN  /\ correct_words' = words
      /\ regs1' = [regs1 EXCEPT ![Target(i)] =
                     Mixed1(i \div 16, @, Reg(regs1, i, 1), Reg(regs1, i, 2),
                            Reg(regs1, i, 3), word, Shift(i), StepConstant(i))]

Step == /\ done < Len(message) /\ step < 64
        /\ Step1(step) /\ Step2(step)
        /\ step' = step + 1
        /\ UNCHANGED <<message, done, state1, state2, x>>

(* Slip: the last block replaces the state instead of being added to it.   *)
SlipAdded(state, regs) == regs

Added(state, regs) == [r \in 0..3 |-> Sum32(state[r], regs[r])]

(* After 64 steps the registers are added to the state; transform then     *)
(* clears x, and both go on with the next block.                           *)
EndOfBlock ==
  /\ step = 64
  /\ state2' = Added(state2, regs2) /\ regs2' = state2'
  /\ state1' = Added(state1, regs1) /\ regs1' = state1'
  /\ done' = done + 1
  /\ x' = IF done + 1 < Len(message) THEN Decode(message[done + 2])
          ELSE [k \in 0..15 |-> {}]
  /\ step' = 0
  /\ UNCHANGED <<message, correct_words>>

Next == Step \/ EndOfBlock

-----------------------------------------------------------------------------
(* The two implementations go through the same registers, step by step, so *)
(* a block has the same key in both daemons.                               *)
SameRegisters == regs1 = regs2 /\ state1 = state2

(* A message whose digest is known gets that digest.                       *)
KnownDigest ==
  done = Len(message) =>
    \A k \in Known : k.message = message => Digest(state2) = [p \in 1..16 |-> BitsOfByte(k.digest[p])]
=============================================================================
