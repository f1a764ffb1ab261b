-------------------------------- MODULE Md5 --------------------------------
(***************************************************************************)
(* MD5 (Md5.cpp) as a stream: pieces of a message are fed to update, which *)
(* cuts them into blocks through a buffer; finalize pads the message and   *)
(* appends its length.  transform mixes a block into the state; the model  *)
(* keeps in state the blocks it was given, in their order, of which the    *)
(* digest is a function.  Sizes are parameters: 64, 8 and 2^32 in the code.*)
(***************************************************************************)
EXTENDS Integers, SequencesExt

CONSTANTS BlockSize,    \* bytes in a block
          LengthSize,   \* bytes that encode the length of the message
          Word,         \* what an element of count is counted modulo
          Bytes,        \* the values of a message's bytes
          MaxBytes,     \* bound of the model: length of the message
          MaxBlocks     \* bound of the model: blocks when update is called

ASSUME SizesAssumption == /\ LengthSize \in Nat /\ BlockSize \in Nat /\ Word \in Nat
                          /\ LengthSize < BlockSize
                          /\ \E n \in 1..Word : Word = 8 * BlockSize * n

VARIABLES
  buffer,       \* bytes that did not fill a block, and what was there before
  count,        \* <<low word, high word>> of the number of bits
  state,        \* the blocks transformed
  finalized,
  digest,       \* the state that finalize kept
  fed           \* the message: the pieces fed before finalize

vars == <<buffer, count, state, finalized, digest, fed>>

(* Nothing is written to buffer when the object is made. *)
Init == /\ buffer \in [1..BlockSize -> Bytes]
        /\ count = <<0, 0>>
        /\ state = <<>>
        /\ finalized = FALSE
        /\ digest = <<>>
        /\ fed = <<>>

(* How much of the buffer is in use. *)
Index(cnt) == (cnt[1] \div 8) % BlockSize

(* Slip: the carry from the low word is dropped. *)
SlipCountAfter(cnt, length) ==
  <<(cnt[1] + 8 * length) % Word, (cnt[2] + (8 * length) \div Word) % Word>>

(* The number of bits, length bytes later: the low word has overflowed if  *)
(* it is now less than what was added to it.                               *)
CountAfter(cnt, length) ==
  LET added == (8 * length) % Word
      low == (cnt[1] + added) % Word
      carry == IF low < added THEN 1 ELSE 0
  IN  <<low, (cnt[2] + carry + (8 * length) \div Word) % Word>>

(* memcpy of s to position index of buf. *)
CopyTo(buf, index, s) ==
  [p \in 1..BlockSize |-> IF p \in index + 1..index + Len(s) THEN s[p - index] ELSE buf[p]]

(* The n blocks of s from position from on. *)
Blocks(s, from, n) ==
  [j \in 1..n |-> SubSeq(s, from + (j - 1) * BlockSize + 1, from + j * BlockSize)]

(* transform, for each of a sequence of blocks. *)
Transformed(st, blocks) == st \o blocks

(* update.  A piece that fills the buffer is cut into blocks, the first of *)
(* them begun by earlier pieces; what is left of it, or all of a shorter   *)
(* one, is buffered.                                                       *)
Absorb(c, input) ==
  LET index == Index(c.count)
      firstpart == BlockSize - index
      whole == (Len(input) - firstpart) \div BlockSize
      i == firstpart + whole * BlockSize
      filled == CopyTo(c.buffer, index, SubSeq(input, 1, firstpart))
  IN  [count |-> CountAfter(c.count, Len(input)),
       buffer |-> IF Len(input) >= firstpart
                  THEN CopyTo(filled, 0, SubSeq(input, i + 1, Len(input)))
                  ELSE CopyTo(c.buffer, index, input),
       state |-> IF Len(input) >= firstpart
                 THEN Transformed(c.state, <<filled>> \o Blocks(input, firstpart, whole))
                 ELSE c.state]

(* encode: the two words in the LengthSize bytes that end the message; of  *)
(* each word the model needs one byte, which stands for all four.          *)
Encode(cnt) == [p \in 1..LengthSize |-> IF p <= LengthSize \div 2 THEN cnt[1] ELSE cnt[2]]

Context == [count |-> count, buffer |-> buffer, state |-> state]

(* update may be called after finalize, too; the digest is then settled.   *)
Update(piece) == LET c == Absorb(Context, piece) IN
  /\ count' = c.count
  /\ buffer' = c.buffer
  /\ state' = c.state
  /\ fed' = IF finalized THEN fed ELSE fed \o piece
  /\ UNCHANGED <<finalized, digest>>

(* The padding: a bit 1, then bits 0. *)
Padding(n) == [p \in 1..n |-> IF p = 1 THEN 128 ELSE 0]

(* Slip: the padding that just leaves no room for the length is not moved  *)
(* to the next block.                                                      *)
SlipPadLen(index) == IF index <= BlockSize - LengthSize
                     THEN BlockSize - LengthSize - index
                     ELSE 2 * BlockSize - LengthSize - index

PadLen(index) == IF index < BlockSize - LengthSize
                 THEN BlockSize - LengthSize - index
                 ELSE 2 * BlockSize - LengthSize - index

(* The padding and the length go through update like the message.          *)
FinalState == LET padded == Absorb(Context, Padding(PadLen(Index(count))))
              IN  Absorb(padded, Encode(count)).state

(* Slip: finalize does not look whether it has been called before. *)
SlipFinalize == /\ digest' = FinalState
                /\ state' = FinalState
                /\ buffer' = [p \in 1..BlockSize |-> 0]
                /\ count' = <<0, 0>>
                /\ finalized' = TRUE
                /\ UNCHANGED fed

Finalize == /\ ~finalized
            /\ digest' = FinalState
            /\ state' = FinalState
            /\ buffer' = [p \in 1..BlockSize |-> 0]
            /\ count' = <<0, 0>>
            /\ finalized' = TRUE
            /\ UNCHANGED fed

Next == \/ \E piece \in SeqOf(Bytes, MaxBytes - Len(fed)) :
             Len(state) < MaxBlocks /\ Update(piece)
        \/ Finalize

Spec == Init /\ [][Next]_vars

-----------------------------------------------------------------------------
(* The definition of MD5's input (RFC 1321): the message, a bit 1, as few  *)
(* bits 0 as make room for the length at the end of a block, the length.   *)
BitLength(m) == <<(8 * Len(m)) % Word, ((8 * Len(m)) \div Word) % Word>>

Padded(m) ==
  LET zeros == CHOOSE z \in 0..BlockSize - 1 : (Len(m) + 1 + z + LengthSize) % BlockSize = 0
  IN  m \o Padding(1 + zeros) \o Encode(BitLength(m))

InBlocks(m) == Blocks(m, 0, Len(m) \div BlockSize)

(* However a message is cut into pieces, and whatever was in the buffer    *)
(* before, the digest is taken of the message, padded, in blocks: the key  *)
(* of a block, which MemoryCache::put recomputes, depends on its contents  *)
(* only.                                                                   *)
DigestIsOfMessage == finalized => digest = InBlocks(Padded(fed))

(* The two words hold the number of bits fed, across every overflow of the *)
(* low one.                                                                *)
CountIsExact == ~finalized => count = BitLength(fed)

(* Once hexdigest has answered, its answer does not change, whatever is    *)
(* called on the object afterwards.                                        *)
DigestIsFrozen == [][finalized => UNCHANGED <<digest, finalized>>]_vars
=============================================================================
