------------------------------- MODULE Md5Ctx -------------------------------
(***************************************************************************)
(* MD5 of the first daemon (md5.c) as a stream.  Its context buffers up to *)
(* two blocks, where that of Md5 buffers one; md5_process_bytes takes whole*)
(* blocks straight from the caller when it can; md5_stream reads a file in *)
(* chunks.  As in Md5, state keeps the blocks that were processed, and the *)
(* sizes 64, 8, 4096 and 2^32 are parameters.  Nothing here depends on the *)
(* value of a byte, so the byte at position p of the message is p.         *)
(***************************************************************************)
EXTENDS Integers, SequencesExt

CONSTANTS BlockSize, LengthSize, Word,  \* as in Md5
          ChunkBlocks,    \* blocks that md5_stream reads at a time
          CtxMaxBytes     \* bound of the model: length of the message

VARIABLES
  total,        \* <<low word, high word>> of the number of bytes processed
  buflen,       \* bytes in use of buffer
  cbuffer,      \* room for two blocks
  cstate,       \* the blocks processed
  resbuf,       \* the state that md5_finish_ctx put in the result
  chunk,        \* what md5_stream has read of the next chunk
  phase,        \* "bytes" or "stream": who feeds the context; "done", "error"
  cfed          \* length of the message: the bytes fed so far

cvars == <<total, buflen, cbuffer, cstate, resbuf, chunk, phase, cfed>>

Capacity == 2 * BlockSize

Message(n) == [p \in 1..n |-> p]

Stale == -1     \* a byte that was in memory before

(* The buffer is not written when a context is initialised. *)
Init == /\ total = <<0, 0>>
        /\ buflen = 0
        /\ cbuffer = [p \in 1..Capacity |-> Stale]
        /\ cstate = <<>>
        /\ resbuf = <<>>
        /\ chunk = <<>>
        /\ phase \in {"bytes", "stream"}
        /\ cfed = 0

(* memcpy of s to position index of buf; past the end, it writes past it.  *)
CopyTo(buf, index, s) ==
  [p \in DOMAIN buf \union (index + 1..index + Len(s)) |->
     IF p \in index + 1..index + Len(s) THEN s[p - index] ELSE buf[p]]

Part(buf, first, length) == [p \in 1..length |-> buf[first + p]]

Down(n) == n - (n % BlockSize)

(* A double word is increased by n. *)
Plus(words, n) == LET low == (words[1] + n) % Word
                  IN  <<low, (words[2] + IF low < n THEN 1 ELSE 0) % Word>>

(* md5_process_block of length bytes of buf. *)
ProcessBlock(c, buf, length) ==
  [c EXCEPT !.total = Plus(@, length),
            !.state = @ \o [j \in 1..length \div BlockSize |->
                              Part(buf, (j - 1) * BlockSize, BlockSize)]]

(* Slip: a block is taken off the bytes that wait, where two may be full.  *)
SlipFill(c, add) ==
  LET used == c.buflen + Len(add)
      filled == [c EXCEPT !.buffer = CopyTo(@, c.buflen, add), !.buflen = used]
  IN  IF used <= BlockSize THEN filled
      ELSE [ProcessBlock(filled, filled.buffer, Down(used)) EXCEPT !.buflen = used - BlockSize]

(* Bytes that wait in the buffer come first: it is filled up, and its whole*)
(* blocks are processed, but a single block that fits exactly still waits. *)
Fill(c, add) ==
  LET used == c.buflen + Len(add)
      filled == [c EXCEPT !.buffer = CopyTo(@, c.buflen, add), !.buflen = used]
  IN  IF used <= BlockSize THEN filled
      ELSE [ProcessBlock(filled, filled.buffer, Down(used)) EXCEPT
              !.buflen = used % BlockSize,
              !.buffer = CopyTo(@, 0, Part(@, Down(used), used % BlockSize))]

(* How many bytes of the input are processed without waiting. *)
WholeBytes(input, aligned) ==
  IF Len(input) < BlockSize THEN 0
  ELSE IF aligned THEN Down(Len(input)) ELSE Down(Len(input) - 1)

(* Whole blocks of the input: from where they are, or, if that is not      *)
(* aligned, one by one through the buffer, the last of which then waits.   *)
Whole(c, input, aligned) ==
  LET n == WholeBytes(input, aligned)
      direct == ProcessBlock(c, input, n)
  IN  IF aligned \/ n = 0 THEN direct
      ELSE [direct EXCEPT !.buffer = CopyTo(@, 0, Part(input, n - BlockSize, BlockSize))]

(* What is left goes into the buffer, which is processed when it has a     *)
(* block.                                                                  *)
Keep(c, input) ==
  LET used == c.buflen + Len(input)
      kept == [c EXCEPT !.buffer = CopyTo(@, c.buflen, input), !.buflen = used]
  IN  IF used < BlockSize THEN kept
      ELSE [ProcessBlock(kept, kept.buffer, BlockSize) EXCEPT
              !.buflen = used - BlockSize,
              !.buffer = CopyTo(@, 0, Part(@, BlockSize, used - BlockSize))]

(* Slip: the buffer is taken to be as large as the input.                  *)
SlipAddition(c, input) == IF c.buflen = 0 THEN 0 ELSE Len(input)

(* How many bytes of the input join those that wait in the buffer.         *)
Addition(c, input) == LET room == Capacity - c.buflen
                      IN  IF c.buflen = 0 THEN 0
                          ELSE IF room > Len(input) THEN Len(input) ELSE room

ProcessBytes(c, input, aligned) ==
  LET add == Addition(c, input)
      filled == IF add = 0 THEN c ELSE Fill(c, SubSeq(input, 1, add))
      rest == SubSeq(input, add + 1, Len(input))
      tail == SubSeq(rest, WholeBytes(rest, aligned) + 1, Len(rest))
      whole == Whole(filled, rest, aligned)
  IN  IF tail = <<>> THEN whole ELSE Keep(whole, tail)

(* The number of bits in the LengthSize bytes at the end of the last block.*)
BitsOf(bytes) ==
  [p \in 1..LengthSize |->
     IF p <= LengthSize \div 2 THEN (8 * bytes[1]) % Word
     ELSE (8 * bytes[2] + bytes[1] \div (Word \div 8)) % Word]

Counted(c) == Plus(c.total, c.buflen)

(* Slip: bytes that just leave no room for the length get no block more. *)
SlipLastBytes(c) == IF c.buflen <= BlockSize - LengthSize THEN BlockSize ELSE Capacity

(* How many bytes of the buffer are processed at the end. *)
LastBytes(c) == IF c.buflen < BlockSize - LengthSize THEN BlockSize ELSE Capacity

(* The padding and the length complete the one or two last blocks. *)
FinishCtx(c) ==
  LET size == LastBytes(c)
      fillbuf == [p \in 1..size - LengthSize - c.buflen |-> IF p = 1 THEN 128 ELSE 0]
      padded == CopyTo(CopyTo(c.buffer, size - LengthSize, BitsOf(Counted(c))), c.buflen, fillbuf)
  IN  ProcessBlock([c EXCEPT !.total = Counted(c), !.buffer = padded], padded, size)

Ctx == [total |-> total, buflen |-> buflen, buffer |-> cbuffer, state |-> cstate]

Become(c) == /\ total' = c.total
             /\ buflen' = c.buflen
             /\ cbuffer' = c.buffer
             /\ cstate' = c.state

-----------------------------------------------------------------------------
(* The next n bytes of the message. *)
Piece(n) == Part(Message(cfed + n), cfed, n)

(* md5_process_bytes of a piece, at an aligned address or another. *)
Feed(n, aligned) == /\ phase = "bytes"
                    /\ Become(ProcessBytes(Ctx, Piece(n), aligned))
                    /\ cfed' = cfed + n
                    /\ UNCHANGED <<resbuf, chunk, phase>>

Finish(c) == /\ Become(FinishCtx(c))
             /\ resbuf' = FinishCtx(c).state
             /\ phase' = "done"
             /\ UNCHANGED cfed

FinishBytes == phase = "bytes" /\ Finish(Ctx) /\ UNCHANGED chunk

(* fread gives md5_stream some bytes of what it asked for; a full chunk is *)
(* processed at once.                                                      *)
Fread(n) ==
  LET got == chunk \o Piece(n)
      full == Len(got) = ChunkBlocks * BlockSize
  IN  /\ phase = "stream"
      /\ n > 0 /\ Len(got) <= ChunkBlocks * BlockSize
      /\ chunk' = IF full THEN <<>> ELSE got
      /\ Become(IF full THEN ProcessBlock(Ctx, got, Len(got)) ELSE Ctx)
      /\ cfed' = cfed + n
      /\ UNCHANGED <<resbuf, phase>>

(* At the end of the file the bytes of an incomplete chunk remain. *)
EndOfFile(aligned) ==
  /\ phase = "stream"
  /\ Finish(IF chunk = <<>> THEN Ctx ELSE ProcessBytes(Ctx, chunk, aligned))
  /\ chunk' = <<>>

(* A read that fails: md5_stream returns 1 and no result. *)
ReadError == /\ phase = "stream"
             /\ phase' = "error"
             /\ UNCHANGED <<total, buflen, cbuffer, cstate, resbuf, chunk, cfed>>

Next == \/ \E n \in 0..CtxMaxBytes - cfed, aligned \in BOOLEAN : Feed(n, aligned)
        \/ \E n \in 0..CtxMaxBytes - cfed : Fread(n)
        \/ \E aligned \in BOOLEAN : EndOfFile(aligned)
        \/ FinishBytes \/ ReadError

-----------------------------------------------------------------------------
(* No copy into the buffer ends past it, whatever was waiting there: the   *)
(* buffer of two blocks is enough for md5_process_bytes and for the padding*)
(* of md5_finish_ctx.                                                      *)
BufferNotOverrun == DOMAIN cbuffer = 1..Capacity /\ buflen <= BlockSize

(* Nothing fed is lost or counted twice: the bytes processed, those in the *)
(* buffer and those in the chunk are all there is of the message, modulo   *)
(* the double word, however often its low word overflows.                  *)
BytesAccounted ==
  phase \in {"bytes", "stream"} =>
    total = LET n == cfed - buflen - Len(chunk) IN <<n % Word, (n \div Word) % Word>>
=============================================================================
