------------------------------- MODULE MCMd5 -------------------------------
(***************************************************************************)
(* The MD5 of both daemons for TLC, in three parts that a behaviour begins *)
(* with one of: the stream of Md5.cpp, that of md5.c, and the rounds of    *)
(* both.  The streams have blocks of 4 bytes that end with 2 bytes of      *)
(* length and words of 5 bits, so that both the padding and the low word of*)
(* the length run over within a short message.  The rounds have their real *)
(* sizes.                                                                  *)
(***************************************************************************)
EXTENDS Md5

CONSTANTS ChunkBlocks, CtxMaxBytes, Messages, Known

(* A chunk of md5_stream is counted in a word: 4096 bytes in the code.     *)
ASSUME ChunksAssumption == /\ ChunkBlocks \in Nat /\ CtxMaxBytes \in Nat
                           /\ ChunkBlocks * BlockSize <= Word

VARIABLES
  part,
  total, buflen, cbuffer, cstate, resbuf, chunk, phase, cfed,
  message, done, step, state2, regs2, x, state1, regs1, correct_words

ctxVars == <<total, buflen, cbuffer, cstate, resbuf, chunk, phase, cfed>>
roundVars == <<message, done, step, state2, regs2, x, state1, regs1, correct_words>>

MCBytes == {0, 1}

(* "0123456789", padded: the message of Md5Test, and its digest there.     *)
TestMessage == <<[p \in 1..64 |-> IF p <= 10 THEN 47 + p
                                  ELSE IF p = 11 THEN 128
                                  ELSE IF p = 57 THEN 80 ELSE 0]>>
TestDigest == <<\h78, \h1e, \h5e, \h24, \h5d, \h69, \hb5, \h66,
                \h97, \h9b, \h86, \he2, \h8d, \h23, \hf2, \hc7>>

(* Some of two blocks, with every byte value among them.                   *)
LongMessage(m) == <<[p \in 1..64 |-> (p * (2 * m + 1) + 16 * m) % 256],
                    [p \in 1..64 |-> (255 - 4 * p + m) % 256]>>

MCMessages == {TestMessage} \union {LongMessage(m) : m \in 1..8}
MCKnown == {[message |-> TestMessage, digest |-> TestDigest]}

Ctx == INSTANCE Md5Ctx
Rounds == INSTANCE Md5Rounds

MCInit == /\ part \in {"Md5.cpp", "md5.c", "rounds"}
          /\ Init /\ Ctx!Init /\ Rounds!Init
          /\ part # "Md5.cpp" => buffer = [p \in 1..BlockSize |-> 0]
          /\ part # "md5.c" => phase = "bytes"
          /\ part # "rounds" => message = CHOOSE m \in Messages : TRUE

MCNext == \/ /\ part = "Md5.cpp" /\ Next
             /\ UNCHANGED <<part, ctxVars, roundVars>>
          \/ /\ part = "md5.c" /\ Ctx!Next
             /\ UNCHANGED <<part, vars, roundVars>>
          \/ /\ part = "rounds" /\ Rounds!Next
             /\ UNCHANGED <<part, vars, ctxVars>>

MCSpec == MCInit /\ [][MCNext]_<<part, vars, ctxVars, roundVars>>

(* md5.c, too, takes the digest of the padded message, however its bytes   *)
(* come - in pieces, aligned or not, or in what reads of a file return -   *)
(* and across every overflow of its count of bytes.                        *)
ContextDigestIsOfMessage ==
  phase = "done" => resbuf = InBlocks(Padded(Ctx!Message(cfed)))

(* Md5Ctx!BufferNotOverrun: no copy of md5.c ends past its buffer.         *)
BufferNotOverrun == Ctx!BufferNotOverrun

(* Md5Ctx!BytesAccounted: md5.c neither loses a byte nor counts it twice.  *)
BytesAccounted == Ctx!BytesAccounted

(* Md5Rounds!SameRegisters: the rounds of both go through the same states. *)
SameRegisters == Rounds!SameRegisters

(* Md5Rounds!KnownDigest: the digest that Md5Test asserts (Md5Test.cpp).   *)
KnownDigest == Rounds!KnownDigest
=============================================================================
