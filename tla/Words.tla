------------------------------- MODULE Words -------------------------------
(***************************************************************************)
(* Bytes and the little-endian words that afl-fuzz reads from, and writes  *)
(* to, its input buffers.  A buffer is a sequence of bytes; a byte has     *)
(* ByteBits bits (8 in the code), so that the instances TLC checks can use *)
(* narrower ones: every mask, shift and wrap-around below is that of the   *)
(* code with 8 replaced by ByteBits.                                       *)
(***************************************************************************)
EXTENDS Integers, Sequences

CONSTANTS
  ByteBits,        \* width of a byte
  interesting_8,   \* INTERESTING_8, _16 and _32 of config.h: sequences of
  interesting_16,  \* signed integers, each table starting with the one before
  interesting_32

Base == 2 ^ ByteBits
Byte == 0 .. Base - 1

ASSUME WordsAssumption ==
  /\ ByteBits \in Nat \ {0}
  /\ \A t \in {interesting_8, interesting_16, interesting_32} : t \in Seq(Int)

\* What a cast of v to u8, u16 or u32 yields, n being the number of bytes; the
\* n-byte part of v from byte k on; and the bytes v is stored as.
Pow(n) == 2 ^ (n * ByteBits)
Cast(v, n) == v % Pow(n)
Part(v, n, k) == (v \div Pow(k)) % Pow(n)
Bytes(v, n) ==
  CASE n = 1 -> <<Part(v, 1, 0)>>
    [] n = 2 -> <<Part(v, 1, 0), Part(v, 1, 1)>>
    [] n = 4 -> <<Part(v, 1, 0), Part(v, 1, 1), Part(v, 1, 2), Part(v, 1, 3)>>

\* The word that n bytes form, and SWAP16() or SWAP32() of a word.
WordOf(s) ==
  CASE Len(s) = 1 -> s[1]
    [] Len(s) = 2 -> s[1] + s[2] * Base
    [] Len(s) = 4 -> s[1] + s[2] * Base + s[3] * Pow(2) + s[4] * Pow(3)
Swap(v, n) ==
  CASE n = 2 -> Part(v, 1, 1) + Part(v, 1, 0) * Base
    [] n = 4 -> Part(v, 1, 3) + Part(v, 1, 2) * Base + Part(v, 1, 1) * Pow(2)
                  + Part(v, 1, 0) * Pow(3)

=============================================================================
