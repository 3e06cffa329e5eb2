----------------------------- MODULE DetStages ------------------------------
(***************************************************************************)
(* The deterministic stages of fuzz_one() (DAFL/afl-fuzz.c) on one input:  *)
(* walking bit and byte flips with the collection of tokens and the        *)
(* effector map, arithmetic, interesting values, and the dictionaries.     *)
(* The model works on real bytes: what could_be_bitflip(),                 *)
(* could_be_arith() and could_be_interest() skip is decided by the values. *)
(*                                                                         *)
(* One action is one turn of the outer loop of a stage, that is one bit or *)
(* byte position i, counted from 0 as in the code; the executions of the   *)
(* inner loop are a set.  What the target does with an input is the        *)
(* checksum of its trace, chosen nondeterministically where it is read.    *)
(***************************************************************************)
EXTENDS Dictionary

CONSTANTS
  ARITH_MAX,       \* 35
  EFF_MAP_SCALE2,  \* log2 of the block size of the effector map (3)
  EFF_MIN_LEN,     \* shorter inputs are flagged as a whole (128)
  EFF_MAX_PERC,    \* so are maps denser than this (90)
  MAX_DET_EXTRAS,  \* more user extras than this are used at random (200)
  MAX_FILE,        \* longest input (1 MB)
  Cksums,          \* checksums of a trace; 0 is that of the entry itself
  XOR(_, _)        \* the operator ^ of C on bytes

\* collect_token() takes in the last byte of the input even if flipping it makes no
\* difference, which is harmless since a token has more than one byte.
ASSUME DetAssumption ==
  /\ {ARITH_MAX, EFF_MAP_SCALE2, MAX_DET_EXTRAS, MAX_FILE} \subseteq Nat
  /\ 0 \in Cksums /\ MIN_AUTO_EXTRA > 1

\* What the stages rely on when they leave out values: an exclusive or is undone by
\* another one, and sets a bit that was clear.  The patterns of could_be_bitflip() are
\* not wider than a byte, or made of whole bytes.
ASSUME XorAssumption ==
  /\ ByteBits >= 4
  /\ \A a, b \in Byte : XOR(a, b) \in Byte /\ XOR(a, XOR(a, b)) = b
  /\ \A a, b, c \in Byte : XOR(XOR(a, b), c) = XOR(a, XOR(b, c))
  /\ \A a \in Byte : XOR(a, 0) = a
  /\ \A k \in 0 .. ByteBits - 1 : \A a \in 0 .. 2 ^ k - 1 : XOR(2 ^ k, a) = 2 ^ k + a

VARIABLES
  stage,        \* stage_short, or where fuzz_one() is outside the stages
  i,            \* position of the outer loop
  len,          \* length of the input that is mutated
  no_arith,     \* AFL_NO_ARITH
  in_buf,       \* the input
  out_buf,      \* its copy that is mutated
  stage_cur,    \* executions of the stage so far
  stage_max,    \* executions the stage is expected to make
  prev_cksum,   \* checksum of the string that is being collected
  a_collect,    \* that string, also beyond MAX_AUTO_EXTRA bytes: a_len is its
                \* length
  eff_map,      \* flagged blocks of the effector map
  ex_tmp,       \* head of the buffer for insertions
  heap,         \* for each buffer, how often it was allocated but not freed
  passed_det,   \* passed_det of the queue entry
  executed,     \* history: inputs run in the stages so far
  cksums,       \* history: checksum for the last bit of each byte in flip1
  tokens        \* history: arguments of maybe_add_auto()

bufVars   == <<in_buf, out_buf, len, no_arith>>
flipVars  == <<prev_cksum, a_collect, cksums, tokens>>
detVars   == <<stage, i, bufVars, stage_cur, stage_max, flipVars, eff_map,
               ex_tmp, heap, passed_det, executed>>

Buffers == {"orig_in", "in_buf", "out_buf", "eff_map", "ex_tmp"}
Alloc(h, b) == [h EXCEPT ![b] = @ + 1]
Free(h, b)  == [h EXCEPT ![b] = @ - 1]

----------------------------------------------------------------------------
(* Reading and writing words of a buffer. *)

WordAt(buf, p, n) == WordOf(SubSeq(buf, p + 1, p + n))
Put(buf, p, new) == SubSeq(buf, 1, p) \o new \o SubSeq(buf, p + Len(new) + 1, Len(buf))
PutWord(buf, p, n, v) == Put(buf, p, Bytes(v, n))

\* FLIP_BIT(): bit 0 is the most significant bit of the first byte.
FlipBit(buf, b) ==
  [buf EXCEPT ![b \div ByteBits + 1] = XOR(@, 2 ^ (ByteBits - 1 - (b % ByteBits)))]
Flip2Bits(buf, b) == FlipBit(FlipBit(buf, b), b + 1)
Flip4Bits(buf, b) == Flip2Bits(Flip2Bits(buf, b), b + 2)

\* The operator ^ on words of n bytes.
XorWords(a, b, n) == WordOf([k \in 1 .. n |-> XOR(Part(a, 1, k - 1), Part(b, 1, k - 1))])

----------------------------------------------------------------------------
(* Which values need not be tried. *)

could_be_bitflip(xor_val) ==
  \/ xor_val = 0
  \/ \E sh \in 0 .. 4 * ByteBits - 1 :
       /\ xor_val % (2 ^ sh) = 0
       /\ \/ xor_val \div (2 ^ sh) \in {1, 3, 15}
          \/ /\ sh % ByteBits = 0
             /\ xor_val \div (2 ^ sh) \in {Pow(1) - 1, Pow(2) - 1, Pow(4) - 1}

\* The distance of two n-byte words, whichever is greater.
WithinArith(a, b, n) == Cast(a - b, n) <= ARITH_MAX \/ Cast(b - a, n) <= ARITH_MAX

could_be_arith(old_val, new_val, blen) ==
  LET Old(n, k) == Part(old_val, n, n * k)
      New(n, k) == Part(new_val, n, n * k)
      Differ(n) == {k \in 0 .. blen \div n - 1 : Old(n, k) # New(n, k)}
      Near(n, k, Order(_)) == WithinArith(Order(Old(n, k)), Order(New(n, k)), n)
  IN  \/ old_val = new_val
      \/ \E k \in Differ(1) : Differ(1) = {k} /\ Near(1, k, LAMBDA v : v)
      \/ /\ blen > 1
         /\ \E k \in Differ(2) :
              /\ Differ(2) = {k}
              /\ Near(2, k, LAMBDA v : v) \/ Near(2, k, LAMBDA v : Swap(v, 2))
      \/ /\ blen = 4
         /\ Near(4, 0, LAMBDA v : v) \/ Near(4, 0, LAMBDA v : Swap(v, 4))

could_be_interest(old_val, new_val, blen, check_le) ==
  LET Insert(v, n, k) == old_val + (Cast(v, n) - Part(old_val, n, k)) * Pow(k)
  IN  \/ old_val = new_val
      \/ \E k \in 0 .. blen - 1, m \in 1 .. Len(interesting_8) :
           new_val = Insert(interesting_8[m], 1, k)
      \/ /\ blen # 2 \/ check_le
         /\ \E k \in 0 .. blen - 2, m \in 1 .. Len(interesting_16) :
              \/ new_val = Insert(interesting_16[m], 2, k)
              \/ blen > 2 /\ new_val = Insert(Swap(interesting_16[m], 2), 2, k)
      \/ /\ blen = 4 /\ check_le
         /\ \E m \in 1 .. Len(interesting_32) : new_val = Cast(interesting_32[m], 4)
----------------------------------------------------------------------------
(* The loops. *)

\* Number of turns of the outer loop, executions a turn is expected to make,
\* and what stage_max is set to.
Turns(s) ==
  CASE s = "flip1" -> len * ByteBits
    [] s = "flip2" -> len * ByteBits - 1
    [] s = "flip4" -> len * ByteBits - 3
    [] s \in {"flip8", "arith8", "int8", "ext_UO", "ext_AO"} -> len
    [] s \in {"flip16", "arith16", "int16"} -> len - 1
    [] s \in {"flip32", "arith32", "int32"} -> len - 3
    [] s = "ext_UI" -> len + 1
PerTurn(s) ==
  CASE s \in {"flip1", "flip2", "flip4", "flip8", "flip16", "flip32"} -> 1
    [] s = "arith8" -> 2 * ARITH_MAX
    [] s \in {"arith16", "arith32"} -> 4 * ARITH_MAX
    [] s = "int8" -> Len(interesting_8)
    [] s = "int16" -> 2 * Len(interesting_16)
    [] s = "int32" -> 2 * Len(interesting_32)
    [] s \in {"ext_UO", "ext_UI"} -> Len(extras)
    [] s = "ext_AO" -> Used(a_extras)
Expected(s) == PerTurn(s) * (IF s = "ext_UI" THEN len ELSE Turns(s))

DetStage == {"flip1", "flip2", "flip4", "flip8", "flip16", "flip32",
             "arith8", "arith16", "arith32", "int8", "int16", "int32",
             "ext_UO", "ext_UI", "ext_AO"}

\* A turn that runs the inputs bufs in a number of tries, and does without
\* skipped more.
turn(s, bufs, tries, skipped) ==
  /\ stage = s /\ i < Turns(s)
  /\ i' = i + 1
  /\ executed' = executed \cup bufs
  /\ stage_cur' = stage_cur + tries
  /\ stage_max' = stage_max - skipped
  /\ UNCHANGED <<stage, in_buf, len, no_arith, heap, passed_det>>

EffBlock(p) == p \div (2 ^ EFF_MAP_SCALE2)
EffBlocks == EffBlock(len) + (IF len % (2 ^ EFF_MAP_SCALE2) # 0 THEN 1 ELSE 0)
\* Whether some block of the n bytes from p on is flagged.
Flagged(p, n) == EffBlock(p) .. EffBlock(p + n - 1) \cap eff_map # {}

----------------------------------------------------------------------------
(* Bit flips. *)

collect_token_no_reset(cksum) ==
  LET byte    == out_buf[i \div ByteBits + 1]
      final   == i = Turns("flip1") - 1 /\ cksum = prev_cksum
      grabbed == IF final THEN Append(a_collect, byte) ELSE a_collect
      changed == cksum # prev_cksum
      kept    == grabbed
  IN  /\ IF (final \/ changed) /\ Len(grabbed) \in MIN_AUTO_EXTRA .. MAX_AUTO_EXTRA
         THEN maybe_add_auto(grabbed) /\ tokens' = Append(tokens, grabbed)
         ELSE UNCHANGED <<a_extras, auto_changed, tokens>>
      /\ prev_cksum' = cksum
      /\ a_collect' = IF cksum # 0 THEN Append(kept, byte) ELSE kept
      /\ cksums' = Append(cksums, cksum)

\* The search for tokens, done for the least significant bit of each byte:
\* consecutive bytes whose flip leads to the same new checksum.
collect_token(cksum) ==
  LET byte    == out_buf[i \div ByteBits + 1]
      final   == i = Turns("flip1") - 1 /\ cksum = prev_cksum
      grabbed == IF final THEN Append(a_collect, byte) ELSE a_collect
      changed == cksum # prev_cksum
      kept    == IF changed THEN <<>> ELSE grabbed
  IN  /\ IF (final \/ changed) /\ Len(grabbed) \in MIN_AUTO_EXTRA .. MAX_AUTO_EXTRA
         THEN maybe_add_auto(grabbed) /\ tokens' = Append(tokens, grabbed)
         ELSE UNCHANGED <<a_extras, auto_changed, tokens>>
      /\ prev_cksum' = cksum
      /\ a_collect' = IF cksum # 0 THEN Append(kept, byte) ELSE kept
      /\ cksums' = Append(cksums, cksum)

flip1 ==
  /\ turn("flip1", {FlipBit(out_buf, i)}, 1, 0)
  /\ IF i % ByteBits = ByteBits - 1
     THEN \E cksum \in Cksums : collect_token(cksum)
     ELSE UNCHANGED <<flipVars, a_extras, auto_changed>>
  /\ UNCHANGED <<out_buf, eff_map, ex_tmp, extras>>

laterVars == <<out_buf, flipVars, eff_map, ex_tmp, dictTables>>

flip2 == turn("flip2", {Flip2Bits(out_buf, i)}, 1, 0) /\ UNCHANGED laterVars
flip4 == turn("flip4", {Flip4Bits(out_buf, i)}, 1, 0) /\ UNCHANGED laterVars

\* The walking byte, which also flags the blocks of the effector map whose
\* bytes make a difference.
flip8 ==
  /\ turn("flip8", {PutWord(out_buf, i, 1, XOR(out_buf[i + 1], Base - 1))}, 1, 0)
  /\ \E cksum \in Cksums :
       eff_map' = IF len < EFF_MIN_LEN \/ cksum # 0
                  THEN eff_map \cup {EffBlock(i)} ELSE eff_map
  /\ UNCHANGED <<out_buf, flipVars, ex_tmp, dictTables>>

flip_bytes_full_count(s, n) ==
  /\ stage = s /\ i < Turns(s)
  /\ IF Flagged(i, n)
     THEN turn(s, {PutWord(out_buf, i, n, XorWords(WordAt(out_buf, i, n), Pow(n) - 1, n))}, 1, 0)
     ELSE turn(s, {}, 0, 0)
  /\ UNCHANGED laterVars

\* Two or four walking bytes, where the effector map says so.
flip_bytes(s, n) ==
  /\ stage = s /\ i < Turns(s)
  /\ IF Flagged(i, n)
     THEN turn(s, {PutWord(out_buf, i, n, XorWords(WordAt(out_buf, i, n), Pow(n) - 1, n))}, 1, 0)
     ELSE turn(s, {}, 0, 1)
  /\ UNCHANGED laterVars

flip16 == flip_bytes("flip16", 2)
flip32 == flip_bytes("flip32", 4)
----------------------------------------------------------------------------
(* Arithmetic and interesting values. *)

\* A turn on the n-byte word at position i that writes Value(t) for each of the
\* tries in T that is worth it.
word_turn(s, n, T, Worth(_, _), Value(_, _)) ==
  /\ stage = s /\ i < Turns(s)
  /\ \/ /\ Flagged(i, n)
        /\ \E orig \in {WordAt(out_buf, i, n)} : \E tried \in {{t \in T : Worth(orig, t)}} :
             turn(s, {PutWord(out_buf, i, n, Value(orig, t)) : t \in tried},
                  Cardinality(tried), Cardinality(T) - Cardinality(tried))
     \/ ~Flagged(i, n) /\ turn(s, {}, 0, PerTurn(s))
  /\ UNCHANGED laterVars

\* The tries: by how much, in which direction and, for words, in which order of
\* the bytes.
ArithTries(n) == (1 .. ARITH_MAX) \X {1, -1} \X (IF n = 1 THEN {FALSE} ELSE BOOLEAN)
ArithValue(n, orig, t) ==
  LET delta == t[1] * t[2]
  IN  IF t[3] THEN Swap(Cast(Swap(orig, n) + delta, n), n) ELSE Cast(orig + delta, n)

Carries_low_byte(n, orig, t) ==
  LET low == (IF t[3] THEN Swap(orig, n) ELSE orig) % Pow(n)
  IN  IF t[2] = 1 THEN low + t[1] > Pow(n) - 1 ELSE low < t[1]

\* Words are tried only if the operation carries into the upper half.
Carries(n, orig, t) ==
  LET low == (IF t[3] THEN Swap(orig, n) ELSE orig) % Pow(n \div 2)
  IN  IF t[2] = 1 THEN low + t[1] > Pow(n \div 2) - 1 ELSE low < t[1]

WorthArith(n, orig, t) ==
  /\ n = 1 \/ Carries(n, orig, t)
  /\ \E r \in {XorWords(orig, ArithValue(n, orig, t), n)} : ~could_be_bitflip(r)

arith(s, n) ==
  word_turn(s, n, ArithTries(n), LAMBDA o, t : WorthArith(n, o, t),
                                 LAMBDA o, t : ArithValue(n, o, t))

arith8  == arith("arith8", 1)
arith16 == arith("arith16", 2)
arith32 == arith("arith32", 4)

\* The tries: which value and, for words, in which order of the bytes.
Interesting(n) ==
  CASE n = 1 -> interesting_8 [] n = 2 -> interesting_16 [] n = 4 -> interesting_32
InterestTries(n) == (1 .. Len(Interesting(n))) \X (IF n = 1 THEN {FALSE} ELSE BOOLEAN)
InterestValue(n, t) ==
  IF t[2] THEN Swap(Interesting(n)[t[1]], n) ELSE Cast(Interesting(n)[t[1]], n)

WorthInterest(n, orig, t) ==
  \E v \in {InterestValue(n, t)}, w \in {XorWords(orig, InterestValue(n, t), n)} :
    /\ t[2] => v # Swap(v, n)
    /\ ~could_be_bitflip(w)
    /\ ~could_be_arith(orig, v, n)
    /\ n = 1 \/ ~could_be_interest(orig, v, n, t[2])

interest(s, n) ==
  word_turn(s, n, InterestTries(n), LAMBDA o, t : WorthInterest(n, o, t),
                                    LAMBDA o, t : InterestValue(n, t))

int8  == interest("int8", 1)
int16 == interest("int16", 2)
int32 == interest("int32", 4)

----------------------------------------------------------------------------
(* Dictionaries. *)

\* The inner loop at position i that writes the tokens of T over the buffer,
\* without restoring it in between.  The ones not drawn are left out.
TryToken(acc, t, is_drawn) ==
  LET b == Put(acc.buf, i, t)
  IN  IF \/ ~is_drawn \/ Len(t) > len - i
         \/ SubSeq(acc.buf, i + 1, i + Len(t)) = t
         \/ ~Flagged(i, Len(t))
      THEN acc
      ELSE [buf |-> b, last_len |-> Len(t), runs |-> Append(acc.runs, b)]
Overwrites(T, drawn) ==
  LET acc[k \in 0 .. Len(T)] ==
        IF k = 0 THEN [buf |-> out_buf, last_len |-> 0, runs |-> <<>>]
                 ELSE TryToken(acc[k - 1], T[k], k \in drawn)
  IN  acc[Len(T)]

overwrite(s, T, drawn) ==
  LET done == Overwrites(T, drawn)
  IN  /\ turn(s, ToSet(done.runs), Len(done.runs), Len(T) - Len(done.runs))
      /\ out_buf' = Put(done.buf, i, SubSeq(in_buf, i + 1, i + done.last_len))
      /\ UNCHANGED <<flipVars, eff_map, ex_tmp, dictTables>>

ext_UO ==
  /\ stage = "ext_UO" /\ i < Turns("ext_UO")
  /\ \E drawn \in IF Len(extras) > MAX_DET_EXTRAS
                  THEN SUBSET (1 .. Len(extras)) ELSE {1 .. Len(extras)} :
       overwrite("ext_UO", extras, drawn)

\* ex_tmp grows by the byte at i after the tokens have been inserted there.
ext_UI ==
  /\ stage = "ext_UI" /\ i < Turns("ext_UI")
  /\ LET fits == {k \in 1 .. Len(extras) : len + Len(extras[k]) <= MAX_FILE}
     IN  turn("ext_UI", {ex_tmp \o extras[k] \o SubSeq(out_buf, i + 1, len) : k \in fits},
              Cardinality(fits), Len(extras) - Cardinality(fits))
  /\ ex_tmp' = IF i < len THEN Append(ex_tmp, out_buf[i + 1]) ELSE ex_tmp
  /\ UNCHANGED <<out_buf, flipVars, eff_map, dictTables>>

ext_AO ==
  /\ stage = "ext_AO" /\ i < Turns("ext_AO")
  /\ overwrite("ext_AO", [k \in 1 .. Used(a_extras) |-> a_extras[k].data],
               1 .. Used(a_extras))

----------------------------------------------------------------------------
(* From one stage to the next. *)

\* The labels skip_bitflip, skip_arith, skip_interest and skip_user_extras.
skip_user_extras == IF a_extras = <<>> THEN "det_done" ELSE "ext_AO"
skip_interest    == IF extras = <<>> THEN skip_user_extras ELSE "ext_UO"
skip_arith       == "int8"
skip_bitflip     == IF no_arith THEN skip_arith ELSE "arith8"

NextStage ==
  CASE stage = "flip1"   -> "flip2"
    [] stage = "flip2"   -> "flip4"
    [] stage = "flip4"   -> "flip8"
    [] stage = "flip8"   -> IF len < 2 THEN skip_bitflip ELSE "flip16"
    [] stage = "flip16"  -> IF len < 4 THEN skip_bitflip ELSE "flip32"
    [] stage = "flip32"  -> skip_bitflip
    [] stage = "arith8"  -> IF len < 2 THEN skip_arith ELSE "arith16"
    [] stage = "arith16" -> IF len < 4 THEN skip_arith ELSE "arith32"
    [] stage = "arith32" -> skip_arith
    [] stage = "int8"    -> IF no_arith \/ len < 2 THEN skip_interest ELSE "int16"
    [] stage = "int16"   -> IF len < 4 THEN skip_interest ELSE "int32"
    [] stage = "int32"   -> skip_interest
    [] stage = "ext_UO"  -> "ext_UI"
    [] stage = "ext_UI"  -> skip_user_extras
    [] stage = "ext_AO"  -> "det_done"

\* The effector map is set up before flip8, first and last block flagged, and
\* flagged as a whole after it if it is dense.
EffInit == {0, EffBlock(len - 1)}
EffFinal ==
  IF (Cardinality(eff_map) * 100) \div EffBlocks > EFF_MAX_PERC
  THEN 0 .. EffBlocks - 1 ELSE eff_map

next_stage ==
  /\ stage \in DetStage /\ i >= Turns(stage)
  /\ stage' = NextStage /\ i' = 0 /\ stage_cur' = 0
  /\ stage_max' = IF stage' \in DetStage THEN Expected(stage') ELSE 0
  /\ eff_map' = IF stage = "flip4" THEN EffInit
                ELSE IF stage = "flip8" THEN EffFinal ELSE eff_map
  /\ heap' = IF stage = "flip4" THEN Alloc(heap, "eff_map")
             ELSE IF stage = "ext_UO" THEN Alloc(heap, "ex_tmp")
             ELSE IF stage = "ext_UI" THEN Free(heap, "ex_tmp") ELSE heap
  /\ ex_tmp' = <<>>
  /\ prev_cksum' = 0 /\ a_collect' = <<>> /\ cksums' = <<>> /\ tokens' = <<>>
  /\ UNCHANGED <<bufVars, passed_det, executed, dictTables>>

DetTurn ==
  \/ flip1 \/ flip2 \/ flip4 \/ flip8 \/ flip16 \/ flip32
  \/ arith8 \/ arith16 \/ arith32 \/ int8 \/ int16 \/ int32
  \/ ext_UO \/ ext_UI \/ ext_AO
  \/ next_stage
----------------------------------------------------------------------------
(* Properties. *)

\* What the deterministic stages set out to try on the word at p: adding and
\* subtracting, and the interesting values, in both byte orders.
Intended(p, n) ==
  LET orig == WordAt(in_buf, p, n)
      arith_values == {ArithValue(n, orig, t) : t \in ArithTries(n)}
      int_values   == {InterestValue(n, t) : t \in InterestTries(n)}
  IN  {PutWord(in_buf, p, n, v) :
         v \in IF no_arith THEN (IF n = 1 THEN int_values ELSE {})
                           ELSE arith_values \cup int_values}

Changed(buf) == {k \in 1 .. len : buf[k] # in_buf[k]}
Matters(buf) == \E k \in Changed(buf) : EffBlock(k - 1) \in eff_map

\* Two things are taken for tried although they are not.  A pattern of two or
\* four bits across a byte border, in the order of a little-endian word, is not
\* one that FLIP_BIT(), which starts at the most significant bit, comes across;
\* and with AFL_NO_ARITH nothing is tried by arithmetic.
TakenForTried(buf) ==
  \/ \E k \in 1 .. len - 1 :
       /\ Changed(buf) = {k, k + 1}
       /\ XorWords(WordAt(in_buf, k - 1, 2), WordAt(buf, k - 1, 2), 2)
            \in {p * 2 ^ sh : p \in {3, 15}, sh \in 0 .. 2 * ByteBits - 1}
  \/ no_arith /\ \E k \in 1 .. len : /\ Changed(buf) = {k}
                                     /\ WithinArith(buf[k], in_buf[k], 1)

OverwrittenBy(t) ==
  {Put(in_buf, p, t) : p \in {q \in 0 .. len - Len(t) : Flagged(q, Len(t))}}
WithInserted(t) ==
  {SubSeq(in_buf, 1, p) \o t \o SubSeq(in_buf, p + 1, len) : p \in 0 .. len}

ValuesTried ==
  \A n \in {1, 2, 4} : \A p \in 0 .. len - n : \A buf \in Intended(p, n) :
    buf \in executed \/ ~Matters(buf) \/ TakenForTried(buf)
TokensTried ==
  /\ Len(extras) <= MAX_DET_EXTRAS =>
       \A t \in ToSet(extras) : OverwrittenBy(t) \subseteq executed \cup {in_buf}
  /\ \A t \in ToSet(extras) :
       len + Len(t) <= MAX_FILE => WithInserted(t) \subseteq executed
  /\ \A k \in 1 .. Used(a_extras) :
       OverwrittenBy(a_extras[k].data) \subseteq executed \cup {in_buf}

\* When the deterministic stages are over, every arithmetic and interesting
\* value whose change touches a flagged block has been run, although each stage
\* leaves out what another one is believed to cover, and so has every token at
\* every position, although the buffer is not restored between tokens.
DetComplete == stage = "det_done" => ValuesTried /\ TokensTried

\* At the end of a stage, as many inputs have been run as stage_max says after
\* all corrections for what was skipped.  Only the insertion of tokens, which
\* also takes place at the end of the input, runs more than it counts on.
StageCountsExact ==
  stage \in DetStage /\ i = Turns(stage) =>
    stage_cur = stage_max + (IF stage = "ext_UI" THEN Len(extras) ELSE 0)

\* The bytes p to q have the same changed checksum; and no byte next to them has it.
UniformRun(p, q) == cksums[p] # 0 /\ \A k \in p .. q : cksums[k] = cksums[p]
MaximalRun(p, q) == /\ UniformRun(p, q)
                    /\ p > 1 => cksums[p - 1] # cksums[p]
                    /\ q < len => cksums[q + 1] # cksums[p]

\* The strings that flip1 has passed to maybe_add_auto() are exactly the maximal
\* runs, of an admissible length, of bytes with the same changed checksum.
TokensExact ==
  stage = "flip1" /\ i = Turns("flip1") =>
    ToSet(tokens) =
      {SubSeq(in_buf, s[1], s[2]) : s \in
         {r \in (1 .. len) \X (1 .. len) :
            /\ r[2] - r[1] + 1 \in MIN_AUTO_EXTRA .. MAX_AUTO_EXTRA
            /\ MaximalRun(r[1], r[2])}}

=============================================================================
