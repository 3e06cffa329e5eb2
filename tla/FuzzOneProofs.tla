--------------------------- MODULE FuzzOneProofs ----------------------------
(***************************************************************************)
(* Proofs about FuzzOne, for inputs and dictionaries of any size, every    *)
(* value of the tuning constants and every choice of the havoc stage: the  *)
(* buffers are allocated, freed and used within their bounds, the stages   *)
(* make the executions they announce, the tokens flip1 finds are the       *)
(* maximal runs, every token is tried at every position, and every         *)
(* arithmetic and interesting value that a stage leaves out is one that    *)
(* another stage runs.                                                     *)
(***************************************************************************)
EXTENDS FuzzOne, DictionaryProofs

-----------------------------------------------------------------------------
(* The invariants.                                                         *)

Stages == DetStage \cup {"map", "trim", "det_done", "havoc_stage", "havoc",
                         "retry_splicing", "abandon", "returned"}

\* Types, and what is always the case with the input and the dictionaries.
InputInv ==
  /\ entry \in Entries /\ stage \in Stages /\ i \in Nat
  /\ in_buf \in Seq(Byte) /\ Len(in_buf) \in 1 .. MAX_FILE
  /\ len \in Nat /\ capacity \in Nat /\ temp_len \in Nat
  /\ a_collect \in Seq(Byte)
  /\ DictTypes /\ TablesInv /\ phase = "run"

\* How long the input is, and that it fits in out_buf, in each part of fuzz_one().
LengthInv ==
  /\ stage \in {"map", "trim"} => in_buf = entry.data /\ ~spliced
  /\ stage = "trim" => capacity = Len(in_buf)
  /\ stage \in DetStage \cup {"det_done"} => len = Len(in_buf) /\ ~spliced /\ len <= capacity
  /\ stage = "flip1" => out_buf = in_buf
  /\ stage = "havoc_stage" => len <= capacity
  /\ stage \in {"havoc_stage", "havoc", "retry_splicing"} => len \in 1 .. MAX_FILE
  /\ stage = "havoc" => temp_len \in 1 .. MAX_FILE /\ temp_len <= capacity
  /\ ~out_of_bounds

\* Which buffers there are.
EffUnset == {"map", "trim", "flip1", "flip2", "flip4"}
Allocated ==
  {b \in Buffers :
     \/ b \in {"orig_in", "out_buf"}
     \/ b = "in_buf" /\ spliced
     \/ b = "eff_map" /\ eff_map # {}
     \/ b = "ex_tmp" /\ stage = "ext_UI"}
HeapInv ==
  /\ stage \in EffUnset => eff_map = {}
  /\ stage \in (DetStage \ EffUnset) \cup {"det_done"} => eff_map # {}
  /\ heap = [b \in Buffers |-> IF stage \notin {"map", "returned"} /\ b \in Allocated
                               THEN 1 ELSE 0]

\* Each turn restores the buffer.
RestoredInv == stage \in DetStage \cup {"det_done"} => out_buf = in_buf

\* The turns that are left would bring stage_cur to stage_max, but for those that
\* insert a token at the end of the input.
CountInv ==
  /\ stage \in {"map", "trim"} => i = 0 /\ stage_cur = 0
  /\ stage \in DetStage =>
       /\ stage_cur \in Int /\ stage_max \in Int
       /\ stage_cur + PerTurn(stage) * (Turns(stage) - i)
            = stage_max + (IF stage = "ext_UI" THEN Len(extras) ELSE 0)

\* The maximal runs p .. q of a changed checksum in cs, and those of an admissible length
\* that are complete once m of the len bytes are known.
Admissible(r) == r[2] - r[1] + 1 \in MIN_AUTO_EXTRA .. MAX_AUTO_EXTRA
MaxRun(cs, n, p, q) ==
  /\ cs[p] # 0 /\ \A k \in p .. q : cs[k] = cs[p]
  /\ p > 1 => cs[p - 1] # cs[p]
  /\ q < n => cs[q + 1] # cs[p]
Closed(cs, m, n) ==
  {r \in (1 .. n) \X (1 .. n) :
     /\ Admissible(r) /\ r[2] <= m /\ (r[2] < m \/ m = n)
     /\ MaxRun(cs, n, r[1], r[2])}

\* The last run starts after byte s.
LastRun(cs, m, s, prev) ==
  /\ \A k \in s + 1 .. m : cs[k] = prev
  /\ s > 0 => cs[s] # prev

\* The run of bytes with the checksum of the last one is in a_collect, and the runs
\* before it have been passed to maybe_add_auto().
TokenInv ==
  /\ stage \in {"map", "trim"} =>
       cksums = <<>> /\ tokens = <<>> /\ prev_cksum = 0 /\ a_collect = <<>>
  /\ stage = "flip1" =>
       /\ i <= len * ByteBits
       /\ cksums \in Seq(Cksums) /\ Len(cksums) = i \div ByteBits
       /\ tokens \in Seq(Seq(Byte))
       /\ prev_cksum = IF cksums = <<>> THEN 0 ELSE cksums[Len(cksums)]
       /\ Len(cksums) < len =>
            \/ prev_cksum = 0 /\ a_collect = <<>>
            \/ prev_cksum # 0 /\ \E s \in 0 .. Len(cksums) - 1 :
                 /\ LastRun(cksums, Len(cksums), s, prev_cksum)
                 /\ a_collect = SubSeq(in_buf, s + 1, Len(cksums))
       /\ ToSet(tokens) = {SubSeq(in_buf, r[1], r[2]) : r \in Closed(cksums, Len(cksums), len)}

\* The positions at which the tokens were tried so far, in each of the three stages.
OverwrittenAt(t, P) ==
  \A p \in P : p + Len(t) <= len /\ Flagged(p, Len(t)) =>
                Put(in_buf, p, t) \in executed \cup {in_buf}
InsertedAt(t, P) ==
  \A p \in P : SubSeq(in_buf, 1, p) \o t \o SubSeq(in_buf, p + 1, len) \in executed
UserTried ==
  stage \in {"ext_UO", "ext_UI", "ext_AO", "det_done"} /\ Len(extras) <= MAX_DET_EXTRAS =>
    \A k \in 1 .. Len(extras) :
      OverwrittenAt(extras[k], 0 .. (IF stage = "ext_UO" THEN i ELSE len) - 1)
InsertTried ==
  /\ stage = "ext_UI" => ex_tmp = SubSeq(in_buf, 1, IF i < len THEN i ELSE len)
  /\ stage \in {"ext_UI", "ext_AO", "det_done"} =>
       \A k \in 1 .. Len(extras) : len + Len(extras[k]) <= MAX_FILE =>
         InsertedAt(extras[k], 0 .. (IF stage = "ext_UI" THEN i - 1 ELSE len))
AutoTried ==
  stage \in {"ext_AO", "det_done"} =>
    \A k \in 1 .. Used(a_extras) :
      OverwrittenAt(a_extras[k].data, 0 .. (IF stage = "ext_AO" THEN i ELSE len) - 1)
TriedInv == UserTried /\ InsertTried /\ AutoTried
-----------------------------------------------------------------------------
(* What the actions do.                                                    *)

\* One turn of a deterministic stage.
LEMMA TurnEffect ==
  ASSUME DetTurn, ~next_stage
  PROVE  /\ stage \in DetStage /\ i < Turns(stage) /\ i' = i + 1
         /\ UNCHANGED <<stage, in_buf, len, no_arith, heap, passed_det, extras>>
         /\ stage = "flip1" => flip1
         /\ stage # "flip1" => UNCHANGED <<flipVars, a_extras, auto_changed>>
         /\ eff_map' = eff_map \/ (stage = "flip8" /\ eff_map' = eff_map \cup {EffBlock(i)})
         /\ stage \notin {"ext_UO", "ext_AO"} => out_buf' = out_buf
         /\ stage # "ext_UI" => ex_tmp' = ex_tmp
         /\ executed \subseteq executed'
<1> USE DEF turn, laterVars, dictTables, flipVars
<1>1. CASE flip1
  BY <1>1 DEF flip1, DetStage
<1>2. CASE flip2 \/ flip4
  BY <1>2 DEF flip2, flip4, DetStage
<1>3. CASE flip8
  BY <1>3 DEF flip8, DetStage
<1>4. ASSUME NEW s \in DetStage \ {"flip1"}, NEW n, flip_bytes(s, n)
      PROVE  /\ stage = s /\ i < Turns(s) /\ i' = i + 1
             /\ UNCHANGED <<stage, in_buf, len, no_arith, heap, passed_det, extras, flipVars,
                            a_extras, auto_changed, eff_map, out_buf, ex_tmp>>
             /\ executed \subseteq executed'
  BY <1>4 DEF flip_bytes
<1>5. CASE flip16 \/ flip32
  BY <1>4, <1>5 DEF flip16, flip32, DetStage
<1>6. ASSUME NEW s \in DetStage \ {"flip1"}, NEW n, arith(s, n) \/ interest(s, n)
      PROVE  /\ stage = s /\ i < Turns(s) /\ i' = i + 1
             /\ UNCHANGED <<stage, in_buf, len, no_arith, heap, passed_det, extras, flipVars,
                            a_extras, auto_changed, eff_map, out_buf, ex_tmp>>
             /\ executed \subseteq executed'
  BY <1>6 DEF arith, interest, word_turn
<1>7. CASE arith8 \/ arith16 \/ arith32 \/ int8 \/ int16 \/ int32
  BY <1>6, <1>7 DEF arith8, arith16, arith32, int8, int16, int32, DetStage
<1>8. CASE ext_UO \/ ext_AO
  BY <1>8 DEF ext_UO, ext_AO, overwrite, DetStage
<1>9. CASE ext_UI
  BY <1>9 DEF ext_UI, DetStage
<1>10. QED
  BY <1>1, <1>2, <1>3, <1>5, <1>7, <1>8, <1>9 DEF DetTurn

\* Any other step: what it does to the input and the dictionaries.
LEMMA OtherEffect ==
  ASSUME Next, ~det_turn
  PROVE  /\ UNCHANGED <<entry, i, extras, a_extras, auto_changed, phase, auto_files,
                        resume_files, loaded, a_collect, cksums, tokens, prev_cksum>>
         /\ ~trim_and_score => UNCHANGED <<in_buf, out_buf>>
         /\ stage' \in Stages
         /\ stage' \in DetStage => trim_and_score /\ stage' = "flip1"
  BY DEF Next, map_input, trim_and_score, stop_trimming, abandon_det, mark_as_det_done,
     havoc_stage, change_value, delete_bytes, clone_bytes, overwrite_bytes,
     overwrite_with_extra, insert_extra, tweak, InStack, run_havoc, abandon_havoc, end_havoc,
     splice_fails, splice_with_target, finish, abandon_entry, Stages, DetStage,
     detRest, entryVars, dictTables, dictRest, flipVars, bufVars

\* A tweak of the havoc stage.
Tweak == \/ change_value \/ delete_bytes \/ clone_bytes \/ overwrite_bytes
         \/ overwrite_with_extra \/ insert_extra

LEMMA TweakEffect ==
  ASSUME Tweak
  PROVE  /\ stage = "havoc"
         /\ \E new_len, size, reach, limit : tweak(new_len, size, reach, limit)
         /\ UNCHANGED <<stage, i, in_buf, out_buf, len, heap, spliced, eff_map, entry,
                        stage_cur, stage_max, a_extras>>
<1>1. stage = "havoc" /\ \E new_len, size, reach, limit : tweak(new_len, size, reach, limit)
  BY DEF Tweak, InStack, change_value, delete_bytes, clone_bytes, overwrite_bytes,
     overwrite_with_extra, insert_extra
<1>2. ASSUME NEW a, NEW b, NEW c, NEW d, tweak(a, b, c, d)
      PROVE  UNCHANGED <<stage, i, in_buf, out_buf, len, heap, spliced, eff_map, entry,
                         stage_cur, stage_max, a_extras>>
  BY <1>2 DEF tweak, detRest, entryVars, dictTables
<1>3. QED
  BY <1>1, <1>2

\* The constants.
LEMMA Constants ==
  /\ ByteBits \in Nat \ {0} /\ MAX_FILE \in Nat /\ Byte \subseteq Nat
  /\ MIN_AUTO_EXTRA \in Nat /\ MIN_AUTO_EXTRA > 1
<1>1. ByteBits \in Nat \ {0} /\ MAX_FILE \in Nat /\ MIN_AUTO_EXTRA \in Nat /\ MIN_AUTO_EXTRA > 1
  BY WordsAssumption, DetAssumption, DictionaryAssumption
<1>2. QED
  BY <1>1 DEF Byte

\* What an entry of the queue is.
LEMMA EntryFacts ==
  ASSUME entry \in Entries
  PROVE  /\ entry.data \in Seq(Byte) /\ Len(entry.data) \in 1 .. MAX_FILE
         /\ entry.extras \in Seq(Seq(Byte)) /\ Len(entry.extras) <= MaxExtras
         /\ ByLength(entry.extras)
         /\ entry.trimmed \in 1 .. Len(entry.data) /\ entry.others \subseteq 1 .. MAX_FILE
  BY EntriesAssumption DEF EntryOK

\* A bit of the input is in a byte of the input.
LEMMA ByteOfBit ==
  ASSUME NEW b \in Nat, NEW n \in Nat, NEW m \in Nat \ {0}, b < n * m
  PROVE  b \div m \in Nat /\ b \div m < n
<1>1. b \div m \in Nat /\ b % m \in Nat /\ b = m * (b \div m) + (b % m)
  OBVIOUS
<1> DEFINE q == b \div m
<1>2. q \in Nat /\ m * q <= b
  BY <1>1
<1> HIDE DEF q
<1>3. ASSUME q >= n PROVE FALSE
  <2>1. m * q >= m * n
    BY <1>2, <1>3
  <2>2. QED
    BY <1>2, <2>1
<1>4. QED
  BY <1>1, <1>2, <1>3 DEF q

\* What flip1 passes to maybe_add_auto(), and keeps, is part of the input.
LEMMA FlipKeeps ==
  ASSUME InputInv, LengthInv, stage = "flip1", flip1,
         UNCHANGED <<phase, auto_files, resume_files, loaded, extras>>
  PROVE  a_collect' \in Seq(Byte) /\ DictTypes' /\ TablesInv'
<1>1. /\ i < len * ByteBits /\ len = Len(in_buf) /\ out_buf = in_buf /\ i \in Nat
      /\ in_buf \in Seq(Byte) /\ a_collect \in Seq(Byte) /\ DictTypes /\ TablesInv
      /\ phase = "run"
  <2>1. i < Turns("flip1") /\ Turns("flip1") = len * ByteBits
    BY DEF flip1, turn, Turns
  <2>2. QED
    BY <2>1 DEF InputInv, LengthInv, DetStage
<1> DEFINE byte == out_buf[i \div ByteBits + 1]
<1>2. byte \in Byte
  <2>1. i \div ByteBits \in Nat /\ i \div ByteBits < len
    BY <1>1, Constants, ByteOfBit DEF InputInv
  <2>2. i \div ByteBits + 1 \in 1 .. Len(in_buf)
    BY <1>1, <2>1 DEF InputInv
  <2>3. QED
    BY <1>1, <2>2, ElementOfSeq
<1>3. ASSUME UNCHANGED <<a_extras, auto_changed>> PROVE DictTypes' /\ TablesInv'
  BY <1>1, <1>3 DEF DictTypes, TablesInv, ByLength, ByUseThenLength
<1>4. ASSUME NEW mem \in Seq(Byte), maybe_add_auto(mem) PROVE DictTypes' /\ TablesInv'
  <2>1. /\ a_extras' \in Seq(AutoExtra) /\ auto_changed' \in BOOLEAN
        /\ Len(a_extras') <= MAX_AUTO_EXTRAS /\ ByUseThenLength(a_extras')
    BY <1>1, <1>4, LearnedTokens
  <2>2. DictTypes'
    BY <1>1, <2>1 DEF DictTypes
  <2>3. TablesInv'
    BY <1>1, <2>1 DEF TablesInv, ByLength, ByUseThenLength
  <2>4. QED
    BY <2>2, <2>3
<1>5. CASE i % ByteBits # ByteBits - 1
  BY <1>1, <1>3, <1>5 DEF flip1, flipVars
<1>6. CASE i % ByteBits = ByteBits - 1
  <2>1. PICK cksum \in Cksums : collect_token(cksum)
    BY <1>6 DEF flip1
  <2> DEFINE final == i = Turns("flip1") - 1 /\ cksum = prev_cksum
             changed == cksum # prev_cksum
             grabbed == IF final THEN Append(a_collect, byte) ELSE a_collect
             kept == IF changed THEN <<>> ELSE grabbed
  <2>2. /\ \/ maybe_add_auto(grabbed)
           \/ UNCHANGED <<a_extras, auto_changed>>
        /\ a_collect' = IF cksum # 0 THEN Append(kept, byte) ELSE kept
    BY <2>1 DEF collect_token
  <2>3. grabbed \in Seq(Byte) /\ kept \in Seq(Byte) /\ Append(kept, byte) \in Seq(Byte)
    BY <1>1, <1>2
  <2> HIDE DEF grabbed, kept
  <2>4. QED
    BY <1>3, <1>4, <2>2, <2>3
<1>7. QED
  BY <1>5, <1>6

-----------------------------------------------------------------------------
(* The length of the input and the memory it is in.                        *)

\* What the moves between the deterministic stages do.
LEMMA MoveEffect ==
  ASSUME next_stage
  PROVE  /\ stage \in DetStage /\ stage' = NextStage /\ i' = 0
         /\ stage' \in (DetStage \cup {"det_done"}) \ {"flip1"}
         /\ UNCHANGED <<in_buf, out_buf, len, no_arith, extras, a_extras, auto_changed>>
         /\ a_collect' = <<>>
<1>1. /\ stage \in DetStage /\ stage' = NextStage /\ i' = 0
      /\ UNCHANGED <<in_buf, out_buf, len, no_arith, extras, a_extras, auto_changed>>
      /\ a_collect' = <<>>
  BY DEF next_stage, bufVars, dictTables
<1>2. NextStage \in (DetStage \cup {"det_done"}) \ {"flip1"}
  BY <1>1 DEF NextStage, DetStage, skip_user_extras, skip_interest, skip_arith, skip_bitflip
<1>3. QED
  BY <1>1, <1>2

\* A block is never longer than it may be.
LEMMA BlockLength ==
  ASSUME NEW limit \in Nat \ {0}, NEW n \in choose_block_len(limit)
  PROVE  n \in Nat /\ 1 <= n /\ n <= limit /\ n <= HAVOC_BLK_XL
<1> DEFINE Class(lo, hi) == LET from == IF lo >= limit THEN 1 ELSE lo
                            IN  from .. Lesser(hi, limit)
<1>1. ASSUME NEW lo \in Nat \ {0}, NEW hi \in Nat \ {0}, hi <= HAVOC_BLK_XL, n \in Class(lo, hi)
      PROVE  n \in Nat /\ 1 <= n /\ n <= limit /\ n <= HAVOC_BLK_XL
  BY <1>1, HavocAssumption DEF Lesser
<1>2. \/ n \in Class(1, HAVOC_BLK_SMALL) \/ n \in Class(HAVOC_BLK_SMALL, HAVOC_BLK_MEDIUM)
      \/ n \in Class(HAVOC_BLK_MEDIUM, HAVOC_BLK_LARGE)
      \/ n \in Class(HAVOC_BLK_LARGE, HAVOC_BLK_XL)
  BY DEF choose_block_len
<1> HIDE DEF Class
<1>3. /\ 1 \in Nat \ {0} /\ HAVOC_BLK_SMALL \in Nat \ {0} /\ HAVOC_BLK_MEDIUM \in Nat \ {0}
      /\ HAVOC_BLK_LARGE \in Nat \ {0} /\ HAVOC_BLK_XL \in Nat \ {0}
      /\ HAVOC_BLK_SMALL <= HAVOC_BLK_XL /\ HAVOC_BLK_MEDIUM <= HAVOC_BLK_XL
      /\ HAVOC_BLK_LARGE <= HAVOC_BLK_XL /\ HAVOC_BLK_XL <= HAVOC_BLK_XL
  BY HavocAssumption
<1>4. QED
  BY <1>1, <1>2, <1>3

\* The lengths of the tokens of both dictionaries.
LEMMA TokenLength ==
  ASSUME DictTypes, NEW n \in TokenLengths
  PROVE  n \in Nat
<1>1. ASSUME NEW k \in 1 .. Len(extras) PROVE Len(extras[k]) \in Nat
  BY <1>1, ElementOfSeq, LenProperties DEF DictTypes
<1>2. ASSUME NEW k \in 1 .. Len(a_extras) PROVE Len(a_extras[k].data) \in Nat
  <2>1. a_extras[k] \in AutoExtra
    BY <1>2, ElementOfSeq DEF DictTypes
  <2>2. QED
    BY <2>1, LenProperties DEF AutoExtra
<1>3. QED
  BY <1>1, <1>2 DEF TokenLengths

\* A tweak leaves an input that is neither empty nor too long, in a buffer that is
\* large enough, and touches no byte outside it.
LEMMA TweakInBounds ==
  ASSUME InputInv, LengthInv, Tweak
  PROVE  /\ temp_len' \in 1 .. MAX_FILE /\ capacity' \in Nat /\ temp_len' <= capacity'
         /\ ~out_of_bounds'
<1>1. /\ temp_len \in 1 .. MAX_FILE /\ capacity \in Nat /\ temp_len <= capacity
      /\ ~out_of_bounds /\ MAX_FILE \in Nat /\ DictTypes /\ temp_len \in Nat
      /\ HAVOC_BLK_XL \in Nat \ {0}
  BY TweakEffect, Constants, HavocAssumption DEF InputInv, LengthInv
<1>2. ASSUME NEW n \in Nat, NEW size \in Nat, NEW reach \in Int, NEW limit \in Int,
             n \in 1 .. MAX_FILE, n <= size, reach <= limit, tweak(n, size, reach, limit)
      PROVE  /\ temp_len' \in 1 .. MAX_FILE /\ capacity' \in Nat /\ temp_len' <= capacity'
             /\ ~out_of_bounds'
  <2>1. temp_len' = n /\ capacity' = size /\ out_of_bounds' = (out_of_bounds \/ reach > limit)
    BY <1>2 DEF tweak
  <2>2. ~(reach > limit)
    BY <1>2
  <2>3. ~out_of_bounds'
    BY <1>1, <2>1, <2>2, Zenon
  <2>4. QED
    BY <1>2, <2>1, <2>3
<1>3. CASE change_value
  <2>1. PICK n \in {1, 2, 4} : /\ temp_len >= n
                               /\ \E pos \in Random(temp_len - n + 1) :
                                    tweak(temp_len, capacity, pos + n, temp_len)
    BY <1>3 DEF change_value
  <2>2. PICK pos \in 0 .. temp_len - n : tweak(temp_len, capacity, pos + n, temp_len)
    BY <1>1, <2>1 DEF Random
  <2>3. n \in Nat /\ pos \in Int /\ pos + n \in Int /\ pos + n <= temp_len
    BY <1>1, <2>1, <2>2
  <2>4. QED
    BY <1>1, <1>2, <2>2, <2>3
<1>4. CASE delete_bytes
  <2>1. PICK n \in choose_block_len(temp_len - 1) : \E pos \in Random(temp_len - n + 1) :
          tweak(temp_len - n, capacity, pos + n, temp_len)
    BY <1>4 DEF delete_bytes
  <2>2. PICK pos \in Random(temp_len - n + 1) :
          tweak(temp_len - n, capacity, pos + n, temp_len)
    BY <2>1
  <2>3. temp_len - 1 \in Nat \ {0}
    BY <1>1, <1>4 DEF delete_bytes
  <2>4. n \in Nat /\ 1 <= n /\ n <= temp_len - 1
    BY <2>3, BlockLength
  <2>5. temp_len - n \in Nat /\ pos + n \in Int /\ pos + n <= temp_len
        /\ temp_len - n \in 1 .. MAX_FILE /\ temp_len - n <= capacity
    BY <1>1, <2>4 DEF Random
  <2>6. QED
    BY <1>1, <1>2, <2>2, <2>5
<1>5. CASE clone_bytes
  <2>1. temp_len + HAVOC_BLK_XL < MAX_FILE
    BY <1>5 DEF clone_bytes
  <2>2. CASE \E n \in choose_block_len(temp_len) : \E pos \in Random(temp_len - n + 1) :
               tweak(temp_len + n, temp_len + n, pos + n, temp_len)
    <3>1. PICK n \in choose_block_len(temp_len) : \E pos \in Random(temp_len - n + 1) :
            tweak(temp_len + n, temp_len + n, pos + n, temp_len)
      BY <2>2
    <3>2. PICK pos \in Random(temp_len - n + 1) :
            tweak(temp_len + n, temp_len + n, pos + n, temp_len)
      BY <3>1
    <3>3. n \in Nat /\ 1 <= n /\ n <= temp_len /\ n <= HAVOC_BLK_XL
      BY <1>1, BlockLength
    <3>4. temp_len + n \in Nat /\ pos + n \in Int /\ pos + n <= temp_len
          /\ temp_len + n \in 1 .. MAX_FILE /\ temp_len + n <= temp_len + n
      BY <1>1, <2>1, <3>3 DEF Random
    <3> DEFINE reach == pos + n
               new == temp_len + n
    <3>5. /\ reach \in Int /\ reach <= temp_len /\ temp_len \in Int
          /\ new \in Nat /\ new \in 1 .. MAX_FILE /\ new <= new
      BY <1>1, <3>3, <3>4
    <3>6. tweak(new, new, reach, temp_len)
      BY <3>2
    <3> HIDE DEF reach, new
    <3>7. QED
      BY <1>2, <3>5, <3>6
  <2>3. CASE \E n \in choose_block_len(HAVOC_BLK_XL) : \E pos \in Random(temp_len) :
               tweak(temp_len + n, temp_len + n, pos + n + (temp_len - pos), temp_len + n)
    <3>1. PICK n \in choose_block_len(HAVOC_BLK_XL) : \E pos \in Random(temp_len) :
            tweak(temp_len + n, temp_len + n, pos + n + (temp_len - pos), temp_len + n)
      BY <2>3
    <3>2. PICK pos \in Random(temp_len) :
            tweak(temp_len + n, temp_len + n, pos + n + (temp_len - pos), temp_len + n)
      BY <3>1
    <3>3. n \in Nat /\ 1 <= n /\ n <= HAVOC_BLK_XL
      BY <1>1, BlockLength
    <3>4. /\ temp_len + n \in Nat /\ pos + n + (temp_len - pos) \in Int
          /\ pos + n + (temp_len - pos) <= temp_len + n
          /\ temp_len + n \in 1 .. MAX_FILE /\ temp_len + n <= temp_len + n
      BY <1>1, <2>1, <3>3 DEF Random
    <3> DEFINE reach == pos + n + (temp_len - pos)
    <3>5. reach \in Int /\ reach <= temp_len + n /\ temp_len + n \in Int
      BY <1>1, <3>3, <3>4
    <3>6. tweak(temp_len + n, temp_len + n, reach, temp_len + n)
      BY <3>2
    <3> HIDE DEF reach
    <3>7. QED
      BY <1>1, <1>2, <3>4, <3>5, <3>6
  <2>4. QED
    BY <1>5, <2>2, <2>3 DEF clone_bytes
<1>6. CASE overwrite_bytes
  <2>1. PICK n \in choose_block_len(temp_len - 1) : \E pos \in Random(temp_len - n + 1) :
          tweak(temp_len, capacity, pos + n, temp_len)
    BY <1>6 DEF overwrite_bytes
  <2>2. PICK pos \in Random(temp_len - n + 1) :
          tweak(temp_len, capacity, pos + n, temp_len)
    BY <2>1
  <2>3. temp_len - 1 \in Nat \ {0}
    BY <1>1, <1>6 DEF overwrite_bytes
  <2>4. n \in Nat /\ 1 <= n /\ n <= temp_len - 1
    BY <2>3, BlockLength
  <2>5. pos + n \in Int /\ pos + n <= temp_len
    BY <1>1, <2>4 DEF Random
  <2>6. QED
    BY <1>1, <1>2, <2>2, <2>5
<1>7. CASE overwrite_with_extra
  <2>1. PICK n \in TokenLengths : \E pos \in Random(temp_len - n + 1) :
          n <= temp_len /\ tweak(temp_len, capacity, pos + n, temp_len)
    BY <1>7 DEF overwrite_with_extra
  <2>2. PICK pos \in Random(temp_len - n + 1) :
          n <= temp_len /\ tweak(temp_len, capacity, pos + n, temp_len)
    BY <2>1
  <2>3. n \in Nat
    BY <1>1, TokenLength
  <2>4. pos + n \in Int /\ pos + n <= temp_len
    BY <1>1, <2>2, <2>3 DEF Random
  <2> DEFINE reach == pos + n
  <2>5. reach \in Int /\ reach <= temp_len /\ temp_len \in Int
    BY <1>1, <2>3, <2>4
  <2>6. tweak(temp_len, capacity, reach, temp_len)
    BY <2>2
  <2> HIDE DEF reach
  <2>7. QED
    BY <1>1, <1>2, <2>5, <2>6
<1>8. CASE insert_extra
  <2>1. PICK n \in TokenLengths : \E pos \in Random(temp_len + 1) :
          /\ temp_len + n < MAX_FILE
          /\ tweak(temp_len + n, temp_len + n, pos + n + (temp_len - pos), temp_len + n)
    BY <1>8 DEF insert_extra
  <2>2. PICK pos \in Random(temp_len + 1) :
          /\ temp_len + n < MAX_FILE
          /\ tweak(temp_len + n, temp_len + n, pos + n + (temp_len - pos), temp_len + n)
    BY <2>1
  <2>3. n \in Nat
    BY <1>1, TokenLength
  <2>4. /\ temp_len + n \in Nat /\ pos + n + (temp_len - pos) \in Int
        /\ pos + n + (temp_len - pos) <= temp_len + n
        /\ temp_len + n \in 1 .. MAX_FILE /\ temp_len + n <= temp_len + n
    BY <1>1, <2>2, <2>3 DEF Random
  <2> DEFINE reach == pos + n + (temp_len - pos)
  <2>5. reach \in Int /\ reach <= temp_len + n /\ temp_len + n \in Int
    BY <1>1, <2>3, <2>4
  <2>6. tweak(temp_len + n, temp_len + n, reach, temp_len + n)
    BY <2>2
  <2> HIDE DEF reach
  <2>7. QED
    BY <1>1, <1>2, <2>4, <2>5, <2>6
<1>9. QED
  BY <1>3, <1>4, <1>5, <1>6, <1>7, <1>8 DEF Tweak

\* Before the first step.
LEMMA InitLengths == Init => InputInv /\ LengthInv
<1> SUFFICES ASSUME Init PROVE InputInv /\ LengthInv
  OBVIOUS
<1> USE DEF Init
<1>1. entry \in Entries
  OBVIOUS
<1>2. TablesInv
  BY <1>1, EntryFacts DEF TablesInv, ByLength, ByUseThenLength, Used
<1>3. DictTypes
  <2>1. a_extras \in Seq(AutoExtra) /\ Len(a_extras) = 0
    BY EmptySeq
  <2>2. auto_files \in Seq(Seq(Byte)) /\ resume_files \in Seq(Seq(Byte))
    BY EmptySeq
  <2>3. extras \in Seq(Seq(Byte)) /\ Len(extras) <= MaxExtras
    BY <1>1, EntryFacts
  <2>4. Len(a_extras) <= MAX_AUTO_EXTRAS /\ MAX_AUTO_EXTRAS \in Nat
    BY <2>1, DictionaryAssumption
  <2>5. phase = "run" /\ auto_changed = FALSE /\ loaded \in Nat
    OBVIOUS
  <2>6. QED
    BY <2>1, <2>2, <2>3, <2>4, <2>5 DEF DictTypes
<1>4. InputInv
  BY <1>1, <1>2, <1>3, EntryFacts DEF InputInv, Stages
<1>5. LengthInv
  BY DEF LengthInv, DetStage
<1>6. QED
  BY <1>4, <1>5

\* A turn of flip1 keeps the types; all others change less.
LEMMA TurnKeepsLengths ==
  ASSUME InputInv, LengthInv, det_turn, ~next_stage
  PROVE  InputInv' /\ LengthInv'
<1>1. /\ UNCHANGED <<entry, phase, auto_files, resume_files, loaded, temp_len, capacity,
                     spliced, out_of_bounds>>
      /\ DetTurn
  BY DEF det_turn, dictRest, entryVars, havocVars
<1>2. /\ stage \in DetStage /\ i' = i + 1
      /\ UNCHANGED <<stage, in_buf, len, no_arith, heap, passed_det, extras>>
      /\ stage = "flip1" => flip1
      /\ stage # "flip1" => UNCHANGED <<flipVars, a_extras, auto_changed>>
      /\ stage \notin {"ext_UO", "ext_AO"} => out_buf' = out_buf
  BY <1>1, TurnEffect
<1>3. a_collect' \in Seq(Byte) /\ DictTypes' /\ TablesInv'
  <2>1. CASE stage = "flip1"
    BY <1>1, <1>2, <2>1, FlipKeeps
  <2>2. CASE stage # "flip1"
    BY <1>1, <1>2, <2>2 DEF InputInv, DictTypes, TablesInv, flipVars, ByLength, ByUseThenLength
  <2>3. QED
    BY <2>1, <2>2
<1>4. InputInv'
  BY <1>1, <1>2, <1>3 DEF InputInv
<1>5. LengthInv'
  BY <1>1, <1>2 DEF LengthInv, DetStage
<1>6. QED
  BY <1>4, <1>5

\* A move between the deterministic stages.
LEMMA MoveKeepsLengths ==
  ASSUME InputInv, LengthInv, det_turn, next_stage
  PROVE  InputInv' /\ LengthInv'
<1>1. UNCHANGED <<entry, phase, auto_files, resume_files, loaded, temp_len, capacity,
                  spliced, out_of_bounds>>
  BY DEF det_turn, dictRest, entryVars, havocVars
<1>2. /\ stage \in DetStage /\ i' = 0
      /\ stage' \in (DetStage \cup {"det_done"}) \ {"flip1"}
      /\ UNCHANGED <<in_buf, out_buf, len, no_arith, extras, a_extras, auto_changed>>
      /\ a_collect' = <<>>
  BY MoveEffect
<1>3. DictTypes' /\ TablesInv'
  BY <1>1, <1>2 DEF InputInv, DictTypes, TablesInv, ByLength, ByUseThenLength
<1>4. InputInv'
  <2>1. a_collect' \in Seq(Byte)
    BY <1>2, EmptySeq
  <2>2. stage' \in Stages
    BY <1>2 DEF Stages
  <2>3. QED
    BY <1>1, <1>2, <1>3, <2>1, <2>2 DEF InputInv
<1>5. LengthInv'
  <2>1. /\ len = Len(in_buf) /\ ~spliced /\ len <= capacity /\ ~out_of_bounds
    BY <1>2 DEF LengthInv
  <2>2. stage' \notin {"map", "trim", "havoc_stage", "havoc", "retry_splicing", "flip1"}
    BY <1>2 DEF DetStage
  <2>3. QED
    BY <1>1, <1>2, <2>1, <2>2 DEF LengthInv
<1>6. QED
  BY <1>4, <1>5

\* The other steps.
LEMMA OthersKeepInput ==
  ASSUME InputInv, LengthInv, Next, ~det_turn
  PROVE  InputInv'
<1>1. /\ UNCHANGED <<entry, i, extras, a_extras, auto_changed, phase, auto_files,
                     resume_files, loaded, a_collect>>
      /\ ~trim_and_score => in_buf' = in_buf
      /\ stage' \in Stages
  BY OtherEffect
<1>2. DictTypes' /\ TablesInv'
  BY <1>1 DEF InputInv, DictTypes, TablesInv, ByLength, ByUseThenLength
<1>3. in_buf' \in Seq(Byte) /\ Len(in_buf') \in 1 .. MAX_FILE
  <2>1. CASE trim_and_score
    <3>1. in_buf = entry.data /\ entry \in Entries
      BY <2>1 DEF InputInv, LengthInv, trim_and_score
    <3>2. PICK n \in {Len(in_buf), entry.trimmed} : in_buf' = SubSeq(in_buf, 1, n)
      BY <2>1 DEF trim_and_score
    <3>3. n \in 1 .. Len(in_buf) /\ in_buf \in Seq(Byte) /\ Len(in_buf) \in 1 .. MAX_FILE
      BY <3>1, <3>2, EntryFacts, LenProperties
    <3>4. SubSeq(in_buf, 1, n) \in Seq(Byte) /\ Len(SubSeq(in_buf, 1, n)) = n
      BY <3>3, SubSeqProperties
    <3>5. QED
      BY <3>2, <3>3, <3>4, Constants
  <2>2. CASE ~trim_and_score
    BY <1>1, <2>2 DEF InputInv
  <2>3. QED
    BY <2>1, <2>2
<1>4. len' \in Nat /\ capacity' \in Nat /\ temp_len' \in Nat
  <2>1. /\ MAX_FILE \in Nat /\ len \in Nat /\ capacity \in Nat /\ temp_len \in Nat
        /\ Len(in_buf) \in Nat
        /\ in_buf \in Seq(Byte) /\ entry \in Entries
    BY Constants, LenProperties DEF InputInv
  <2>2. CASE Tweak
    BY <2>1, <2>2, TweakEffect, TweakInBounds
  <2>3. CASE trim_and_score
    <3>1. entry.trimmed \in Nat
      BY <2>1, EntryFacts, LenProperties
    <3>2. QED
      BY <2>1, <2>3, <3>1 DEF trim_and_score
  <2>4. CASE splice_with_target
    <3>1. /\ temp_len' = temp_len
          /\ \E t \in entry.others : len' = t /\ capacity' = t
      BY <2>4 DEF splice_with_target
    <3>2. QED
      BY <2>1, <3>1, EntryFacts
  <2>5. CASE \/ map_input \/ stop_trimming \/ abandon_det \/ mark_as_det_done \/ havoc_stage
             \/ run_havoc \/ abandon_havoc \/ end_havoc \/ splice_fails \/ finish
             \/ abandon_entry
    BY <2>1, <2>5 DEF map_input, stop_trimming, abandon_det, mark_as_det_done, havoc_stage,
       run_havoc, abandon_havoc, end_havoc, splice_fails, finish, abandon_entry,
       bufVars, havocVars, cur_len
  <2>6. QED
    BY <2>2, <2>3, <2>4, <2>5 DEF Next, Tweak
<1>5. QED
  BY <1>1, <1>2, <1>3, <1>4 DEF InputInv

\* The steps outside the deterministic stages.
LEMMA OthersKeepLengths ==
  ASSUME InputInv, LengthInv, Next, ~det_turn
  PROVE  LengthInv'
<1>1. /\ MAX_FILE \in Nat /\ len \in Nat /\ capacity \in Nat /\ temp_len \in Nat
      /\ Len(in_buf) \in 1 .. MAX_FILE /\ in_buf \in Seq(Byte) /\ entry \in Entries
      /\ ~out_of_bounds
  BY Constants, LenProperties DEF InputInv, LengthInv
<1>2. CASE Tweak
  <2>1. /\ stage = "havoc" /\ stage' = "havoc" /\ len' = len
        /\ temp_len' \in 1 .. MAX_FILE /\ temp_len' <= capacity' /\ ~out_of_bounds'
    BY <1>2, TweakEffect, TweakInBounds
  <2>2. QED
    BY <2>1 DEF LengthInv, DetStage
<1>3. CASE map_input
  BY <1>1, <1>3 DEF map_input, LengthInv, DetStage, entryVars
<1>4. CASE trim_and_score
  <2>1. /\ in_buf = entry.data /\ ~spliced /\ capacity = Len(in_buf)
        /\ UNCHANGED <<entry, spliced, capacity>>
        /\ stage' \in {"havoc_stage", "flip1"}
    BY <1>4 DEF trim_and_score, LengthInv
  <2>2. PICK n \in {Len(in_buf), entry.trimmed} :
          /\ in_buf' = SubSeq(in_buf, 1, n) /\ len' = n /\ out_buf' = SubSeq(in_buf, 1, n)
          /\ out_of_bounds' = (n > capacity)
    BY <1>4 DEF trim_and_score
  <2>3. n \in 1 .. Len(in_buf) /\ n \in Nat
    BY <1>1, <2>1, <2>2, EntryFacts, LenProperties
  <2>4. Len(in_buf') = n
    BY <1>1, <2>2, <2>3, SubSeqProperties
  <2>5. ~(n > capacity) /\ n <= capacity /\ n \in 1 .. MAX_FILE
    BY <1>1, <2>1, <2>3
  <2>6. ~out_of_bounds'
    BY <2>2, <2>5, Zenon
  <2>7. QED
    BY <2>1, <2>2, <2>4, <2>5, <2>6 DEF LengthInv, DetStage
<1>5. CASE mark_as_det_done
  <2>1. /\ len = Len(in_buf) /\ len <= capacity /\ stage' = "havoc_stage"
        /\ UNCHANGED <<len, capacity, out_of_bounds>>
    BY <1>5 DEF mark_as_det_done, LengthInv, bufVars, havocVars
  <2>2. QED
    BY <1>1, <2>1 DEF LengthInv, DetStage
<1>6. CASE havoc_stage
  <2>1. /\ len \in 1 .. MAX_FILE /\ len <= capacity /\ stage' = "havoc" /\ temp_len' = len
        /\ UNCHANGED <<len, capacity, out_of_bounds>>
    BY <1>6 DEF havoc_stage, LengthInv
  <2>2. QED
    BY <1>1, <2>1 DEF LengthInv, DetStage
<1>7. CASE run_havoc
  <2>1. /\ len \in 1 .. MAX_FILE /\ temp_len <= capacity /\ stage' = "havoc" /\ temp_len' = len
        /\ len' = len /\ capacity' = (IF temp_len < len THEN len ELSE capacity)
        /\ out_of_bounds' = (out_of_bounds \/ len > capacity')
    BY <1>7 DEF run_havoc, LengthInv
  <2>2. len <= capacity' /\ ~(len > capacity')
    BY <1>1, <2>1
  <2>3. ~out_of_bounds'
    BY <1>1, <2>1, <2>2, Zenon
  <2>4. QED
    BY <1>1, <2>1, <2>2, <2>3 DEF LengthInv, DetStage
<1>8. CASE end_havoc
  <2>1. /\ len \in 1 .. MAX_FILE /\ stage' = "retry_splicing"
        /\ UNCHANGED <<len, out_of_bounds>>
    BY <1>8 DEF end_havoc, LengthInv, havocVars
  <2>2. QED
    BY <1>1, <2>1 DEF LengthInv, DetStage
<1>9. CASE splice_fails
  <2>1. /\ len \in 1 .. MAX_FILE /\ stage' = "retry_splicing" /\ len' \in {len, Len(in_buf)}
        /\ out_of_bounds' = out_of_bounds
    BY <1>9 DEF splice_fails, LengthInv, cur_len
  <2>2. QED
    BY <1>1, <2>1 DEF LengthInv, DetStage
<1>10. CASE splice_with_target
  <2>1. PICK t \in entry.others : \E l_diff \in 2 .. Lesser(cur_len, t) - 1 :
          \E f_diff \in 0 .. l_diff - 1 : \E split_at \in f_diff .. l_diff - 1 :
            /\ len' = t /\ capacity' = t
            /\ out_of_bounds' = (out_of_bounds \/ split_at > Lesser(cur_len, t))
    BY <1>10 DEF splice_with_target
  <2> DEFINE room == Lesser(cur_len, t)
  <2>2. t \in 1 .. MAX_FILE /\ t \in Nat /\ room \in Nat
    BY <1>1, EntryFacts, LenProperties DEF Lesser, cur_len
  <2>3. PICK l_diff \in 2 .. room - 1 :
          \E f_diff \in 0 .. l_diff - 1 : \E split_at \in f_diff .. l_diff - 1 :
            /\ len' = t /\ capacity' = t /\ out_of_bounds' = (out_of_bounds \/ split_at > room)
    BY <2>1
  <2> HIDE DEF room
  <2>4. PICK f_diff \in 0 .. l_diff - 1 : \E split_at \in f_diff .. l_diff - 1 :
            /\ len' = t /\ capacity' = t /\ out_of_bounds' = (out_of_bounds \/ split_at > room)
    BY <2>3
  <2>5. PICK split_at \in f_diff .. l_diff - 1 :
            /\ len' = t /\ capacity' = t /\ out_of_bounds' = (out_of_bounds \/ split_at > room)
    BY <2>4
  <2>6. ~(split_at > room)
    BY <2>2, <2>3, <2>4, <2>5
  <2>7. ~out_of_bounds'
    BY <1>1, <2>5, <2>6, Zenon
  <2>8. stage' = "havoc_stage"
    BY <1>10 DEF splice_with_target
  <2>9. QED
    BY <2>2, <2>5, <2>7, <2>8 DEF LengthInv, DetStage
<1>11. CASE stop_trimming \/ abandon_det \/ abandon_havoc \/ finish \/ abandon_entry
  <2>1. stage' \in {"abandon", "returned"} /\ out_of_bounds' = out_of_bounds
    BY <1>11 DEF stop_trimming, abandon_det, abandon_havoc, finish, abandon_entry, havocVars
  <2>2. QED
    BY <1>1, <2>1 DEF LengthInv, DetStage
<1>12. QED
  BY <1>2, <1>3, <1>4, <1>5, <1>6, <1>7, <1>8, <1>9, <1>10, <1>11 DEF Next, Tweak

LEMMA NextLengths == InputInv /\ LengthInv /\ [Next]_vars => InputInv' /\ LengthInv'
<1> SUFFICES ASSUME InputInv, LengthInv, [Next]_vars PROVE InputInv' /\ LengthInv'
  OBVIOUS
<1>1. CASE Next
  BY <1>1, TurnKeepsLengths, MoveKeepsLengths, OthersKeepInput, OthersKeepLengths
<1>2. CASE UNCHANGED vars
  BY <1>2 DEF vars, detVars, bufVars, flipVars, dictTables, dictRest, entryVars, havocVars,
     InputInv, LengthInv, DictTypes, TablesInv, ByLength, ByUseThenLength
<1>3. QED
  BY <1>1, <1>2

\* The lengths of the input and of its buffer.
LEMMA AlwaysLengths == Spec => [](InputInv /\ LengthInv)
BY InitLengths, NextLengths, PTL DEF Spec

-----------------------------------------------------------------------------
(* The buffers.                                                            *)

\* What a block of the effector map is.
LEMMA BlockSize == 2 ^ EFF_MAP_SCALE2 \in Nat \ {0}
<1> DEFINE n == EFF_MAP_SCALE2
           S == SUBSET (1 .. n)
<1>1. n \in Nat
  BY DetAssumption
<1>2. IsFiniteSet(1 .. n) /\ Cardinality(1 .. n) = n
  BY <1>1, FS_Interval
<1>3. IsFiniteSet(S) /\ Cardinality(S) = 2 ^ n
  BY <1>2, FS_SUBSET
<1>4. S # {} /\ Cardinality(S) \in Nat
  BY <1>3, FS_CardinalityType
<1>5. Cardinality(S) # 0
  BY <1>3, <1>4, FS_EmptySet
<1>6. QED
  BY <1>3, <1>4, <1>5

\* An input has a block.
LEMMA SomeBlock ==
  ASSUME len \in Nat \ {0}
  PROVE  EffBlocks \in Nat /\ EffBlocks >= 1
<1> DEFINE m == 2 ^ EFF_MAP_SCALE2
<1>1. m \in Nat \ {0}
  BY BlockSize
<1> HIDE DEF m
<1>2. /\ len \div m \in Nat /\ len % m \in Nat /\ len = m * (len \div m) + (len % m)
  BY <1>1
<1>3. EffBlocks = (len \div m) + (IF len % m # 0 THEN 1 ELSE 0)
  BY DEF EffBlocks, EffBlock, m
<1>4. len \div m = 0 => len % m # 0
  BY <1>1, <1>2
<1>5. QED
  BY <1>2, <1>3, <1>4

\* The effector map always flags something once it is set up.
LEMMA EffKept ==
  ASSUME InputInv, LengthInv, HeapInv, det_turn
  PROVE  /\ eff_map # {} => eff_map' # {}
         /\ stage' \in (DetStage \ EffUnset) \cup {"det_done"} => eff_map' # {}
         /\ stage' \in EffUnset => eff_map' = {}
         /\ eff_map = {} /\ eff_map' # {} => next_stage /\ stage = "flip4"
<1>1. CASE ~next_stage
  <2>1. /\ stage \in DetStage /\ stage' = stage
        /\ eff_map' = eff_map \/ (stage = "flip8" /\ eff_map' = eff_map \cup {EffBlock(i)})
    BY <1>1, TurnEffect DEF det_turn
  <2>2. stage = "flip8" => eff_map # {}
    BY DEF HeapInv, DetStage, EffUnset
  <2>3. QED
    BY <2>1, <2>2 DEF HeapInv, EffUnset
<1>2. CASE next_stage
  <2>1. /\ stage \in DetStage /\ stage' = NextStage
        /\ eff_map' = IF stage = "flip4" THEN EffInit
                      ELSE IF stage = "flip8" THEN EffFinal ELSE eff_map
    BY <1>2 DEF next_stage
  <2>2. EffInit # {}
    BY DEF EffInit
  <2>3. eff_map # {} => EffFinal # {}
    <3>1. len \in Nat \ {0}
      BY <2>1, Constants DEF InputInv, LengthInv
    <3>2. 0 \in 0 .. EffBlocks - 1
      BY <3>1, SomeBlock
    <3>3. QED
      BY <3>2 DEF EffFinal
  <2>4. CASE stage \in {"flip1", "flip2"}
    BY <2>1, <2>4 DEF NextStage, HeapInv, EffUnset, DetStage
  <2>5. CASE stage = "flip4"
    BY <2>1, <2>2, <2>5, <1>2 DEF NextStage, HeapInv, EffUnset, DetStage
  <2>6. CASE stage \in DetStage \ EffUnset
    <3>1. eff_map # {}
      BY <2>6 DEF HeapInv
    <3>2. stage' \notin EffUnset
      BY <2>1, <2>6 DEF NextStage, EffUnset, DetStage, skip_user_extras, skip_interest,
         skip_arith, skip_bitflip
    <3>3. QED
      BY <2>1, <2>3, <2>6, <3>1, <3>2 DEF EffUnset
  <2>7. QED
    BY <2>1, <2>4, <2>5, <2>6 DEF DetStage, EffUnset
<1>3. QED
  BY <1>1, <1>2

\* Allocating and freeing, for one buffer at a time.
LEMMA HeapOps ==
  ASSUME NEW h, DOMAIN h = Buffers, NEW b \in Buffers
  PROVE  /\ DOMAIN Alloc(h, b) = Buffers /\ DOMAIN Free(h, b) = Buffers
         /\ \A c \in Buffers : Alloc(h, b)[c] = IF c = b THEN h[c] + 1 ELSE h[c]
         /\ \A c \in Buffers : Free(h, b)[c] = IF c = b THEN h[c] - 1 ELSE h[c]
  BY DEF Alloc, Free

\* HeapInv for one buffer.
Holds(b) == heap[b] = IF stage \notin {"map", "returned"} /\ b \in Allocated THEN 1 ELSE 0

\* HeapInv, one buffer at a time.
LEMMA HeapByBuffer ==
  ASSUME HeapInv
  PROVE  DOMAIN heap = Buffers /\ \A b \in Buffers : Holds(b)
  BY DEF HeapInv, Holds

\* And back.
LEMMA HeapFromBuffers ==
  ASSUME heap' \in [Buffers -> Int], \A b \in Buffers : Holds(b)',
         stage' \in EffUnset => eff_map' = {},
         stage' \in (DetStage \ EffUnset) \cup {"det_done"} => eff_map' # {}
  PROVE  HeapInv'
<1>1. heap' = [b \in Buffers |-> IF stage' \notin {"map", "returned"} /\ b \in Allocated'
                                 THEN 1 ELSE 0]
  BY DEF Holds
<1>2. QED
  BY <1>1 DEF HeapInv

\* The steps of the deterministic stages.
LEMMA TurnKeepsHeap ==
  ASSUME InputInv, LengthInv, HeapInv, det_turn
  PROVE  HeapInv'
<1>1. /\ DOMAIN heap = Buffers /\ \A b \in Buffers : Holds(b)
      /\ heap \in [Buffers -> Int]
  BY HeapByBuffer DEF HeapInv
<1>2. /\ eff_map # {} => eff_map' # {}
      /\ stage' \in (DetStage \ EffUnset) \cup {"det_done"} => eff_map' # {}
      /\ stage' \in EffUnset => eff_map' = {}
      /\ eff_map = {} /\ eff_map' # {} => next_stage /\ stage = "flip4"
  BY EffKept
<1>3. spliced' = spliced /\ DetTurn
  BY DEF det_turn, havocVars
<1>4. CASE ~next_stage
  <2>1. stage \in DetStage /\ UNCHANGED <<stage, heap>>
    BY <1>3, <1>4, TurnEffect
  <2>2. Allocated' = Allocated
    BY <1>2, <1>3, <1>4, <2>1 DEF Allocated
  <2>3. \A b \in Buffers : Holds(b)'
    BY <1>1, <2>1, <2>2 DEF Holds
  <2>4. QED
    BY <1>1, <1>2, <2>1, <2>3, HeapFromBuffers
<1>5. CASE next_stage
  <2>1. /\ stage \in DetStage /\ stage' = NextStage
        /\ heap' = IF stage = "flip4" THEN Alloc(heap, "eff_map")
                   ELSE IF stage = "ext_UO" THEN Alloc(heap, "ex_tmp")
                   ELSE IF stage = "ext_UI" THEN Free(heap, "ex_tmp") ELSE heap
    BY <1>5 DEF next_stage
  <2>2. /\ stage' \in DetStage \cup {"det_done"}
        /\ stage' = "ext_UI" <=> stage = "ext_UO"
    BY <2>1 DEF NextStage, DetStage, skip_user_extras, skip_interest, skip_arith, skip_bitflip
  <2>3. stage \notin {"map", "returned"} /\ stage' \notin {"map", "returned"}
    BY <2>1, <2>2 DEF DetStage
  <2>4. /\ heap' \in [Buffers -> Int]
        /\ \A b \in Buffers :
             heap'[b] = IF b = "eff_map" /\ stage = "flip4" THEN heap[b] + 1
                        ELSE IF b = "ex_tmp" /\ stage = "ext_UO" THEN heap[b] + 1
                        ELSE IF b = "ex_tmp" /\ stage = "ext_UI" THEN heap[b] - 1 ELSE heap[b]
    BY <1>1, <2>1 DEF Alloc, Free, Buffers
  <2>5. stage = "flip4" => eff_map = {} /\ eff_map' # {}
    <3>1. stage = "flip4" => stage' = "flip8"
      BY <2>1 DEF NextStage
    <3>2. QED
      BY <1>2, <3>1 DEF HeapInv, EffUnset, DetStage
  <2>6. stage # "flip4" => (eff_map' # {} <=> eff_map # {})
    BY <1>2
  <2>7. ASSUME NEW b \in Buffers PROVE Holds(b)'
    <3>1. Holds(b) /\ b \in {"orig_in", "in_buf", "out_buf", "eff_map", "ex_tmp"}
      BY <1>1 DEF Buffers
    <3>2. CASE b \in {"orig_in", "out_buf", "in_buf"}
      BY <1>3, <2>3, <2>4, <3>1, <3>2 DEF Holds, Allocated
    <3>3. CASE b = "eff_map"
      BY <2>3, <2>4, <2>5, <2>6, <3>1, <3>3 DEF Holds, Allocated
    <3>4. CASE b = "ex_tmp"
      BY <2>2, <2>3, <2>4, <3>1, <3>4 DEF Holds, Allocated
    <3>5. QED
      BY <3>1, <3>2, <3>3, <3>4
  <2>8. QED
    BY <1>2, <2>4, <2>7, HeapFromBuffers
<1>6. QED
  BY <1>4, <1>5

\* The steps outside the deterministic stages.
LEMMA OthersKeepHeap ==
  ASSUME InputInv, LengthInv, HeapInv, Next, ~det_turn
  PROVE  HeapInv'
<1>1. /\ DOMAIN heap = Buffers /\ \A b \in Buffers : Holds(b)
      /\ heap \in [Buffers -> Int]
  BY HeapByBuffer DEF HeapInv
<1>2. eff_map' = eff_map
  BY DEF Next, map_input, trim_and_score, stop_trimming, abandon_det, mark_as_det_done,
     havoc_stage, change_value, delete_bytes, clone_bytes, overwrite_bytes,
     overwrite_with_extra, insert_extra, tweak, InStack, run_havoc, abandon_havoc, end_havoc,
     splice_fails, splice_with_target, finish, abandon_entry, detRest
<1>3. /\ stage' \in EffUnset => eff_map' = {}
      /\ stage' \in (DetStage \ EffUnset) \cup {"det_done"} => eff_map' # {}
  <2>1. stage' \in EffUnset \cup DetStage \cup {"det_done"} => stage \in {"map", "trim"}
    BY DEF Next, map_input, trim_and_score, stop_trimming, abandon_det, mark_as_det_done,
       havoc_stage, change_value, delete_bytes, clone_bytes, overwrite_bytes,
       overwrite_with_extra, insert_extra, tweak, InStack, run_havoc, abandon_havoc, end_havoc,
       splice_fails, splice_with_target, finish, abandon_entry, EffUnset, DetStage
  <2>2. stage \in {"map", "trim"} => stage' \notin (DetStage \ EffUnset) \cup {"det_done"}
    BY DEF Next, map_input, trim_and_score, stop_trimming, abandon_det, mark_as_det_done,
       havoc_stage, change_value, delete_bytes, clone_bytes, overwrite_bytes,
       overwrite_with_extra, insert_extra, tweak, InStack, run_havoc, abandon_havoc, end_havoc,
       splice_fails, splice_with_target, finish, abandon_entry, EffUnset, DetStage
  <2>3. QED
    BY <1>2, <2>1, <2>2 DEF HeapInv, EffUnset
<1>4. CASE map_input
  <2>1. /\ stage = "map" /\ stage' \in {"trim", "abandon"} /\ spliced' = spliced
        /\ heap' = Alloc(Alloc(heap, "orig_in"), "out_buf") /\ ~spliced /\ eff_map = {}
    BY <1>4 DEF map_input, LengthInv, HeapInv, EffUnset
  <2>2. /\ heap' \in [Buffers -> Int]
        /\ \A b \in Buffers : heap'[b] = IF b \in {"orig_in", "out_buf"} THEN heap[b] + 1
                                         ELSE heap[b]
    BY <1>1, <2>1 DEF Alloc, Buffers
  <2>3. \A b \in Buffers : Holds(b)'
    BY <1>1, <1>2, <2>1, <2>2 DEF Holds, Allocated, Buffers
  <2>4. QED
    BY <1>3, <2>2, <2>3, HeapFromBuffers
<1>5. CASE abandon_det
  <2>1. /\ stage \in DetStage /\ stage' = "abandon" /\ spliced' = spliced
        /\ heap' = IF stage = "ext_UI" THEN Free(heap, "ex_tmp") ELSE heap
    BY <1>5 DEF abandon_det, havocVars
  <2>2. /\ heap' \in [Buffers -> Int]
        /\ \A b \in Buffers : heap'[b] = IF b = "ex_tmp" /\ stage = "ext_UI" THEN heap[b] - 1
                                         ELSE heap[b]
    BY <1>1, <2>1 DEF Free, Buffers
  <2>3. ASSUME NEW b \in Buffers PROVE Holds(b)'
    <3>1. Holds(b) /\ stage \notin {"map", "returned"}
      BY <1>1, <2>1 DEF DetStage
    <3>2. QED
      BY <1>2, <2>1, <2>2, <3>1 DEF Holds, Allocated, Buffers
  <2>4. QED
    BY <1>3, <2>2, <2>3, HeapFromBuffers
<1>6. CASE splice_fails \/ splice_with_target
  <2>1. /\ stage = "retry_splicing" /\ stage' \in {"retry_splicing", "havoc_stage"}
        /\ spliced' \in BOOLEAN
        /\ heap' = IF spliced' THEN Alloc(Unspliced, "in_buf") ELSE Unspliced
    BY <1>6 DEF splice_fails, splice_with_target
  <2>2. /\ Unspliced \in [Buffers -> Int]
        /\ \A b \in Buffers : Unspliced[b] = IF b = "in_buf" /\ spliced THEN heap[b] - 1
                                             ELSE heap[b]
    BY <1>1 DEF Unspliced, Free, Buffers
  <2>3. /\ heap' \in [Buffers -> Int]
        /\ \A b \in Buffers : heap'[b] = IF b = "in_buf" /\ spliced' THEN Unspliced[b] + 1
                                         ELSE Unspliced[b]
    BY <2>1, <2>2 DEF Alloc, Buffers
  <2>4. ASSUME NEW b \in Buffers PROVE Holds(b)'
    <3>1. Holds(b)
      BY <1>1
    <3>2. QED
      BY <1>2, <2>1, <2>2, <2>3, <3>1 DEF Holds, Allocated, Buffers
  <2>5. QED
    BY <1>3, <2>3, <2>4, HeapFromBuffers
<1>7. CASE abandon_entry
  <2> DEFINE h == Free(Free(heap, "orig_in"), "out_buf")
             g == IF spliced THEN Free(h, "in_buf") ELSE h
  <2>1. /\ stage = "abandon" /\ stage' = "returned"
        /\ heap' = IF eff_map # {} THEN Free(g, "eff_map") ELSE g
    BY <1>7 DEF abandon_entry
  <2>2. /\ h \in [Buffers -> Int]
        /\ \A b \in Buffers : h[b] = IF b \in {"orig_in", "out_buf"} THEN heap[b] - 1 ELSE heap[b]
    BY <1>1 DEF Free, Buffers
  <2> HIDE DEF h
  <2>3. /\ g \in [Buffers -> Int]
        /\ \A b \in Buffers : g[b] = IF b = "in_buf" /\ spliced THEN h[b] - 1 ELSE h[b]
    BY <2>2 DEF Free, Buffers
  <2> HIDE DEF g
  <2>4. /\ heap' \in [Buffers -> Int]
        /\ \A b \in Buffers : heap'[b] = IF b = "eff_map" /\ eff_map # {} THEN g[b] - 1 ELSE g[b]
    BY <2>1, <2>3 DEF Free, Buffers
  <2>5. ASSUME NEW b \in Buffers PROVE Holds(b)'
    <3>1. Holds(b)
      BY <1>1
    <3>2. QED
      BY <1>2, <2>1, <2>2, <2>3, <2>4, <3>1 DEF Holds, Allocated, Buffers
  <2>6. QED
    BY <1>3, <2>4, <2>5, HeapFromBuffers
<1>8. CASE \/ trim_and_score \/ stop_trimming \/ mark_as_det_done \/ havoc_stage \/ Tweak
           \/ run_havoc \/ abandon_havoc \/ end_havoc \/ finish
  <2>1. /\ UNCHANGED <<heap, spliced>>
        /\ stage \notin {"map", "returned", "ext_UI"}
        /\ stage' \notin {"map", "returned", "ext_UI"}
    BY <1>8, TweakEffect DEF trim_and_score, stop_trimming, mark_as_det_done, havoc_stage,
       run_havoc, abandon_havoc, end_havoc, finish, havocVars
  <2>2. \A b \in Buffers : Holds(b)'
    BY <1>1, <1>2, <2>1 DEF Holds, Allocated
  <2>3. QED
    BY <1>1, <1>3, <2>1, <2>2, HeapFromBuffers
<1>9. QED
  BY <1>4, <1>5, <1>6, <1>7, <1>8 DEF Next, Tweak

\* The buffers there are.
LEMMA AlwaysHeap == Spec => []HeapInv
<1>1. Init => HeapInv
  BY DEF Init, HeapInv, EffUnset, DetStage
<1>2. InputInv /\ LengthInv /\ HeapInv /\ [Next]_vars => HeapInv'
  <2>1. ASSUME InputInv, LengthInv, HeapInv, Next PROVE HeapInv'
    BY <2>1, TurnKeepsHeap, OthersKeepHeap
  <2>2. ASSUME HeapInv, UNCHANGED vars PROVE HeapInv'
    BY <2>2 DEF vars, detVars, havocVars, HeapInv, Allocated
  <2>3. QED
    BY <2>1, <2>2
<1>3. QED
  BY <1>1, <1>2, AlwaysLengths, PTL DEF Spec

\* For entries of any length and every configuration: each buffer of fuzz_one() is
\* allocated and freed in turn and all are free when it returns, no operation touches
\* a byte outside its buffer, and the input that is run has between 1 and MAX_FILE
\* bytes, within its buffer.
THEOREM BuffersCorrect == Spec => []BuffersSound
<1>1. InputInv /\ LengthInv /\ HeapInv => BuffersSound
  <2> SUFFICES ASSUME InputInv, LengthInv, HeapInv PROVE BuffersSound
    OBVIOUS
  <2>1. \A b \in Buffers : heap[b] \in {0, 1} /\ (stage = "returned" => heap[b] = 0)
    BY DEF HeapInv
  <2>2. ~out_of_bounds /\ (stage = "havoc" => temp_len \in 1 .. MAX_FILE /\ temp_len <= capacity)
    BY DEF LengthInv
  <2>3. QED
    BY <2>1, <2>2 DEF BuffersSound
<1>2. QED
  BY <1>1, AlwaysLengths, AlwaysHeap, PTL

-----------------------------------------------------------------------------
(* Recursive functions.                                                    *)

\* Induction, over a set.
LEMMA NatSet ==
  ASSUME NEW S, 0 \in S, \A n \in Nat : n \in S => n + 1 \in S
  PROVE  Nat \subseteq S
<1> SUFFICES ASSUME Nat \ S # {} PROVE FALSE
  OBVIOUS
<1>1. PICK x \in Nat \ S : \A y \in Nat \ S : x <= y
  <2>1. Nat \ S \subseteq Nat
    OBVIOUS
  <2>2. QED
    BY <2>1, MinIsLeast
<1>2. x - 1 \in Nat /\ x - 1 < x
  OBVIOUS
<1>3. QED
  BY <1>1, <1>2

\* A recursion over 0 .. N: it starts with base, and F makes a value of X from the one
\* before and the number of the step.
StepFcn(X, N) == [X \X (1 .. N) -> X]
Recursion(f, X, N, base, F) ==
  /\ f \in [0 .. N -> X]
  /\ f[0] = base
  /\ \A k \in 1 .. N : f[k] = F[<<f[k - 1], k>>]

\* It defines a function into X.
LEMMA Iteration ==
  ASSUME NEW N \in Nat, NEW X, NEW base \in X, NEW F \in StepFcn(X, N)
  PROVE  \E f : Recursion(f, X, N, base, F)
<1>1. F \in [X \X (1 .. N) -> X]
  BY DEF StepFcn
<1> DEFINE P(f, n) == /\ f \in [0 .. n -> X]
                      /\ f[0] = base
                      /\ \A k \in 1 .. n : f[k] = F[<<f[k - 1], k>>]
           S == {n \in Nat : n <= N => \E f : P(f, n)}
<1>2. 0 \in S
  <2>1. P([k \in 0 .. 0 |-> base], 0)
    OBVIOUS
  <2>2. QED
    BY <2>1
<1>3. ASSUME NEW n \in Nat, n \in S PROVE n + 1 \in S
  <2> SUFFICES ASSUME n + 1 <= N PROVE \E f : P(f, n + 1)
    OBVIOUS
  <2>1. PICK f : P(f, n)
    BY <1>3
  <2> DEFINE g == [k \in 0 .. n + 1 |-> IF k <= n THEN f[k] ELSE F[<<f[n], n + 1>>]]
  <2>2. f[n] \in X /\ <<f[n], n + 1>> \in X \X (1 .. N)
    BY <2>1
  <2>3. F[<<f[n], n + 1>>] \in X
    BY <1>1, <2>2
  <2>4. g \in [0 .. n + 1 -> X] /\ g[0] = base
    BY <2>1, <2>3
  <2>5. ASSUME NEW k \in 1 .. n + 1 PROVE g[k] = F[<<g[k - 1], k>>]
    <3>1. g[k - 1] = f[k - 1]
      OBVIOUS
    <3>2. CASE k <= n
      BY <2>1, <3>1, <3>2
    <3>3. CASE k = n + 1
      BY <3>1, <3>3
    <3>4. QED
      BY <3>2, <3>3
  <2>6. QED
    BY <2>4, <2>5
<1> HIDE DEF S
<1>4. N \in S
  BY <1>2, <1>3, NatSet
<1>5. QED
  BY <1>4 DEF S, Recursion

-----------------------------------------------------------------------------
(* Writing tokens over the buffer.                                         *)

\* What Put() writes.
LEMMA PutBytes ==
  ASSUME NEW buf \in Seq(Byte), NEW p \in Nat, NEW t \in Seq(Byte), p + Len(t) <= Len(buf)
  PROVE  /\ Put(buf, p, t) \in Seq(Byte) /\ Len(Put(buf, p, t)) = Len(buf)
         /\ \A k \in 1 .. Len(buf) :
              Put(buf, p, t)[k] = IF k > p /\ k <= p + Len(t) THEN t[k - p] ELSE buf[k]
<1> DEFINE n == Len(buf)
           m == Len(t)
           a == SubSeq(buf, 1, p)
           b == SubSeq(buf, p + m + 1, n)
<1>1. n \in Nat /\ m \in Nat /\ p + m <= n
  BY LenProperties
<1>2. a \in Seq(Byte) /\ Len(a) = p /\ \A k \in 1 .. p : a[k] = buf[k]
  <2>1. \A k \in 1 .. p : k \in 1 .. n
    BY <1>1
  <2>2. a \in Seq(Byte) /\ Len(a) = p /\ \A k \in 1 .. p : a[k] = buf[1 + k - 1]
    BY <1>1, <2>1, SubSeqProperties
  <2>3. QED
    BY <2>2
<1>3. b \in Seq(Byte) /\ Len(b) = n - (p + m) /\ \A k \in 1 .. Len(b) : b[k] = buf[p + m + k]
  <2>1. \A k \in p + m + 1 .. n : k \in 1 .. n
    BY <1>1
  <2>2. /\ b \in Seq(Byte) /\ Len(b) = (IF p + m + 1 <= n THEN n - (p + m + 1) + 1 ELSE 0)
        /\ \A k \in 1 .. n - (p + m + 1) + 1 : b[k] = buf[p + m + 1 + k - 1]
    BY <1>1, <2>1, SubSeqProperties
  <2>3. Len(b) = n - (p + m)
    BY <1>1, <2>2
  <2>4. ASSUME NEW k \in 1 .. Len(b) PROVE b[k] = buf[p + m + k]
    <3>1. k \in 1 .. n - (p + m + 1) + 1 /\ p + m + 1 + k - 1 = p + m + k
      BY <1>1, <2>3
    <3>2. QED
      BY <2>2, <3>1
  <2>5. QED
    BY <2>2, <2>3, <2>4
<1> HIDE DEF a, b
<1> DEFINE at == a \o t
<1>4. at \in Seq(Byte) /\ Len(at) = p + m
      /\ \A k \in 1 .. p + m : at[k] = IF k <= p THEN a[k] ELSE t[k - p]
  BY <1>1, <1>2, ConcatProperties
<1> HIDE DEF at
<1> DEFINE r == at \o b
<1>5. r \in Seq(Byte) /\ Len(r) = n
      /\ \A k \in 1 .. n : r[k] = IF k <= p + m THEN at[k] ELSE b[k - (p + m)]
  BY <1>1, <1>3, <1>4, ConcatProperties
<1> HIDE DEF r
<1>6. Put(buf, p, t) = r
  BY DEF Put, r, at, a, b
<1>7. ASSUME NEW k \in 1 .. n
      PROVE  r[k] = IF k > p /\ k <= p + m THEN t[k - p] ELSE buf[k]
  <2>1. CASE k <= p
    BY <1>1, <1>2, <1>4, <1>5, <2>1
  <2>2. CASE k > p /\ k <= p + m
    BY <1>1, <1>4, <1>5, <2>2
  <2>3. CASE k > p + m
    <3>1. k - (p + m) \in 1 .. Len(b) /\ p + m + (k - (p + m)) = k
      BY <1>1, <1>3, <2>3
    <3>2. b[k - (p + m)] = buf[k]
      BY <1>3, <3>1
    <3>3. QED
      BY <1>1, <1>5, <2>3, <3>2
  <2>4. QED
    BY <1>1, <2>1, <2>2, <2>3
<1>8. QED
  BY <1>5, <1>6, <1>7

\* What SubSeq() reads.
LEMMA ReadBytes ==
  ASSUME NEW buf \in Seq(Byte), NEW p \in Nat, NEW n \in Nat, p + n <= Len(buf)
  PROVE  /\ SubSeq(buf, p + 1, p + n) \in Seq(Byte) /\ Len(SubSeq(buf, p + 1, p + n)) = n
         /\ \A k \in 1 .. n : SubSeq(buf, p + 1, p + n)[k] = buf[p + k]
<1> DEFINE s == SubSeq(buf, p + 1, p + n)
<1>1. \A k \in p + 1 .. p + n : k \in 1 .. Len(buf)
  BY LenProperties
<1>2. /\ s \in Seq(Byte) /\ Len(s) = (IF p + 1 <= p + n THEN p + n - (p + 1) + 1 ELSE 0)
      /\ \A k \in 1 .. p + n - (p + 1) + 1 : s[k] = buf[p + 1 + k - 1]
  BY <1>1, SubSeqProperties
<1> HIDE DEF s
<1>3. Len(s) = n
  BY <1>2
<1>4. ASSUME NEW k \in 1 .. n PROVE s[k] = buf[p + k]
  <2>1. k \in 1 .. p + n - (p + 1) + 1 /\ p + 1 + k - 1 = p + k
    OBVIOUS
  <2>2. QED
    BY <1>2, <2>1
<1>5. QED
  BY <1>2, <1>3, <1>4 DEF s

\* What the inner loop has at hand: the buffer differs from the input in the bytes of
\* the last token at most.
AccType ==
  {r \in [buf : Seq(Byte), last_len : Nat, runs : Seq(Seq(Byte))] :
     /\ Len(r.buf) = len /\ i + r.last_len <= len
     /\ \A k \in 1 .. len : ~(k > i /\ k <= i + r.last_len) => r.buf[k] = in_buf[k]
     /\ r.buf \in ToSet(r.runs) \cup {in_buf}}

\* Trying a token that is not shorter than the last one.
LEMMA TryTokenEffect ==
  ASSUME in_buf \in Seq(Byte), len = Len(in_buf), i \in Nat,
         NEW r \in AccType, NEW t \in Seq(Byte), NEW is_drawn \in BOOLEAN,
         r.last_len <= Len(t)
  PROVE  LET s == TryToken(r, t, is_drawn)
         IN  /\ s \in AccType /\ s.last_len <= Len(t)
             /\ ToSet(r.runs) \subseteq ToSet(s.runs)
             /\ is_drawn /\ i + Len(t) <= len /\ Flagged(i, Len(t)) =>
                  Put(in_buf, i, t) \in ToSet(s.runs) \cup {in_buf}
<1> DEFINE b == Put(r.buf, i, t)
           skipped == \/ ~is_drawn \/ Len(t) > len - i
                      \/ SubSeq(r.buf, i + 1, i + Len(t)) = t
                      \/ ~Flagged(i, Len(t))
           new == [buf |-> b, last_len |-> Len(t), runs |-> Append(r.runs, b)]
<1>1. /\ r.buf \in Seq(Byte) /\ r.last_len \in Nat /\ r.runs \in Seq(Seq(Byte))
      /\ Len(r.buf) = len /\ i + r.last_len <= len
      /\ \A k \in 1 .. len : ~(k > i /\ k <= i + r.last_len) => r.buf[k] = in_buf[k]
      /\ r.buf \in ToSet(r.runs) \cup {in_buf}
      /\ Len(t) \in Nat /\ len \in Nat
  BY LenProperties DEF AccType
<1>2. TryToken(r, t, is_drawn) = IF skipped THEN r ELSE new
  BY DEF TryToken
<1>3. ASSUME i + Len(t) <= len
      PROVE  /\ b \in Seq(Byte) /\ Len(b) = len /\ b = Put(in_buf, i, t)
             /\ \A k \in 1 .. len : ~(k > i /\ k <= i + Len(t)) => b[k] = in_buf[k]
  <2>1. /\ b \in Seq(Byte) /\ Len(b) = len
        /\ \A k \in 1 .. len : b[k] = IF k > i /\ k <= i + Len(t) THEN t[k - i] ELSE r.buf[k]
    BY <1>1, <1>3, PutBytes
  <2> DEFINE c == Put(in_buf, i, t)
  <2>2. /\ c \in Seq(Byte) /\ Len(c) = len
        /\ \A k \in 1 .. len : c[k] = IF k > i /\ k <= i + Len(t) THEN t[k - i] ELSE in_buf[k]
    BY <1>1, <1>3, PutBytes
  <2> HIDE DEF b, c
  <2>3. ASSUME NEW k \in 1 .. len, ~(k > i /\ k <= i + Len(t)) PROVE r.buf[k] = in_buf[k]
    <3>1. ~(k > i /\ k <= i + r.last_len)
      BY <1>1, <2>3
    <3>2. QED
      BY <1>1, <3>1
  <2>4. \A k \in 1 .. len : b[k] = c[k]
    BY <2>1, <2>2, <2>3
  <2>5. b = c
    BY <2>1, <2>2, <2>4, SeqEqual
  <2>6. QED
    BY <2>1, <2>3, <2>5 DEF c
<1>4. CASE skipped
  <2>1. TryToken(r, t, is_drawn) = r
    BY <1>2, <1>4
  <2>2. ASSUME is_drawn, i + Len(t) <= len, Flagged(i, Len(t))
        PROVE  Put(in_buf, i, t) \in ToSet(r.runs) \cup {in_buf}
    <3>1. ~(Len(t) > len - i)
      BY <1>1, <2>2
    <3>2. SubSeq(r.buf, i + 1, i + Len(t)) = t
      BY <1>4, <2>2, <3>1
    <3>3. \A k \in 1 .. Len(t) : t[k] = r.buf[i + k]
      <4>1. r.buf \in Seq(Byte) /\ i \in Nat /\ Len(t) \in Nat /\ i + Len(t) <= Len(r.buf)
        BY <1>1, <2>2
      <4>2. \A k \in 1 .. Len(t) : SubSeq(r.buf, i + 1, i + Len(t))[k] = r.buf[i + k]
        BY <4>1, ReadBytes
      <4>3. QED
        BY <3>2, <4>2
    <3>4. /\ b \in Seq(Byte) /\ Len(b) = len
          /\ \A k \in 1 .. len : b[k] = IF k > i /\ k <= i + Len(t) THEN t[k - i] ELSE r.buf[k]
      BY <1>1, <2>2, PutBytes
    <3>5. ASSUME NEW k \in 1 .. len PROVE b[k] = r.buf[k]
      <4>1. CASE k > i /\ k <= i + Len(t)
        <5>1. k - i \in 1 .. Len(t) /\ i + (k - i) = k
          BY <1>1, <4>1
        <5>2. t[k - i] = r.buf[k]
          BY <3>3, <5>1
        <5>3. QED
          BY <3>4, <4>1, <5>2
      <4>2. QED
        BY <3>4, <4>1
    <3>6. b = r.buf
      BY <1>1, <3>4, <3>5, SeqEqual
    <3>7. QED
      BY <1>1, <1>3, <2>2, <3>6
  <2>3. QED
    BY <2>1, <2>2
<1>5. CASE ~skipped
  <2>1. TryToken(r, t, is_drawn) = new /\ i + Len(t) <= len
    BY <1>1, <1>2, <1>5
  <2>2. /\ b \in Seq(Byte) /\ Len(b) = len /\ b = Put(in_buf, i, t)
        /\ \A k \in 1 .. len : ~(k > i /\ k <= i + Len(t)) => b[k] = in_buf[k]
    BY <1>3, <2>1
  <2> HIDE DEF b
  <2> DEFINE u == Append(r.runs, b)
  <2>3. u \in Seq(Seq(Byte)) /\ Len(u) = Len(r.runs) + 1 /\ u[Len(u)] = b
        /\ (\A k \in 1 .. Len(r.runs) : u[k] = r.runs[k]) /\ Len(r.runs) \in Nat
    BY <1>1, <2>2, AppendProperties, LenProperties
  <2>4. ToSet(r.runs) \subseteq ToSet(u) /\ b \in ToSet(u)
    <3>1. DOMAIN r.runs = 1 .. Len(r.runs) /\ DOMAIN u = 1 .. Len(u)
      BY <1>1, <2>3, LenProperties
    <3> HIDE DEF u
    <3>2. Len(u) \in 1 .. Len(u) /\ 1 .. Len(r.runs) \subseteq 1 .. Len(u)
      BY <2>3
    <3>3. QED
      BY <2>3, <3>1, <3>2 DEF ToSet
  <2> HIDE DEF u
  <2>5. new = [buf |-> b, last_len |-> Len(t), runs |-> u]
    BY DEF u
  <2>6. new \in AccType /\ new.last_len = Len(t) /\ new.runs = u
    BY <1>1, <2>1, <2>2, <2>3, <2>4, <2>5 DEF AccType
  <2>7. Put(in_buf, i, t) \in ToSet(u)
    BY <2>2, <2>4
  <2> HIDE DEF new
  <2>8. QED
    BY <1>1, <2>1, <2>4, <2>6, <2>7
<1>6. QED
  BY <1>4, <1>5

\* The same without the order of the tokens: the types.
AccShape == {r \in [buf : Seq(Byte), last_len : Nat, runs : Seq(Seq(Byte))] : Len(r.buf) = len}

LEMMA TryTokenShape ==
  ASSUME len \in Nat, i \in Nat, NEW r \in AccShape, NEW t \in Seq(Byte), NEW is_drawn
  PROVE  TryToken(r, t, is_drawn) \in AccShape
<1> DEFINE b == Put(r.buf, i, t)
           skipped == \/ ~is_drawn \/ Len(t) > len - i
                      \/ SubSeq(r.buf, i + 1, i + Len(t)) = t
                      \/ ~Flagged(i, Len(t))
           new == [buf |-> b, last_len |-> Len(t), runs |-> Append(r.runs, b)]
<1>1. /\ r.buf \in Seq(Byte) /\ r.runs \in Seq(Seq(Byte)) /\ Len(r.buf) = len
      /\ Len(t) \in Nat
  BY LenProperties DEF AccShape
<1>2. TryToken(r, t, is_drawn) = IF skipped THEN r ELSE new
  BY DEF TryToken
<1>3. CASE ~skipped
  <2>1. i + Len(t) <= Len(r.buf)
    BY <1>1, <1>3
  <2>2. b \in Seq(Byte) /\ Len(b) = len
    BY <1>1, <2>1, PutBytes
  <2> HIDE DEF b
  <2>3. Append(r.runs, b) \in Seq(Seq(Byte))
    BY <1>1, <2>2, AppendProperties
  <2>4. new \in AccShape
    BY <1>1, <2>2, <2>3 DEF AccShape
  <2> HIDE DEF new
  <2>5. QED
    BY <1>2, <1>3, <2>4
<1>4. QED
  BY <1>2, <1>3

\* The recursion of Overwrites() is well defined.
OverwriteSteps(acc, T, drawn) ==
  /\ acc[0] = [buf |-> out_buf, last_len |-> 0, runs |-> <<>>]
  /\ \A k \in 1 .. Len(T) : acc[k] = TryToken(acc[k - 1], T[k], k \in drawn)

LEMMA OverwritesDefined ==
  ASSUME in_buf \in Seq(Byte), len = Len(in_buf), i \in Nat, out_buf = in_buf,
         NEW T \in Seq(Seq(Byte)), NEW drawn
  PROVE  \E acc : OverwriteSteps(acc, T, drawn) /\ Overwrites(T, drawn) = acc[Len(T)]
<1> DEFINE base == [buf |-> out_buf, last_len |-> 0, runs |-> <<>>]
           n == Len(T)
           F == [p \in AccShape \X (1 .. n) |-> TryToken(p[1], T[p[2]], p[2] \in drawn)]
           P(g) == g = [k \in 0 .. Len(T) |-> IF k = 0 THEN base
                                        ELSE TryToken(g[k - 1], T[k], k \in drawn)]
           acc[k \in 0 .. Len(T)] ==
             IF k = 0 THEN [buf |-> out_buf, last_len |-> 0, runs |-> <<>>]
                      ELSE TryToken(acc[k - 1], T[k], k \in drawn)
<1>1. n \in Nat /\ (\A k \in 1 .. n : T[k] \in Seq(Byte)) /\ len \in Nat
  BY LenProperties, ElementOfSeq
<1>2. base \in AccShape
  <2>1. <<>> \in Seq(Seq(Byte))
    BY EmptySeq
  <2>2. QED
    BY <2>1 DEF AccShape
<1>3. \A x \in AccShape : \A k \in 1 .. n : TryToken(x, T[k], k \in drawn) \in AccShape
  BY <1>1, TryTokenShape
<1>4. F \in StepFcn(AccShape, n)
  BY <1>3 DEF StepFcn
<1>5. PICK f : Recursion(f, AccShape, n, base, F)
  <2> HIDE DEF F, n, base
  <2>1. QED
    BY <1>1, <1>2, <1>4, Iteration
<1>6. P(f)
  <2>1. ASSUME NEW k \in 1 .. n PROVE f[k] = TryToken(f[k - 1], T[k], k \in drawn)
    <3>1. k - 1 \in 0 .. n
      BY <1>1
    <3>2. <<f[k - 1], k>> \in AccShape \X (1 .. n)
      BY <1>5, <3>1 DEF Recursion
    <3>3. F[<<f[k - 1], k>>] = TryToken(f[k - 1], T[k], k \in drawn)
      BY <3>2
    <3>4. QED
      BY <1>5, <3>3 DEF Recursion
  <2> HIDE DEF F, base
  <2>2. \A k \in 0 .. n : f[k] = IF k = 0 THEN base ELSE TryToken(f[k - 1], T[k], k \in drawn)
    BY <1>1, <1>5, <2>1 DEF Recursion
  <2>3. f = [k \in 0 .. n |-> f[k]]
    BY <1>5 DEF Recursion
  <2>4. QED
    BY <2>2, <2>3
<1>7. acc = [k \in 0 .. Len(T) |->
               IF k = 0 THEN base ELSE TryToken(acc[k - 1], T[k], k \in drawn)]
  <2>1. \E g : P(g)
    BY <1>6
  <2>2. acc = CHOOSE g : P(g)
    OBVIOUS
  <2>3. QED
    BY <2>1, <2>2, Zenon
<1>8. Overwrites(T, drawn) = acc[Len(T)]
  BY DEF Overwrites
<1> HIDE DEF acc, F
<1>9. OverwriteSteps(acc, T, drawn)
  <2> HIDE DEF base
  <2>1. acc[0] = base
    BY <1>1, <1>7
  <2>2. ASSUME NEW k \in 1 .. Len(T) PROVE acc[k] = TryToken(acc[k - 1], T[k], k \in drawn)
    <3>1. k \in 0 .. Len(T) /\ k # 0
      BY <1>1
    <3>2. QED
      BY <1>7, <3>1
  <2>3. QED
    BY <2>1, <2>2 DEF OverwriteSteps, base
<1>10. QED
  BY <1>8, <1>9

\* The inner loop of ext_UO and ext_AO.  Each token that is drawn, fits and covers a
\* flagged block has been run, although the buffer is not restored in between: a token
\* is not shorter than the ones before it, so it hides what they left.  Writing back the
\* bytes of the last one restores the buffer.
LEMMA OverwritesCorrect ==
  ASSUME in_buf \in Seq(Byte), len = Len(in_buf), i \in Nat, i <= len, out_buf = in_buf,
         NEW T \in Seq(Seq(Byte)), ByLength(T), NEW drawn
  PROVE  LET done == Overwrites(T, drawn)
         IN  /\ done.runs \in Seq(Seq(Byte))
             /\ Put(done.buf, i, SubSeq(in_buf, i + 1, i + done.last_len)) = in_buf
             /\ \A k \in 1 .. Len(T) :
                  k \in drawn /\ i + Len(T[k]) <= len /\ Flagged(i, Len(T[k])) =>
                    Put(in_buf, i, T[k]) \in ToSet(done.runs) \cup {in_buf}
<1> DEFINE n == Len(T)
           Ran(k, r) == k \in drawn /\ i + Len(T[k]) <= len /\ Flagged(i, Len(T[k])) =>
                          Put(in_buf, i, T[k]) \in ToSet(r.runs) \cup {in_buf}
<1>1. n \in Nat /\ (\A k \in 1 .. n : T[k] \in Seq(Byte) /\ Len(T[k]) \in Nat) /\ len \in Nat
  BY LenProperties, ElementOfSeq
<1>2. PICK acc : OverwriteSteps(acc, T, drawn) /\ Overwrites(T, drawn) = acc[n]
  BY OverwritesDefined
<1>3. /\ acc[0] = [buf |-> in_buf, last_len |-> 0, runs |-> <<>>]
      /\ \A k \in 1 .. n : acc[k] = TryToken(acc[k - 1], T[k], k \in drawn)
  BY <1>2 DEF OverwriteSteps
<1> HIDE DEF n, Ran
<1> DEFINE S == {k \in Nat : k <= n =>
                   /\ acc[k] \in AccType
                   /\ \A m \in 1 .. n : m > k => acc[k].last_len <= Len(T[m])
                   /\ \A m \in 1 .. k : Ran(m, acc[k])}
<1>4. 0 \in S
  <2>1. acc[0].buf = in_buf /\ acc[0].last_len = 0 /\ acc[0].runs = <<>>
    BY <1>3
  <2>2. acc[0] \in [buf : Seq(Byte), last_len : Nat, runs : Seq(Seq(Byte))]
    BY <1>3, EmptySeq
  <2>3. acc[0] \in AccType
    BY <1>1, <2>1, <2>2 DEF AccType
  <2>4. QED
    BY <1>1, <2>1, <2>3
<1>5. ASSUME NEW k \in Nat, k \in S PROVE k + 1 \in S
  <2> SUFFICES ASSUME k + 1 <= n
               PROVE  /\ acc[k + 1] \in AccType
                      /\ \A m \in 1 .. n : m > k + 1 => acc[k + 1].last_len <= Len(T[m])
                      /\ \A m \in 1 .. k + 1 : Ran(m, acc[k + 1])
    OBVIOUS
  <2> DEFINE r == acc[k]
             t == T[k + 1]
             s == acc[k + 1]
  <2>1. k + 1 \in 1 .. n /\ (k + 1) - 1 = k /\ k <= n /\ k + 1 > k
    BY <1>1
  <2>2. /\ r \in AccType /\ t \in Seq(Byte) /\ r.last_len <= Len(t) /\ Len(t) \in Nat
        /\ \A m \in 1 .. k : Ran(m, r)
    BY <1>1, <1>5, <2>1
  <2>3. s = TryToken(r, t, k + 1 \in drawn)
    BY <1>3, <2>1
  <2> HIDE DEF r, t, s, S
  <2>4. /\ s \in AccType /\ s.last_len <= Len(t) /\ ToSet(r.runs) \subseteq ToSet(s.runs)
        /\ (k + 1 \in drawn) /\ i + Len(t) <= len /\ Flagged(i, Len(t)) =>
             Put(in_buf, i, t) \in ToSet(s.runs) \cup {in_buf}
    <3> DEFINE d == k + 1 \in drawn
    <3>1. d \in BOOLEAN
      OBVIOUS
    <3> HIDE DEF d
    <3>2. /\ s \in AccType /\ s.last_len <= Len(t) /\ ToSet(r.runs) \subseteq ToSet(s.runs)
          /\ d /\ i + Len(t) <= len /\ Flagged(i, Len(t)) =>
               Put(in_buf, i, t) \in ToSet(s.runs) \cup {in_buf}
      BY <2>2, <2>3, <3>1, TryTokenEffect DEF d
    <3>3. QED
      BY <3>2 DEF d
  <2>5. ASSUME NEW m \in 1 .. n, m > k + 1 PROVE s.last_len <= Len(T[m])
    <3>1. Len(t) <= Len(T[m])
      BY <2>1, <2>5 DEF ByLength, t, n
    <3>2. s.last_len \in Nat
      BY <2>4 DEF AccType
    <3>3. QED
      BY <1>1, <2>2, <2>4, <3>1, <3>2
  <2>6. ASSUME NEW m \in 1 .. k + 1 PROVE Ran(m, s)
    <3>1. CASE m = k + 1
      BY <2>4, <3>1 DEF Ran, t
    <3>2. CASE m # k + 1
      <4>1. Ran(m, r)
        BY <2>2, <3>2
      <4>2. QED
        BY <2>4, <4>1 DEF Ran
    <3>3. QED
      BY <3>1, <3>2
  <2>7. QED
    BY <2>4, <2>5, <2>6 DEF s
<1> HIDE DEF S
<1>6. n \in S
  BY <1>1, <1>4, <1>5, NatSet
<1> DEFINE done == acc[n]
<1>7. done \in AccType /\ \A m \in 1 .. n : Ran(m, done)
  BY <1>1, <1>6 DEF S
<1> HIDE DEF done
<1>8. /\ done.buf \in Seq(Byte) /\ done.last_len \in Nat /\ done.runs \in Seq(Seq(Byte))
      /\ Len(done.buf) = len /\ i + done.last_len <= len
      /\ \A k \in 1 .. len : ~(k > i /\ k <= i + done.last_len) => done.buf[k] = in_buf[k]
  BY <1>7 DEF AccType
<1>9. Put(done.buf, i, SubSeq(in_buf, i + 1, i + done.last_len)) = in_buf
  <2> DEFINE l == done.last_len
             u == SubSeq(in_buf, i + 1, i + l)
             c == Put(done.buf, i, u)
  <2>1. u \in Seq(Byte) /\ Len(u) = l /\ \A k \in 1 .. l : u[k] = in_buf[i + k]
    BY <1>8, ReadBytes
  <2> HIDE DEF u
  <2>2. /\ c \in Seq(Byte) /\ Len(c) = len
        /\ \A k \in 1 .. len : c[k] = IF k > i /\ k <= i + l THEN u[k - i] ELSE done.buf[k]
    <3>1. /\ done.buf \in Seq(Byte) /\ i \in Nat /\ i + Len(u) <= Len(done.buf)
          /\ Len(u) = l /\ Len(done.buf) = len
      BY <1>8, <2>1
    <3>2. /\ c \in Seq(Byte) /\ Len(c) = Len(done.buf)
          /\ \A k \in 1 .. Len(done.buf) :
               c[k] = IF k > i /\ k <= i + Len(u) THEN u[k - i] ELSE done.buf[k]
      BY <2>1, <3>1, PutBytes
    <3>3. QED
      BY <3>1, <3>2
  <2> HIDE DEF c
  <2>3. ASSUME NEW k \in 1 .. len PROVE c[k] = in_buf[k]
    <3>1. CASE k > i /\ k <= i + l
      <4>1. k - i \in 1 .. l /\ i + (k - i) = k
        BY <1>1, <1>8, <3>1
      <4>2. u[k - i] = in_buf[k]
        BY <2>1, <4>1
      <4>3. QED
        BY <2>2, <3>1, <4>2
    <3>2. QED
      BY <1>8, <2>2, <3>1
  <2>4. c = in_buf
    BY <2>2, <2>3, SeqEqual
  <2>5. QED
    BY <2>4 DEF c, u
<1>10. QED
  BY <1>2, <1>7, <1>8, <1>9 DEF Ran, done, n

\* What a turn of ext_UO or ext_AO writes over the buffer.
LEMMA OverwriteTurn ==
  ASSUME InputInv, LengthInv, RestoredInv, DetTurn, ~next_stage, stage \in {"ext_UO", "ext_AO"}
  PROVE  \E T, drawn :
           /\ T \in Seq(Seq(Byte)) /\ overwrite(stage, T, drawn)
           /\ ByLength(T) /\ Len(T) = PerTurn(stage)
           /\ stage = "ext_UO" =>
                T = extras /\ (Len(extras) <= MAX_DET_EXTRAS => drawn = 1 .. Len(extras))
           /\ stage = "ext_AO" =>
                /\ drawn = 1 .. Used(a_extras)
                /\ \A k \in 1 .. Used(a_extras) : T[k] = a_extras[k].data
<1>1. DictTypes /\ ByLength(extras) /\ ByUseThenLength(a_extras)
  BY DEF InputInv, TablesInv
<1>2. CASE stage = "ext_UO"
  <2>1. ext_UO
    BY <1>2 DEF DetTurn, turn, flip1, flip2, flip4, flip8, flip16, flip32, flip_bytes,
       arith8, arith16, arith32, int8, int16, int32, arith, interest, word_turn, ext_UI, ext_AO
  <2>2. PICK drawn : /\ overwrite("ext_UO", extras, drawn)
                     /\ Len(extras) <= MAX_DET_EXTRAS => drawn = 1 .. Len(extras)
    <3>1. PICK drawn \in IF Len(extras) > MAX_DET_EXTRAS
                         THEN SUBSET (1 .. Len(extras)) ELSE {1 .. Len(extras)} :
            overwrite("ext_UO", extras, drawn)
      BY <2>1 DEF ext_UO
    <3>2. Len(extras) \in Nat /\ MAX_DET_EXTRAS \in Nat
      BY <1>1, DetAssumption, LenProperties DEF DictTypes
    <3>3. Len(extras) <= MAX_DET_EXTRAS => ~(Len(extras) > MAX_DET_EXTRAS)
      BY <3>2
    <3>4. QED
      BY <3>1, <3>3
  <2>3. extras \in Seq(Seq(Byte)) /\ Len(extras) = PerTurn("ext_UO")
    BY <1>1 DEF DictTypes, PerTurn
  <2>4. QED
    BY <1>1, <1>2, <2>2, <2>3
<1>3. CASE stage = "ext_AO"
  <2> DEFINE n == Used(a_extras)
             T == [k \in 1 .. n |-> a_extras[k].data]
  <2>1. ext_AO
    BY <1>3 DEF DetTurn, turn, flip1, flip2, flip4, flip8, flip16, flip32, flip_bytes,
       arith8, arith16, arith32, int8, int16, int32, arith, interest, word_turn, ext_UI, ext_UO
  <2>2. overwrite("ext_AO", T, 1 .. n)
    BY <2>1 DEF ext_AO
  <2>3. n \in Nat /\ n <= Len(a_extras) /\ Len(a_extras) \in Nat
    BY <1>1, LenProperties, DictionaryAssumption DEF DictTypes, Used
  <2>4. \A k \in 1 .. n : a_extras[k].data \in Seq(Byte)
    <3>1. ASSUME NEW k \in 1 .. n PROVE a_extras[k] \in AutoExtra
      <4>1. k \in 1 .. Len(a_extras)
        BY <2>3
      <4>2. QED
        BY <1>1, <4>1, ElementOfSeq DEF DictTypes
    <3>2. QED
      BY <3>1 DEF AutoExtra
  <2>5. T \in Seq(Seq(Byte)) /\ Len(T) = n
    <3>1. T \in [1 .. n -> Seq(Byte)]
      BY <2>4
    <3>2. QED
      BY <2>3, <3>1, SeqDef, LenProperties
  <2>6. ByLength(T)
    <3>1. ASSUME NEW k \in 1 .. n, NEW m \in 1 .. n, k < m PROVE Len(T[k]) <= Len(T[m])
      <4>1. k \in 1 .. Len(a_extras) /\ m \in 1 .. Len(a_extras) /\ m <= Used(a_extras)
        BY <2>3
      <4>2. Len(a_extras[k].data) <= Len(a_extras[m].data)
        BY <1>1, <3>1, <4>1 DEF ByUseThenLength
      <4>3. QED
        BY <4>2
    <3>2. QED
      BY <2>5, <3>1 DEF ByLength
  <2>7. n = PerTurn("ext_AO") /\ \A k \in 1 .. n : T[k] = a_extras[k].data
    BY DEF PerTurn
  <2> HIDE DEF T, n
  <2>8. QED
    BY <1>3, <2>2, <2>5, <2>6, <2>7 DEF n
<1>4. QED
  BY <1>2, <1>3

\* What it does.
LEMMA OverwriteEffect ==
  ASSUME InputInv, LengthInv, RestoredInv, stage \in {"ext_UO", "ext_AO"},
         NEW T \in Seq(Seq(Byte)), NEW drawn, ByLength(T), overwrite(stage, T, drawn)
  PROVE  LET runs == Overwrites(T, drawn).runs
         IN  /\ Len(runs) \in Nat /\ out_buf' = in_buf /\ i < len
             /\ turn(stage, ToSet(runs), Len(runs), Len(T) - Len(runs))
             /\ \A k \in 1 .. Len(T) :
                  k \in drawn /\ i + Len(T[k]) <= len /\ Flagged(i, Len(T[k])) =>
                    Put(in_buf, i, T[k]) \in ToSet(runs) \cup {in_buf}
<1> DEFINE done == Overwrites(T, drawn)
<1>1. /\ turn(stage, ToSet(done.runs), Len(done.runs), Len(T) - Len(done.runs))
      /\ out_buf' = Put(done.buf, i, SubSeq(in_buf, i + 1, i + done.last_len))
  BY DEF overwrite
<1>2. /\ in_buf \in Seq(Byte) /\ len = Len(in_buf) /\ i \in Nat /\ out_buf = in_buf
      /\ len \in Nat
  BY DEF InputInv, LengthInv, RestoredInv, DetStage
<1>3. i < len
  BY <1>1 DEF turn, Turns
<1>4. /\ done.runs \in Seq(Seq(Byte))
      /\ Put(done.buf, i, SubSeq(in_buf, i + 1, i + done.last_len)) = in_buf
      /\ \A k \in 1 .. Len(T) :
           k \in drawn /\ i + Len(T[k]) <= len /\ Flagged(i, Len(T[k])) =>
             Put(in_buf, i, T[k]) \in ToSet(done.runs) \cup {in_buf}
  <2>1. i <= len
    BY <1>2, <1>3
  <2>2. QED
    BY <1>2, <2>1, OverwritesCorrect
<1> HIDE DEF done
<1>5. QED
  BY <1>1, <1>3, <1>4, LenProperties DEF done

\* Each turn leaves the buffer as it was.
LEMMA NextRestored ==
  InputInv /\ LengthInv /\ RestoredInv /\ [Next]_vars => RestoredInv'
<1>1. ASSUME InputInv, LengthInv, RestoredInv, det_turn, ~next_stage PROVE RestoredInv'
  <2>1. DetTurn
    BY <1>1 DEF det_turn
  <2>2. /\ stage \in DetStage /\ UNCHANGED <<stage, in_buf>>
        /\ stage \notin {"ext_UO", "ext_AO"} => out_buf' = out_buf
    BY <1>1, <2>1, TurnEffect
  <2>3. CASE stage \in {"ext_UO", "ext_AO"}
    <3>1. PICK T, drawn : T \in Seq(Seq(Byte)) /\ overwrite(stage, T, drawn) /\ ByLength(T)
      BY <1>1, <2>1, <2>3, OverwriteTurn
    <3>2. out_buf' = in_buf
      BY <1>1, <2>3, <3>1, OverwriteEffect
    <3>3. QED
      BY <2>2, <3>2 DEF RestoredInv
  <2>4. CASE stage \notin {"ext_UO", "ext_AO"}
    BY <1>1, <2>2, <2>4 DEF RestoredInv
  <2>5. QED
    BY <2>3, <2>4
<1>2. ASSUME RestoredInv, det_turn, next_stage PROVE RestoredInv'
  BY <1>2, MoveEffect DEF RestoredInv
<1>3. ASSUME InputInv, LengthInv, RestoredInv, Next, ~det_turn PROVE RestoredInv'
  <2>1. /\ ~trim_and_score => stage' \notin DetStage
        /\ stage' # "det_done"
    BY <1>3 DEF Next, map_input, trim_and_score, stop_trimming, abandon_det, mark_as_det_done,
       havoc_stage, change_value, delete_bytes, clone_bytes, overwrite_bytes,
       overwrite_with_extra, insert_extra, tweak, InStack, run_havoc, abandon_havoc, end_havoc,
       splice_fails, splice_with_target, finish, abandon_entry, DetStage
  <2>2. trim_and_score => out_buf' = in_buf'
    BY DEF trim_and_score
  <2>3. QED
    BY <2>1, <2>2 DEF RestoredInv
<1>4. ASSUME RestoredInv, UNCHANGED vars PROVE RestoredInv'
  BY <1>4 DEF RestoredInv, vars, detVars, bufVars
<1>5. QED
  BY <1>1, <1>2, <1>3, <1>4

\* Between two turns the buffer is the input.
LEMMA AlwaysRestored == Spec => []RestoredInv
<1>1. Init => RestoredInv
  BY DEF Init, RestoredInv, DetStage
<1>2. QED
  BY <1>1, NextRestored, AlwaysLengths, PTL DEF Spec

-----------------------------------------------------------------------------
(* The tokens tried.                                                       *)

\* What the turns of the dictionary stages leave alone.
TokenStages == {"ext_UO", "ext_UI", "ext_AO"}

LEMMA TokenTurn ==
  ASSUME DetTurn, ~next_stage, stage \in TokenStages
  PROVE  /\ UNCHANGED <<stage, in_buf, len, eff_map, extras, a_extras>> /\ i' = i + 1
         /\ executed \subseteq executed'
<1>1. /\ i' = i + 1 /\ UNCHANGED <<stage, in_buf, len, extras>>
      /\ stage # "flip1" => UNCHANGED <<flipVars, a_extras, auto_changed>>
      /\ eff_map' = eff_map \/ (stage = "flip8" /\ eff_map' = eff_map \cup {EffBlock(i)})
      /\ executed \subseteq executed'
  BY TurnEffect
<1>2. QED
  BY <1>1 DEF TokenStages

\* A turn of ext_UO.
LEMMA UserTurn ==
  ASSUME InputInv, LengthInv, RestoredInv, UserTried, DetTurn, ~next_stage,
         stage \in TokenStages
  PROVE  UserTried'
<1>1. /\ UNCHANGED <<stage, in_buf, len, eff_map, extras>> /\ i' = i + 1
      /\ executed \subseteq executed'
  BY TokenTurn
<1>2. CASE stage # "ext_UO"
  BY <1>1, <1>2 DEF UserTried, OverwrittenAt, Flagged
<1>3. CASE stage = "ext_UO"
  <2> SUFFICES ASSUME Len(extras) <= MAX_DET_EXTRAS, NEW k \in 1 .. Len(extras),
                      NEW p \in 0 .. (i + 1) - 1,
                      p + Len(extras[k]) <= len, Flagged(p, Len(extras[k]))
               PROVE  Put(in_buf, p, extras[k]) \in executed' \cup {in_buf}
    BY <1>1, <1>3 DEF UserTried, OverwrittenAt, Flagged
  <2>1. i \in Nat
    BY DEF InputInv
  <2>2. CASE p \in 0 .. i - 1
    BY <1>1, <1>3, <2>2 DEF UserTried, OverwrittenAt
  <2>3. CASE p = i
    <3>1. PICK T, drawn :
            /\ T \in Seq(Seq(Byte)) /\ overwrite(stage, T, drawn) /\ ByLength(T)
            /\ T = extras /\ drawn = 1 .. Len(extras)
      BY <1>3, OverwriteTurn
    <3> DEFINE runs == Overwrites(T, drawn).runs
    <3>2. /\ turn(stage, ToSet(runs), Len(runs), Len(T) - Len(runs))
          /\ \A m \in 1 .. Len(T) :
               m \in drawn /\ i + Len(T[m]) <= len /\ Flagged(i, Len(T[m])) =>
                 Put(in_buf, i, T[m]) \in ToSet(runs) \cup {in_buf}
      BY <1>3, <3>1, OverwriteEffect
    <3> HIDE DEF runs
    <3>3. executed' = executed \cup ToSet(runs)
      BY <3>2 DEF turn
    <3>4. QED
      BY <2>3, <3>1, <3>2, <3>3
  <2>4. QED
    BY <2>1, <2>2, <2>3
<1>4. QED
  BY <1>2, <1>3

\* A turn of ext_AO.
LEMMA AutoTurn ==
  ASSUME InputInv, LengthInv, RestoredInv, AutoTried, DetTurn, ~next_stage,
         stage \in TokenStages
  PROVE  AutoTried'
<1>1. /\ UNCHANGED <<stage, in_buf, len, eff_map, a_extras>> /\ i' = i + 1
      /\ executed \subseteq executed'
  BY TokenTurn
<1>2. CASE stage # "ext_AO"
  BY <1>1, <1>2 DEF AutoTried, TokenStages
<1>3. CASE stage = "ext_AO"
  <2> SUFFICES ASSUME NEW k \in 1 .. Used(a_extras),
                      NEW p \in 0 .. (i + 1) - 1,
                      p + Len(a_extras[k].data) <= len, Flagged(p, Len(a_extras[k].data))
               PROVE  Put(in_buf, p, a_extras[k].data) \in executed' \cup {in_buf}
    BY <1>1, <1>3 DEF AutoTried, OverwrittenAt, Flagged
  <2>1. i \in Nat
    BY DEF InputInv
  <2>2. CASE p \in 0 .. i - 1
    BY <1>1, <1>3, <2>2 DEF AutoTried, OverwrittenAt
  <2>3. CASE p = i
    <3>1. PICK T, drawn :
            /\ T \in Seq(Seq(Byte)) /\ overwrite(stage, T, drawn) /\ ByLength(T) /\ Len(T) = PerTurn(stage)
            /\ drawn = 1 .. Used(a_extras)
            /\ \A m \in 1 .. Used(a_extras) : T[m] = a_extras[m].data
      BY <1>3, OverwriteTurn
    <3> DEFINE runs == Overwrites(T, drawn).runs
    <3>2. /\ turn(stage, ToSet(runs), Len(runs), Len(T) - Len(runs))
          /\ \A m \in 1 .. Len(T) :
               m \in drawn /\ i + Len(T[m]) <= len /\ Flagged(i, Len(T[m])) =>
                 Put(in_buf, i, T[m]) \in ToSet(runs) \cup {in_buf}
      BY <1>3, <3>1, OverwriteEffect
    <3> HIDE DEF runs
    <3>3. executed' = executed \cup ToSet(runs)
      BY <3>2 DEF turn
    <3>4. Len(T) = Used(a_extras)
      BY <1>3, <3>1 DEF PerTurn
    <3>5. T[k] = a_extras[k].data /\ k \in 1 .. Len(T) /\ k \in drawn
      BY <3>1, <3>4
    <3>6. QED
      BY <2>3, <3>2, <3>3, <3>5
  <2>4. QED
    BY <2>1, <2>2, <2>3
<1>4. QED
  BY <1>2, <1>3

\* A turn of ext_UI.
LEMMA InsertTurn ==
  ASSUME InputInv, LengthInv, RestoredInv, InsertTried, DetTurn, ~next_stage,
         stage \in TokenStages
  PROVE  InsertTried'
<1>1. /\ UNCHANGED <<stage, in_buf, len, extras>> /\ i' = i + 1 /\ executed \subseteq executed'
  BY TokenTurn
<1>2. CASE stage # "ext_UI"
  BY <1>1, <1>2 DEF InsertTried, InsertedAt
<1>3. CASE stage = "ext_UI"
  <2> DEFINE fits == {k \in 1 .. Len(extras) : len + Len(extras[k]) <= MAX_FILE}
  <2>1. ext_UI
    BY <1>3 DEF DetTurn, turn, flip1, flip2, flip4, flip8, flip16, flip32, flip_bytes,
       arith8, arith16, arith32, int8, int16, int32, arith, interest, word_turn, ext_UO, ext_AO
  <2>2. /\ executed' = executed \cup
                         {ex_tmp \o extras[k] \o SubSeq(out_buf, i + 1, len) : k \in fits}
        /\ ex_tmp' = IF i < len THEN Append(ex_tmp, out_buf[i + 1]) ELSE ex_tmp
        /\ i < len + 1
    BY <2>1 DEF ext_UI, turn, Turns
  <2>3. /\ i \in Nat /\ len \in Nat /\ len = Len(in_buf)
        /\ in_buf \in Seq(Byte) /\ out_buf = in_buf
    BY <1>3 DEF InputInv, LengthInv, RestoredInv, DetStage
  <2>4. ex_tmp = SubSeq(in_buf, 1, i)
    <3>1. (IF i < len THEN i ELSE len) = i
      BY <2>2, <2>3
    <3>2. QED
      BY <1>3, <3>1 DEF InsertTried
  <2>5. ex_tmp' = SubSeq(in_buf', 1, IF i' < len' THEN i' ELSE len')
    <3>1. CASE i < len
      <4>1. ex_tmp' = Append(SubSeq(in_buf, 1, i), in_buf[i + 1])
        BY <2>2, <2>3, <2>4, <3>1
      <4>2. (IF i + 1 < len THEN i + 1 ELSE len) = i + 1
        BY <2>3, <3>1
      <4>3. SubSeq(in_buf, 1, i + 1) = Append(SubSeq(in_buf, 1, i), in_buf[i + 1])
        <5>1. 1 \in 1 .. Len(in_buf) /\ i + 1 \in 1 .. Len(in_buf) /\ i + 1 - 1 = i
          BY <2>3, <3>1
        <5>2. SubSeq(in_buf, 1, i + 1) = SubSeq(in_buf, 1, i + 1 - 1) \o <<in_buf[i + 1]>>
          BY <2>3, <5>1, SubSeqRecursiveSecond
        <5>3. SubSeq(in_buf, 1, i) \in Seq(Byte)
          <6>1. \A k \in 1 .. i : in_buf[k] \in Byte
            BY <2>3, <3>1, ElementOfSeq
          <6>2. QED
            BY <2>3, <6>1, SubSeqProperties
        <5>4. in_buf[i + 1] \in Byte
          BY <2>3, <5>1, ElementOfSeq
        <5>5. Append(SubSeq(in_buf, 1, i), in_buf[i + 1]) = SubSeq(in_buf, 1, i) \o <<in_buf[i + 1]>>
          BY <5>3, <5>4, AppendIsConcat
        <5>6. QED
          BY <5>1, <5>2, <5>5
      <4>4. QED
        BY <1>1, <4>1, <4>2, <4>3
    <3>2. CASE ~(i < len)
      <4>1. i = len /\ (IF i + 1 < len THEN i + 1 ELSE len) = len
        BY <2>2, <2>3, <3>2
      <4>2. QED
        BY <1>1, <2>2, <2>4, <3>2, <4>1
    <3>3. QED
      BY <3>1, <3>2
  <2>6. ASSUME NEW k \in 1 .. Len(extras), len + Len(extras[k]) <= MAX_FILE,
               NEW p \in 0 .. (i + 1) - 1
        PROVE  SubSeq(in_buf, 1, p) \o extras[k] \o SubSeq(in_buf, p + 1, len) \in executed'
    <3>1. CASE p \in 0 .. i - 1
      BY <1>1, <1>3, <2>6, <3>1 DEF InsertTried, InsertedAt
    <3>2. CASE p = i
      <4>1. k \in fits
        BY <2>6
      <4>2. QED
        BY <2>2, <2>3, <2>4, <3>2, <4>1
    <3>3. QED
      BY <2>3, <3>1, <3>2
  <2>7. QED
    BY <1>1, <1>3, <2>5, <2>6 DEF InsertTried, InsertedAt
<1>4. QED
  BY <1>2, <1>3

\* A move to or between the dictionary stages.
LEMMA MoveToTokens ==
  ASSUME InputInv, LengthInv, next_stage, stage' \in TokenStages \cup {"det_done"}
  PROVE  /\ UNCHANGED <<in_buf, len, eff_map, extras, a_extras, executed>>
         /\ i' = 0 /\ ex_tmp' = <<>> /\ i \in Nat /\ len \in Nat /\ i >= Turns(stage)
         /\ stage \notin TokenStages => extras = <<>> \/ stage' = "ext_UO"
         /\ stage = "ext_UO" => stage' = "ext_UI"
         /\ stage = "ext_UI" => stage' \in {"ext_AO", "det_done"}
         /\ stage = "ext_AO" => stage' = "det_done"
         /\ stage' = "det_done" => stage = "ext_AO" \/ a_extras = <<>>
         /\ stage' = "ext_UI" => stage = "ext_UO"
         /\ stage' = "ext_UO" => stage \notin TokenStages
<1>1. /\ stage \in DetStage /\ stage' = NextStage /\ i' = 0 /\ i >= Turns(stage) /\ ex_tmp' = <<>>
      /\ UNCHANGED <<in_buf, len, extras, a_extras, executed>>
      /\ eff_map' = IF stage = "flip4" THEN EffInit
                    ELSE IF stage = "flip8" THEN EffFinal ELSE eff_map
  BY DEF next_stage, bufVars, dictTables
<1>2. stage \in {"int8", "int16", "int32"} \cup TokenStages
  BY <1>1 DEF NextStage, DetStage, TokenStages, skip_user_extras, skip_interest, skip_arith,
     skip_bitflip
<1>3. eff_map' = eff_map
  BY <1>1, <1>2 DEF TokenStages
<1>4. /\ stage \notin TokenStages => extras = <<>> \/ stage' = "ext_UO"
      /\ stage = "ext_UO" => stage' = "ext_UI"
      /\ stage = "ext_UI" => stage' \in {"ext_AO", "det_done"}
      /\ stage = "ext_AO" => stage' = "det_done"
      /\ stage' = "det_done" => stage = "ext_AO" \/ a_extras = <<>>
      /\ stage' = "ext_UI" => stage = "ext_UO"
      /\ stage' = "ext_UO" => stage \notin TokenStages
  BY <1>1, <1>2 DEF NextStage, TokenStages, skip_user_extras, skip_interest
<1>5. QED
  BY <1>1, <1>3, <1>4 DEF InputInv

\* After such a move, all that was promised of the stage before has been tried.
LEMMA MoveKeepsTried ==
  ASSUME InputInv, LengthInv, TriedInv, next_stage
  PROVE  TriedInv'
<1> SUFFICES ASSUME stage' \in TokenStages \cup {"det_done"} PROVE TriedInv'
  BY DEF TriedInv, UserTried, InsertTried, AutoTried, TokenStages
<1>1. /\ UNCHANGED <<in_buf, len, eff_map, extras, a_extras, executed>>
      /\ i' = 0 /\ ex_tmp' = <<>> /\ i \in Nat /\ len \in Nat /\ i >= Turns(stage)
      /\ stage \notin TokenStages => extras = <<>> \/ stage' = "ext_UO"
      /\ stage = "ext_UO" => stage' = "ext_UI"
      /\ stage = "ext_UI" => stage' \in {"ext_AO", "det_done"}
      /\ stage = "ext_AO" => stage' = "det_done"
      /\ stage' = "det_done" => stage = "ext_AO" \/ a_extras = <<>>
      /\ stage' = "ext_UI" => stage = "ext_UO"
      /\ stage' = "ext_UO" => stage \notin TokenStages
  BY MoveToTokens
<1>2. stage \in {"ext_UO", "ext_AO"} => i >= len
  BY <1>1 DEF Turns
<1>3. stage = "ext_UI" => i >= len + 1
  BY <1>1 DEF Turns
<1>4. UserTried'
  <2> SUFFICES ASSUME Len(extras) <= MAX_DET_EXTRAS, NEW k \in 1 .. Len(extras),
                      NEW p \in 0 .. (IF stage' = "ext_UO" THEN 0 ELSE len) - 1,
                      p + Len(extras[k]) <= len, Flagged(p, Len(extras[k]))
               PROVE  Put(in_buf, p, extras[k]) \in executed \cup {in_buf}
    BY <1>1 DEF UserTried, OverwrittenAt, Flagged
  <2>1. stage' # "ext_UO" /\ p \in 0 .. len - 1
    OBVIOUS
  <2>2. extras # <<>>
    OBVIOUS
  <2>3. stage \in TokenStages
    BY <1>1, <2>1, <2>2
  <2>4. p \in 0 .. (IF stage = "ext_UO" THEN i ELSE len) - 1
    BY <1>1, <1>2, <2>1
  <2>5. QED
    BY <2>3, <2>4 DEF TriedInv, UserTried, OverwrittenAt, TokenStages
<1>5. InsertTried'
  <2>1. stage' = "ext_UI" => ex_tmp' = SubSeq(in_buf', 1, IF i' < len' THEN i' ELSE len')
    <3>1. (IF i' < len' THEN i' ELSE len') = 0
      BY <1>1
    <3>2. SubSeq(in_buf', 1, 0) = <<>>
      BY SubSeqEmpty
    <3>3. QED
      BY <1>1, <3>1, <3>2
  <2>2. ASSUME stage' \in {"ext_UI", "ext_AO", "det_done"},
               NEW k \in 1 .. Len(extras), len + Len(extras[k]) <= MAX_FILE,
               NEW p \in 0 .. (IF stage' = "ext_UI" THEN 0 - 1 ELSE len)
        PROVE  SubSeq(in_buf, 1, p) \o extras[k] \o SubSeq(in_buf, p + 1, len) \in executed
    <3>1. stage' # "ext_UI" /\ p \in 0 .. len /\ extras # <<>>
      BY <2>2
    <3>2. stage \in {"ext_UI", "ext_AO"}
      BY <1>1, <2>2, <3>1 DEF TokenStages
    <3>3. p \in 0 .. (IF stage = "ext_UI" THEN i - 1 ELSE len)
      BY <1>1, <1>3, <3>1
    <3>4. QED
      BY <2>2, <3>2, <3>3 DEF TriedInv, InsertTried, InsertedAt
  <2>3. QED
    BY <1>1, <2>1, <2>2 DEF InsertTried, InsertedAt
<1>6. AutoTried'
  <2> SUFFICES ASSUME stage' \in {"ext_AO", "det_done"}, NEW k \in 1 .. Used(a_extras),
                      NEW p \in 0 .. (IF stage' = "ext_AO" THEN 0 ELSE len) - 1,
                      p + Len(a_extras[k].data) <= len, Flagged(p, Len(a_extras[k].data))
               PROVE  Put(in_buf, p, a_extras[k].data) \in executed \cup {in_buf}
    BY <1>1 DEF AutoTried, OverwrittenAt, Flagged
  <2>1. stage' = "det_done" /\ p \in 0 .. len - 1
    OBVIOUS
  <2>2. a_extras # <<>>
    BY DictionaryAssumption DEF Used
  <2>3. stage = "ext_AO"
    BY <1>1, <2>1, <2>2
  <2>4. p \in 0 .. i - 1
    BY <1>1, <1>2, <2>1, <2>3
  <2>5. QED
    BY <2>3, <2>4 DEF TriedInv, AutoTried, OverwrittenAt
<1>7. QED
  BY <1>4, <1>5, <1>6 DEF TriedInv

\* The tokens tried so far.
LEMMA AlwaysTried == Spec => []TriedInv
<1>1. Init => TriedInv
  BY DEF Init, TriedInv, UserTried, InsertTried, AutoTried
<1>2. InputInv /\ LengthInv /\ RestoredInv /\ TriedInv /\ [Next]_vars => TriedInv'
  <2>1. ASSUME InputInv, LengthInv, RestoredInv, TriedInv, det_turn, ~next_stage
        PROVE  TriedInv'
    <3>1. DetTurn
      BY <2>1 DEF det_turn
    <3>2. CASE stage \in TokenStages
      BY <2>1, <3>1, <3>2, UserTurn, InsertTurn, AutoTurn DEF TriedInv
    <3>3. CASE stage \notin TokenStages
      <4>1. stage' = stage /\ stage \in DetStage
        BY <2>1, <3>1, TurnEffect
      <4>2. QED
        BY <3>3, <4>1 DEF TriedInv, UserTried, InsertTried, AutoTried, TokenStages, DetStage
    <3>4. QED
      BY <3>2, <3>3
  <2>2. ASSUME InputInv, LengthInv, TriedInv, next_stage PROVE TriedInv'
    BY <2>2, MoveKeepsTried
  <2>3. ASSUME Next, ~det_turn PROVE TriedInv'
    <3>1. stage' \notin TokenStages \cup {"det_done"}
      BY <2>3 DEF Next, map_input, trim_and_score, stop_trimming, abandon_det,
         mark_as_det_done, havoc_stage, change_value, delete_bytes, clone_bytes,
         overwrite_bytes, overwrite_with_extra, insert_extra, tweak, InStack, run_havoc,
         abandon_havoc, end_havoc, splice_fails, splice_with_target, finish, abandon_entry,
         TokenStages
    <3>2. QED
      BY <3>1 DEF TriedInv, UserTried, InsertTried, AutoTried, TokenStages
  <2>4. ASSUME TriedInv, UNCHANGED vars PROVE TriedInv'
    BY <2>4 DEF vars, detVars, bufVars, dictTables, TriedInv, UserTried, InsertTried, AutoTried,
       OverwrittenAt, InsertedAt, Flagged, Used
  <2>5. QED
    BY <2>1, <2>2, <2>3, <2>4
<1>3. QED
  BY <1>1, <1>2, AlwaysLengths, AlwaysRestored, PTL DEF Spec

\* A token that was written over every position has been run wherever it matters.
LEMMA AllPositions ==
  ASSUME in_buf \in Seq(Byte), len = Len(in_buf), NEW t \in Seq(Byte),
         OverwrittenAt(t, 0 .. len - 1)
  PROVE  OverwrittenBy(t) \subseteq executed \cup {in_buf}
<1>1. len \in Nat /\ Len(t) \in Nat
  BY LenProperties
<1> SUFFICES ASSUME NEW p \in 0 .. len - Len(t), Flagged(p, Len(t))
             PROVE  Put(in_buf, p, t) \in executed \cup {in_buf}
  BY DEF OverwrittenBy
<1>2. p \in Nat /\ p + Len(t) <= len
  BY <1>1
<1>3. CASE p \in 0 .. len - 1
  BY <1>2, <1>3 DEF OverwrittenAt
<1>4. CASE p = len
  <2>1. Len(t) = 0
    BY <1>1, <1>2, <1>4
  <2> DEFINE c == Put(in_buf, p, t)
  <2>2. /\ c \in Seq(Byte) /\ Len(c) = len
        /\ \A k \in 1 .. len : c[k] = IF k > p /\ k <= p + Len(t) THEN t[k - p] ELSE in_buf[k]
    BY <1>1, <1>2, PutBytes
  <2> HIDE DEF c
  <2>3. \A k \in 1 .. len : c[k] = in_buf[k]
    BY <1>1, <1>4, <2>1, <2>2
  <2>4. c = in_buf
    BY <2>2, <2>3, SeqEqual
  <2>5. QED
    BY <2>4 DEF c
<1>5. QED
  BY <1>1, <1>2, <1>3, <1>4

\* For inputs and dictionaries of any size: when the deterministic stages are over, every
\* token of either dictionary has been written over the input, and every token of the
\* user inserted into it, at each position where the stages promise it, although the
\* buffer is not restored between two tokens.
THEOREM DictionaryComplete == Spec => [](stage = "det_done" => TokensTried)
<1>1. InputInv /\ LengthInv /\ TriedInv => (stage = "det_done" => TokensTried)
  <2> SUFFICES ASSUME InputInv, LengthInv, TriedInv, stage = "det_done" PROVE TokensTried
    OBVIOUS
  <2>1. /\ in_buf \in Seq(Byte) /\ len = Len(in_buf) /\ DictTypes
        /\ extras \in Seq(Seq(Byte)) /\ DOMAIN extras = 1 .. Len(extras)
    BY LenProperties DEF InputInv, LengthInv, DictTypes
  <2>2. \A t \in ToSet(extras) : \E k \in 1 .. Len(extras) : t = extras[k] /\ t \in Seq(Byte)
    BY <2>1, ElementOfSeq DEF ToSet
  <2>3. ASSUME Len(extras) <= MAX_DET_EXTRAS, NEW t \in ToSet(extras)
        PROVE  OverwrittenBy(t) \subseteq executed \cup {in_buf}
    <3>1. t \in Seq(Byte) /\ OverwrittenAt(t, 0 .. len - 1)
      BY <2>2, <2>3 DEF TriedInv, UserTried
    <3>2. QED
      BY <2>1, <3>1, AllPositions
  <2>4. ASSUME NEW t \in ToSet(extras), len + Len(t) <= MAX_FILE
        PROVE  WithInserted(t) \subseteq executed
    <3>1. InsertedAt(t, 0 .. len)
      BY <2>2, <2>4 DEF TriedInv, InsertTried
    <3>2. QED
      BY <3>1 DEF InsertedAt, WithInserted
  <2>5. ASSUME NEW k \in 1 .. Used(a_extras)
        PROVE  OverwrittenBy(a_extras[k].data) \subseteq executed \cup {in_buf}
    <3>1. OverwrittenAt(a_extras[k].data, 0 .. len - 1)
      BY <2>5 DEF TriedInv, AutoTried
    <3>2. a_extras[k].data \in Seq(Byte)
      <4>1. k \in 1 .. Len(a_extras) /\ a_extras \in Seq(AutoExtra)
        BY <2>1, <2>5, LenProperties, DictionaryAssumption DEF DictTypes, Used
      <4>2. a_extras[k] \in AutoExtra
        BY <4>1, ElementOfSeq
      <4>3. QED
        BY <4>2 DEF AutoExtra
    <3>3. QED
      BY <2>1, <3>1, <3>2, AllPositions
  <2>6. QED
    BY <2>3, <2>4, <2>5 DEF TokensTried
<1>2. QED
  BY <1>1, AlwaysLengths, AlwaysTried, PTL

-----------------------------------------------------------------------------
(* The counts of the stages.                                               *)

\* Products of three sets.
LEMMA TripleProduct ==
  ASSUME NEW A, NEW B, NEW C, IsFiniteSet(A), IsFiniteSet(B), IsFiniteSet(C)
  PROVE  /\ IsFiniteSet(A \X B \X C)
         /\ Cardinality(A \X B \X C) = (Cardinality(A) * Cardinality(B)) * Cardinality(C)
<1> DEFINE D == (A \X B) \X C
           f == [d \in D |-> <<d[1][1], d[1][2], d[2]>>]
<1>1. /\ IsFiniteSet(D)
      /\ Cardinality(D) = (Cardinality(A) * Cardinality(B)) * Cardinality(C)
  <2> DEFINE AB == A \X B
  <2>1. IsFiniteSet(AB) /\ Cardinality(AB) = Cardinality(A) * Cardinality(B)
    BY FS_Product
  <2> HIDE DEF AB
  <2>2. IsFiniteSet(AB \X C) /\ Cardinality(AB \X C) = Cardinality(AB) * Cardinality(C)
    BY <2>1, FS_Product
  <2>3. QED
    BY <2>1, <2>2 DEF AB
<1>2. f \in Injection(D, A \X B \X C)
  BY DEF Injection, IsInjective
<1>3. f \in Surjection(D, A \X B \X C)
  <2>1. ASSUME NEW e \in A \X B \X C PROVE \E d \in D : f[d] = e
    <3>1. <<<<e[1], e[2]>>, e[3]>> \in D /\ f[<<<<e[1], e[2]>>, e[3]>>] = e
      OBVIOUS
    <3>2. QED
      BY <3>1
  <2>2. QED
    BY <2>1 DEF Surjection
<1>4. ExistsBijection(D, A \X B \X C)
  BY <1>2, <1>3 DEF ExistsBijection, Bijection
<1>5. QED
  BY <1>1, <1>4, FS_Bijection

\* How many tries there are for a word.
LEMMA TriesOf ==
  ASSUME NEW n \in {1, 2, 4}
  PROVE  /\ IsFiniteSet(ArithTries(n)) /\ IsFiniteSet(InterestTries(n))
         /\ Cardinality(ArithTries(n)) = IF n = 1 THEN 2 * ARITH_MAX ELSE 4 * ARITH_MAX
         /\ Cardinality(InterestTries(n)) =
              IF n = 1 THEN Len(interesting_8)
              ELSE IF n = 2 THEN 2 * Len(interesting_16) ELSE 2 * Len(interesting_32)
<1> DEFINE orders == IF n = 1 THEN {FALSE} ELSE BOOLEAN
           m == Len(Interesting(n))
<1>1. IsFiniteSet(orders) /\ Cardinality(orders) = IF n = 1 THEN 1 ELSE 2
  <2>1. IsFiniteSet({FALSE}) /\ Cardinality({FALSE}) = 1
    BY FS_Singleton
  <2>2. IsFiniteSet({FALSE} \cup {TRUE}) /\ Cardinality({FALSE} \cup {TRUE}) = 2
    <3>1. IsFiniteSet({FALSE} \cup {TRUE})
          /\ Cardinality({FALSE} \cup {TRUE}) = IF TRUE \in {FALSE} THEN Cardinality({FALSE})
                                               ELSE Cardinality({FALSE}) + 1
      BY <2>1, FS_AddElement, Zenon
    <3>2. TRUE \notin {FALSE}
      BY Zenon
    <3>3. Cardinality({FALSE} \cup {TRUE}) = Cardinality({FALSE}) + 1
      BY <3>1, <3>2, Zenon
    <3>4. 1 + 1 = 2
      OBVIOUS
    <3>5. QED
      BY <2>1, <3>1, <3>3, <3>4, Zenon
  <2>3. BOOLEAN = {FALSE} \cup {TRUE}
    OBVIOUS
  <2>4. QED
    BY <2>1, <2>2, <2>3
<1>2. IsFiniteSet({1, -1}) /\ Cardinality({1, -1}) = 2
  <2>1. IsFiniteSet({1}) /\ Cardinality({1}) = 1
    BY FS_Singleton
  <2>2. IsFiniteSet({1} \cup {-1}) /\ Cardinality({1} \cup {-1}) = 2
    BY <2>1, FS_AddElement
  <2>3. {1, -1} = {1} \cup {-1}
    OBVIOUS
  <2>4. QED
    BY <2>2, <2>3
<1>3. ARITH_MAX \in Nat
  BY DetAssumption
<1>4. ASSUME NEW k \in Nat PROVE IsFiniteSet(1 .. k) /\ Cardinality(1 .. k) = k
  BY FS_Interval
<1> HIDE DEF orders
<1>5. /\ IsFiniteSet(ArithTries(n))
      /\ Cardinality(ArithTries(n)) = (ARITH_MAX * 2) * Cardinality(orders)
  <2>1. ArithTries(n) = (1 .. ARITH_MAX) \X {1, -1} \X orders
    BY DEF ArithTries, orders
  <2>2. IsFiniteSet(1 .. ARITH_MAX) /\ Cardinality(1 .. ARITH_MAX) = ARITH_MAX
    BY <1>3, <1>4
  <2>3. /\ IsFiniteSet((1 .. ARITH_MAX) \X {1, -1} \X orders)
        /\ Cardinality((1 .. ARITH_MAX) \X {1, -1} \X orders) =
             (Cardinality(1 .. ARITH_MAX) * Cardinality({1, -1})) * Cardinality(orders)
    <3> DEFINE A == 1 .. ARITH_MAX
               B == {1, -1}
    <3>1. IsFiniteSet(A) /\ IsFiniteSet(B) /\ IsFiniteSet(orders)
      BY <1>1, <1>2, <2>2
    <3> HIDE DEF A, B
    <3>2. /\ IsFiniteSet(A \X B \X orders)
          /\ Cardinality(A \X B \X orders) = (Cardinality(A) * Cardinality(B)) * Cardinality(orders)
      BY <3>1, TripleProduct
    <3>3. QED
      BY <3>2 DEF A, B
  <2>4. QED
    BY <1>2, <2>1, <2>2, <2>3
<1>6. /\ m \in Nat
      /\ m = IF n = 1 THEN Len(interesting_8)
             ELSE IF n = 2 THEN Len(interesting_16) ELSE Len(interesting_32)
  <2>1. /\ Len(interesting_8) \in Nat /\ Len(interesting_16) \in Nat
        /\ Len(interesting_32) \in Nat
    <3>1. interesting_8 \in Seq(Int) /\ interesting_16 \in Seq(Int) /\ interesting_32 \in Seq(Int)
      BY WordsAssumption
    <3>2. QED
      BY <3>1, LenProperties
  <2>2. QED
    BY <2>1 DEF Interesting
<1>7. /\ IsFiniteSet(InterestTries(n))
      /\ Cardinality(InterestTries(n)) = m * Cardinality(orders)
  <2>1. InterestTries(n) = (1 .. m) \X orders
    BY DEF InterestTries, orders
  <2> HIDE DEF m
  <2>2. IsFiniteSet(1 .. m) /\ Cardinality(1 .. m) = m
    BY <1>4, <1>6
  <2>3. /\ IsFiniteSet((1 .. m) \X orders)
        /\ Cardinality((1 .. m) \X orders) = Cardinality(1 .. m) * Cardinality(orders)
    <3> DEFINE A == 1 .. m
    <3> HIDE DEF A
    <3>1. IsFiniteSet(A)
      BY <2>2 DEF A
    <3>2. IsFiniteSet(A \X orders) /\ Cardinality(A \X orders) = Cardinality(A) * Cardinality(orders)
      BY <1>1, <3>1, FS_Product
    <3>3. QED
      BY <3>2 DEF A
  <2>4. QED
    BY <2>1, <2>2, <2>3
<1>8. QED
  BY <1>1, <1>3, <1>5, <1>6, <1>7

\* The turns and the executions of a turn are numbers.
LEMMA CountTypes ==
  ASSUME InputInv, NEW s \in DetStage
  PROVE  Turns(s) \in Int /\ PerTurn(s) \in Nat
<1>1. len \in Nat /\ ByteBits \in Nat /\ ARITH_MAX \in Nat
  BY Constants, DetAssumption DEF InputInv
<1>2. len * ByteBits \in Nat
  BY <1>1
<1>3. /\ Len(interesting_8) \in Nat /\ Len(interesting_16) \in Nat
      /\ Len(interesting_32) \in Nat
  <2>1. interesting_8 \in Seq(Int) /\ interesting_16 \in Seq(Int) /\ interesting_32 \in Seq(Int)
    BY WordsAssumption
  <2>2. QED
    BY <2>1, LenProperties
<1>4. Len(extras) \in Nat /\ Used(a_extras) \in Nat
  BY LenProperties, DictionaryAssumption DEF InputInv, DictTypes, Used
<1>5. Turns(s) \in Int
  BY <1>1, <1>2 DEF Turns, DetStage
<1>6. PerTurn(s) \in Nat
  BY <1>1, <1>3, <1>4 DEF PerTurn, DetStage
<1>7. QED
  BY <1>5, <1>6

\* A turn makes as many executions as it is expected to, or takes those it does without
\* off stage_max.
Counted(tries, skipped) ==
  /\ tries \in Int /\ skipped \in Int /\ tries + skipped = PerTurn(stage)
  /\ stage_cur' = stage_cur + tries /\ stage_max' = stage_max - skipped

LEMMA WordTurnCounts ==
  ASSUME NEW s, NEW n, NEW T, IsFiniteSet(T), Cardinality(T) = PerTurn(s), PerTurn(s) \in Nat,
         NEW Worth(_, _), NEW Value(_, _), word_turn(s, n, T, Worth, Value)
  PROVE  stage = s /\ \E tries, skipped : Counted(tries, skipped)
<1>1. CASE Flagged(i, n)
  <2>1. PICK orig : \E tried \in {{t \in T : Worth(orig, t)}} :
          turn(s, {PutWord(out_buf, i, n, Value(orig, t)) : t \in tried},
               Cardinality(tried), Cardinality(T) - Cardinality(tried))
    BY <1>1 DEF word_turn
  <2>2. PICK tried : /\ tried \subseteq T
                     /\ \E bufs : turn(s, bufs, Cardinality(tried),
                                       Cardinality(T) - Cardinality(tried))
    BY <2>1
  <2>3. Cardinality(tried) \in Nat
    BY <2>2, FS_Subset, FS_CardinalityType
  <2> DEFINE a == Cardinality(tried)
             b == Cardinality(T) - Cardinality(tried)
  <2>4. stage = s /\ stage_cur' = stage_cur + a /\ stage_max' = stage_max - b
    BY <2>2 DEF turn
  <2>5. a \in Int /\ b \in Int /\ a + b = PerTurn(s)
    BY <2>3
  <2> HIDE DEF a, b
  <2>6. Counted(a, b)
    BY <2>4, <2>5 DEF Counted
  <2>7. QED
    BY <2>4, <2>6
<1>2. CASE ~Flagged(i, n)
  <2>1. turn(s, {}, 0, PerTurn(s))
    BY <1>2 DEF word_turn
  <2>2. Counted(0, PerTurn(s)) /\ stage = s
    BY <2>1 DEF turn, Counted
  <2>3. QED
    BY <2>2
<1>3. QED
  BY <1>1, <1>2

\* Any turn counts right.
LEMMA TurnCounts ==
  ASSUME InputInv, LengthInv, RestoredInv, DetTurn, ~next_stage
  PROVE  \E tries, skipped : Counted(tries, skipped)
<1>1. stage \in DetStage
  BY TurnEffect
<1>2. PerTurn(stage) \in Nat
  BY <1>1, CountTypes
<1>3. CASE flip1 \/ flip2 \/ flip4 \/ flip8
  <2>1. stage \in {"flip1", "flip2", "flip4", "flip8"} /\ \E bufs : turn(stage, bufs, 1, 0)
    BY <1>3 DEF flip1, flip2, flip4, flip8, turn
  <2>2. PerTurn(stage) = 1
    BY <2>1 DEF PerTurn
  <2>3. Counted(1, 0)
    BY <2>1, <2>2 DEF Counted, turn
  <2>4. QED
    BY <2>3
<1>4. CASE flip16 \/ flip32
  <2>1. stage \in {"flip16", "flip32"}
        /\ ((\E bufs : turn(stage, bufs, 1, 0)) \/ turn(stage, {}, 0, 1))
    BY <1>4 DEF flip16, flip32, flip_bytes
  <2>2. PerTurn(stage) = 1
    BY <2>1 DEF PerTurn
  <2>3. Counted(1, 0) \/ Counted(0, 1)
    BY <2>1, <2>2 DEF Counted, turn
  <2>4. QED
    BY <2>3
<1>5. ASSUME NEW s \in {"arith8", "arith16", "arith32"}, NEW n \in {1, 2, 4},
             s = "arith8" <=> n = 1, arith(s, n)
      PROVE  \E tries, skipped : Counted(tries, skipped)
  <2>1. Cardinality(ArithTries(n)) = PerTurn(s) /\ IsFiniteSet(ArithTries(n))
    BY <1>5, TriesOf DEF PerTurn
  <2>2. stage = s /\ PerTurn(s) \in Nat
    BY <1>2, <1>5 DEF arith, word_turn
  <2> DEFINE Worth(o, t) == WorthArith(n, o, t)
             Value(o, t) == ArithValue(n, o, t)
  <2>3. word_turn(s, n, ArithTries(n), Worth, Value)
    BY <1>5 DEF arith
  <2> HIDE DEF Worth, Value
  <2>4. QED
    BY <2>1, <2>2, <2>3, WordTurnCounts
<1>6. ASSUME NEW s \in {"int8", "int16", "int32"}, NEW n \in {1, 2, 4},
             s = "int8" <=> n = 1, s = "int16" <=> n = 2, interest(s, n)
      PROVE  \E tries, skipped : Counted(tries, skipped)
  <2>1. Cardinality(InterestTries(n)) = PerTurn(s) /\ IsFiniteSet(InterestTries(n))
    BY <1>6, TriesOf DEF PerTurn
  <2>2. stage = s /\ PerTurn(s) \in Nat
    BY <1>2, <1>6 DEF interest, word_turn
  <2> DEFINE Worth(o, t) == WorthInterest(n, o, t)
             Value(o, t) == InterestValue(n, t)
  <2>3. word_turn(s, n, InterestTries(n), Worth, Value)
    BY <1>6 DEF interest
  <2> HIDE DEF Worth, Value
  <2>4. QED
    BY <2>1, <2>2, <2>3, WordTurnCounts
<1>7. CASE arith8 \/ arith16 \/ arith32
  BY <1>5, <1>7 DEF arith8, arith16, arith32
<1>8. CASE int8 \/ int16 \/ int32
  BY <1>6, <1>8 DEF int8, int16, int32
<1>9. CASE ext_UO \/ ext_AO
  <2>1. stage \in {"ext_UO", "ext_AO"}
    BY <1>9 DEF ext_UO, ext_AO
  <2>2. PICK T, drawn :
          /\ T \in Seq(Seq(Byte)) /\ overwrite(stage, T, drawn)
          /\ ByLength(T) /\ Len(T) = PerTurn(stage)
    BY <2>1, OverwriteTurn
  <2> DEFINE runs == Overwrites(T, drawn).runs
             a == Len(runs)
             b == Len(T) - Len(runs)
  <2>3. a \in Nat /\ turn(stage, ToSet(runs), a, b)
    BY <2>1, <2>2, OverwriteEffect
  <2>4. a \in Int /\ b \in Int /\ a + b = PerTurn(stage)
    BY <1>2, <2>2, <2>3
  <2> HIDE DEF a, b
  <2>5. Counted(a, b)
    BY <2>3, <2>4 DEF Counted, turn
  <2>6. QED
    BY <2>5
<1>10. CASE ext_UI
  <2> DEFINE fits == {k \in 1 .. Len(extras) : len + Len(extras[k]) <= MAX_FILE}
             a == Cardinality(fits)
             b == Len(extras) - Cardinality(fits)
  <2>1. stage = "ext_UI" /\ \E bufs : turn("ext_UI", bufs, a, b)
    BY <1>10 DEF ext_UI
  <2>2. PerTurn(stage) = Len(extras) /\ Len(extras) \in Nat
    BY <1>2, <2>1 DEF PerTurn
  <2>3. a \in Nat
    <3>1. IsFiniteSet(1 .. Len(extras)) /\ fits \subseteq 1 .. Len(extras)
      BY <2>2, FS_Interval
    <3>2. QED
      BY <3>1, FS_Subset, FS_CardinalityType
  <2>4. a \in Int /\ b \in Int /\ a + b = PerTurn(stage)
    BY <2>2, <2>3
  <2> HIDE DEF a, b
  <2>5. Counted(a, b)
    BY <2>1, <2>4 DEF Counted, turn
  <2>6. QED
    BY <2>5
<1>11. QED
  BY <1>3, <1>4, <1>7, <1>8, <1>9, <1>10 DEF DetTurn

\* The turns that are left, after a turn.
LEMMA TurnKeepsCount ==
  ASSUME InputInv, LengthInv, RestoredInv, CountInv, DetTurn, ~next_stage
  PROVE  CountInv'
<1>1. /\ stage \in DetStage /\ i' = i + 1 /\ i \in Nat
      /\ UNCHANGED <<stage, len, extras>>
      /\ stage # "flip1" => a_extras' = a_extras
  BY TurnEffect DEF InputInv
<1> DEFINE P == PerTurn(stage)
           T == Turns(stage)
           more == IF stage = "ext_UI" THEN Len(extras) ELSE 0
<1>2. P \in Nat /\ T \in Int
  BY <1>1, CountTypes
<1>3. PerTurn(stage)' = P /\ Turns(stage)' = T
  BY <1>1 DEF PerTurn, Turns, DetStage
<1>4. more \in Int /\ more' = more
  <2>1. Len(extras) \in Nat
    BY LenProperties DEF InputInv, DictTypes
  <2>2. QED
    BY <1>1, <2>1
<1>5. PICK tries, skipped : Counted(tries, skipped)
  BY TurnCounts
<1>6. /\ tries \in Int /\ skipped \in Int /\ tries + skipped = P
      /\ stage_cur' = stage_cur + tries /\ stage_max' = stage_max - skipped
  BY <1>5 DEF Counted
<1>7. /\ stage_cur \in Int /\ stage_max \in Int
      /\ stage_cur + P * (T - i) = stage_max + more
  BY <1>1 DEF CountInv
<1> HIDE DEF P, T, more
<1>8. P * (T - i) = P * (T - (i + 1)) + P
  BY <1>1, <1>2
<1>9. P * (T - i) \in Int /\ P * (T - (i + 1)) \in Int
  BY <1>1, <1>2
<1>10. /\ stage_cur' \in Int /\ stage_max' \in Int
       /\ stage_cur' + P * (T - (i + 1)) = stage_max' + more
  <2> DEFINE x == P * (T - i)
             y == P * (T - (i + 1))
  <2>1. x \in Int /\ y \in Int /\ x = y + P /\ stage_cur + x = stage_max + more
    BY <1>7, <1>8, <1>9
  <2> HIDE DEF x, y
  <2>2. stage_cur' + y = stage_max' + more /\ stage_cur' \in Int /\ stage_max' \in Int
    BY <1>2, <1>4, <1>6, <1>7, <2>1
  <2>3. QED
    BY <2>2 DEF y
<1>11. stage' \notin {"map", "trim"}
  BY <1>1 DEF DetStage
<1>12. stage_cur' + PerTurn(stage)' * (Turns(stage)' - i') =
         stage_max' + (IF stage' = "ext_UI" THEN Len(extras') ELSE 0)
  BY <1>1, <1>3, <1>4, <1>10 DEF more
<1>13. QED
  BY <1>10, <1>11, <1>12 DEF CountInv

\* And at the start of a stage.
LEMMA MoveKeepsCount ==
  ASSUME InputInv, LengthInv, next_stage
  PROVE  CountInv'
<1>1. /\ stage' \in DetStage \cup {"det_done"} /\ i' = 0 /\ UNCHANGED <<len, extras, a_extras>>
  BY MoveEffect
<1>2. stage' \notin {"map", "trim"}
  BY <1>1 DEF DetStage
<1>3. stage_cur' = 0 /\ stage_max' = IF stage' \in DetStage THEN Expected(stage') ELSE 0
  BY DEF next_stage
<1>4. ASSUME stage' \in DetStage
      PROVE  /\ stage_cur' \in Int /\ stage_max' \in Int
             /\ stage_cur' + PerTurn(stage)' * (Turns(stage)' - i') =
                  stage_max' + (IF stage' = "ext_UI" THEN Len(extras') ELSE 0)
  <2> DEFINE P == PerTurn(stage')
             T == Turns(stage')
  <2>1. P \in Nat /\ T \in Int
    BY <1>4, CountTypes
  <2>2. PerTurn(stage)' = P /\ Turns(stage)' = T
    BY <1>1, <1>4 DEF PerTurn, Turns, DetStage
  <2>3. stage_max' = P * (IF stage' = "ext_UI" THEN len ELSE T)
    BY <1>3, <1>4 DEF Expected
  <2>4. stage' = "ext_UI" => P = Len(extras) /\ T = len + 1
    BY DEF PerTurn, Turns
  <2>5. len \in Nat
    BY DEF InputInv
  <2> HIDE DEF P, T
  <2>6. CASE stage' = "ext_UI"
    <3>1. P * (len + 1) = P * len + P /\ P * len \in Int
      BY <2>1, <2>5
    <3>2. QED
      BY <1>1, <1>3, <2>1, <2>2, <2>3, <2>4, <2>5, <2>6, <3>1
  <2>7. CASE stage' # "ext_UI"
    <3>1. P * T \in Int /\ T - 0 = T
      BY <2>1
    <3>2. QED
      BY <1>1, <1>3, <2>1, <2>2, <2>3, <2>7, <3>1
  <2>8. QED
    BY <2>6, <2>7
<1>5. QED
  BY <1>2, <1>4 DEF CountInv

\* What is left of a stage.
LEMMA AlwaysCounts == Spec => []CountInv
<1>1. Init => CountInv
  BY DEF Init, CountInv, DetStage
<1>2. InputInv /\ LengthInv /\ RestoredInv /\ CountInv /\ [Next]_vars => CountInv'
  <2>1. ASSUME InputInv, LengthInv, RestoredInv, CountInv, det_turn PROVE CountInv'
    BY <2>1, TurnKeepsCount, MoveKeepsCount DEF det_turn
  <2>2. ASSUME InputInv, LengthInv, CountInv, trim_and_score PROVE CountInv'
    <3>1. /\ i' = i /\ stage_cur' = stage_cur /\ i = 0 /\ stage_cur = 0
          /\ stage' \in {"havoc_stage", "flip1"}
          /\ stage_max' = IF passed_det THEN 0 ELSE len' * ByteBits
          /\ stage' = "flip1" => ~passed_det
      BY <2>2 DEF trim_and_score, CountInv
    <3>2. len' \in Nat
      <4>1. ~det_turn /\ Next
        BY <2>2 DEF Next, det_turn, DetTurn, trim_and_score, turn, flip1, flip2, flip4, flip8,
           flip16, flip32, flip_bytes, arith8, arith16, arith32, int8, int16, int32, arith,
           interest, word_turn, ext_UO, ext_UI, ext_AO, next_stage, DetStage
      <4>2. QED
        BY <2>2, <4>1, OthersKeepInput DEF InputInv
    <3>3. len' * ByteBits \in Int
      BY <3>2, Constants
    <3>4. stage' = "flip1" => /\ PerTurn(stage)' = 1 /\ Turns(stage)' = len' * ByteBits
                              /\ stage_max' = len' * ByteBits
      BY <3>1 DEF PerTurn, Turns
    <3>5. QED
      BY <3>1, <3>3, <3>4 DEF CountInv, DetStage
  <2>3. ASSUME CountInv, Next, ~det_turn, ~trim_and_score PROVE CountInv'
    <3>1. stage' \notin DetStage /\ stage' # "map" /\ (stage' = "trim" => map_input)
      BY <2>3 DEF Next, map_input, trim_and_score, stop_trimming, abandon_det,
         mark_as_det_done, havoc_stage, change_value, delete_bytes, clone_bytes,
         overwrite_bytes, overwrite_with_extra, insert_extra, tweak, InStack, run_havoc,
         abandon_havoc, end_havoc, splice_fails, splice_with_target, finish, abandon_entry,
         DetStage
    <3>2. map_input => i' = i /\ stage_cur' = stage_cur /\ i = 0 /\ stage_cur = 0
      BY <2>3 DEF map_input, CountInv
    <3>3. QED
      BY <3>1, <3>2 DEF CountInv
  <2>4. ASSUME CountInv, UNCHANGED vars PROVE CountInv'
    BY <2>4 DEF vars, detVars, bufVars, dictTables, CountInv, PerTurn, Turns, Used
  <2>5. QED
    BY <2>1, <2>2, <2>3, <2>4
<1>3. QED
  BY <1>1, <1>2, AlwaysLengths, AlwaysRestored, PTL DEF Spec

\* For inputs, dictionaries and tables of any size: at the end of a stage as many inputs
\* have been run as stage_max says after all corrections for what was skipped.
THEOREM CountsCorrect == Spec => []StageCountsExact
<1>1. InputInv /\ CountInv => StageCountsExact
  <2> SUFFICES ASSUME InputInv, CountInv, stage \in DetStage, i = Turns(stage)
               PROVE  stage_cur = stage_max + (IF stage = "ext_UI" THEN Len(extras) ELSE 0)
    BY DEF StageCountsExact
  <2> DEFINE P == PerTurn(stage)
             T == Turns(stage)
  <2>1. P \in Nat /\ T \in Int
    BY CountTypes
  <2>2. /\ stage_cur \in Int
        /\ stage_cur + P * (T - i) = stage_max + (IF stage = "ext_UI" THEN Len(extras) ELSE 0)
    BY DEF CountInv
  <2>3. i = T
    OBVIOUS
  <2> HIDE DEF P, T
  <2>4. P * (T - i) = 0
    BY <2>1, <2>3
  <2>5. QED
    BY <2>2, <2>4
<1>2. QED
  BY <1>1, AlwaysLengths, AlwaysCounts, PTL

-----------------------------------------------------------------------------
(* The tokens found.                                                       *)

\* From one bit to the next.
LEMMA NextBit ==
  ASSUME NEW b \in Nat, NEW m \in Nat \ {0}
  PROVE  /\ b \div m \in Nat
         /\ b % m = m - 1 => (b + 1) \div m = (b \div m) + 1 /\ b + 1 = m * ((b \div m) + 1)
         /\ b % m # m - 1 => (b + 1) \div m = b \div m
<1> DEFINE q == b \div m
           r == b % m
           q2 == (b + 1) \div m
           r2 == (b + 1) % m
<1>1. q \in Nat /\ r \in 0 .. m - 1 /\ b = m * q + r
  OBVIOUS
<1>2. q2 \in Nat /\ r2 \in 0 .. m - 1 /\ b + 1 = m * q2 + r2
  OBVIOUS
<1> HIDE DEF q, r, q2, r2
<1>3. ASSUME NEW x \in Nat, NEW y \in Nat, NEW u \in 0 .. m - 1, NEW v \in 0 .. m - 1,
             m * x + u = m * y + v
      PROVE  x = y
  <2>1. ASSUME x < y PROVE FALSE
    <3>1. m * y >= m * (x + 1)
      BY <2>1
    <3>2. m * (x + 1) = m * x + m
      OBVIOUS
    <3>3. QED
      BY <1>3, <3>1, <3>2
  <2>2. ASSUME y < x PROVE FALSE
    <3>1. m * x >= m * (y + 1)
      BY <2>2
    <3>2. m * (y + 1) = m * y + m
      OBVIOUS
    <3>3. QED
      BY <1>3, <3>1, <3>2
  <2>3. QED
    BY <2>1, <2>2
<1>4. CASE r = m - 1
  <2>1. b + 1 = m * (q + 1) + 0 /\ q + 1 \in Nat /\ 0 \in 0 .. m - 1
    BY <1>1, <1>4
  <2>2. m * q2 + r2 = m * (q + 1) + 0
    BY <1>2, <2>1
  <2>3. q2 = q + 1
    BY <1>2, <1>3, <2>1, <2>2
  <2>4. QED
    BY <1>1, <1>4, <2>1, <2>3 DEF q, r, q2
<1>5. CASE r # m - 1
  <2>1. b + 1 = m * q + (r + 1) /\ r + 1 \in 0 .. m - 1
    BY <1>1, <1>5
  <2>2. m * q2 + r2 = m * q + (r + 1)
    BY <1>2, <2>1
  <2>3. q2 = q
    BY <1>1, <1>2, <1>3, <2>1, <2>2
  <2>4. QED
    BY <1>1, <1>5, <2>3 DEF q, r, q2
<1>6. QED
  BY <1>4, <1>5

\* What one more checksum completes: nothing, or the last run.
LEMMA RunsStep ==
  ASSUME NEW L \in Nat, NEW n \in Nat, n < L, NEW c,
         \A k \in 1 .. n : cksums'[k] = cksums[k], cksums'[n + 1] = c,
         prev_cksum = IF n = 0 THEN 0 ELSE cksums[n]
  PROVE  /\ prev_cksum = 0 => Closed(cksums', n + 1, L) = Closed(cksums, n, L)
         /\ \A s \in 0 .. n - 1 : prev_cksum # 0 /\ LastRun(cksums, n, s, prev_cksum) =>
              LET last == <<s + 1, IF c # prev_cksum THEN n ELSE n + 1>>
              IN  Closed(cksums', n + 1, L) = Closed(cksums, n, L) \cup
                    (IF Admissible(last) /\ (c # prev_cksum \/ n + 1 = L) THEN {last} ELSE {})
<1> DEFINE R == (1 .. L) \X (1 .. L)
<1>1. MIN_AUTO_EXTRA \in Nat /\ MIN_AUTO_EXTRA > 1
  BY Constants
<1>2. ASSUME NEW r \in R, Admissible(r) PROVE r[1] < r[2] /\ r[1] \in Nat /\ r[2] \in Nat
  BY <1>1, <1>2 DEF Admissible
<1>3. ASSUME NEW r \in R, Admissible(r), r[2] < n
      PROVE  MaxRun(cksums', L, r[1], r[2]) <=> MaxRun(cksums, L, r[1], r[2])
  <2>1. r[1] < r[2] /\ r[1] \in Nat /\ r[2] \in Nat
    BY <1>2, <1>3
  <2>2. /\ r[1] \in 1 .. n /\ (r[1] > 1 => r[1] - 1 \in 1 .. n) /\ r[2] + 1 \in 1 .. n
        /\ \A k \in r[1] .. r[2] : k \in 1 .. n
    BY <1>3, <2>1
  <2>3. QED
    BY <2>2 DEF MaxRun
<1>4. ASSUME NEW r \in R
      PROVE  r \in Closed(cksums, n, L) <=>
               Admissible(r) /\ r[2] < n /\ MaxRun(cksums, L, r[1], r[2])
  BY DEF Closed
<1>5. ASSUME NEW r \in R
      PROVE  r \in Closed(cksums', n + 1, L) <=>
               /\ Admissible(r) /\ MaxRun(cksums', L, r[1], r[2])
               /\ r[2] < n \/ r[2] = n \/ (r[2] = n + 1 /\ n + 1 = L)
  BY DEF Closed
<1>6. ASSUME NEW r \in R, Admissible(r), r[2] \in {n, n + 1}, MaxRun(cksums', L, r[1], r[2])
      PROVE  /\ prev_cksum # 0 /\ r[1] \in 1 .. n /\ cksums'[r[1]] = prev_cksum
             /\ r[2] = n => c # prev_cksum
             /\ r[2] = n + 1 => c = prev_cksum
  <2>1. r[1] < r[2] /\ r[1] \in Nat /\ r[2] \in Nat /\ r[1] \in 1 .. n /\ n > 0
    BY <1>2, <1>6
  <2>2. n \in r[1] .. r[2]
    BY <1>6, <2>1
  <2>3. /\ cksums'[n] = cksums'[r[1]] /\ cksums'[r[1]] # 0
        /\ r[2] < L => cksums'[r[2] + 1] # cksums'[r[1]]
    BY <1>6, <2>2 DEF MaxRun
  <2>4. cksums'[n] = prev_cksum
    BY <2>1
  <2>5. r[2] = n + 1 => cksums'[n + 1] = cksums'[r[1]]
    <3>1. r[2] = n + 1 => n + 1 \in r[1] .. r[2]
      BY <2>1
    <3>2. QED
      BY <1>6, <3>1 DEF MaxRun
  <2>6. QED
    BY <2>1, <2>3, <2>4, <2>5
<1>7. Closed(cksums, n, L) \subseteq R /\ Closed(cksums', n + 1, L) \subseteq R
  BY DEF Closed
<1>8. ASSUME prev_cksum = 0 PROVE Closed(cksums', n + 1, L) = Closed(cksums, n, L)
  <2>1. ASSUME NEW r \in R PROVE r \in Closed(cksums', n + 1, L) <=> r \in Closed(cksums, n, L)
    <3>1. CASE ~Admissible(r)
      BY <1>4, <1>5, <3>1
    <3>2. CASE Admissible(r) /\ r[2] < n
      BY <1>3, <1>4, <1>5, <3>2
    <3>3. CASE Admissible(r) /\ ~(r[2] < n)
      <4>1. r \notin Closed(cksums, n, L)
        BY <1>4, <3>3
      <4>2. ASSUME r \in Closed(cksums', n + 1, L) PROVE FALSE
        <5>1. r[2] \in {n, n + 1} /\ MaxRun(cksums', L, r[1], r[2])
          BY <1>5, <3>3, <4>2
        <5>2. QED
          BY <1>6, <1>8, <3>3, <5>1
      <4>3. QED
        BY <4>1, <4>2
    <3>4. QED
      BY <3>1, <3>2, <3>3
  <2>2. QED
    BY <1>7, <2>1
<1>9. ASSUME NEW s \in 0 .. n - 1, prev_cksum # 0, LastRun(cksums, n, s, prev_cksum)
      PROVE  LET last == <<s + 1, IF c # prev_cksum THEN n ELSE n + 1>>
             IN  Closed(cksums', n + 1, L) = Closed(cksums, n, L) \cup
                   (IF Admissible(last) /\ (c # prev_cksum \/ n + 1 = L) THEN {last} ELSE {})
  <2> DEFINE e == IF c # prev_cksum THEN n ELSE n + 1
             last == <<s + 1, e>>
             fresh == Admissible(last) /\ (c # prev_cksum \/ n + 1 = L)
  <2>1. LastRun(cksums', n, s, prev_cksum)
    <3>1. \A k \in s + 1 .. n : k \in 1 .. n
      OBVIOUS
    <3>2. s > 0 => s \in 1 .. n
      OBVIOUS
    <3>3. QED
      BY <1>9, <3>1, <3>2 DEF LastRun
  <2>2. s + 1 \in 1 .. n /\ e \in Nat /\ s + 1 \in 1 .. L
    OBVIOUS
  <2>3. ASSUME NEW p \in 1 .. n
        PROVE  /\ (\A k \in p .. n : cksums'[k] = cksums'[p])
                 /\ (p > 1 => cksums'[p - 1] # cksums'[p]) => p = s + 1
               /\ p = s + 1 => /\ cksums'[p] = prev_cksum
                               /\ \A k \in p .. n : cksums'[k] = cksums'[p]
                               /\ p > 1 => cksums'[p - 1] # cksums'[p]
    <3>1. /\ \A k \in s + 1 .. n : cksums'[k] = prev_cksum
          /\ s > 0 => cksums'[s] # prev_cksum
      BY <2>1 DEF LastRun
    <3>2. ASSUME \A k \in p .. n : cksums'[k] = cksums'[p],
                 p > 1 => cksums'[p - 1] # cksums'[p], p # s + 1
          PROVE  FALSE
      <4>1. cksums'[p] = prev_cksum
        <5>1. n \in p .. n /\ n \in s + 1 .. n
          OBVIOUS
        <5>2. cksums'[n] = cksums'[p] /\ cksums'[n] = prev_cksum
          BY <3>1, <3>2, <5>1
        <5>3. QED
          BY <5>2
      <4>2. CASE p > s + 1
        <5>1. p - 1 \in s + 1 .. n /\ p > 1
          BY <4>2
        <5>2. QED
          BY <3>1, <3>2, <4>1, <5>1
      <4>3. CASE p <= s
        <5>1. s \in p .. n /\ s > 0
          BY <4>3
        <5>2. QED
          BY <3>1, <3>2, <4>1, <5>1
      <4>4. QED
        BY <3>2, <4>2, <4>3
    <3>3. ASSUME p = s + 1
          PROVE  /\ cksums'[p] = prev_cksum /\ \A k \in p .. n : cksums'[k] = cksums'[p]
                 /\ p > 1 => cksums'[p - 1] # cksums'[p]
      <4>1. p \in s + 1 .. n /\ p - 1 = s
        BY <3>3
      <4>2. QED
        BY <3>1, <3>3, <4>1
    <3>4. QED
      BY <3>2, <3>3
  <2>4. /\ cksums'[s + 1] = prev_cksum /\ (\A k \in s + 1 .. n : cksums'[k] = cksums'[s + 1])
        /\ s + 1 > 1 => cksums'[s + 1 - 1] # cksums'[s + 1]
    BY <2>2, <2>3
  <2>5. ASSUME fresh PROVE last \in R /\ last \in Closed(cksums', n + 1, L)
    <3>1. e \in 1 .. L /\ last \in R /\ last[1] = s + 1 /\ last[2] = e
      BY <2>2, <2>5
    <3>2. \A k \in s + 1 .. e : cksums'[k] = cksums'[s + 1]
      <4>1. CASE c # prev_cksum
        BY <2>4, <4>1
      <4>2. CASE c = prev_cksum
        <5>1. \A k \in s + 1 .. e : k \in s + 1 .. n \/ k = n + 1
          BY <4>2
        <5>2. QED
          BY <2>4, <4>2, <5>1
      <4>3. QED
        BY <4>1, <4>2
    <3>3. e < L => cksums'[e + 1] # cksums'[s + 1]
      BY <2>4, <2>5
    <3>4. MaxRun(cksums', L, last[1], last[2])
      <4>1. MaxRun(cksums', L, s + 1, e)
        BY <1>9, <2>4, <3>2, <3>3 DEF MaxRun
      <4>2. QED
        BY <3>1, <4>1
    <3>5. last[2] = n \/ (last[2] = n + 1 /\ n + 1 = L)
      BY <2>5, <3>1
    <3> HIDE DEF last, e
    <3>6. QED
      BY <1>5, <2>5, <3>1, <3>4, <3>5
  <2>6. ASSUME NEW r \in R, r \in Closed(cksums', n + 1, L), ~(r[2] < n) PROVE r = last /\ fresh
    <3>1. /\ Admissible(r) /\ MaxRun(cksums', L, r[1], r[2]) /\ r[2] \in {n, n + 1}
          /\ r[2] = n + 1 => n + 1 = L
      BY <1>5, <2>6
    <3>2. /\ r[1] \in 1 .. n
          /\ r[2] = n => c # prev_cksum
          /\ r[2] = n + 1 => c = prev_cksum
      BY <1>6, <3>1
    <3>3. r[2] = e
      BY <3>1, <3>2
    <3>4. r[1] \in 1 .. n /\ r[1] \in Nat /\ r[2] \in Nat
      BY <1>2, <1>6, <3>1
    <3>5. /\ cksums'[r[1]] # 0 /\ (\A k \in r[1] .. n : cksums'[k] = cksums'[r[1]])
          /\ r[1] > 1 => cksums'[r[1] - 1] # cksums'[r[1]]
      <4>1. \A k \in r[1] .. n : k \in r[1] .. r[2]
        BY <3>1, <3>4
      <4>2. QED
        BY <3>1, <4>1 DEF MaxRun
    <3>6. r[1] = s + 1
      <4> DEFINE p == r[1]
      <4>1. /\ p \in 1 .. n /\ cksums'[p] # 0 /\ (\A k \in p .. n : cksums'[k] = cksums'[p])
            /\ p > 1 => cksums'[p - 1] # cksums'[p]
        BY <3>4, <3>5
      <4> HIDE DEF p
      <4>2. p = s + 1
        BY <2>3, <4>1
      <4>3. QED
        BY <4>2 DEF p
    <3>7. r = last
      BY <3>3, <3>6
    <3> HIDE DEF last
    <3>8. QED
      BY <3>1, <3>2, <3>7
  <2>7. ASSUME NEW r \in R, r[2] < n
        PROVE  (r \in Closed(cksums', n + 1, L) <=> r \in Closed(cksums, n, L)) /\ r # last
    <3>1. r # last
      BY <2>2, <2>7
    <3>2. CASE Admissible(r)
      BY <1>3, <1>4, <1>5, <2>7, <3>1, <3>2
    <3>3. CASE ~Admissible(r)
      BY <1>4, <1>5, <3>1, <3>3
    <3>4. QED
      BY <3>2, <3>3
  <2>8. ASSUME NEW r \in Closed(cksums, n, L) PROVE r \in R /\ r[2] < n
    BY <1>4, <1>7
  <2> HIDE DEF last, fresh
  <2>9. ASSUME NEW r \in Closed(cksums', n + 1, L)
        PROVE  r \in Closed(cksums, n, L) \cup (IF fresh THEN {last} ELSE {})
    BY <1>7, <2>6, <2>7
  <2>10. ASSUME NEW r \in Closed(cksums, n, L) \cup (IF fresh THEN {last} ELSE {})
        PROVE  r \in Closed(cksums', n + 1, L)
    BY <2>5, <2>7, <2>8
  <2>11. Closed(cksums', n + 1, L) = Closed(cksums, n, L) \cup (IF fresh THEN {last} ELSE {})
    BY <2>9, <2>10
  <2>12. QED
    BY <2>11 DEF last, fresh, e
<1>10. QED
  BY <1>8, <1>9

\* The last bit of a byte, and of the input.
LEMMA LastBit ==
  ASSUME NEW b \in Nat, NEW L \in Nat, NEW m \in Nat \ {0}, b < L * m, b % m = m - 1
  PROVE  /\ b \div m < L /\ (b + 1) \div m = (b \div m) + 1
         /\ b + 1 <= L * m /\ (b + 1 = L * m <=> (b \div m) + 1 = L)
<1> DEFINE q == b \div m
<1>1. q \in Nat /\ q < L /\ (b + 1) \div m = q + 1 /\ b + 1 = m * (q + 1)
  BY ByteOfBit, NextBit
<1> HIDE DEF q
<1>2. L * m \in Nat /\ b + 1 <= L * m
  OBVIOUS
<1>3. ASSUME q + 1 < L PROVE b + 1 < L * m
  <2>1. m * (q + 2) <= m * L
    BY <1>1, <1>3
  <2>2. m * (q + 2) = m * (q + 1) + m /\ m * L = L * m
    BY <1>1
  <2>3. QED
    BY <1>1, <2>1, <2>2
<1>4. QED
  BY <1>1, <1>2, <1>3 DEF q

\* A token more.
LEMMA TokenAdded ==
  ASSUME NEW S, NEW ts \in Seq(S), NEW t \in S
  PROVE  Append(ts, t) \in Seq(S) /\ ToSet(Append(ts, t)) = ToSet(ts) \cup {t}
<1> DEFINE u == Append(ts, t)
           n == Len(ts)
<1>1. /\ n \in Nat /\ u \in Seq(S) /\ Len(u) = n + 1 /\ u[n + 1] = t
      /\ \A k \in 1 .. n : u[k] = ts[k]
  BY AppendProperties, LenProperties
<1>2. DOMAIN u = 1 .. n + 1 /\ DOMAIN ts = 1 .. n
  BY <1>1, LenProperties
<1> HIDE DEF u, n
<1>3. ToSet(u) = ToSet(ts) \cup {t}
  <2>1. ASSUME NEW x \in ToSet(u) PROVE x \in ToSet(ts) \cup {t}
    <3>1. PICK k \in 1 .. n + 1 : x = u[k]
      BY <1>2, <2>1 DEF ToSet
    <3>2. k \in 1 .. n \/ k = n + 1
      BY <1>1
    <3>3. QED
      BY <1>1, <1>2, <3>1, <3>2 DEF ToSet
  <2>2. ASSUME NEW x \in ToSet(ts) PROVE x \in ToSet(u)
    <3>1. PICK k \in 1 .. n : x = ts[k]
      BY <1>2, <2>2 DEF ToSet
    <3>2. k \in 1 .. n + 1 /\ u[k] = x
      BY <1>1, <3>1
    <3>3. QED
      BY <1>2, <3>2 DEF ToSet
  <2>3. t \in ToSet(u)
    <3>1. n + 1 \in 1 .. n + 1
      BY <1>1
    <3>2. QED
      BY <1>1, <1>2, <3>1 DEF ToSet
  <2>4. QED
    BY <2>1, <2>2, <2>3
<1>4. QED
  BY <1>1, <1>3 DEF u

\* Some run is longer by a byte.
LEMMA RunGrows ==
  ASSUME NEW buf \in Seq(Byte), NEW p \in Nat, NEW n \in Nat, p <= n, n < Len(buf)
  PROVE  /\ Len(SubSeq(buf, p + 1, n)) = n - p /\ SubSeq(buf, p + 1, n) \in Seq(Byte)
         /\ Append(SubSeq(buf, p + 1, n), buf[n + 1]) = SubSeq(buf, p + 1, n + 1)
<1>1. Len(buf) \in Nat
  BY LenProperties
<1> DEFINE s == SubSeq(buf, p + 1, n)
           t == SubSeq(buf, p + 1, n + 1)
<1>2. n - p \in Nat /\ p + (n - p) = n /\ p + (n - p) <= Len(buf)
  BY <1>1
<1>3. s \in Seq(Byte) /\ Len(s) = n - p /\ \A k \in 1 .. n - p : s[k] = buf[p + k]
  <2> DEFINE d == n - p
  <2>1. d \in Nat /\ p + d = n /\ p + d <= Len(buf)
    BY <1>2
  <2> HIDE DEF d
  <2>2. /\ SubSeq(buf, p + 1, p + d) \in Seq(Byte) /\ Len(SubSeq(buf, p + 1, p + d)) = d
        /\ \A k \in 1 .. d : SubSeq(buf, p + 1, p + d)[k] = buf[p + k]
    BY <2>1, ReadBytes
  <2>3. QED
    BY <2>1, <2>2 DEF d
<1>4. t \in Seq(Byte) /\ Len(t) = n - p + 1 /\ \A k \in 1 .. n - p + 1 : t[k] = buf[p + k]
  <2> DEFINE d == n - p + 1
  <2>1. d \in Nat /\ p + d = n + 1 /\ p + d <= Len(buf)
    BY <1>1, <1>2
  <2> HIDE DEF d
  <2>2. /\ SubSeq(buf, p + 1, p + d) \in Seq(Byte) /\ Len(SubSeq(buf, p + 1, p + d)) = d
        /\ \A k \in 1 .. d : SubSeq(buf, p + 1, p + d)[k] = buf[p + k]
    BY <2>1, ReadBytes
  <2>3. QED
    BY <2>1, <2>2 DEF d
<1>5. buf[n + 1] \in Byte
  BY <1>1, ElementOfSeq
<1> HIDE DEF s, t
<1>6. /\ Append(s, buf[n + 1]) \in Seq(Byte) /\ Len(Append(s, buf[n + 1])) = n - p + 1
      /\ \A k \in 1 .. n - p : Append(s, buf[n + 1])[k] = s[k]
      /\ Append(s, buf[n + 1])[n - p + 1] = buf[n + 1]
  BY <1>3, <1>5, AppendProperties
<1>7. \A k \in 1 .. n - p + 1 : Append(s, buf[n + 1])[k] = t[k]
  <2> SUFFICES ASSUME NEW k \in 1 .. n - p + 1 PROVE Append(s, buf[n + 1])[k] = t[k]
    OBVIOUS
  <2>1. CASE k = n - p + 1
    BY <1>4, <1>6, <2>1
  <2>2. CASE k \in 1 .. n - p
    BY <1>3, <1>4, <1>6, <2>2
  <2>3. k = n - p + 1 \/ k \in 1 .. n - p
    BY <1>2
  <2>4. QED
    BY <2>1, <2>2, <2>3
<1>8. Append(s, buf[n + 1]) = t
  BY <1>4, <1>6, <1>7, SeqEqual
<1>9. QED
  BY <1>3, <1>8 DEF s, t

\* The set of tokens of a set of runs.
TokensOf(R) == {SubSeq(in_buf, r[1], r[2]) : r \in R}

\* One more run, one more token.
LEMMA RunAdded ==
  ASSUME NEW R, NEW p, NEW q
  PROVE  TokensOf(R \cup {<<p, q>>}) = TokensOf(R) \cup {SubSeq(in_buf, p, q)}
<1> DEFINE last == <<p, q>>
           run(r) == SubSeq(in_buf, r[1], r[2])
<1>1. run(last) = SubSeq(in_buf, p, q)
  OBVIOUS
<1>2. /\ TokensOf(R) = {run(r) : r \in R}
      /\ TokensOf(R \cup {last}) = {run(r) : r \in R \cup {last}}
  BY DEF TokensOf
<1> HIDE DEF last, run
<1>3. {run(r) : r \in R \cup {last}} = {run(r) : r \in R} \cup {run(last)}
  OBVIOUS
<1>4. QED
  BY <1>1, <1>2, <1>3 DEF last

\* One more checksum, and what becomes of the string that is being collected.
LEMMA CollectKeeps ==
  ASSUME InputInv, LengthInv, TokenInv, stage = "flip1", i < len * ByteBits,
         i % ByteBits = ByteBits - 1, NEW c \in Cksums, collect_token(c),
         UNCHANGED <<stage, in_buf, len>>, i' = i + 1
  PROVE  TokenInv'
<1> DEFINE n == Len(cksums)
           byte == out_buf[i \div ByteBits + 1]
           final == i = Turns("flip1") - 1 /\ c = prev_cksum
           changed == c # prev_cksum
           grabbed == IF final THEN Append(a_collect, byte) ELSE a_collect
           kept == IF changed THEN <<>> ELSE grabbed
           fits == (final \/ changed) /\ Len(grabbed) \in MIN_AUTO_EXTRA .. MAX_AUTO_EXTRA
<1>1. /\ i \in Nat /\ len = Len(in_buf) /\ len \in Nat /\ in_buf \in Seq(Byte)
      /\ out_buf = in_buf /\ ByteBits \in Nat \ {0}
      /\ cksums \in Seq(Cksums) /\ n = i \div ByteBits /\ tokens \in Seq(Seq(Byte))
      /\ prev_cksum = IF n = 0 THEN 0 ELSE cksums[n]
      /\ n \in Nat
      /\ ToSet(tokens) = TokensOf(Closed(cksums, n, len))
  <2>1. cksums = <<>> <=> n = 0
    BY EmptySeq DEF TokenInv
  <2>2. QED
    BY <2>1, Constants, LenProperties DEF InputInv, LengthInv, TokenInv, TokensOf, DetStage
<1>2. /\ n < len /\ (i + 1) \div ByteBits = n + 1 /\ i + 1 <= len * ByteBits
      /\ i = Turns("flip1") - 1 <=> n + 1 = len
  <2>1. /\ i \div ByteBits < len /\ (i + 1) \div ByteBits = (i \div ByteBits) + 1
        /\ i + 1 <= len * ByteBits
        /\ i + 1 = len * ByteBits <=> (i \div ByteBits) + 1 = len
    BY <1>1, LastBit
  <2>2. Turns("flip1") = len * ByteBits /\ len * ByteBits \in Nat
    BY <1>1 DEF Turns
  <2>3. QED
    BY <1>1, <2>1, <2>2
<1>3. byte = in_buf[n + 1] /\ byte \in Byte
  <2>1. n + 1 \in 1 .. Len(in_buf)
    BY <1>1, <1>2
  <2>2. QED
    BY <1>1, <2>1, ElementOfSeq
<1>4. /\ cksums' = Append(cksums, c) /\ prev_cksum' = c
      /\ tokens' = IF fits THEN Append(tokens, grabbed) ELSE tokens
      /\ a_collect' = IF c # 0 THEN Append(kept, byte) ELSE kept
  BY DEF collect_token
<1>5. /\ cksums' \in Seq(Cksums) /\ Len(cksums') = n + 1 /\ cksums'[n + 1] = c
      /\ \A k \in 1 .. n : cksums'[k] = cksums[k]
  <2>1. cksums' = Append(cksums, c)
    BY <1>4
  <2>2. QED
    BY <1>1, <2>1, AppendProperties
<1>6. /\ prev_cksum = 0 => Closed(cksums', n + 1, len) = Closed(cksums, n, len)
      /\ \A s \in 0 .. n - 1 : prev_cksum # 0 /\ LastRun(cksums, n, s, prev_cksum) =>
           LET last == <<s + 1, IF c # prev_cksum THEN n ELSE n + 1>>
           IN  Closed(cksums', n + 1, len) = Closed(cksums, n, len) \cup
                 (IF Admissible(last) /\ (c # prev_cksum \/ n + 1 = len) THEN {last} ELSE {})
  <2>1. /\ len \in Nat /\ n \in Nat /\ n < len /\ (\A k \in 1 .. n : cksums'[k] = cksums[k])
        /\ cksums'[n + 1] = c /\ prev_cksum = IF n = 0 THEN 0 ELSE cksums[n]
    BY <1>1, <1>2, <1>5
  <2> HIDE DEF n
  <2>2. QED
    BY <2>1, RunsStep
<1>7. SUFFICES
        /\ tokens' \in Seq(Seq(Byte)) /\ ToSet(tokens') = TokensOf(Closed(cksums', n + 1, len))
        /\ n + 1 < len =>
             \/ c = 0 /\ a_collect' = <<>>
             \/ c # 0 /\ \E s \in 0 .. n :
                  /\ LastRun(cksums', n + 1, s, c)
                  /\ a_collect' = SubSeq(in_buf, s + 1, n + 1)
  <2>1. n + 1 - 1 = n /\ cksums' # <<>> /\ stage' \notin {"map", "trim"}
    BY <1>1, <1>5, EmptySeq
  <2>2. TokensOf(Closed(cksums', n + 1, len)) =
          {SubSeq(in_buf', r[1], r[2]) : r \in Closed(cksums', Len(cksums'), len')}
    BY <1>5 DEF TokensOf
  <2> HIDE DEF n, grabbed, kept, fits
  <2>3. QED
    <3>1. stage' = "flip1" /\ i' = i + 1 /\ len' = len /\ in_buf' = in_buf
          /\ Len(cksums') = n + 1 /\ prev_cksum' = c /\ 0 .. Len(cksums') - 1 = 0 .. n
      BY <1>1, <1>4, <1>5
    <3>2. i' <= len' * ByteBits /\ cksums' \in Seq(Cksums) /\ Len(cksums') = i' \div ByteBits
      BY <1>1, <1>2, <1>5, <3>1
    <3>3. prev_cksum' = IF cksums' = <<>> THEN 0 ELSE cksums'[Len(cksums')]
      BY <1>4, <1>5, <2>1, <3>1
    <3>4. Len(cksums') < len' =>
            \/ prev_cksum' = 0 /\ a_collect' = <<>>
            \/ prev_cksum' # 0 /\ \E s \in 0 .. Len(cksums') - 1 :
                 /\ LastRun(cksums', Len(cksums'), s, prev_cksum')
                 /\ a_collect' = SubSeq(in_buf', s + 1, Len(cksums'))
      BY <1>7, <3>1
    <3>5. QED
      BY <1>7, <2>1, <2>2, <3>1, <3>2, <3>3, <3>4 DEF TokenInv
<1>8. c # prev_cksum /\ a_collect' = <<byte>> =>
        \E s \in 0 .. n : /\ LastRun(cksums', n + 1, s, c)
                          /\ a_collect' = SubSeq(in_buf, s + 1, n + 1)
  <2>1. SubSeq(in_buf, n + 1, n + 1) = <<byte>>
    <3>1. SubSeq(in_buf, n + 1, n) = <<>>
      BY <1>1, SubSeqEmpty
    <3>2. Append(SubSeq(in_buf, n + 1, n), in_buf[n + 1]) = SubSeq(in_buf, n + 1, n + 1)
      BY <1>1, <1>2, RunGrows
    <3>3. Append(<<>>, byte) = <<byte>>
      OBVIOUS
    <3>4. QED
      BY <1>3, <3>1, <3>2, <3>3
  <2>2. c # prev_cksum => LastRun(cksums', n + 1, n, c)
    <3>1. n > 0 => n \in 1 .. n /\ prev_cksum = cksums[n]
      BY <1>1
    <3>2. \A k \in n + 1 .. n + 1 : k = n + 1
      BY <1>1
    <3>3. QED
      BY <1>5, <3>1, <3>2 DEF LastRun
  <2>3. n \in 0 .. n
    BY <1>1
  <2>4. QED
    BY <2>1, <2>2, <2>3
<1> HIDE DEF n, byte
<1>9. CASE prev_cksum = 0
  <2>1. a_collect = <<>>
    BY <1>1, <1>2, <1>9 DEF TokenInv, n
  <2>2. Append(<<>>, byte) = <<byte>> /\ Len(<<byte>>) = 1 /\ Len(<<>>) = 0
    OBVIOUS
  <2>3. ~fits
    <3>1. Len(grabbed) < 2 /\ Len(grabbed) \in Nat
      BY <2>1, <2>2
    <3>2. QED
      BY <3>1, Constants
  <2>4. tokens' = tokens /\ Closed(cksums', n + 1, len) = Closed(cksums, n, len)
    BY <1>4, <1>6, <1>9, <2>3
  <2>5. CASE c = 0 /\ n + 1 < len
    <3>1. ~final /\ ~changed
      BY <1>1, <1>2, <1>9, <2>5
    <3>2. a_collect' = <<>>
      BY <1>4, <2>1, <2>5, <3>1
    <3>3. QED
      BY <1>1, <2>4, <2>5, <3>2
  <2>6. CASE c # 0
    <3>1. a_collect' = <<byte>>
      BY <1>4, <1>9, <2>2, <2>6
    <3>2. QED
      BY <1>1, <1>9, <2>4, <2>6, <3>1, <1>8
  <2>7. QED
    BY <1>1, <2>4, <2>5, <2>6
<1>10. CASE prev_cksum # 0
  <2>1. PICK s \in 0 .. n - 1 : /\ LastRun(cksums, n, s, prev_cksum)
                                /\ a_collect = SubSeq(in_buf, s + 1, n)
    BY <1>1, <1>2, <1>10 DEF TokenInv, n
  <2>2. n \in Nat /\ s \in Nat /\ s < n
    BY <1>1
  <2> DEFINE R == Closed(cksums, n, len)
             R2 == Closed(cksums', n + 1, len)
             T == SubSeq(in_buf, s + 1, n)
             T2 == SubSeq(in_buf, s + 1, n + 1)
  <2>3. /\ Len(T) = n - s /\ T \in Seq(Byte) /\ Append(T, byte) = T2
    <3>1. s \in Nat /\ s <= n /\ n < Len(in_buf)
      BY <1>1, <1>2
    <3>2. QED
      BY <1>1, <1>3, <3>1, RunGrows
  <2>4. Len(T2) = n + 1 - s /\ T2 \in Seq(Byte)
    <3> HIDE DEF T, T2
    <3>1. Append(T, byte) \in Seq(Byte) /\ Len(Append(T, byte)) = Len(T) + 1
      BY <1>3, <2>3, AppendProperties
    <3>2. n - s + 1 = n + 1 - s
      BY <1>1
    <3>3. QED
      BY <2>3, <3>1, <3>2
  <2>5. CASE c # prev_cksum
    <3> DEFINE adm == n - s \in MIN_AUTO_EXTRA .. MAX_AUTO_EXTRA
    <3>1. grabbed = T /\ kept = <<>> /\ (fits <=> adm)
      BY <2>1, <2>3, <2>5
    <3>2. R2 = R \cup (IF adm THEN {<<s + 1, n>>} ELSE {})
      <4>1. Admissible(<<s + 1, n>>) <=> adm
        <5> DEFINE r == <<s + 1, n>>
        <5>1. r[2] - r[1] + 1 = n - s
          <6>1. n - (s + 1) + 1 = n - s
            BY <2>2
          <6>2. r[1] = s + 1 /\ r[2] = n
            OBVIOUS
          <6> HIDE DEF r
          <6>3. QED
            BY <6>1, <6>2
        <5> HIDE DEF r
        <5>2. Admissible(r) <=> adm
          BY <5>1 DEF Admissible
        <5>3. QED
          BY <5>2 DEF r
      <4>2. QED
        BY <1>6, <1>10, <2>1, <2>5, <4>1
    <3>3. tokens' = IF adm THEN Append(tokens, T) ELSE tokens
      BY <1>4, <3>1
    <3>4. a_collect' = IF c # 0 THEN <<byte>> ELSE <<>>
      <4>1. Append(<<>>, byte) = <<byte>>
        OBVIOUS
      <4>2. QED
        BY <1>4, <3>1, <4>1
    <3> HIDE DEF adm, R, R2, T
    <3>5. tokens' \in Seq(Seq(Byte)) /\ ToSet(tokens') = TokensOf(R2)
      <4>1. CASE adm
        <5>1. /\ Append(tokens, T) \in Seq(Seq(Byte))
              /\ ToSet(Append(tokens, T)) = ToSet(tokens) \cup {T}
          BY <1>1, <2>3, TokenAdded
        <5>2. TokensOf(R \cup {<<s + 1, n>>}) = TokensOf(R) \cup {T}
          <6>1. \A p, q : TokensOf(R \cup {<<p, q>>}) = TokensOf(R) \cup {SubSeq(in_buf, p, q)}
            BY RunAdded
          <6>2. QED
            BY <6>1 DEF T
        <5>3. QED
          BY <1>1, <3>2, <3>3, <4>1, <5>1, <5>2 DEF R
      <4>2. CASE ~adm
        BY <1>1, <3>2, <3>3, <4>2 DEF R
      <4>3. QED
        BY <4>1, <4>2
    <3>6. QED
      BY <1>8, <2>5, <3>4, <3>5 DEF R2
  <2>6. CASE c = prev_cksum /\ n + 1 = len
    <3> DEFINE adm == n + 1 - s \in MIN_AUTO_EXTRA .. MAX_AUTO_EXTRA
    <3>1. grabbed = T2 /\ (fits <=> adm)
      BY <1>2, <2>1, <2>3, <2>4, <2>6
    <3>2. R2 = R \cup (IF adm THEN {<<s + 1, n + 1>>} ELSE {})
      <4>1. Admissible(<<s + 1, n + 1>>) <=> adm
        <5> DEFINE r == <<s + 1, n + 1>>
        <5>1. r[2] - r[1] + 1 = n + 1 - s
          BY <1>1
        <5> HIDE DEF r
        <5>2. Admissible(r) <=> adm
          BY <5>1 DEF Admissible
        <5>3. QED
          BY <5>2 DEF r
      <4>2. QED
        BY <1>6, <1>10, <2>1, <2>6, <4>1
    <3>3. tokens' = IF adm THEN Append(tokens, T2) ELSE tokens
      BY <1>4, <3>1
    <3> HIDE DEF adm, R, R2, T2
    <3>4. tokens' \in Seq(Seq(Byte)) /\ ToSet(tokens') = TokensOf(R2)
      <4>1. CASE adm
        <5>1. /\ Append(tokens, T2) \in Seq(Seq(Byte))
              /\ ToSet(Append(tokens, T2)) = ToSet(tokens) \cup {T2}
          BY <1>1, <2>4, TokenAdded
        <5>2. TokensOf(R \cup {<<s + 1, n + 1>>}) = TokensOf(R) \cup {T2}
          <6>1. \A p, q : TokensOf(R \cup {<<p, q>>}) = TokensOf(R) \cup {SubSeq(in_buf, p, q)}
            BY RunAdded
          <6>2. QED
            BY <6>1 DEF T2
        <5>3. QED
          BY <1>1, <3>2, <3>3, <4>1, <5>1, <5>2 DEF R
      <4>2. CASE ~adm
        BY <1>1, <3>2, <3>3, <4>2 DEF R
      <4>3. QED
        BY <4>1, <4>2
    <3>5. QED
      BY <1>1, <2>6, <3>4 DEF R2
  <2>7. CASE c = prev_cksum /\ n + 1 # len
    <3>1. grabbed = T /\ kept = T /\ ~fits
      BY <1>2, <2>1, <2>7
    <3>2. R2 = R
      BY <1>6, <1>10, <2>1, <2>7
    <3>3. tokens' = tokens /\ a_collect' = T2
      BY <1>4, <1>10, <2>3, <2>7, <3>1
    <3>4. LastRun(cksums', n + 1, s, c) /\ s \in 0 .. n
      <4>1. ASSUME NEW k \in s + 1 .. n + 1 PROVE cksums'[k] = c
        <5>1. CASE k = n + 1
          BY <1>5, <5>1
        <5>2. CASE k # n + 1
          <6>1. k \in 1 .. n /\ k \in s + 1 .. n
            BY <2>2, <5>2
          <6>2. cksums'[k] = cksums[k] /\ cksums[k] = prev_cksum
            BY <1>5, <2>1, <6>1 DEF LastRun
          <6>3. QED
            BY <2>7, <6>2
        <5>3. QED
          BY <5>1, <5>2
      <4>2. ASSUME s > 0 PROVE cksums'[s] # c
        <5>1. s \in 1 .. n
          BY <2>2, <4>2
        <5>2. QED
          BY <1>5, <2>1, <2>7, <4>2, <5>1 DEF LastRun
      <4>3. s \in 0 .. n
        BY <2>2
      <4>4. QED
        BY <4>1, <4>2, <4>3 DEF LastRun
    <3> HIDE DEF T2, R, R2
    <3>5. QED
      BY <1>1, <1>10, <2>7, <3>2, <3>3, <3>4 DEF T2, R, R2
  <2>8. QED
    BY <2>5, <2>6, <2>7
<1>11. QED
  BY <1>9, <1>10

\* The strings found so far.
LEMMA AlwaysTokens == Spec => []TokenInv
<1>1. Init => TokenInv
  BY DEF Init, TokenInv
<1>2. InputInv /\ LengthInv /\ CountInv /\ TokenInv /\ [Next]_vars => TokenInv'
  <2>1. ASSUME InputInv, LengthInv, TokenInv, DetTurn, ~next_stage PROVE TokenInv'
    <3>1. /\ stage \in DetStage /\ i' = i + 1 /\ UNCHANGED <<stage, in_buf, len>>
          /\ i < Turns(stage)
      BY <2>1, TurnEffect
    <3>2. CASE stage # "flip1"
      BY <3>1, <3>2 DEF TokenInv, DetStage
    <3>3. CASE stage = "flip1"
      <4>1. flip1 /\ i < len * ByteBits
        BY <2>1, <3>1, <3>3, TurnEffect DEF Turns
      <4>2. CASE i % ByteBits = ByteBits - 1
        <5>1. PICK c \in Cksums : collect_token(c)
          BY <4>1, <4>2 DEF flip1
        <5>2. QED
          BY <2>1, <3>1, <3>3, <4>1, <4>2, <5>1, CollectKeeps
      <4>3. CASE i % ByteBits # ByteBits - 1
        <5>1. UNCHANGED <<prev_cksum, a_collect, cksums, tokens>>
          BY <4>1, <4>3 DEF flip1, flipVars
        <5>2. (i + 1) \div ByteBits = i \div ByteBits /\ i + 1 <= len * ByteBits
          <6>1. i \in Nat /\ len \in Nat /\ ByteBits \in Nat \ {0} /\ len * ByteBits \in Nat
            BY <2>1, Constants DEF InputInv
          <6>2. QED
            <7>1. (i + 1) \div ByteBits = i \div ByteBits
              BY <4>3, <6>1, NextBit
            <7>2. i + 1 <= len * ByteBits
              BY <4>1, <6>1
            <7>3. QED
              BY <7>1, <7>2
        <5>3. QED
          BY <2>1, <3>1, <3>3, <5>1, <5>2 DEF TokenInv
      <4>4. QED
        BY <4>2, <4>3
    <3>4. QED
      BY <3>2, <3>3
  <2>2. ASSUME next_stage PROVE TokenInv'
    <3>1. stage' \notin {"map", "trim", "flip1"}
      BY <2>2, MoveEffect DEF DetStage
    <3>2. QED
      BY <3>1 DEF TokenInv
  <2>3. ASSUME InputInv, LengthInv, CountInv, TokenInv, Next, ~det_turn PROVE TokenInv'
    <3>1. UNCHANGED <<i, a_collect, cksums, tokens, prev_cksum>>
      BY <2>3, OtherEffect
    <3>2. CASE stage' = "flip1"
      <4>1. stage = "trim"
        BY <2>3, <3>2, OtherEffect DEF DetStage, trim_and_score
      <4>2. /\ cksums' = <<>> /\ tokens' = <<>> /\ prev_cksum' = 0 /\ a_collect' = <<>>
            /\ i' = 0
        BY <2>3, <3>1, <4>1 DEF TokenInv, CountInv
      <4>3. len' \in Nat /\ 0 <= len' * ByteBits /\ 0 \div ByteBits = 0
        <5>1. len' \in Nat
          BY <2>3, OthersKeepInput DEF InputInv
        <5>2. ByteBits \in Nat \ {0}
          BY Constants
        <5>3. 0 \div ByteBits = 0
          BY <5>2
        <5>4. 0 <= len' * ByteBits
          <6>1. \A x, y \in Nat : x * y \in Nat
            OBVIOUS
          <6>2. len' * ByteBits \in Nat
            BY <5>1, <5>2, <6>1
          <6>3. QED
            BY <6>2
        <5>5. QED
          BY <5>1, <5>3, <5>4
      <4>4. cksums' \in Seq(Cksums) /\ Len(cksums') = 0 /\ tokens' \in Seq(Seq(Byte))
        BY <4>2
      <4>5. Closed(cksums', Len(cksums'), len') = {}
        <5>1. ASSUME NEW r \in Closed(cksums', Len(cksums'), len') PROVE FALSE
          <6>1. r \in (1 .. len') \X (1 .. len') /\ r[2] <= 0
            BY <4>4, <5>1 DEF Closed
          <6>2. QED
            BY <6>1
        <5>2. QED
          BY <5>1
      <4>6. ToSet(tokens') = {}
        BY <4>2 DEF ToSet
      <4>7. QED
        BY <3>2, <4>2, <4>3, <4>4, <4>5, <4>6 DEF TokenInv
    <3>3. CASE stage' # "flip1"
      <4>1. stage' \in {"map", "trim"} => stage = "map"
        BY <2>3 DEF Next, map_input, trim_and_score, stop_trimming, abandon_det,
           mark_as_det_done, havoc_stage, change_value, delete_bytes, clone_bytes,
           overwrite_bytes, overwrite_with_extra, insert_extra, tweak, InStack, run_havoc,
           abandon_havoc, end_havoc, splice_fails, splice_with_target, finish, abandon_entry,
           DetStage
      <4>2. QED
        BY <2>3, <3>1, <3>3, <4>1 DEF TokenInv
    <3>4. QED
      BY <3>2, <3>3
  <2>4. ASSUME TokenInv, UNCHANGED vars PROVE TokenInv'
    BY <2>4 DEF vars, detVars, bufVars, flipVars, TokenInv
  <2>5. QED
    BY <2>1, <2>2, <2>3, <2>4 DEF det_turn
<1>3. QED
  BY <1>1, <1>2, AlwaysLengths, AlwaysCounts, PTL DEF Spec

\* For inputs of any length and every sequence of checksums: the strings that flip1 passes
\* to maybe_add_auto() are exactly the maximal runs, of an admissible length, of bytes with
\* the same changed checksum.
THEOREM TokensCorrect == Spec => []TokensExact
<1>1. InputInv /\ LengthInv /\ TokenInv => TokensExact
  <2> SUFFICES ASSUME InputInv, LengthInv, TokenInv, stage = "flip1", i = Turns("flip1")
               PROVE  ToSet(tokens) = {SubSeq(in_buf, s[1], s[2]) : s \in
                        {r \in (1 .. len) \X (1 .. len) :
                           /\ r[2] - r[1] + 1 \in MIN_AUTO_EXTRA .. MAX_AUTO_EXTRA
                           /\ MaximalRun(r[1], r[2])}}
    BY DEF TokensExact
  <2>1. Len(cksums) = len /\ len \in Nat
    <3>1. /\ len \in Nat /\ ByteBits \in Nat \ {0} /\ i = len * ByteBits
          /\ Len(cksums) = i \div ByteBits
      BY Constants DEF InputInv, TokenInv, Turns
    <3>2. (len * ByteBits) \div ByteBits = len
      BY <3>1
    <3>3. QED
      BY <3>1, <3>2
  <2>2. Closed(cksums, len, len) =
          {r \in (1 .. len) \X (1 .. len) :
             /\ r[2] - r[1] + 1 \in MIN_AUTO_EXTRA .. MAX_AUTO_EXTRA
             /\ MaximalRun(r[1], r[2])}
    <3>1. \A p, q : MaxRun(cksums, len, p, q) <=> MaximalRun(p, q)
      BY DEF MaxRun, MaximalRun, UniformRun
    <3>2. \A r \in (1 .. len) \X (1 .. len) : r[2] <= len
      BY <2>1
    <3>3. QED
      BY <3>1, <3>2 DEF Closed, Admissible
  <2>3. ToSet(tokens) = {SubSeq(in_buf, r[1], r[2]) : r \in Closed(cksums, len, len)}
    BY <2>1 DEF TokenInv
  <2>4. QED
    BY <2>2, <2>3
<1>2. QED
  BY <1>1, AlwaysLengths, AlwaysTokens, PTL

-----------------------------------------------------------------------------
(* Words and their bytes.                                                  *)

\* The subsets of two disjoint sets make up those of their union.
LEMMA PowerSum ==
  ASSUME NEW a \in Nat, NEW b \in Nat
  PROVE  /\ 2 ^ a \in Nat \ {0} /\ 2 ^ b \in Nat \ {0}
         /\ 2 ^ (a + b) = 2 ^ a * 2 ^ b
<1> DEFINE A == 1 .. a
           B == a + 1 .. a + b
           C == 1 .. a + b
           P == (SUBSET A) \X (SUBSET B)
           f == [x \in P |-> x[1] \cup x[2]]
<1>1. \A n \in Nat : IsFiniteSet(1 .. n) /\ Cardinality(1 .. n) = n
  BY FS_Interval
<1>2. IsFiniteSet(B) /\ Cardinality(B) = b
  <2>1. a + 1 \in Int /\ a + b \in Int
        /\ (IF a + 1 > a + b THEN 0 ELSE a + b - (a + 1) + 1) = b
    OBVIOUS
  <2>2. QED
    BY <2>1, FS_Interval
<1>3. /\ IsFiniteSet(A) /\ Cardinality(A) = a /\ IsFiniteSet(C) /\ Cardinality(C) = a + b
      /\ A \cap B = {} /\ C = A \cup B
  BY <1>1
<1> HIDE DEF A, B, C
<1>4. /\ IsFiniteSet(SUBSET A) /\ Cardinality(SUBSET A) = 2 ^ a
      /\ IsFiniteSet(SUBSET B) /\ Cardinality(SUBSET B) = 2 ^ b
      /\ IsFiniteSet(SUBSET C) /\ Cardinality(SUBSET C) = 2 ^ (a + b)
  BY <1>2, <1>3, FS_SUBSET
<1>5. IsFiniteSet(P) /\ Cardinality(P) = 2 ^ a * 2 ^ b
  <2> DEFINE S == SUBSET A
             T == SUBSET B
  <2>1. IsFiniteSet(S) /\ IsFiniteSet(T) /\ Cardinality(S) = 2 ^ a /\ Cardinality(T) = 2 ^ b
    BY <1>4
  <2>2. P = S \X T
    OBVIOUS
  <2> HIDE DEF P, S, T
  <2>3. IsFiniteSet(S \X T) /\ Cardinality(S \X T) = Cardinality(S) * Cardinality(T)
    BY <2>1, FS_Product
  <2>4. QED
    BY <2>1, <2>2, <2>3
<1>6. f \in Bijection(P, SUBSET C)
  <2>1. \A x \in P : x[1] \subseteq A /\ x[2] \subseteq B /\ x = <<x[1], x[2]>>
    OBVIOUS
  <2>2. f \in [P -> SUBSET C]
    BY <1>3, <2>1
  <2>3. ASSUME NEW x \in P, NEW y \in P, f[x] = f[y] PROVE x = y
    <3>1. x[1] \cup x[2] = y[1] \cup y[2]
      BY <2>3
    <3>2. x[1] = y[1]
      BY <1>3, <2>1, <3>1
    <3>3. x[2] = y[2]
      BY <1>3, <2>1, <3>1
    <3>4. QED
      BY <2>1, <3>2, <3>3
  <2>4. ASSUME NEW T \in SUBSET C PROVE \E x \in P : f[x] = T
    <3>1. <<T \cap A, T \cap B>> \in P
      OBVIOUS
    <3>2. f[<<T \cap A, T \cap B>>] = T
      BY <1>3, <3>1
    <3>3. QED
      BY <3>1, <3>2
  <2> HIDE DEF f, P
  <2>5. QED
    BY <2>2, <2>3, <2>4 DEF Bijection, Injection, Surjection, IsInjective
<1>7. Cardinality(SUBSET C) = Cardinality(P)
  BY <1>5, <1>6, FS_Bijection DEF ExistsBijection
<1>8. \A S : IsFiniteSet(S) => Cardinality(SUBSET S) \in Nat \ {0}
  <2> SUFFICES ASSUME NEW S, IsFiniteSet(S) PROVE Cardinality(SUBSET S) \in Nat \ {0}
    OBVIOUS
  <2>1. IsFiniteSet(SUBSET S) /\ SUBSET S # {}
    BY FS_SUBSET
  <2>2. QED
    BY <2>1, FS_CardinalityType, FS_EmptySet
<1>9. QED
  BY <1>2, <1>3, <1>4, <1>5, <1>7, <1>8

\* The remainder and the quotient of a number that is written with them.
LEMMA Split ==
  ASSUME NEW m \in Nat \ {0}, NEW r \in 0 .. m - 1, NEW q \in Int
  PROVE  (r + q * m) % m = r /\ (r + q * m) \div m = q
<1> DEFINE x == r + q * m
           q2 == x \div m
           r2 == x % m
<1>1. q * m \in Int /\ x \in Int
  OBVIOUS
<1> HIDE DEF x
<1>2. q2 \in Int /\ r2 \in 0 .. m - 1 /\ x = m * q2 + r2
  BY <1>1
<1> HIDE DEF q2, r2
<1>3. m * (q2 - q) = r - r2
  BY <1>1, <1>2 DEF x
<1>4. q2 - q = 0
  <2> DEFINE d == q2 - q
  <2>1. d \in Int
    BY <1>2
  <2> HIDE DEF d
  <2>2. d >= 1 => m * d >= m
    BY <2>1
  <2>3. d <= -1 => m * d <= -m
    BY <2>1
  <2>4. m * d = r - r2 /\ r - r2 < m /\ r - r2 > -m
    BY <1>2, <1>3 DEF d
  <2>5. m * d \in Int
    BY <2>1
  <2>6. ~(d >= 1) /\ ~(d <= -1)
    BY <2>2, <2>3, <2>4, <2>5
  <2>7. QED
    BY <2>1, <2>6 DEF d
<1>5. q2 = q
  BY <1>2, <1>4
<1>6. r2 = r
  BY <1>2, <1>3, <1>5
<1>7. QED
  BY <1>5, <1>6 DEF q2, r2, x

\* The powers of Base that the positions of the bytes stand for.
LEMMA Powers ==
  /\ Base \in Nat /\ Base >= 1 /\ Pow(0) = 1 /\ Pow(1) = Base
  /\ Pow(2) = Base * Base /\ Pow(3) = Base * Base * Base /\ Pow(4) = Base * Base * (Base * Base)
<1> DEFINE b == ByteBits
<1>1. b \in Nat
  BY WordsAssumption
<1>2. 0 * b = 0 /\ 1 * b = b /\ 2 * b = b + b /\ 3 * b = (b + b) + b /\ 4 * b = (b + b) + (b + b)
  BY <1>1
<1>3. b + b \in Nat
  BY <1>1
<1>4. 2 ^ 0 = 1
  OBVIOUS
<1>5. /\ 2 ^ b \in Nat \ {0} /\ 2 ^ (b + b) = 2 ^ b * 2 ^ b
      /\ 2 ^ ((b + b) + b) = 2 ^ (b + b) * 2 ^ b
      /\ 2 ^ ((b + b) + (b + b)) = 2 ^ (b + b) * 2 ^ (b + b)
  BY <1>1, <1>3, PowerSum
<1>6. /\ Pow(0) = 2 ^ 0 /\ Pow(1) = 2 ^ b /\ Pow(2) = 2 ^ (b + b)
      /\ Pow(3) = 2 ^ ((b + b) + b) /\ Pow(4) = 2 ^ ((b + b) + (b + b)) /\ Base = 2 ^ b
  BY Zenon, <1>2 DEF Pow, Base
<1>7. QED
  BY <1>4, <1>5, <1>6

\* The words of n bytes.
Word(n) == 0 .. Pow(n) - 1

\* A remainder and a quotient make a number below the product.
LEMMA Join ==
  ASSUME NEW m \in Nat \ {0}, NEW k \in Nat \ {0}, NEW a \in 0 .. m - 1, NEW b \in 0 .. k - 1
  PROVE  a + b * m \in 0 .. k * m - 1
<1>1. b * m \in Nat /\ (k - 1) * m \in Nat /\ k * m \in Nat
  OBVIOUS
<1>2. b * m <= (k - 1) * m
  OBVIOUS
<1>3. (k - 1) * m = k * m - m
  OBVIOUS
<1>4. QED
  BY <1>1, <1>2, <1>3

\* Dividing by a product.
LEMMA DivTwice ==
  ASSUME NEW v \in Int, NEW m \in Nat \ {0}, NEW k \in Nat \ {0}
  PROVE  /\ v \div (k * m) = (v \div m) \div k
         /\ v % (k * m) = (v % m) + ((v \div m) % k) * m
<1> DEFINE q == v \div m
           r == v % m
           q2 == q \div k
           r2 == q % k
<1>1. q \in Int /\ r \in 0 .. m - 1 /\ v = m * q + r
  OBVIOUS
<1> HIDE DEF q, r
<1>2. q2 \in Int /\ r2 \in 0 .. k - 1 /\ q = k * q2 + r2
  BY <1>1
<1> HIDE DEF q2, r2
<1>3. k * m \in Nat \ {0}
  OBVIOUS
<1>4. r + r2 * m \in 0 .. k * m - 1
  BY <1>1, <1>2, Join
<1>5. v = (r + r2 * m) + q2 * (k * m)
  <2>1. v = m * (k * q2 + r2) + r
    BY <1>1, <1>2
  <2>2. QED
    BY <1>1, <1>2, <2>1
<1>6. v % (k * m) = r + r2 * m /\ v \div (k * m) = q2
  <2> DEFINE M == k * m
             R == r + r2 * m
  <2> HIDE DEF M, R
  <2>1. M \in Nat \ {0} /\ R \in 0 .. M - 1
    BY <1>3, <1>4 DEF M, R
  <2>2. (R + q2 * M) % M = R /\ (R + q2 * M) \div M = q2
    BY <1>2, <2>1, Split
  <2>3. v = R + q2 * M
    BY <1>5 DEF M, R
  <2>4. QED
    BY <2>2, <2>3 DEF M, R
<1>7. QED
  BY <1>6 DEF q, r, q2, r2

\* The parts of a number, by its bytes.
LEMMA Parts ==
  ASSUME NEW v \in Int
  PROVE  /\ \A k \in 0 .. 3 : Part(v, 1, k) \in Byte
         /\ Part(v, 1, 0) = v % Base
         /\ Part(v, 1, 1) = (v \div Base) % Base
         /\ Part(v, 1, 2) = ((v \div Base) \div Base) % Base
         /\ Part(v, 1, 3) = (((v \div Base) \div Base) \div Base) % Base
         /\ Part(v, 2, 0) = Part(v, 1, 0) + Part(v, 1, 1) * Base
         /\ Part(v, 2, 1) = Part(v, 1, 1) + Part(v, 1, 2) * Base
         /\ Part(v, 2, 2) = Part(v, 1, 2) + Part(v, 1, 3) * Base
         /\ Part(v, 4, 0) = Part(v, 2, 0) + Part(v, 2, 2) * Pow(2)
         /\ \A n \in {1, 2, 4} : Cast(v, n) = Part(v, n, 0)
<1> DEFINE B == Base
           B2 == B * B
           q1 == v \div B
           q2 == q1 \div B
           q3 == q2 \div B
<1>1. B \in Nat \ {0} /\ B2 \in Nat \ {0}
  BY Powers
<1>2. Pow(0) = 1 /\ Pow(1) = B /\ Pow(2) = B2 /\ Pow(3) = B2 * B /\ Pow(4) = B2 * B2
  BY Powers
<1> HIDE DEF B
<1>3. /\ Byte = 0 .. B - 1 /\ q1 \in Int /\ q2 \in Int /\ q3 \in Int
  BY <1>1 DEF Byte, B
<1>4. v \div 1 = v
  OBVIOUS
<1>5. v \div B2 = q2 /\ v % B2 = (v % B) + (q1 % B) * B
  BY <1>1, DivTwice
<1>6. q1 % B2 = (q1 % B) + (q2 % B) * B
  BY <1>1, <1>3, DivTwice
<1>7. q2 % B2 = (q2 % B) + (q3 % B) * B
  BY <1>1, <1>3, DivTwice
<1> HIDE DEF B2
<1>8. v \div (B2 * B) = q3
  <2>1. v \div (B2 * B) = q1 \div B2
    BY <1>1, DivTwice
  <2>2. q1 \div B2 = q3
    BY <1>1, <1>3, DivTwice DEF B2
  <2>3. QED
    BY <2>1, <2>2
<1>9. v % (B2 * B2) = (v % B2) + (q2 % B2) * B2
  BY <1>1, <1>5, DivTwice
<1>10. \A n : Cast(v, n) = v % Pow(n) /\ Part(v, n, 0) = v % Pow(n)
  BY Zenon, <1>2, <1>4 DEF Cast, Part
<1> HIDE DEF q1, q2, q3
<1>11. /\ Part(v, 1, 0) = v % B /\ Part(v, 1, 1) = q1 % B /\ Part(v, 1, 2) = q2 % B
       /\ Part(v, 1, 3) = q3 % B
       /\ Part(v, 2, 0) = v % B2 /\ Part(v, 2, 1) = q1 % B2 /\ Part(v, 2, 2) = q2 % B2
       /\ Part(v, 4, 0) = v % (B2 * B2)
  BY Zenon, <1>2, <1>4, <1>5, <1>8 DEF Part, q1
<1>12. v % B \in Byte /\ q1 % B \in Byte /\ q2 % B \in Byte /\ q3 % B \in Byte
  BY <1>1, <1>3
<1>13. \A k \in 0 .. 3 : Part(v, 1, k) \in Byte
  BY <1>11, <1>12
<1>14. QED
  BY <1>2, <1>5, <1>6, <1>7, <1>9, <1>10, <1>11, <1>13 DEF q1, q2, q3, B

\* The bytes of a word that is made of them.
LEMMA Digits ==
  ASSUME NEW a \in Byte, NEW b \in Byte, NEW c \in Byte, NEW d \in Byte
  PROVE  /\ LET v == a IN v \in Word(1) /\ Part(v, 1, 0) = a
         /\ LET v == a + b * Base
            IN  v \in Word(2) /\ Part(v, 1, 0) = a /\ Part(v, 1, 1) = b
         /\ LET v == a + b * Base + c * Pow(2) + d * Pow(3)
            IN  /\ v \in Word(4) /\ Part(v, 1, 0) = a /\ Part(v, 1, 1) = b
                /\ Part(v, 1, 2) = c /\ Part(v, 1, 3) = d
                /\ v = (a + b * Base) + (c + d * Base) * Pow(2)
<1> DEFINE B == Base
           B2 == B * B
           cd == c + d * B
           bcd == b + cd * B
           ab == a + b * B
           v == a + bcd * B
<1>1. B \in Nat \ {0} /\ B2 \in Nat \ {0}
  BY Powers
<1>2. Pow(1) = B /\ Pow(2) = B2 /\ Pow(3) = B2 * B /\ Pow(4) = B2 * B2
  BY Powers
<1>3. a \in 0 .. B - 1 /\ b \in 0 .. B - 1 /\ c \in 0 .. B - 1 /\ d \in 0 .. B - 1
  BY DEF Byte
<1> HIDE DEF B
<1>4. ab \in 0 .. B2 - 1 /\ cd \in 0 .. B2 - 1
  BY <1>1, <1>3, Join
<1>5. cd \in Int /\ bcd \in Int /\ v \in Int /\ ab \in Int
  BY <1>1, <1>3
<1>6. v = ab + cd * B2 /\ a + b * B + c * B2 + d * (B2 * B) = v
  BY <1>1, <1>3
<1>7. v \in 0 .. B2 * B2 - 1
  <2> HIDE DEF B2, ab, cd, v
  <2>1. ab + cd * B2 \in 0 .. B2 * B2 - 1
    BY <1>1, <1>4, Join
  <2>2. QED
    BY <1>6, <2>1
<1>8. v % B = a /\ v \div B = bcd
  <2> HIDE DEF bcd
  <2>1. QED
    BY <1>1, <1>3, <1>5, Split
<1>9. bcd % B = b /\ bcd \div B = cd
  <2> HIDE DEF cd
  <2>1. QED
    BY <1>1, <1>3, <1>5, Split
<1>10. cd % B = c /\ cd \div B = d
  <2>1. d \in Int
    BY <1>3
  <2>2. QED
    BY <1>1, <1>3, <2>1, Split
<1>11. ab % B = a /\ ab \div B = b
  <2>1. b \in Int
    BY <1>3
  <2>2. QED
    BY <1>1, <1>3, <2>1, Split
<1>12. a % B = a /\ b % B = b /\ d % B = d
  BY <1>1, <1>3
<1> HIDE DEF v, ab, bcd, cd, B2
<1>13. /\ Part(v, 1, 0) = v % B /\ Part(v, 1, 1) = (v \div B) % B
       /\ Part(v, 1, 2) = ((v \div B) \div B) % B
       /\ Part(v, 1, 3) = (((v \div B) \div B) \div B) % B
  BY Zenon, <1>5, Parts DEF B
<1>14. Part(ab, 1, 0) = ab % B /\ Part(ab, 1, 1) = (ab \div B) % B
  BY Zenon, <1>5, Parts DEF B
<1>15. Part(a, 1, 0) = a % B
  <2>1. a \in Int
    BY <1>3
  <2>2. QED
    BY Zenon, <2>1, Parts DEF B
<1>16. /\ Part(v, 1, 0) = a /\ Part(v, 1, 1) = b /\ Part(v, 1, 2) = c /\ Part(v, 1, 3) = d
       /\ Part(ab, 1, 0) = a /\ Part(ab, 1, 1) = b /\ Part(a, 1, 0) = a
  BY <1>8, <1>9, <1>10, <1>11, <1>12, <1>13, <1>14, <1>15
<1>17. a \in Word(1) /\ ab \in Word(2) /\ v \in Word(4)
  BY <1>2, <1>3, <1>4, <1>7 DEF Word
<1>18. /\ ab = a + b * Base
       /\ v = a + b * Base + c * Pow(2) + d * Pow(3)
       /\ v = (a + b * Base) + (c + d * Base) * Pow(2)
  BY <1>2, <1>6 DEF ab, cd, B
<1>19. QED
  BY <1>16, <1>17, <1>18

\* The n-byte part of a number from byte k on has the bytes from k on.
LEMMA PartParts ==
  ASSUME NEW v \in Int, NEW n \in {1, 2, 4}, NEW k \in 0 .. 4 - n
  PROVE  /\ Part(v, n, k) \in Word(n)
         /\ \A j \in 0 .. n - 1 : Part(Part(v, n, k), 1, j) = Part(v, 1, k + j)
<1>0. \A j \in 0 .. 3 : Part(v, 1, j) \in Byte
  BY Parts
<1>1. CASE n = 1
  <2>1. k \in 0 .. 3 /\ Part(v, 1, k) \in Byte /\ k + 0 = k
    BY <1>0, <1>1
  <2>2. Part(v, 1, k) \in Word(1) /\ Part(Part(v, 1, k), 1, 0) = Part(v, 1, k)
    BY <2>1, Digits
  <2>3. QED
    BY <1>1, <2>1, <2>2
<1>2. CASE n = 2
  <2>1. k \in 0 .. 2 /\ Part(v, 1, k) \in Byte /\ Part(v, 1, k + 1) \in Byte /\ k + 0 = k
    BY <1>0, <1>2
  <2>2. Part(v, 2, k) = Part(v, 1, k) + Part(v, 1, k + 1) * Base
    <3>1. k = 0 \/ k = 1 \/ k = 2
      BY <2>1
    <3>2. k + 1 \in {1, 2, 3} /\ 0 + 1 = 1 /\ 1 + 1 = 2 /\ 2 + 1 = 3
      BY <3>1
    <3>3. QED
      BY Parts, <3>1, <3>2
  <2>3. /\ Part(v, 2, k) \in Word(2) /\ Part(Part(v, 2, k), 1, 0) = Part(v, 1, k)
        /\ Part(Part(v, 2, k), 1, 1) = Part(v, 1, k + 1)
    BY <2>1, <2>2, Digits
  <2>4. QED
    BY <1>2, <2>1, <2>3
<1>3. CASE n = 4
  <2> DEFINE a == Part(v, 1, 0)
             b == Part(v, 1, 1)
             c == Part(v, 1, 2)
             d == Part(v, 1, 3)
             w == a + b * Base + c * Pow(2) + d * Pow(3)
  <2>1. k = 0 /\ a \in Byte /\ b \in Byte /\ c \in Byte /\ d \in Byte
    BY <1>0, <1>3
  <2>2. Part(v, 4, 0) = (a + b * Base) + (c + d * Base) * Pow(2)
    BY Parts
  <2> HIDE DEF a, b, c, d
  <2>3. /\ w \in Word(4) /\ Part(w, 1, 0) = a /\ Part(w, 1, 1) = b
        /\ Part(w, 1, 2) = c /\ Part(w, 1, 3) = d
        /\ w = (a + b * Base) + (c + d * Base) * Pow(2)
    BY <2>1, Digits
  <2>4. Part(v, 4, 0) = w
    BY <2>2, <2>3
  <2> HIDE DEF w
  <2>5. \A j \in 0 .. 3 : Part(w, 1, j) = Part(v, 1, 0 + j)
    BY <2>3 DEF a, b, c, d
  <2>6. QED
    BY <1>3, <2>1, <2>3, <2>4, <2>5
<1>4. QED
  BY <1>1, <1>2, <1>3

\* Casts, and that a word is determined by its bytes.
LEMMA CastParts ==
  ASSUME NEW v \in Int, NEW n \in {1, 2, 4}
  PROVE  /\ Cast(v, n) \in Word(n) /\ Cast(v, n) = Part(v, n, 0)
         /\ \A k \in 0 .. n - 1 : Part(Cast(v, n), 1, k) = Part(v, 1, k)
         /\ v \in Word(n) => Cast(v, n) = v
<1>1. Cast(v, n) = Part(v, n, 0)
  BY Parts
<1>2. 0 \in 0 .. 4 - n /\ \A k \in 0 .. n - 1 : 0 + k = k
  OBVIOUS
<1>3. /\ Part(v, n, 0) \in Word(n)
      /\ \A k \in 0 .. n - 1 : Part(Part(v, n, 0), 1, k) = Part(v, 1, 0 + k)
  BY <1>2, PartParts
<1>4. v \in Word(n) => Cast(v, n) = v
  <2>1. Pow(n) \in Nat \ {0}
    BY Powers
  <2>2. QED
    BY <2>1 DEF Cast, Word
<1>5. QED
  BY <1>1, <1>2, <1>3, <1>4

\* Words are integers.
LEMMA WordInt ==
  ASSUME NEW n \in {1, 2, 4}, NEW v \in Word(n)
  PROVE  v \in Int
<1>1. Pow(n) \in Nat
  BY Powers
<1>2. QED
  BY <1>1 DEF Word

\* A word is determined by its bytes.
LEMMA SameWord ==
  ASSUME NEW n \in {1, 2, 4}, NEW v \in Word(n), NEW w \in Word(n),
         \A k \in 0 .. n - 1 : Part(v, 1, k) = Part(w, 1, k)
  PROVE  v = w
<1>1. v \in Int /\ w \in Int
  BY WordInt
<1>2. v = Part(v, n, 0) /\ w = Part(w, n, 0)
  BY <1>1, CastParts
<1>3. /\ Part(v, 2, 0) = Part(v, 1, 0) + Part(v, 1, 1) * Base
      /\ Part(v, 2, 2) = Part(v, 1, 2) + Part(v, 1, 3) * Base
      /\ Part(v, 4, 0) = Part(v, 2, 0) + Part(v, 2, 2) * Pow(2)
  BY <1>1, Parts
<1>4. /\ Part(w, 2, 0) = Part(w, 1, 0) + Part(w, 1, 1) * Base
      /\ Part(w, 2, 2) = Part(w, 1, 2) + Part(w, 1, 3) * Base
      /\ Part(w, 4, 0) = Part(w, 2, 0) + Part(w, 2, 2) * Pow(2)
  BY <1>1, Parts
<1>5. CASE n = 1
  <2>1. Part(v, 1, 0) = Part(w, 1, 0)
    BY <1>5
  <2>2. QED
    BY <1>2, <1>5, <2>1
<1>6. CASE n = 2
  <2>1. Part(v, 1, 0) = Part(w, 1, 0) /\ Part(v, 1, 1) = Part(w, 1, 1)
    BY <1>6
  <2>2. QED
    BY <1>2, <1>3, <1>4, <1>6, <2>1
<1>7. CASE n = 4
  <2>1. /\ Part(v, 1, 0) = Part(w, 1, 0) /\ Part(v, 1, 1) = Part(w, 1, 1)
        /\ Part(v, 1, 2) = Part(w, 1, 2) /\ Part(v, 1, 3) = Part(w, 1, 3)
    BY <1>7
  <2>2. Part(v, 2, 0) = Part(w, 2, 0) /\ Part(v, 2, 2) = Part(w, 2, 2)
    BY <1>3, <1>4, <2>1
  <2>3. Part(v, 4, 0) = Part(w, 4, 0)
    BY <1>3, <1>4, <2>2
  <2>4. QED
    BY <1>2, <1>7, <2>3
<1>8. QED
  BY <1>5, <1>6, <1>7

\* SWAP16() and SWAP32() turn the bytes round.
LEMMA SwapParts ==
  ASSUME NEW v \in Int, NEW n \in {2, 4}
  PROVE  /\ Swap(v, n) \in Word(n)
         /\ \A k \in 0 .. n - 1 : Part(Swap(v, n), 1, k) = Part(v, 1, n - 1 - k)
<1> DEFINE a == Part(v, 1, 0)
           b == Part(v, 1, 1)
           c == Part(v, 1, 2)
           d == Part(v, 1, 3)
<1>1. a \in Byte /\ b \in Byte /\ c \in Byte /\ d \in Byte
  BY Parts
<1>2. CASE n = 2
  <2>1. Swap(v, 2) = b + a * Base
    BY DEF Swap
  <2> HIDE DEF a, b, c, d
  <2>2. /\ Swap(v, 2) \in Word(2)
        /\ Part(Swap(v, 2), 1, 0) = b /\ Part(Swap(v, 2), 1, 1) = a
    BY <1>1, <2>1, Digits
  <2>3. \A k \in 0 .. 1 : Part(Swap(v, 2), 1, k) = Part(v, 1, 2 - 1 - k)
    BY <2>2 DEF a, b
  <2>4. QED
    BY <1>2, <2>2, <2>3
<1>3. CASE n = 4
  <2>1. Swap(v, 4) = d + c * Base + b * Pow(2) + a * Pow(3)
    BY DEF Swap
  <2> HIDE DEF a, b, c, d
  <2>2. /\ Swap(v, 4) \in Word(4)
        /\ Part(Swap(v, 4), 1, 0) = d /\ Part(Swap(v, 4), 1, 1) = c
        /\ Part(Swap(v, 4), 1, 2) = b /\ Part(Swap(v, 4), 1, 3) = a
    BY <1>1, <2>1, Digits
  <2>3. \A k \in 0 .. 3 : Part(Swap(v, 4), 1, k) = Part(v, 1, 4 - 1 - k)
    BY <2>2 DEF a, b, c, d
  <2>4. QED
    BY <1>3, <2>2, <2>3
<1>4. QED
  BY <1>2, <1>3

\* Turning the bytes round twice.
LEMMA SwapTwice ==
  ASSUME NEW v \in Int, NEW n \in {2, 4}
  PROVE  Swap(Swap(v, n), n) = Cast(v, n) /\ Swap(Cast(v, n), n) = Swap(v, n)
<1>1. /\ Swap(v, n) \in Word(n) /\ Cast(v, n) \in Word(n)
      /\ \A k \in 0 .. n - 1 : Part(Swap(v, n), 1, k) = Part(v, 1, n - 1 - k)
      /\ \A k \in 0 .. n - 1 : Part(Cast(v, n), 1, k) = Part(v, 1, k)
  BY SwapParts, CastParts
<1>2. Swap(v, n) \in Int /\ Cast(v, n) \in Int
  BY <1>1, WordInt
<1>3. /\ Swap(Swap(v, n), n) \in Word(n) /\ Swap(Cast(v, n), n) \in Word(n)
      /\ \A k \in 0 .. n - 1 : Part(Swap(Swap(v, n), n), 1, k) = Part(Swap(v, n), 1, n - 1 - k)
      /\ \A k \in 0 .. n - 1 : Part(Swap(Cast(v, n), n), 1, k) = Part(Cast(v, n), 1, n - 1 - k)
  BY <1>2, SwapParts
<1>4. \A k \in 0 .. n - 1 : n - 1 - k \in 0 .. n - 1 /\ n - 1 - (n - 1 - k) = k
  OBVIOUS
<1>5. /\ \A k \in 0 .. n - 1 : Part(Swap(Swap(v, n), n), 1, k) = Part(Cast(v, n), 1, k)
      /\ \A k \in 0 .. n - 1 : Part(Swap(Cast(v, n), n), 1, k) = Part(Swap(v, n), 1, k)
  BY <1>1, <1>3, <1>4
<1>6. QED
  BY <1>1, <1>3, <1>5, SameWord

\* Writing a word to a buffer and reading one from it.
LEMMA BytesParts ==
  ASSUME NEW v \in Int, NEW n \in {1, 2, 4}
  PROVE  /\ Bytes(v, n) \in Seq(Byte) /\ Len(Bytes(v, n)) = n
         /\ \A k \in 1 .. n : Bytes(v, n)[k] = Part(v, 1, k - 1)
<1> DEFINE a == Part(v, 1, 0)
           b == Part(v, 1, 1)
           c == Part(v, 1, 2)
           d == Part(v, 1, 3)
<1>1. a \in Byte /\ b \in Byte /\ c \in Byte /\ d \in Byte
  BY Parts
<1>2. Bytes(v, 1) = <<a>> /\ Bytes(v, 2) = <<a, b>> /\ Bytes(v, 4) = <<a, b, c, d>>
  BY DEF Bytes
<1>3. /\ 1 - 1 = 0 /\ 2 - 1 = 1 /\ 3 - 1 = 2 /\ 4 - 1 = 3
      /\ 1 .. 1 = {1} /\ 1 .. 2 = {1, 2} /\ 1 .. 4 = {1, 2, 3, 4}
  OBVIOUS
<1> HIDE DEF a, b, c, d
<1>4. CASE n = 1
  <2>1. <<a>> \in Seq(Byte) /\ Len(<<a>>) = 1 /\ <<a>>[1] = Part(v, 1, 1 - 1)
    BY <1>1, <1>3 DEF a
  <2>2. QED
    BY <1>2, <1>3, <1>4, <2>1
<1>5. CASE n = 2
  <2>1. <<a, b>> \in Seq(Byte) /\ Len(<<a, b>>) = 2 /\ \A k \in 1 .. 2 : <<a, b>>[k] = Part(v, 1, k - 1)
    BY <1>1, <1>3 DEF a, b
  <2>2. QED
    BY <1>2, <1>5, <2>1
<1>6. CASE n = 4
  <2>1. /\ <<a, b, c, d>> \in Seq(Byte) /\ Len(<<a, b, c, d>>) = 4
        /\ \A k \in 1 .. 4 : <<a, b, c, d>>[k] = Part(v, 1, k - 1)
    BY <1>1, <1>3 DEF a, b, c, d
  <2>2. QED
    BY <1>2, <1>6, <2>1
<1>7. QED
  BY <1>4, <1>5, <1>6

\* The bytes of a word that is made of a sequence of bytes.
LEMMA WordOfParts ==
  ASSUME NEW n \in {1, 2, 4}, NEW s \in Seq(Byte), Len(s) = n
  PROVE  /\ WordOf(s) \in Word(n)
         /\ \A k \in 0 .. n - 1 : Part(WordOf(s), 1, k) = s[k + 1]
<1>1. \A k \in 1 .. n : s[k] \in Byte
  BY ElementOfSeq
<1>2. CASE n = 1
  <2>1. WordOf(s) = s[1] /\ s[1] \in Byte
    BY <1>1, <1>2 DEF WordOf
  <2>2. QED
    BY <1>2, <2>1, Digits
<1>3. CASE n = 2
  <2>1. WordOf(s) = s[1] + s[2] * Base /\ s[1] \in Byte /\ s[2] \in Byte
    BY <1>1, <1>3 DEF WordOf
  <2>2. /\ WordOf(s) \in Word(2) /\ Part(WordOf(s), 1, 0) = s[1]
        /\ Part(WordOf(s), 1, 1) = s[2]
    BY <2>1, Digits
  <2>3. QED
    BY <1>3, <2>2
<1>4. CASE n = 4
  <2>1. /\ WordOf(s) = s[1] + s[2] * Base + s[3] * Pow(2) + s[4] * Pow(3)
        /\ s[1] \in Byte /\ s[2] \in Byte /\ s[3] \in Byte /\ s[4] \in Byte
    BY <1>1, <1>4 DEF WordOf
  <2>2. /\ WordOf(s) \in Word(4) /\ Part(WordOf(s), 1, 0) = s[1]
        /\ Part(WordOf(s), 1, 1) = s[2] /\ Part(WordOf(s), 1, 2) = s[3]
        /\ Part(WordOf(s), 1, 3) = s[4]
    BY <2>1, Digits
  <2>3. QED
    BY <1>4, <2>2
<1>5. QED
  BY <1>2, <1>3, <1>4

\* What the stages of bit flips, arithmetic and interesting values run in turn j.
ValueStage == {"flip1", "flip2", "flip4", "flip8", "flip16", "flip32",
               "arith8", "arith16", "arith32", "int8", "int16", "int32"}
FlipRuns(n, j) ==
  {buf \in {PutWord(in_buf, j, n, XorWords(WordAt(in_buf, j, n), Pow(n) - 1, n))} : Flagged(j, n)}
ArithRuns(n, j) ==
  {PutWord(in_buf, j, n, ArithValue(n, WordAt(in_buf, j, n), t)) :
     t \in {u \in ArithTries(n) : Flagged(j, n) /\ WorthArith(n, WordAt(in_buf, j, n), u)}}
InterestRuns(n, j) ==
  {PutWord(in_buf, j, n, InterestValue(n, t)) :
     t \in {u \in InterestTries(n) : Flagged(j, n) /\ WorthInterest(n, WordAt(in_buf, j, n), u)}}
ValueRuns(s, j) ==
  CASE s = "flip1"   -> {FlipBit(in_buf, j)}
    [] s = "flip2"   -> {Flip2Bits(in_buf, j)}
    [] s = "flip4"   -> {Flip4Bits(in_buf, j)}
    [] s = "flip8"   -> {PutWord(in_buf, j, 1, XOR(in_buf[j + 1], Base - 1))}
    [] s = "flip16"  -> FlipRuns(2, j)
    [] s = "flip32"  -> FlipRuns(4, j)
    [] s = "arith8"  -> ArithRuns(1, j)
    [] s = "arith16" -> ArithRuns(2, j)
    [] s = "arith32" -> ArithRuns(4, j)
    [] s = "int8"    -> InterestRuns(1, j)
    [] s = "int16"   -> InterestRuns(2, j)
    [] s = "int32"   -> InterestRuns(4, j)

\* The order of the stages, and those that AFL_NO_ARITH switches off.
Rank(s) ==
  CASE s = "flip1"  -> 1 [] s = "flip2"   -> 2 [] s = "flip4"   -> 3
    [] s = "flip8"  -> 4 [] s = "flip16"  -> 5 [] s = "flip32"  -> 6
    [] s = "arith8" -> 7 [] s = "arith16" -> 8 [] s = "arith32" -> 9
    [] s = "int8"  -> 10 [] s = "int16"  -> 11 [] s = "int32"  -> 12
    [] OTHER -> 13
Off(s) == no_arith /\ s \in {"arith8", "arith16", "arith32", "int16", "int32"}

\* The turns so far have run what they should.
ValuesInv ==
  stage \in DetStage \cup {"det_done"} =>
    \A s \in ValueStage : \A j \in 0 .. Turns(s) - 1 :
      (stage = s /\ j < i) \/ (Rank(stage) > Rank(s) /\ ~Off(s)) => ValueRuns(s, j) \subseteq executed

\* All of them have.
InputFacts == in_buf \in Seq(Byte) /\ len = Len(in_buf)
AllRun ==
  /\ InputFacts
  /\ \A s \in ValueStage : ~Off(s) => \A j \in 0 .. Turns(s) - 1 : ValueRuns(s, j) \subseteq executed
Decided(buf) == buf \in executed \/ ~Matters(buf) \/ TakenForTried(buf)

\* The buffer after a word was written to it.
LEMMA PutWordIs ==
  ASSUME NEW buf \in Seq(Byte), NEW n \in {1, 2, 4}, NEW p \in Nat, p + n <= Len(buf), NEW v \in Int
  PROVE  /\ PutWord(buf, p, n, v) \in Seq(Byte) /\ Len(PutWord(buf, p, n, v)) = Len(buf)
         /\ \A k \in 1 .. Len(buf) :
              PutWord(buf, p, n, v)[k]
                = IF k > p /\ k <= p + n THEN Part(v, 1, k - p - 1) ELSE buf[k]
<1> DEFINE t == Bytes(v, n)
<1>1. t \in Seq(Byte) /\ Len(t) = n /\ \A k \in 1 .. n : t[k] = Part(v, 1, k - 1)
  BY BytesParts
<1> HIDE DEF t
<1>2. /\ Put(buf, p, t) \in Seq(Byte) /\ Len(Put(buf, p, t)) = Len(buf)
      /\ \A k \in 1 .. Len(buf) :
              Put(buf, p, t)[k] = IF k > p /\ k <= p + Len(t) THEN t[k - p] ELSE buf[k]
  BY <1>1, PutBytes
<1>3. Len(buf) \in Nat
  BY LenProperties
<1>4. \A k \in 1 .. Len(buf) : k > p /\ k <= p + n => t[k - p] = Part(v, 1, k - p - 1)
  BY <1>1, <1>3
<1>5. PutWord(buf, p, n, v) = Put(buf, p, t)
  BY DEF PutWord, t
<1>6. QED
  BY <1>1, <1>2, <1>4, <1>5

\* The bytes of a word that was read from a buffer.
LEMMA WordAtIs ==
  ASSUME NEW buf \in Seq(Byte), NEW n \in {1, 2, 4}, NEW p \in Nat, p + n <= Len(buf)
  PROVE  /\ WordAt(buf, p, n) \in Word(n) /\ WordAt(buf, p, n) \in Int
         /\ \A k \in 0 .. n - 1 : Part(WordAt(buf, p, n), 1, k) = buf[p + k + 1]
<1> DEFINE s == SubSeq(buf, p + 1, p + n)
<1>1. Len(buf) \in Nat
  BY LenProperties
<1>2. s \in Seq(Byte) /\ Len(s) = n /\ \A k \in 1 .. n : s[k] = buf[p + k]
  <2>1. n \in Nat
    OBVIOUS
  <2>2. QED
    BY <2>1, ReadBytes
<1> HIDE DEF s
<1>3. WordOf(s) \in Word(n) /\ \A k \in 0 .. n - 1 : Part(WordOf(s), 1, k) = s[k + 1]
  BY <1>2, WordOfParts
<1>4. \A k \in 0 .. n - 1 : s[k + 1] = buf[p + k + 1]
  BY <1>2
<1>5. WordAt(buf, p, n) = WordOf(s)
  BY DEF WordAt, s
<1>6. QED
  BY <1>3, <1>4, <1>5, WordInt

\* The word v written to p differs from the buffer only in the part of m bytes from j on,
\* which is w.
SameAs(buf, p, n, v, j, m, w) ==
  /\ n \in {1, 2, 4} /\ p \in Nat /\ p + n <= Len(buf) /\ v \in Int
  /\ m \in {1, 2, 4} /\ j \in 0 .. n - m /\ w \in Int
  /\ \A k \in 0 .. n - 1 :
       Part(v, 1, k) = IF k >= j /\ k < j + m THEN Part(w, 1, k - j) ELSE buf[p + k + 1]

\* Then writing the whole word and writing the part are the same.
LEMMA SamePut ==
  ASSUME NEW buf \in Seq(Byte), NEW n, NEW p, NEW v, NEW m, NEW j, NEW w,
         SameAs(buf, p, n, v, j, m, w)
  PROVE  PutWord(buf, p, n, v) = PutWord(buf, p + j, m, w)
<1> DEFINE x == PutWord(buf, p, n, v)
           y == PutWord(buf, p + j, m, w)
<1> USE DEF SameAs
<1>1. Len(buf) \in Nat
  BY LenProperties
<1>2. /\ x \in Seq(Byte) /\ Len(x) = Len(buf)
      /\ \A k \in 1 .. Len(buf) : x[k] = IF k > p /\ k <= p + n THEN Part(v, 1, k - p - 1) ELSE buf[k]
  BY PutWordIs
<1>3. p + j \in Nat /\ p + j + m <= Len(buf)
  BY <1>1
<1>4. /\ y \in Seq(Byte) /\ Len(y) = Len(buf)
      /\ \A k \in 1 .. Len(buf) :
           y[k] = IF k > p + j /\ k <= p + j + m THEN Part(w, 1, k - (p + j) - 1) ELSE buf[k]
  BY <1>3, PutWordIs
<1> HIDE DEF x, y
<1>5. ASSUME NEW k \in 1 .. Len(buf)
      PROVE  x[k] = y[k]
  <2>1. CASE k > p /\ k <= p + n
    <3>1. k - p - 1 \in 0 .. n - 1 /\ p + (k - p - 1) + 1 = k /\ (k - p - 1) - j = k - (p + j) - 1
      BY <1>1, <2>1
    <3>2. x[k] = IF k - p - 1 >= j /\ k - p - 1 < j + m THEN Part(w, 1, (k - p - 1) - j)
                 ELSE buf[p + (k - p - 1) + 1]
      BY <1>2, <2>1, <3>1
    <3>3. (k - p - 1 >= j /\ k - p - 1 < j + m) <=> (k > p + j /\ k <= p + j + m)
      BY <1>1
    <3>4. QED
      BY <1>4, <3>1, <3>2, <3>3
  <2>2. CASE ~(k > p /\ k <= p + n)
    <3>1. ~(k > p + j /\ k <= p + j + m)
      BY <1>1, <2>2
    <3>2. QED
      BY <1>2, <1>4, <2>2, <3>1
  <2>3. QED
    BY <2>1, <2>2
<1>6. x = y
  BY <1>1, <1>2, <1>4, <1>5, SeqEqual
<1>7. QED
  BY <1>6 DEF x, y

\* Nothing is lost by not running the input itself.
LEMMA SameDecided ==
  ASSUME InputFacts, NEW n \in {1, 2, 4}, NEW p \in Nat, p + n <= len, NEW v \in Int,
         \A k \in 0 .. n - 1 : Part(v, 1, k) = in_buf[p + k + 1]
  PROVE  PutWord(in_buf, p, n, v) = in_buf /\ Decided(PutWord(in_buf, p, n, v))
<1> DEFINE x == PutWord(in_buf, p, n, v)
<1>1. Len(in_buf) \in Nat /\ in_buf \in Seq(Byte) /\ len = Len(in_buf)
  BY LenProperties DEF InputFacts
<1>2. /\ x \in Seq(Byte) /\ Len(x) = Len(in_buf)
      /\ \A k \in 1 .. Len(in_buf) :
           x[k] = IF k > p /\ k <= p + n THEN Part(v, 1, k - p - 1) ELSE in_buf[k]
  BY <1>1, PutWordIs
<1> HIDE DEF x
<1>3. ASSUME NEW k \in 1 .. Len(in_buf) PROVE x[k] = in_buf[k]
  <2>1. k > p /\ k <= p + n => k - p - 1 \in 0 .. n - 1 /\ p + (k - p - 1) + 1 = k
    BY <1>1
  <2>2. QED
    BY <1>2, <2>1
<1>4. x = in_buf
  BY <1>1, <1>2, <1>3, SeqEqual
<1>5. ~Matters(in_buf)
  BY DEF Matters, Changed
<1>6. QED
  BY <1>4, <1>5 DEF Decided, x

\* A later byte is not in an earlier block of the effector map.
LEMMA EffMonotone ==
  ASSUME NEW a \in Nat, NEW b \in Nat, a <= b
  PROVE  EffBlock(a) \in Nat /\ EffBlock(b) \in Nat /\ EffBlock(a) <= EffBlock(b)
<1> DEFINE m == 2 ^ EFF_MAP_SCALE2
           x == a \div m
           y == b \div m
           r == a % m
           q == b % m
<1>1. m \in Nat \ {0}
  BY BlockSize
<1> HIDE DEF m
<1>2. x \in Nat /\ r \in 0 .. m - 1 /\ a = m * x + r
  BY <1>1
<1>3. y \in Nat /\ q \in 0 .. m - 1 /\ b = m * y + q
  BY <1>1
<1> HIDE DEF x, y, r, q
<1>4. x <= y
  <2>1. SUFFICES ASSUME x > y PROVE FALSE
    BY <1>2, <1>3
  <2>2. PICK d \in Nat : x = y + 1 + d
    <3>1. x - y - 1 \in Nat /\ x = y + 1 + (x - y - 1)
      BY <1>2, <1>3, <2>1
    <3>2. QED
      BY <3>1
  <2>3. m * x = m * y + m + m * d
    BY <1>1, <1>3, <2>2
  <2>4. m * x \in Nat /\ m * y \in Nat /\ m * d \in Nat
    BY <1>1, <1>2, <1>3, <2>2
  <2>5. QED
    BY <1>1, <1>2, <1>3, <2>3, <2>4
<1>5. QED
  BY <1>2, <1>4, <1>3 DEF EffBlock, m, x, y

\* A word that makes a difference is at a flagged position.
LEMMA MattersFlagged ==
  ASSUME InputFacts, NEW n \in {1, 2, 4}, NEW p \in Nat, p + n <= len, NEW v \in Int,
         Matters(PutWord(in_buf, p, n, v))
  PROVE  Flagged(p, n)
<1> DEFINE x == PutWord(in_buf, p, n, v)
<1>1. Len(in_buf) \in Nat /\ in_buf \in Seq(Byte) /\ len = Len(in_buf)
  BY LenProperties DEF InputFacts
<1>2. \A k \in 1 .. Len(in_buf) :
        x[k] = IF k > p /\ k <= p + n THEN Part(v, 1, k - p - 1) ELSE in_buf[k]
  BY <1>1, PutWordIs
<1> HIDE DEF x
<1>3. Matters(x)
  BY DEF x
<1>4. PICK k \in 1 .. len : x[k] # in_buf[k] /\ EffBlock(k - 1) \in eff_map
  BY <1>3 DEF Matters, Changed
<1>5. k > p /\ k <= p + n
  BY <1>1, <1>2, <1>4
<1>6. p \in Nat /\ k - 1 \in Nat /\ p + n - 1 \in Nat /\ p <= k - 1 /\ k - 1 <= p + n - 1
  BY <1>1, <1>5
<1>7. /\ EffBlock(p) \in Nat /\ EffBlock(k - 1) \in Nat /\ EffBlock(p + n - 1) \in Nat
      /\ EffBlock(p) <= EffBlock(k - 1) /\ EffBlock(k - 1) <= EffBlock(p + n - 1)
  <2>1. EffBlock(p) \in Nat /\ EffBlock(k - 1) \in Nat /\ EffBlock(p) <= EffBlock(k - 1)
    BY <1>6, EffMonotone
  <2>2. EffBlock(p + n - 1) \in Nat /\ EffBlock(k - 1) <= EffBlock(p + n - 1)
    BY <1>6, EffMonotone
  <2>3. QED
    BY <2>1, <2>2
<1>8. EffBlock(k - 1) \in EffBlock(p) .. EffBlock(p + n - 1)
  BY <1>7
<1>9. QED
  BY <1>4, <1>8 DEF Flagged

-----------------------------------------------------------------------------
(* Flipped bits and bytes.                                                 *)

\* The powers of two within a byte.
LEMMA TwoPowers ==
  ASSUME NEW t \in 0 .. ByteBits - 1
  PROVE  /\ 2 ^ t \in Nat \ {0} /\ 2 ^ (t + 1) = 2 * 2 ^ t
         /\ 2 ^ (ByteBits - 1 - t) \in Nat \ {0}
         /\ Base = 2 ^ t * (2 * 2 ^ (ByteBits - 1 - t)) /\ 2 ^ t \in Byte
<1> DEFINE u == ByteBits - 1 - t
<1>1. ByteBits \in Nat /\ t \in Nat /\ u \in Nat /\ ByteBits = (t + 1) + u /\ t + 1 \in Nat
  BY WordsAssumption
<1>2. 2 ^ 1 = 2
  OBVIOUS
<1> HIDE DEF u
<1>3. 2 ^ t \in Nat \ {0} /\ 2 ^ (t + 1) = 2 ^ t * 2 ^ 1
  BY <1>1, PowerSum
<1>4. 2 ^ u \in Nat \ {0} /\ 2 ^ ((t + 1) + u) = 2 ^ (t + 1) * 2 ^ u
  BY <1>1, PowerSum
<1>5. Base = 2 ^ (t + 1) * 2 ^ u
  BY <1>1, <1>4 DEF Base
<1> DEFINE T == 2 ^ t
           U == 2 ^ u
<1>6. T \in Nat \ {0} /\ U \in Nat \ {0} /\ Base = (T * 2) * U /\ 2 ^ (t + 1) = T * 2
  BY <1>2, <1>3, <1>4, <1>5
<1> HIDE DEF T, U
<1>7. Base = T * (2 * U) /\ T * U >= T /\ T * U \in Nat /\ Base = 2 * (T * U)
  BY <1>6
<1>8. T \in 0 .. Base - 1 /\ 2 ^ (t + 1) = 2 * T
  BY <1>6, <1>7
<1>9. QED
  BY <1>6, <1>7, <1>8 DEF T, U, u, Byte

\* A byte holds the patterns of four bits.
LEMMA ByteFacts == /\ Base \in Nat /\ Base >= 16 /\ 0 \in Byte /\ Base - 1 \in Byte /\ Byte \subseteq Nat
                   /\ ByteBits \in Nat /\ ByteBits >= 4
<1>1. ByteBits \in Nat /\ ByteBits >= 4
  BY WordsAssumption, XorAssumption
<1>2. ByteBits - 4 \in Nat /\ 4 + (ByteBits - 4) = ByteBits
  BY <1>1
<1>3. 2 ^ (4 + (ByteBits - 4)) = 2 ^ 4 * 2 ^ (ByteBits - 4) /\ 2 ^ (ByteBits - 4) \in Nat \ {0}
  BY <1>2, PowerSum
<1>4. 2 ^ 4 = 16
  OBVIOUS
<1>5. Base = 16 * 2 ^ (ByteBits - 4)
  BY <1>2, <1>3, <1>4 DEF Base
<1> DEFINE z == 2 ^ (ByteBits - 4)
<1> HIDE DEF z
<1>6. z \in Nat \ {0} /\ Base = 16 * z
  BY <1>3, <1>5 DEF z
<1>7. Base \in Nat /\ Base >= 16
  BY <1>6
<1>8. QED
  BY <1>1, <1>7 DEF Byte

\* The bytes of an exclusive or.
LEMMA XorParts ==
  ASSUME NEW n \in {1, 2, 4}, NEW a \in Int, NEW b \in Int
  PROVE  /\ XorWords(a, b, n) \in Word(n) /\ XorWords(a, b, n) \in Int
         /\ \A k \in 0 .. n - 1 : Part(XorWords(a, b, n), 1, k) = XOR(Part(a, 1, k), Part(b, 1, k))
<1> DEFINE d == [k \in 1 .. n |-> XOR(Part(a, 1, k - 1), Part(b, 1, k - 1))]
<1>1. ASSUME NEW k \in 1 .. n PROVE XOR(Part(a, 1, k - 1), Part(b, 1, k - 1)) \in Byte
  <2>1. k - 1 \in 0 .. 3
    OBVIOUS
  <2>2. Part(a, 1, k - 1) \in Byte /\ Part(b, 1, k - 1) \in Byte
    BY <2>1, Parts
  <2>3. QED
    BY <2>2, XorAssumption
<1>2. d \in Seq(Byte) /\ Len(d) = n
  <2>1. n \in Nat /\ d \in [1 .. n -> Byte]
    BY <1>1
  <2>2. QED
    BY <2>1
<1>3. \A k \in 0 .. n - 1 : d[k + 1] = XOR(Part(a, 1, k), Part(b, 1, k))
  <2>1. \A k \in 0 .. n - 1 : k + 1 \in 1 .. n /\ (k + 1) - 1 = k
    OBVIOUS
  <2>2. QED
    BY <2>1
<1> HIDE DEF d
<1>4. WordOf(d) \in Word(n) /\ \A k \in 0 .. n - 1 : Part(WordOf(d), 1, k) = d[k + 1]
  BY <1>2, WordOfParts
<1>5. XorWords(a, b, n) = WordOf(d)
  BY DEF XorWords, d
<1>6. QED
  BY <1>3, <1>4, <1>5, WordInt

\* An exclusive or determines the value from the other one.
LEMMA XorUndone ==
  ASSUME NEW a \in Byte, NEW b \in Byte, NEW y, XOR(a, b) = y
  PROVE  y \in Byte /\ b = XOR(a, y) /\ (y = 0 <=> a = b)
<1>1. XOR(a, b) \in Byte /\ XOR(a, XOR(a, b)) = b /\ XOR(a, 0) = a
  BY XorAssumption
<1>2. a = b => y = 0
  <2>1. 0 \in Byte
    BY ByteFacts
  <2>2. XOR(a, XOR(a, 0)) = 0
    BY <2>1, XorAssumption
  <2>3. QED
    BY <1>1, <2>2
<1>3. QED
  BY <1>1, <1>2

\* The bytes above a word, and those of a byte or two bytes that are shifted.
LEMMA HighParts ==
  ASSUME NEW n \in {1, 2, 4}, NEW v \in Word(n), NEW k \in 0 .. 3, k >= n
  PROVE  Part(v, 1, k) = 0
<1>1. v \in Int /\ 0 \in Byte /\ Base \in Nat
  BY WordInt, ByteFacts
<1>2. Part(v, 1, 0) \in Byte /\ Part(v, 1, 1) \in Byte
  BY <1>1, Parts
<1>3. v = Part(v, n, 0)
  BY <1>1, CastParts
<1>4. Pow(2) \in Nat /\ Pow(3) \in Nat
  BY Powers
<1>5. CASE n = 1
  <2> DEFINE a == Part(v, 1, 0)
  <2>1. a \in Byte /\ v = a
    BY <1>2, <1>3, <1>5
  <2> HIDE DEF a
  <2>2. a + 0 * Base + 0 * Pow(2) + 0 * Pow(3) = a
    BY <1>1, <1>4, <2>1, ByteFacts
  <2>3. LET w == a + 0 * Base + 0 * Pow(2) + 0 * Pow(3)
        IN  Part(w, 1, 1) = 0 /\ Part(w, 1, 2) = 0 /\ Part(w, 1, 3) = 0
    BY <1>1, <2>1, Digits
  <2>4. Part(v, 1, 1) = 0 /\ Part(v, 1, 2) = 0 /\ Part(v, 1, 3) = 0
    BY <2>1, <2>2, <2>3
  <2>5. k = 1 \/ k = 2 \/ k = 3
    BY <1>5
  <2>6. QED
    BY <2>4, <2>5
<1>6. CASE n = 2
  <2> DEFINE a == Part(v, 1, 0)
             b == Part(v, 1, 1)
  <2>1. a \in Byte /\ b \in Byte /\ v = a + b * Base
    BY <1>1, <1>2, <1>3, <1>6, Parts
  <2> HIDE DEF a, b
  <2>2. a + b * Base + 0 * Pow(2) + 0 * Pow(3) = a + b * Base
    BY <1>1, <1>4, <2>1, ByteFacts
  <2>3. LET w == a + b * Base + 0 * Pow(2) + 0 * Pow(3)
        IN  Part(w, 1, 2) = 0 /\ Part(w, 1, 3) = 0
    BY <1>1, <2>1, Digits
  <2>4. Part(v, 1, 2) = 0 /\ Part(v, 1, 3) = 0
    BY <2>1, <2>2, <2>3
  <2>5. k = 2 \/ k = 3
    BY <1>6
  <2>6. QED
    BY <2>4, <2>5
<1>7. QED
  BY <1>5, <1>6

Shifted(y0, y1, q) == (y0 + y1 * Base) * Pow(q)

\* Their bytes.
LEMMA ShiftedParts ==
  ASSUME NEW y0 \in Byte, NEW y1 \in Byte, NEW q \in 0 .. 3, q = 3 => y1 = 0
  PROVE  \A k \in 0 .. 3 : Part(Shifted(y0, y1, q), 1, k)
                             = IF k = q THEN y0 ELSE IF k = q + 1 THEN y1 ELSE 0
<1> DEFINE v == Shifted(y0, y1, q)
           W(a, b, c, d) == a + b * Base + c * Pow(2) + d * Pow(3)
<1>1. /\ 0 \in Byte /\ Base \in Nat /\ y0 \in Nat /\ y1 \in Nat
      /\ Pow(0) = 1 /\ Pow(1) = Base /\ Pow(2) = Base * Base /\ Pow(3) = Base * Base * Base
  BY ByteFacts, Powers
<1>2. \A a, b, c, d \in Byte :
        /\ Part(W(a, b, c, d), 1, 0) = a /\ Part(W(a, b, c, d), 1, 1) = b
        /\ Part(W(a, b, c, d), 1, 2) = c /\ Part(W(a, b, c, d), 1, 3) = d
  BY Digits
<1>3. /\ v = (y0 + y1 * Base) * Pow(q)
      /\ W(y0, y1, 0, 0) = y0 + y1 * Base /\ W(0, y0, y1, 0) = y0 * Base + y1 * (Base * Base)
      /\ W(0, 0, y0, y1) = y0 * (Base * Base) + y1 * (Base * Base * Base)
      /\ W(0, 0, 0, y0) = y0 * (Base * Base * Base)
  BY <1>1 DEF Shifted
<1> HIDE DEF v, W
<1>4. CASE q = 0
  <2>1. Part(v, 1, 0) = y0 /\ Part(v, 1, 1) = y1 /\ Part(v, 1, 2) = 0 /\ Part(v, 1, 3) = 0
    <3>1. v = W(y0, y1, 0, 0)
      BY <1>1, <1>3, <1>4
    <3>2. QED
      BY <1>1, <1>2, <3>1
  <2>2. QED
    BY <1>4, <2>1 DEF v
<1>5. CASE q = 1
  <2>1. Part(v, 1, 0) = 0 /\ Part(v, 1, 1) = y0 /\ Part(v, 1, 2) = y1 /\ Part(v, 1, 3) = 0
    <3>1. v = W(0, y0, y1, 0)
      BY <1>1, <1>3, <1>5
    <3>2. QED
      BY <1>1, <1>2, <3>1
  <2>2. QED
    BY <1>5, <2>1 DEF v
<1>6. CASE q = 2
  <2>1. Part(v, 1, 0) = 0 /\ Part(v, 1, 1) = 0 /\ Part(v, 1, 2) = y0 /\ Part(v, 1, 3) = y1
    <3>1. v = W(0, 0, y0, y1)
      BY <1>1, <1>3, <1>6
    <3>2. QED
      BY <1>1, <1>2, <3>1
  <2>2. QED
    BY <1>6, <2>1 DEF v
<1>7. CASE q = 3
  <2>1. Part(v, 1, 0) = 0 /\ Part(v, 1, 1) = 0 /\ Part(v, 1, 2) = 0 /\ Part(v, 1, 3) = y0
    <3>1. v = W(0, 0, 0, y0)
      BY <1>1, <1>3, <1>7
    <3>2. QED
      BY <1>1, <1>2, <3>1
  <2>2. QED
    BY <1>7, <2>1 DEF v
<1>8. QED
  BY <1>4, <1>5, <1>6, <1>7

\* The input with some bits of one byte flipped.
FlipByte(buf, P, y) == [buf EXCEPT ![P + 1] = XOR(buf[P + 1], y)]

\* The bytes of such a buffer.
LEMMA FlipByteIs ==
  ASSUME NEW buf \in Seq(Byte), NEW P \in Nat, P < Len(buf), NEW y \in Byte
  PROVE  /\ FlipByte(buf, P, y) \in Seq(Byte) /\ Len(FlipByte(buf, P, y)) = Len(buf)
         /\ \A k \in 1 .. Len(buf) :
              FlipByte(buf, P, y)[k] = IF k = P + 1 THEN XOR(buf[P + 1], y) ELSE buf[k]
<1>1. P + 1 \in 1 .. Len(buf)
  BY LenProperties
<1>2. buf[P + 1] \in Byte
  BY <1>1, ElementOfSeq
<1>3. XOR(buf[P + 1], y) \in Byte
  BY <1>2, XorAssumption
<1>4. /\ FlipByte(buf, P, y) \in Seq(Byte) /\ Len(FlipByte(buf, P, y)) = Len(buf)
  BY <1>1, <1>3, ExceptSeq DEF FlipByte
<1>5. DOMAIN buf = 1 .. Len(buf)
  BY LenProperties
<1>6. QED
  BY <1>4, <1>5 DEF FlipByte

\* Flipping bits of a byte twice.
LEMMA FlipTwice ==
  ASSUME NEW buf \in Seq(Byte), NEW P \in Nat, P < Len(buf), NEW x \in Byte, NEW y \in Byte
  PROVE  FlipByte(FlipByte(buf, P, x), P, y) = FlipByte(buf, P, XOR(x, y))
<1> DEFINE a == FlipByte(buf, P, x)
           b == FlipByte(a, P, y)
           c == FlipByte(buf, P, XOR(x, y))
<1>1. Len(buf) \in Nat /\ P + 1 \in 1 .. Len(buf)
  BY LenProperties
<1>2. buf[P + 1] \in Byte
  BY <1>1, ElementOfSeq
<1>3. XOR(x, y) \in Byte /\ XOR(XOR(buf[P + 1], x), y) = XOR(buf[P + 1], XOR(x, y))
  BY <1>2, XorAssumption
<1>4. /\ a \in Seq(Byte) /\ Len(a) = Len(buf)
      /\ \A k \in 1 .. Len(buf) : a[k] = IF k = P + 1 THEN XOR(buf[P + 1], x) ELSE buf[k]
  BY FlipByteIs
<1>5. /\ c \in Seq(Byte) /\ Len(c) = Len(buf)
      /\ \A k \in 1 .. Len(buf) : c[k] = IF k = P + 1 THEN XOR(buf[P + 1], XOR(x, y)) ELSE buf[k]
  BY <1>3, FlipByteIs
<1> HIDE DEF a, c
<1>6. /\ b \in Seq(Byte) /\ Len(b) = Len(a)
      /\ \A k \in 1 .. Len(a) : b[k] = IF k = P + 1 THEN XOR(a[P + 1], y) ELSE a[k]
  BY <1>4, FlipByteIs
<1> HIDE DEF b
<1>7. \A k \in 1 .. Len(buf) : b[k] = c[k]
  BY <1>1, <1>3, <1>4, <1>5, <1>6
<1>8. b = c
  BY <1>1, <1>4, <1>5, <1>6, <1>7, SeqEqual
<1>9. QED
  BY <1>8 DEF a, b, c

\* FLIP_BIT() counts the bits of a byte from the other end.
LEMMA FlipBitIs ==
  ASSUME NEW buf, NEW P \in Nat, NEW t \in 0 .. ByteBits - 1
  PROVE  FlipBit(buf, P * ByteBits + (ByteBits - 1 - t)) = FlipByte(buf, P, 2 ^ t)
<1> DEFINE b == P * ByteBits + (ByteBits - 1 - t)
           u == ByteBits - 1 - t
<1>1. ByteBits \in Nat \ {0} /\ t \in Nat /\ u \in 0 .. ByteBits - 1 /\ ByteBits - 1 - u = t
  BY WordsAssumption
<1> HIDE DEF u
<1>2. (u + P * ByteBits) % ByteBits = u /\ (u + P * ByteBits) \div ByteBits = P
  BY <1>1, Split
<1>3. b = u + P * ByteBits
  BY <1>1 DEF u
<1> HIDE DEF b
<1>4. b % ByteBits = u /\ b \div ByteBits = P
  BY <1>2, <1>3
<1>5. FlipBit(buf, b) = FlipByte(buf, P, 2 ^ t)
  BY Zenon, <1>1, <1>4 DEF FlipBit, FlipByte
<1>6. QED
  BY <1>5 DEF b

\* The patterns of two and four bits.
LEMMA BitPatterns ==
  ASSUME NEW t \in 0 .. ByteBits - 1
  PROVE  /\ 2 ^ t \in Byte
         /\ t + 1 < ByteBits => /\ 3 * 2 ^ t \in Byte /\ 2 ^ (t + 1) \in Byte
                                /\ XOR(2 ^ (t + 1), 2 ^ t) = 3 * 2 ^ t
         /\ t + 3 < ByteBits => /\ 15 * 2 ^ t \in Byte /\ 3 * 2 ^ (t + 2) \in Byte
                                /\ XOR(3 * 2 ^ (t + 2), 3 * 2 ^ t) = 15 * 2 ^ t
<1> DEFINE T == 2 ^ t
<1>0. ByteBits \in Nat /\ t \in Nat
  BY ByteFacts
<1>1. T \in Nat \ {0} /\ 2 ^ (t + 1) = 2 * T /\ T \in Byte
  BY TwoPowers
<1>2. \A x \in Byte : x \in Nat /\ x < Base
  BY ByteFacts DEF Byte
<1>3. ASSUME t + 1 < ByteBits
      PROVE  /\ 2 * T \in Byte /\ 3 * T \in Byte /\ XOR(2 * T, T) = 3 * T
             /\ 2 ^ (t + 2) = 4 * T /\ 4 * T <= Base
  <2>1. t + 1 \in 0 .. ByteBits - 1
    BY <1>0, <1>3
  <2>2. /\ 2 ^ ((t + 1) + 1) = 2 * 2 ^ (t + 1) /\ 2 ^ (t + 1) \in Byte
        /\ Base = 2 ^ (t + 1) * (2 * 2 ^ (ByteBits - 1 - (t + 1)))
        /\ 2 ^ (ByteBits - 1 - (t + 1)) \in Nat \ {0}
    BY <2>1, TwoPowers
  <2>3. (t + 1) + 1 = t + 2
    BY <1>0
  <2> DEFINE U == 2 ^ (ByteBits - 1 - (t + 1))
  <2>4. U \in Nat \ {0} /\ Base = (2 * T) * (2 * U)
    BY <1>1, <2>2
  <2> HIDE DEF U, T
  <2>5. T * U \in Nat /\ T * U >= T /\ Base = 4 * (T * U)
    BY <1>1, <2>4
  <2>6. 4 * T <= Base
    BY <1>1, <2>5
  <2>7. 3 * T \in Byte
    BY <1>1, <2>5, <2>6 DEF Byte
  <2>8. T \in 0 .. 2 ^ (t + 1) - 1
    BY <1>1
  <2>9. XOR(2 ^ (t + 1), T) = 2 ^ (t + 1) + T
    BY <2>1, <2>8, XorAssumption
  <2>10. QED
    BY <1>1, <2>2, <2>3, <2>6, <2>7, <2>9
<1>4. ASSUME t + 3 < ByteBits
      PROVE  /\ 15 * T \in Byte /\ 3 * (4 * T) \in Byte /\ XOR(3 * (4 * T), 3 * T) = 15 * T
             /\ 2 ^ (t + 2) = 4 * T
  <2>1. t + 1 < ByteBits /\ t + 2 \in 0 .. ByteBits - 1 /\ t + 3 \in 0 .. ByteBits - 1
    BY <1>0, <1>4
  <2>2. 2 ^ (t + 2) = 4 * T /\ 3 * T \in Byte
    BY <1>3, <2>1
  <2>3. /\ 2 ^ ((t + 2) + 1) = 2 * 2 ^ (t + 2) /\ 2 ^ (t + 2) \in Byte
    BY <2>1, TwoPowers
  <2>4. (t + 2) + 1 = t + 3
    BY <1>0
  <2>5. 2 ^ (t + 3) = 8 * T
    BY <1>1, <2>2, <2>3, <2>4
  <2>6. /\ Base = 2 ^ (t + 3) * (2 * 2 ^ (ByteBits - 1 - (t + 3))) /\ 2 ^ (t + 3) \in Byte
        /\ 2 ^ (ByteBits - 1 - (t + 3)) \in Nat \ {0}
    BY <2>1, TwoPowers
  <2> DEFINE U == 2 ^ (ByteBits - 1 - (t + 3))
  <2>7. U \in Nat \ {0} /\ Base = (8 * T) * (2 * U)
    BY <2>5, <2>6
  <2> HIDE DEF U, T
  <2>8. T * U \in Nat /\ T * U >= T /\ Base = 16 * (T * U)
    BY <1>1, <2>7
  <2>9. 15 * T \in Byte /\ 12 * T \in Byte /\ 7 * T \in Byte
    BY <1>1, <2>8 DEF Byte
  <2>10. XOR(4 * T, 3 * T) = 7 * T
    <3>1. 3 * T \in 0 .. 2 ^ (t + 2) - 1
      BY <1>1, <2>2
    <3>2. XOR(2 ^ (t + 2), 3 * T) = 2 ^ (t + 2) + 3 * T
      BY <2>1, <3>1, XorAssumption
    <3>3. QED
      BY <1>1, <2>2, <3>2
  <2>11. XOR(8 * T, 7 * T) = 15 * T
    <3>1. 7 * T \in 0 .. 2 ^ (t + 3) - 1
      BY <1>1, <2>5
    <3>2. XOR(2 ^ (t + 3), 7 * T) = 2 ^ (t + 3) + 7 * T
      BY <2>1, <3>1, XorAssumption
    <3>3. QED
      BY <1>1, <2>5, <3>2
  <2>12. XOR(8 * T, 4 * T) = 12 * T
    <3>1. 4 * T \in 0 .. 2 ^ (t + 3) - 1
      BY <1>1, <2>5
    <3>2. XOR(2 ^ (t + 3), 4 * T) = 2 ^ (t + 3) + 4 * T
      BY <2>1, <3>1, XorAssumption
    <3>3. QED
      BY <1>1, <2>5, <3>2
  <2>13. XOR(XOR(8 * T, 4 * T), 3 * T) = XOR(8 * T, XOR(4 * T, 3 * T))
    <3>1. 8 * T \in Byte /\ 4 * T \in Byte
      BY <2>2, <2>3, <2>5, <2>6
    <3>2. QED
      BY <2>2, <3>1, XorAssumption
  <2>14. 3 * (4 * T) = 12 * T
    BY <1>1
  <2>15. QED
    BY <2>2, <2>9, <2>10, <2>11, <2>12, <2>13, <2>14
<1> HIDE DEF T
<1>5. QED
  BY <1>1, <1>3, <1>4 DEF T

\* The bits and bytes that flip1, flip2, flip4 and flip8 flip.
LEMMA Flip2Is ==
  ASSUME NEW buf \in Seq(Byte), NEW P \in Nat, P < Len(buf), NEW t \in 0 .. ByteBits - 1,
         t + 1 < ByteBits
  PROVE  Flip2Bits(buf, P * ByteBits + (ByteBits - 1 - (t + 1))) = FlipByte(buf, P, 3 * 2 ^ t)
<1> DEFINE b == P * ByteBits + (ByteBits - 1 - (t + 1))
<1>1. ByteBits \in Nat /\ P * ByteBits \in Nat
  BY ByteFacts
<1>2. t + 1 \in 0 .. ByteBits - 1
  BY <1>1
<1>3. FlipBit(buf, b) = FlipByte(buf, P, 2 ^ (t + 1))
  BY <1>2, FlipBitIs
<1>4. b + 1 = P * ByteBits + (ByteBits - 1 - t)
  BY <1>1
<1> HIDE DEF b
<1>5. FlipBit(FlipByte(buf, P, 2 ^ (t + 1)), b + 1) = FlipByte(FlipByte(buf, P, 2 ^ (t + 1)), P, 2 ^ t)
  BY <1>4, FlipBitIs
<1>6. /\ 2 ^ t \in Byte /\ 2 ^ (t + 1) \in Byte /\ XOR(2 ^ (t + 1), 2 ^ t) = 3 * 2 ^ t
  BY BitPatterns
<1>7. FlipByte(FlipByte(buf, P, 2 ^ (t + 1)), P, 2 ^ t) = FlipByte(buf, P, XOR(2 ^ (t + 1), 2 ^ t))
  BY <1>6, FlipTwice
<1>8. Flip2Bits(buf, b) = FlipByte(buf, P, 3 * 2 ^ t)
  BY <1>3, <1>5, <1>6, <1>7 DEF Flip2Bits
<1>9. QED
  BY <1>8 DEF b

\* The word v written to p differs from the buffer only in the byte at P, by y.
DiffersAt(buf, p, n, v, P, y) ==
  /\ n \in {1, 2, 4} /\ p \in Nat /\ p + n <= Len(buf) /\ v \in Int
  /\ P \in p .. p + n - 1 /\ y \in Byte
  /\ Part(v, 1, P - p) = XOR(buf[P + 1], y)
  /\ \A k \in 0 .. n - 1 : k # P - p => Part(v, 1, k) = buf[p + k + 1]

\* Then writing the word is flipping these bits.
LEMMA PutFlip ==
  ASSUME NEW buf \in Seq(Byte), NEW n, NEW p, NEW v, NEW P, NEW y, DiffersAt(buf, p, n, v, P, y)
  PROVE  PutWord(buf, p, n, v) = FlipByte(buf, P, y)
<1> USE DEF DiffersAt
<1> DEFINE x == PutWord(buf, p, n, v)
           z == FlipByte(buf, P, y)
<1>1. Len(buf) \in Nat /\ P \in Nat /\ P < Len(buf)
  BY LenProperties
<1>2. /\ x \in Seq(Byte) /\ Len(x) = Len(buf)
      /\ \A k \in 1 .. Len(buf) : x[k] = IF k > p /\ k <= p + n THEN Part(v, 1, k - p - 1) ELSE buf[k]
  BY PutWordIs
<1>3. /\ z \in Seq(Byte) /\ Len(z) = Len(buf)
      /\ \A k \in 1 .. Len(buf) : z[k] = IF k = P + 1 THEN XOR(buf[P + 1], y) ELSE buf[k]
  BY <1>1, FlipByteIs
<1> HIDE DEF x, z
<1>4. ASSUME NEW k \in 1 .. Len(buf) PROVE x[k] = z[k]
  <2>1. CASE k > p /\ k <= p + n
    <3>1. k - p - 1 \in 0 .. n - 1 /\ p + (k - p - 1) + 1 = k /\ (k - p - 1 = P - p <=> k = P + 1)
      BY <1>1, <2>1
    <3>2. QED
      BY <1>2, <1>3, <2>1, <3>1
  <2>2. CASE ~(k > p /\ k <= p + n)
    <3>1. k # P + 1
      BY <1>1, <2>2
    <3>2. QED
      BY <1>2, <1>3, <2>2, <3>1
  <2>3. QED
    BY <2>1, <2>2
<1>5. x = z
  BY <1>1, <1>2, <1>3, <1>4, SeqEqual
<1>6. QED
  BY <1>5 DEF x, z

\* What the four stages have run.
LEMMA BitRuns ==
  ASSUME AllRun, NEW P \in Nat, P < len, NEW t \in 0 .. ByteBits - 1
  PROVE  /\ FlipByte(in_buf, P, 2 ^ t) \in executed
         /\ t + 1 < ByteBits => FlipByte(in_buf, P, 3 * 2 ^ t) \in executed
         /\ t + 3 < ByteBits => FlipByte(in_buf, P, 15 * 2 ^ t) \in executed
         /\ FlipByte(in_buf, P, Base - 1) \in executed
<1> DEFINE B == ByteBits
           M == P * B
           N == len * B
<1>0. in_buf \in Seq(Byte) /\ len = Len(in_buf) /\ len \in Nat
  BY LenProperties DEF AllRun, InputFacts
<1>1. B \in Nat /\ B >= 4 /\ t \in Nat /\ t <= B - 1
  BY ByteFacts
<1>2. M \in Nat /\ N \in Nat /\ M + B <= N
  <2>1. (P + 1) * B <= len * B /\ (P + 1) * B = P * B + B /\ P * B \in Nat /\ len * B \in Nat
    BY <1>0, <1>1
  <2>2. QED
    BY <2>1
<1>3. /\ Turns("flip1") = N /\ Turns("flip2") = N - 1 /\ Turns("flip4") = N - 3
      /\ Turns("flip8") = len
  BY DEF Turns
<1>4. \A s \in {"flip1", "flip2", "flip4", "flip8"} :
        s \in ValueStage /\ ~Off(s) /\ \A j \in 0 .. Turns(s) - 1 : ValueRuns(s, j) \subseteq executed
  BY DEF AllRun, ValueStage, Off
<1>5. \A j : /\ ValueRuns("flip1", j) = {FlipBit(in_buf, j)}
             /\ ValueRuns("flip2", j) = {Flip2Bits(in_buf, j)}
             /\ ValueRuns("flip4", j) = {Flip4Bits(in_buf, j)}
             /\ ValueRuns("flip8", j) = {PutWord(in_buf, j, 1, XOR(in_buf[j + 1], Base - 1))}
  BY DEF ValueRuns
<1> HIDE DEF M, N
<1>6. FlipByte(in_buf, P, 2 ^ t) \in executed
  <2>1. M + (B - 1 - t) \in 0 .. N - 1
    BY <1>1, <1>2
  <2>2. FlipBit(in_buf, M + (B - 1 - t)) \in executed
    BY <1>3, <1>4, <1>5, <2>1
  <2>3. QED
    BY <2>2, FlipBitIs DEF M
<1>7. ASSUME t + 1 < ByteBits
      PROVE  FlipByte(in_buf, P, 3 * 2 ^ t) \in executed
  <2>1. M + (B - 1 - (t + 1)) \in 0 .. (N - 1) - 1
    BY <1>1, <1>2, <1>7
  <2>2. Flip2Bits(in_buf, M + (B - 1 - (t + 1))) \in executed
    BY <1>3, <1>4, <1>5, <2>1
  <2>3. QED
    BY <1>0, <1>7, <2>2, Flip2Is DEF M
<1>8. ASSUME t + 3 < ByteBits
      PROVE  FlipByte(in_buf, P, 15 * 2 ^ t) \in executed
  <2> DEFINE b == M + (B - 1 - (t + 3))
             x == FlipByte(in_buf, P, 3 * 2 ^ (t + 2))
  <2>1. b \in 0 .. (N - 3) - 1
    BY <1>1, <1>2, <1>8
  <2>2. Flip4Bits(in_buf, b) \in executed
    BY <1>3, <1>4, <1>5, <2>1
  <2>3. t + 2 \in 0 .. B - 1 /\ (t + 2) + 1 < B /\ (t + 2) + 1 = t + 3 /\ t + 1 < B
    BY <1>1, <1>8
  <2>4. Flip2Bits(in_buf, M + (B - 1 - ((t + 2) + 1))) = x
    BY <1>0, <2>3, Flip2Is DEF M
  <2>5. 3 * 2 ^ (t + 2) \in Byte /\ 3 * 2 ^ t \in Byte /\ XOR(3 * 2 ^ (t + 2), 3 * 2 ^ t) = 15 * 2 ^ t
    BY <1>8, <2>3, BitPatterns
  <2>6. x \in Seq(Byte) /\ Len(x) = len
    BY <1>0, <2>5, FlipByteIs
  <2> HIDE DEF x
  <2>7. Flip2Bits(x, M + (B - 1 - (t + 1))) = FlipByte(x, P, 3 * 2 ^ t)
    BY <2>3, <2>6, Flip2Is DEF M
  <2>8. b + 2 = M + (B - 1 - (t + 1)) /\ b = M + (B - 1 - ((t + 2) + 1))
    BY <1>1, <1>2
  <2> HIDE DEF b
  <2>9. FlipByte(x, P, 3 * 2 ^ t) = FlipByte(in_buf, P, 15 * 2 ^ t)
    <3>1. FlipByte(x, P, 3 * 2 ^ t) = FlipByte(in_buf, P, XOR(3 * 2 ^ (t + 2), 3 * 2 ^ t))
      BY <1>0, <2>5, FlipTwice DEF x
    <3>2. QED
      BY <2>5, <3>1
  <2>10. Flip4Bits(in_buf, b) = Flip2Bits(Flip2Bits(in_buf, b), b + 2)
    BY DEF Flip4Bits
  <2>11. QED
    BY <2>2, <2>4, <2>7, <2>8, <2>9, <2>10
<1>9. FlipByte(in_buf, P, Base - 1) \in executed
  <2> DEFINE v == XOR(in_buf[P + 1], Base - 1)
  <2>1. P \in 0 .. len - 1 /\ P + 1 \in 1 .. len
    BY <1>0
  <2>2. PutWord(in_buf, P, 1, v) \in executed
    BY <1>3, <1>4, <1>5, <2>1
  <2>3. Base - 1 \in Byte /\ in_buf[P + 1] \in Byte
    BY <1>0, <2>1, ByteFacts, ElementOfSeq
  <2>4. v \in Byte
    BY <2>3, XorAssumption
  <2> HIDE DEF v
  <2>5. v \in Int
    BY <2>4, ByteFacts
  <2>6. Part(v, 1, 0) = v
    BY <2>4, Digits
  <2>7. /\ Part(v, 1, P - P) = XOR(in_buf[P + 1], Base - 1)
        /\ \A k \in 0 .. 1 - 1 : k # P - P => Part(v, 1, k) = in_buf[P + k + 1]
    BY <2>6 DEF v
  <2>8. P + 1 <= Len(in_buf) /\ P \in P .. P + 1 - 1
    BY <1>0
  <2>9. PutWord(in_buf, P, 1, v) = FlipByte(in_buf, P, Base - 1)
    <3>1. DiffersAt(in_buf, P, 1, v, P, Base - 1)
      BY <1>0, <2>3, <2>5, <2>7, <2>8 DEF DiffersAt
    <3>2. QED
      BY <1>0, <3>1, PutFlip
  <2>10. QED
    BY <2>2, <2>9
<1>10. QED
  BY <1>6, <1>7, <1>8, <1>9

\* Words whose exclusive or with the input is a pattern within one byte or two.
Flipped(p, n, v, y0, y1, q) ==
  /\ n \in {1, 2, 4} /\ p \in Nat /\ p + n <= len /\ v \in Int
  /\ y0 \in Byte /\ y1 \in Byte /\ q \in 0 .. 3
  /\ XorWords(WordAt(in_buf, p, n), v, n) = Shifted(y0, y1, q)

\* The bytes of such a word.
LEMMA FlippedParts ==
  ASSUME InputFacts, NEW n, NEW p, NEW v, NEW y0, NEW y1, NEW q, Flipped(p, n, v, y0, y1, q)
  PROVE  /\ y0 # 0 => q < n
         /\ y1 # 0 => q + 1 < n
         /\ \A k \in 0 .. n - 1 :
              /\ k = q => Part(v, 1, k) = XOR(in_buf[p + k + 1], y0)
              /\ k = q + 1 => Part(v, 1, k) = XOR(in_buf[p + k + 1], y1)
              /\ k # q /\ k # q + 1 => Part(v, 1, k) = in_buf[p + k + 1]
<1> DEFINE o == WordAt(in_buf, p, n)
           r == XorWords(o, v, n)
<1> USE DEF Flipped
<1>1. in_buf \in Seq(Byte) /\ len = Len(in_buf) /\ len \in Nat
  BY LenProperties DEF InputFacts
<1>2. o \in Int /\ \A k \in 0 .. n - 1 : Part(o, 1, k) = in_buf[p + k + 1]
  BY <1>1, WordAtIs
<1> HIDE DEF o
<1>3. /\ r \in Word(n) /\ r \in Int
      /\ \A k \in 0 .. n - 1 : Part(r, 1, k) = XOR(Part(o, 1, k), Part(v, 1, k))
  BY <1>2, XorParts
<1>4. r = Shifted(y0, y1, q)
  BY DEF o
<1> HIDE DEF r
<1>5. q = 3 => y1 = 0
  <2> SUFFICES ASSUME q = 3, y1 # 0 PROVE FALSE
    OBVIOUS
  <2> DEFINE C == Pow(3)
  <2>1. /\ Base \in Nat \ {0} /\ C \in Nat \ {0} /\ Pow(4) = Base * C /\ Pow(1) = Base
        /\ Pow(1) <= Pow(4) /\ Pow(2) <= Pow(4)
    <3>1. /\ Base \in Nat \ {0} /\ Pow(1) = Base /\ Pow(2) = Base * Base
          /\ Pow(3) = Base * Base * Base /\ Pow(4) = Base * Base * (Base * Base)
      BY Powers
    <3> DEFINE A == Base
               A2 == A * A
    <3>2. A \in Nat \ {0} /\ A2 \in Nat \ {0} /\ A2 >= A
      BY <3>1
    <3>3. A2 * A2 >= A2 /\ A2 * A2 \in Nat
      <4> HIDE DEF A2
      <4>1. QED
        BY <3>2
    <3>4. A * A * A \in Nat \ {0} /\ A * A * (A * A) = A * (A * A * A)
      BY <3>2
    <3>5. QED
      BY <3>1, <3>2, <3>3, <3>4
  <2>2. r < Pow(4) /\ Pow(4) \in Nat
    <3>1. Pow(n) <= Pow(4) /\ Pow(n) \in Nat /\ Pow(4) \in Nat
      BY <2>1, Powers
    <3>2. QED
      BY <1>3, <3>1 DEF Word
  <2>3. y0 \in Nat /\ y1 \in Nat \ {0}
    BY ByteFacts
  <2>4. r = (y0 + y1 * Base) * C
    BY <1>4 DEF Shifted
  <2> HIDE DEF C
  <2>5. y1 * Base >= Base /\ y1 * Base \in Nat
    BY <2>1, <2>3
  <2> DEFINE z == y0 + y1 * Base
  <2>6. z \in Nat /\ z >= Base /\ r = z * C
    BY <2>1, <2>3, <2>4, <2>5
  <2> HIDE DEF z
  <2>7. z * C >= Base * C
    BY <2>1, <2>6
  <2>8. z * C \in Nat /\ Base * C \in Nat
    BY <2>1, <2>6
  <2>9. QED
    BY <2>1, <2>2, <2>6, <2>7, <2>8
<1>6. \A k \in 0 .. 3 : Part(r, 1, k) = IF k = q THEN y0 ELSE IF k = q + 1 THEN y1 ELSE 0
  BY <1>4, <1>5, ShiftedParts
<1>7. \A k \in 0 .. 3 : k >= n => Part(r, 1, k) = 0
  BY <1>3, HighParts
<1>8. y0 # 0 => q < n
  BY <1>6, <1>7
<1>9. y1 # 0 => q + 1 < n
  <2>1. y1 # 0 => q + 1 \in 0 .. 3
    BY <1>5
  <2>2. q + 1 # q
    OBVIOUS
  <2>3. QED
    BY <1>6, <1>7, <2>1, <2>2
<1>10. ASSUME NEW k \in 0 .. n - 1
       PROVE  /\ k = q => Part(v, 1, k) = XOR(in_buf[p + k + 1], y0)
              /\ k = q + 1 => Part(v, 1, k) = XOR(in_buf[p + k + 1], y1)
              /\ k # q /\ k # q + 1 => Part(v, 1, k) = in_buf[p + k + 1]
  <2>1. k \in 0 .. 3 /\ p + k + 1 \in 1 .. len
    BY <1>1
  <2>2. in_buf[p + k + 1] \in Byte /\ Part(v, 1, k) \in Byte
    BY <1>1, <2>1, Parts, ElementOfSeq
  <2>3. XOR(in_buf[p + k + 1], Part(v, 1, k)) = Part(r, 1, k)
    BY <1>2, <1>3
  <2>4. /\ Part(v, 1, k) = XOR(in_buf[p + k + 1], Part(r, 1, k))
        /\ Part(r, 1, k) = 0 => Part(v, 1, k) = in_buf[p + k + 1]
    BY <2>2, <2>3, XorUndone
  <2>5. QED
    BY <1>6, <2>1, <2>4
<1>11. QED
  BY <1>8, <1>9, <1>10

\* If the pattern is in one byte, its bits are flipped there.
LEMMA FlippedOne ==
  ASSUME InputFacts, NEW n, NEW p, NEW v, NEW y, NEW q, Flipped(p, n, v, y, 0, q), y # 0
  PROVE  q < n /\ PutWord(in_buf, p, n, v) = FlipByte(in_buf, p + q, y)
<1>1. in_buf \in Seq(Byte) /\ len = Len(in_buf) /\ len \in Nat
  BY LenProperties DEF InputFacts
<1>2. n \in {1, 2, 4} /\ p \in Nat /\ p + n <= len /\ v \in Int /\ y \in Byte /\ q \in 0 .. 3
  BY DEF Flipped
<1>4. /\ y # 0 => q < n
      /\ \A k \in 0 .. n - 1 :
              /\ k = q => Part(v, 1, k) = XOR(in_buf[p + k + 1], y)
              /\ k = q + 1 => Part(v, 1, k) = XOR(in_buf[p + k + 1], 0)
              /\ k # q /\ k # q + 1 => Part(v, 1, k) = in_buf[p + k + 1]
  BY FlippedParts
<1>5. \A k \in 0 .. n - 1 : XOR(in_buf[p + k + 1], 0) = in_buf[p + k + 1]
  <2>1. \A k \in 0 .. n - 1 : p + k + 1 \in 1 .. len
    BY <1>1, <1>2
  <2>2. \A k \in 0 .. n - 1 : in_buf[p + k + 1] \in Byte
    BY <1>1, <2>1, ElementOfSeq
  <2>3. QED
    BY <2>2, XorAssumption
<1> DEFINE P == p + q
<1>6. q \in 0 .. n - 1 /\ P \in p .. p + n - 1 /\ P - p = q
  BY <1>2, <1>4
<1>7. /\ Part(v, 1, P - p) = XOR(in_buf[P + 1], y)
      /\ \A k \in 0 .. n - 1 : k # P - p => Part(v, 1, k) = in_buf[p + k + 1]
  BY <1>2, <1>4, <1>5, <1>6
<1> HIDE DEF P
<1>8. y \in Byte /\ p + n <= Len(in_buf)
  BY <1>1, <1>2
<1>9. PutWord(in_buf, p, n, v) = FlipByte(in_buf, P, y)
  <2>1. DiffersAt(in_buf, p, n, v, P, y)
    BY <1>2, <1>6, <1>7, <1>8 DEF DiffersAt
  <2>2. QED
    BY <1>1, <2>1, PutFlip
<1>10. QED
  BY <1>4, <1>9 DEF P

\* A pattern of bits across a byte border is taken for tried.
LEMMA CrossDecided ==
  ASSUME InputFacts, NEW n \in {1, 2, 4}, NEW p \in Nat, p + n <= len, NEW v \in Int,
         NEW x \in {3, 15}, NEW t \in 0 .. ByteBits - 1, NEW q \in 0 .. 3, x * 2 ^ t >= Base,
         XorWords(WordAt(in_buf, p, n), v, n) = (x * 2 ^ t) * Pow(q)
  PROVE  Decided(PutWord(in_buf, p, n, v))
<1> DEFINE T == 2 ^ t
           U == 2 ^ (ByteBits - 1 - t)
           y == x * T
           y0 == y % Base
           y1 == y \div Base
           buf == PutWord(in_buf, p, n, v)
           P == p + q
<1>1. in_buf \in Seq(Byte) /\ len = Len(in_buf) /\ len \in Nat
  BY LenProperties DEF InputFacts
<1>2. Base \in Nat /\ Base >= 16 /\ Byte = 0 .. Base - 1 /\ ByteBits \in Nat
  BY ByteFacts DEF Byte
<1>3. T \in Nat \ {0} /\ U \in Nat \ {0} /\ Base = T * (2 * U) /\ T \in Byte
  BY TwoPowers
<1> HIDE DEF T, U
<1>4. y \in Nat /\ y < Base * Base
  <2>1. T < Base
    BY <1>2, <1>3
  <2>2. y \in Nat /\ y <= 15 * T
    BY <1>3
  <2>3. 15 * T <= Base * T /\ Base * T < Base * Base /\ Base * T \in Nat /\ Base * Base \in Nat
    <3>1. Base * T \in Nat /\ Base * Base \in Nat /\ 15 * T <= 16 * T
      BY <1>2, <1>3
    <3>2. 16 * T <= Base * T
      BY <1>2, <1>3
    <3>3. Base * T < Base * Base
      BY <1>2, <1>3, <2>1
    <3>4. QED
      BY <1>3, <3>1, <3>2, <3>3
  <2>4. QED
    BY <1>3, <2>2, <2>3
<1>5. y >= Base
  BY DEF T
<1> HIDE DEF y
<1>6. y0 \in 0 .. Base - 1 /\ y1 \in Int /\ y = Base * y1 + y0
  BY <1>2, <1>4
<1> HIDE DEF y0, y1
<1>7. y1 \in 1 .. Base - 1
  <2>1. y1 >= 1
    <3> SUFFICES ASSUME y1 <= 0 PROVE FALSE
      BY <1>6
    <3>1. Base * y1 <= 0 /\ Base * y1 \in Int
      BY <1>2, <1>6
    <3>2. QED
      BY <1>2, <1>4, <1>5, <1>6, <3>1
  <2>2. y1 < Base
    <3> SUFFICES ASSUME y1 >= Base PROVE FALSE
      BY <1>2, <1>6
    <3>1. Base * y1 >= Base * Base /\ Base * y1 \in Int /\ Base * Base \in Int
      BY <1>2, <1>6
    <3>2. QED
      BY <1>2, <1>4, <1>6, <3>1
  <2>3. QED
    BY <1>2, <1>6, <2>1, <2>2
<1>8. y0 # 0
  <2> SUFFICES ASSUME y0 = 0 PROVE FALSE
    OBVIOUS
  <2> DEFINE c == U * y1
             D == x - 2 * c
  <2>1. c \in Nat
    BY <1>3, <1>7
  <2>2. x * T = (T * (2 * U)) * y1
    BY <1>3, <1>6 DEF y
  <2>3. (T * (2 * U)) * y1 = T * (2 * c)
    BY <1>3, <1>7
  <2> HIDE DEF c
  <2>4. D \in Int /\ T * D = 0
    BY <1>3, <2>1, <2>2, <2>3
  <2>5. D # 0
    BY <2>1
  <2> HIDE DEF D
  <2>6. D >= 1 => T * D >= 1
    BY <1>3, <2>4
  <2>7. D <= -1 => T * D <= -1
    BY <1>3, <2>4
  <2>8. QED
    BY <2>4, <2>5, <2>6, <2>7
<1>9. y0 \in Byte /\ y1 \in Byte /\ y1 # 0 /\ y = y0 + y1 * Base
  BY <1>2, <1>6, <1>7
<1>10. XorWords(WordAt(in_buf, p, n), v, n) = Shifted(y0, y1, q)
  BY <1>9 DEF y, T, Shifted
<1>11. /\ y1 # 0 => q + 1 < n
       /\ \A k \in 0 .. n - 1 :
              /\ k = q => Part(v, 1, k) = XOR(in_buf[p + k + 1], y0)
              /\ k = q + 1 => Part(v, 1, k) = XOR(in_buf[p + k + 1], y1)
              /\ k # q /\ k # q + 1 => Part(v, 1, k) = in_buf[p + k + 1]
  <2>1. Flipped(p, n, v, y0, y1, q)
    BY <1>9, <1>10 DEF Flipped
  <2>2. QED
    BY <2>1, FlippedParts
<1>12. P \in Nat /\ P + 1 \in 1 .. len /\ P + 2 \in 1 .. len /\ P + 1 \in 1 .. len - 1 /\ P + 2 <= Len(in_buf)
  BY <1>1, <1>9, <1>11
<1>13. /\ buf \in Seq(Byte) /\ Len(buf) = len
       /\ \A k \in 1 .. len : buf[k] = IF k > p /\ k <= p + n THEN Part(v, 1, k - p - 1) ELSE in_buf[k]
  BY <1>1, PutWordIs
<1> HIDE DEF buf
<1>14. \A k \in 1 .. len : buf[k] = IF k = P + 1 THEN XOR(in_buf[P + 1], y0)
                                    ELSE IF k = P + 2 THEN XOR(in_buf[P + 2], y1) ELSE in_buf[k]
  <2> SUFFICES ASSUME NEW k \in 1 .. len
               PROVE  buf[k] = IF k = P + 1 THEN XOR(in_buf[P + 1], y0)
                               ELSE IF k = P + 2 THEN XOR(in_buf[P + 2], y1) ELSE in_buf[k]
    OBVIOUS
  <2>1. CASE k > p /\ k <= p + n
    <3>1. /\ k - p - 1 \in 0 .. n - 1 /\ p + (k - p - 1) + 1 = k
          /\ (k - p - 1 = q <=> k = P + 1) /\ (k - p - 1 = q + 1 <=> k = P + 2)
      BY <1>1, <2>1
    <3>2. QED
      BY <1>11, <1>13, <2>1, <3>1
  <2>2. CASE ~(k > p /\ k <= p + n)
    <3>1. k # P + 1 /\ k # P + 2
      BY <1>1, <1>9, <1>11, <2>2
    <3>2. QED
      BY <1>13, <2>2, <3>1
  <2>3. QED
    BY <2>1, <2>2
<1> HIDE DEF P
<1>15. in_buf[P + 1] \in Byte /\ in_buf[P + 2] \in Byte
  BY <1>1, <1>12, ElementOfSeq
<1>16. /\ XOR(in_buf[P + 1], y0) # in_buf[P + 1] /\ XOR(in_buf[P + 1], XOR(in_buf[P + 1], y0)) = y0
       /\ XOR(in_buf[P + 2], y1) # in_buf[P + 2] /\ XOR(in_buf[P + 2], XOR(in_buf[P + 2], y1)) = y1
  <2>1. ASSUME NEW a \in Byte, NEW b \in Byte, b # 0
        PROVE  XOR(a, b) # a /\ XOR(a, XOR(a, b)) = b
    <3>1. XOR(a, XOR(a, b)) = b /\ XOR(a, b) \in Byte
      BY XorAssumption
    <3>2. XOR(a, b) = a => b = 0
      BY <3>1, XorUndone
    <3>3. QED
      BY <2>1, <3>1, <3>2
  <2>2. QED
    BY <1>8, <1>9, <1>15, <2>1
<1>17. Changed(buf) = {P + 1, P + 2}
  BY <1>12, <1>14, <1>16 DEF Changed
<1>18. XorWords(WordAt(in_buf, P, 2), WordAt(buf, P, 2), 2) = y
  <2> DEFINE a == WordAt(in_buf, P, 2)
             b == WordAt(buf, P, 2)
             w == XorWords(a, b, 2)
  <2>1. /\ a \in Int /\ \A k \in 0 .. 1 : Part(a, 1, k) = in_buf[P + k + 1]
    BY <1>1, <1>12, WordAtIs
  <2>2. /\ b \in Int /\ \A k \in 0 .. 1 : Part(b, 1, k) = buf[P + k + 1]
    BY <1>1, <1>12, <1>13, WordAtIs
  <2> HIDE DEF a, b
  <2>3. /\ w \in Word(2) /\ w \in Int
        /\ \A k \in 0 .. 2 - 1 : Part(w, 1, k) = XOR(Part(a, 1, k), Part(b, 1, k))
    <3>1. 2 \in {1, 2, 4}
      OBVIOUS
    <3>2. QED
      BY Zenon, <2>1, <2>2, <3>1, XorParts
  <2> HIDE DEF w
  <2>4. P + 0 + 1 = P + 1 /\ P + 1 + 1 = P + 2 /\ P + 1 # P + 2
    BY <1>12
  <2>5. Part(w, 1, 0) = y0 /\ Part(w, 1, 1) = y1
    <3>1. Part(a, 1, 0) = in_buf[P + 1] /\ Part(a, 1, 1) = in_buf[P + 2]
      BY <2>1, <2>4
    <3>2. Part(b, 1, 0) = XOR(in_buf[P + 1], y0) /\ Part(b, 1, 1) = XOR(in_buf[P + 2], y1)
      BY <1>12, <1>14, <2>2, <2>4
    <3>3. QED
      BY <1>16, <2>3, <3>1, <3>2
  <2>6. y \in Word(2) /\ Part(y, 1, 0) = y0 /\ Part(y, 1, 1) = y1
    BY <1>9, Digits
  <2>7. \A k \in 0 .. 2 - 1 : Part(w, 1, k) = Part(y, 1, k)
    BY <2>5, <2>6
  <2>8. w = y
    BY <2>3, <2>6, <2>7, SameWord
  <2>9. QED
    BY <2>8 DEF w, a, b
<1>19. TakenForTried(buf)
  <2>1. t \in 0 .. 2 * ByteBits - 1
    BY <1>2
  <2>2. y \in {z * 2 ^ sh : z \in {3, 15}, sh \in 0 .. 2 * ByteBits - 1}
    BY <2>1 DEF y, T
  <2>3. (P + 1) - 1 = P /\ (P + 1) + 1 = P + 2
    BY <1>12
  <2>4. QED
    BY <1>12, <1>17, <1>18, <2>2, <2>3 DEF TakenForTried
<1>20. QED
  BY <1>19 DEF Decided, buf

\* The word of m bytes with all bits set.
LEMMA OnesParts ==
  ASSUME NEW m \in {2, 4}
  PROVE  Pow(m) - 1 \in Int /\ \A k \in 0 .. m - 1 : Part(Pow(m) - 1, 1, k) = Base - 1
<1> DEFINE b == Base - 1
<1>1. b \in Byte /\ Base \in Nat /\ Base >= 1
  BY ByteFacts
<1>2. Pow(2) = Base * Base /\ Pow(3) = Base * Base * Base /\ Pow(4) = Base * Base * (Base * Base)
  BY Powers
<1>3. Pow(2) - 1 = b + b * Base
  BY <1>1, <1>2
<1>4. Pow(4) - 1 = b + b * Base + b * Pow(2) + b * Pow(3)
  <2>1. b * Pow(2) = Base * Base * Base - Base * Base
    BY <1>1, <1>2
  <2>2. b * Pow(3) = Base * Base * (Base * Base) - Base * Base * Base
    BY <1>1, <1>2
  <2>3. b * Base = Base * Base - Base
    BY <1>1
  <2>4. Base * Base \in Int /\ Base * Base * Base \in Int /\ Base * Base * (Base * Base) \in Int
    BY <1>1
  <2>5. QED
    BY <1>1, <1>2, <2>1, <2>2, <2>3, <2>4
<1> HIDE DEF b
<1>5. Pow(2) - 1 \in Word(2) /\ Part(Pow(2) - 1, 1, 0) = b /\ Part(Pow(2) - 1, 1, 1) = b
  BY <1>1, <1>3, Digits
<1>6. /\ Pow(4) - 1 \in Word(4) /\ Part(Pow(4) - 1, 1, 0) = b /\ Part(Pow(4) - 1, 1, 1) = b
      /\ Part(Pow(4) - 1, 1, 2) = b /\ Part(Pow(4) - 1, 1, 3) = b
  BY <1>1, <1>4, Digits
<1>7. Pow(m) - 1 \in Int
  BY Powers
<1>8. CASE m = 2
  BY <1>5, <1>7, <1>8 DEF b
<1>9. CASE m = 4
  BY <1>6, <1>7, <1>9 DEF b
<1>10. QED
  BY <1>8, <1>9

\* The pattern of four whole bytes.
LEMMA AllFlipped ==
  ASSUME InputFacts, NEW n \in {1, 2, 4}, NEW p \in Nat, p + n <= len, NEW v \in Int,
         XorWords(WordAt(in_buf, p, n), v, n) = Pow(4) - 1
  PROVE  n = 4 /\ \A k \in 0 .. 3 : Part(v, 1, k) = XOR(in_buf[p + k + 1], Base - 1)
<1> DEFINE o == WordAt(in_buf, p, n)
           r == XorWords(o, v, n)
<1>1. in_buf \in Seq(Byte) /\ len = Len(in_buf) /\ len \in Nat
  BY LenProperties DEF InputFacts
<1>2. o \in Int /\ \A k \in 0 .. n - 1 : Part(o, 1, k) = in_buf[p + k + 1]
  BY <1>1, WordAtIs
<1>3. r = Pow(4) - 1
  OBVIOUS
<1> HIDE DEF o
<1>4. /\ r \in Word(n) /\ r \in Int
      /\ \A k \in 0 .. n - 1 : Part(r, 1, k) = XOR(Part(o, 1, k), Part(v, 1, k))
  BY <1>2, XorParts
<1> HIDE DEF r
<1>5. \A k \in 0 .. 3 : Part(r, 1, k) = Base - 1
  <2>1. 4 \in {2, 4} /\ 4 - 1 = 3
    OBVIOUS
  <2>2. QED
    BY <1>3, <2>1, OnesParts
<1>6. Base - 1 # 0
  BY ByteFacts
<1>7. n = 4
  <2>1. n # 4 => Part(r, 1, 3) = 0
    BY <1>4, HighParts
  <2>2. Part(r, 1, 3) = Base - 1
    BY <1>5
  <2>3. QED
    BY <1>6, <2>1, <2>2
<1>8. ASSUME NEW k \in 0 .. 3 PROVE Part(v, 1, k) = XOR(in_buf[p + k + 1], Base - 1)
  <2>1. k \in 0 .. n - 1 /\ p + k + 1 \in 1 .. len
    BY <1>1, <1>7
  <2>2. in_buf[p + k + 1] \in Byte /\ Part(v, 1, k) \in Byte
    BY <1>1, <2>1, Parts, ElementOfSeq
  <2>3. XOR(in_buf[p + k + 1], Part(v, 1, k)) = Base - 1
    BY <1>2, <1>4, <1>5, <2>1
  <2>4. QED
    BY <2>2, <2>3, XorUndone
<1>9. QED
  BY <1>7, <1>8

\* A word that two or four walking bytes produce.
LEMMA BytesFlipped ==
  ASSUME AllRun, NEW n \in {1, 2, 4}, NEW p \in Nat, p + n <= len, NEW v \in Int,
         NEW m \in {2, 4}, NEW q \in 0 .. n - m,
         \A k \in 0 .. n - 1 : Part(v, 1, k) = IF k >= q /\ k < q + m THEN XOR(in_buf[p + k + 1], Base - 1)
                                               ELSE in_buf[p + k + 1]
  PROVE  Decided(PutWord(in_buf, p, n, v))
<1> DEFINE P == p + q
           s == IF m = 2 THEN "flip16" ELSE "flip32"
           w == XorWords(WordAt(in_buf, P, m), Pow(m) - 1, m)
           buf == PutWord(in_buf, P, m, w)
<1>1. InputFacts /\ in_buf \in Seq(Byte) /\ len = Len(in_buf) /\ len \in Nat
  BY LenProperties DEF AllRun, InputFacts
<1>2. P \in Nat /\ P + m <= len /\ m \in {1, 2, 4}
  BY <1>1
<1>3. /\ WordAt(in_buf, P, m) \in Int
      /\ \A k \in 0 .. m - 1 : Part(WordAt(in_buf, P, m), 1, k) = in_buf[P + k + 1]
  BY <1>1, <1>2, WordAtIs
<1>4. Pow(m) - 1 \in Int /\ \A k \in 0 .. m - 1 : Part(Pow(m) - 1, 1, k) = Base - 1
  BY OnesParts
<1>5. w \in Int /\ \A k \in 0 .. m - 1 : Part(w, 1, k) = XOR(in_buf[P + k + 1], Base - 1)
  <2> DEFINE o == WordAt(in_buf, P, m)
             f == Pow(m) - 1
  <2> HIDE DEF o, f
  <2>1. o \in Int /\ f \in Int
    BY <1>3, <1>4 DEF o, f
  <2>2. /\ XorWords(o, f, m) \in Int
        /\ \A k \in 0 .. m - 1 : Part(XorWords(o, f, m), 1, k) = XOR(Part(o, 1, k), Part(f, 1, k))
    BY <1>2, <2>1, XorParts
  <2>3. w = XorWords(o, f, m)
    BY DEF o, f
  <2> HIDE DEF w
  <2>4. QED
    BY <1>3, <1>4, <2>2, <2>3 DEF o, f
<1>6. PutWord(in_buf, p, n, v) = buf
  <2>1. SameAs(in_buf, p, n, v, q, m, w)
    <3> HIDE DEF w
    <3>1. ASSUME NEW k \in 0 .. n - 1
          PROVE  Part(v, 1, k) = IF k >= q /\ k < q + m THEN Part(w, 1, k - q) ELSE in_buf[p + k + 1]
      <4>1. k >= q /\ k < q + m => k - q \in 0 .. m - 1 /\ P + (k - q) + 1 = p + k + 1
        OBVIOUS
      <4>2. QED
        BY <1>5, <4>1
    <3>2. QED
      BY <1>1, <1>2, <1>5, <3>1 DEF SameAs
  <2> HIDE DEF w
  <2>2. PutWord(in_buf, p, n, v) = PutWord(in_buf, p + q, m, w)
    BY <1>1, <2>1, SamePut
  <2>3. QED
    BY <2>2
<1>7. SUFFICES ASSUME Matters(buf) PROVE buf \in executed
  BY <1>6 DEF Decided
<1>8. Flagged(P, m)
  <2> HIDE DEF w, P
  <2>1. QED
    BY <1>1, <1>2, <1>5, <1>7, MattersFlagged
<1>9. /\ s \in ValueStage /\ ~Off(s) /\ P \in 0 .. Turns(s) - 1
      /\ ValueRuns(s, P) = FlipRuns(m, P)
  <2>1. CASE m = 2
    <3>1. s = "flip16"
      BY <2>1
    <3>2. QED
      BY <1>1, <1>2, <2>1, <3>1 DEF ValueStage, Off, Turns, ValueRuns
  <2>2. CASE m = 4
    <3>1. s = "flip32"
      BY <2>2
    <3>2. QED
      BY <1>1, <1>2, <2>2, <3>1 DEF ValueStage, Off, Turns, ValueRuns
  <2>3. QED
    BY <2>1, <2>2
<1>10. FlipRuns(m, P) \subseteq executed
  <2> HIDE DEF s, P
  <2>1. QED
    BY <1>9 DEF AllRun
<1>11. QED
  BY <1>8, <1>10 DEF FlipRuns

\* Nothing is lost by what could_be_bitflip() leaves out.
LEMMA FlipDecided ==
  ASSUME AllRun, NEW n \in {1, 2, 4}, NEW p \in Nat, p + n <= len, NEW v \in Int,
         could_be_bitflip(XorWords(WordAt(in_buf, p, n), v, n))
  PROVE  Decided(PutWord(in_buf, p, n, v))
<1> DEFINE r == XorWords(WordAt(in_buf, p, n), v, n)
           buf == PutWord(in_buf, p, n, v)
<1>1. InputFacts /\ in_buf \in Seq(Byte) /\ len = Len(in_buf) /\ len \in Nat
  BY LenProperties DEF AllRun, InputFacts
<1>2. WordAt(in_buf, p, n) \in Int
  BY <1>1, WordAtIs
<1>3. r \in Word(n) /\ r \in Int
  BY <1>2, XorParts
<1>4. Base \in Nat /\ Base >= 16 /\ 0 \in Byte /\ Base - 1 \in Byte /\ ByteBits \in Nat /\ ByteBits >= 4
  BY ByteFacts
<1>5. r \in Nat
  BY <1>3, Powers DEF Word
<1> HIDE DEF r
<1>6. ASSUME NEW y \in Byte \ {0}, NEW q \in 0 .. 3, r = y * Pow(q)
      PROVE  p + q \in Nat /\ p + q < len /\ buf = FlipByte(in_buf, p + q, y)
  <2>1. Flipped(p, n, v, y, 0, q)
    <3>1. y + 0 * Base = y /\ y \in Byte
      BY <1>4, ByteFacts
    <3>2. r = Shifted(y, 0, q)
      BY <1>6, <3>1 DEF Shifted
    <3>3. QED
      BY <1>4, <3>1, <3>2 DEF Flipped, r
  <2>2. q < n /\ PutWord(in_buf, p, n, v) = FlipByte(in_buf, p + q, y)
    BY <1>1, <2>1, FlippedOne
  <2>3. QED
    BY <1>1, <2>2
<1>7. CASE r = 0
  <2>1. r = Shifted(0, 0, 0)
    BY <1>7, Powers, <1>4 DEF Shifted
  <2>2. Flipped(p, n, v, 0, 0, 0)
    BY <1>4, <2>1 DEF Flipped, r
  <2>3. \A k \in 0 .. n - 1 :
              /\ k = 0 => Part(v, 1, k) = XOR(in_buf[p + k + 1], 0)
              /\ k = 0 + 1 => Part(v, 1, k) = XOR(in_buf[p + k + 1], 0)
              /\ k # 0 /\ k # 0 + 1 => Part(v, 1, k) = in_buf[p + k + 1]
    <3> SUFFICES ASSUME NEW y, NEW q, y = 0, q = 0
        PROVE  \A k \in 0 .. n - 1 :
                 /\ k = q => Part(v, 1, k) = XOR(in_buf[p + k + 1], y)
                 /\ k = q + 1 => Part(v, 1, k) = XOR(in_buf[p + k + 1], y)
                 /\ k # q /\ k # q + 1 => Part(v, 1, k) = in_buf[p + k + 1]
      OBVIOUS
    <3>1. Flipped(p, n, v, y, y, q)
      BY <2>2
    <3>2. InputFacts
      BY <1>1
    <3>3. QED
      BY <3>1, <3>2, FlippedParts
  <2>4. \A k \in 0 .. n - 1 : XOR(in_buf[p + k + 1], 0) = in_buf[p + k + 1]
    <3>1. \A k \in 0 .. n - 1 : p + k + 1 \in 1 .. len
      BY <1>1
    <3>2. \A k \in 0 .. n - 1 : in_buf[p + k + 1] \in Byte
      BY <1>1, <3>1, ElementOfSeq
    <3>3. QED
      BY <3>2, XorAssumption
  <2>5. \A k \in 0 .. n - 1 : Part(v, 1, k) = in_buf[p + k + 1]
    BY <2>3, <2>4
  <2>6. QED
    BY <1>1, <2>5, SameDecided
<1>8. CASE r # 0
  <2> DEFINE X(sh) == r \div (2 ^ sh)
  <2>1. PICK sh \in 0 .. 4 * ByteBits - 1 :
          /\ r % (2 ^ sh) = 0
          /\ \/ X(sh) \in {1, 3, 15}
             \/ sh % ByteBits = 0 /\ X(sh) \in {Pow(1) - 1, Pow(2) - 1, Pow(4) - 1}
    BY <1>8 DEF could_be_bitflip, r
  <2> DEFINE q == sh \div ByteBits
             t == sh % ByteBits
             x == X(sh)
             T == 2 ^ t
  <2>2. q \in 0 .. 3 /\ t \in 0 .. ByteBits - 1 /\ sh = q * ByteBits + t
    <3>1. q \in Int /\ t \in 0 .. ByteBits - 1 /\ sh = ByteBits * q + t
      BY <1>4
    <3> HIDE DEF q, t
    <3>2. q >= 0
      <4> SUFFICES ASSUME q <= -1 PROVE FALSE
        BY <3>1
      <4>1. ByteBits * q <= -ByteBits /\ ByteBits * q \in Int
        BY <1>4, <3>1
      <4>2. QED
        BY <1>4, <3>1, <4>1
    <3>3. q <= 3
      <4> SUFFICES ASSUME q >= 4 PROVE FALSE
        BY <3>1
      <4>1. ByteBits * q >= ByteBits * 4 /\ ByteBits * q \in Int
        BY <1>4, <3>1
      <4>2. QED
        BY <1>4, <3>1, <4>1
    <3>4. QED
      BY <1>4, <3>1, <3>2, <3>3
  <2> HIDE DEF q, t
  <2>3. 2 ^ sh \in Nat \ {0} /\ 2 ^ sh = Pow(q) * T /\ T \in Nat \ {0} /\ Pow(q) \in Nat \ {0}
    <3>1. q * ByteBits \in Nat /\ t \in Nat
      BY <1>4, <2>2
    <3>2. /\ 2 ^ (q * ByteBits) \in Nat \ {0} /\ 2 ^ t \in Nat \ {0}
          /\ 2 ^ (q * ByteBits + t) = 2 ^ (q * ByteBits) * 2 ^ t
      BY <3>1, PowerSum
    <3>3. 2 ^ sh = Pow(q) * T /\ Pow(q) \in Nat \ {0} /\ T \in Nat \ {0}
      BY <2>2, <3>2 DEF Pow
    <3> HIDE DEF T
    <3>4. QED
      BY <3>3
  <2>4. x \in Int /\ r = (x * T) * Pow(q)
    <3> DEFINE S == 2 ^ sh
    <3>1. S \in Nat \ {0} /\ r % S = 0 /\ x = r \div S
      BY <2>1, <2>3
    <3> HIDE DEF S, x
    <3>2. x \in Int /\ r = S * x
      BY <1>5, <3>1
    <3>3. S = Pow(q) * T
      BY <2>3 DEF S
    <3> HIDE DEF T
    <3>4. (Pow(q) * T) * x = (x * T) * Pow(q)
      BY <2>3, <3>2
    <3>5. QED
      BY <3>2, <3>3, <3>4
  <2>5. \/ x \in {1, 3, 15}
        \/ t = 0 /\ x \in {Pow(1) - 1, Pow(2) - 1, Pow(4) - 1}
    BY <2>1 DEF t
  <2> HIDE DEF x
  <2>6. /\ T \in Byte /\ T # 0 /\ Base = T * (2 * 2 ^ (ByteBits - 1 - t))
    BY <2>2, TwoPowers
  <2>7. ASSUME x * T \in Byte \ {0},
               \A P \in Nat : P < len => FlipByte(in_buf, P, x * T) \in executed
        PROVE  Decided(buf)
    <3>1. p + q \in Nat /\ p + q < len /\ buf = FlipByte(in_buf, p + q, x * T)
      BY <1>6, <2>2, <2>4, <2>7
    <3>2. QED
      BY <2>7, <3>1 DEF Decided
  <2>8. ASSUME x \in {3, 15}, x * T >= Base
        PROVE  Decided(buf)
    BY <1>1, <2>2, <2>4, <2>8, CrossDecided DEF r, T
  <2> SUFFICES Decided(buf)
    OBVIOUS
  <2> HIDE DEF T, buf
  <2>9. CASE x = 1
    <3>1. x * T = T
      BY <2>3, <2>9
    <3>2. \A P \in Nat : P < len => FlipByte(in_buf, P, T) \in executed
      BY <2>2, BitRuns DEF T
    <3>3. QED
      BY <2>6, <2>7, <3>1, <3>2
  <2>10. CASE x = 3
    <3>1. CASE t + 1 < ByteBits
      <4>1. x * T = 3 * T /\ x * T # 0 /\ 3 * T \in Byte
        BY <2>2, <2>3, <2>10, <3>1, BitPatterns DEF T
      <4>2. \A P \in Nat : P < len => FlipByte(in_buf, P, 3 * T) \in executed
        BY <2>2, <3>1, BitRuns DEF T
      <4>3. QED
        BY <2>7, <4>1, <4>2
    <3>2. CASE ~(t + 1 < ByteBits)
      <4>1. ByteBits - 1 - t = 0
        BY <1>4, <2>2, <3>2
      <4>2. 2 ^ 0 = 1
        OBVIOUS
      <4>3. Base = T * (2 * 1)
        BY <2>6, <4>1, <4>2
      <4>4. x * T >= Base
        BY <2>3, <2>10, <4>3
      <4>5. QED
        BY <2>8, <2>10, <4>4
    <3>3. QED
      BY <3>1, <3>2
  <2>11. CASE x = 15
    <3>1. CASE t + 3 < ByteBits
      <4>1. x * T = 15 * T /\ x * T # 0 /\ 15 * T \in Byte
        BY <2>2, <2>3, <2>11, <3>1, BitPatterns DEF T
      <4>2. \A P \in Nat : P < len => FlipByte(in_buf, P, 15 * T) \in executed
        BY <2>2, <3>1, BitRuns DEF T
      <4>3. QED
        BY <2>7, <4>1, <4>2
    <3>2. CASE ~(t + 3 < ByteBits)
      <4>1. ByteBits - 1 - t = 0 \/ ByteBits - 1 - t = 1 \/ ByteBits - 1 - t = 2
        BY <1>4, <2>2, <3>2
      <4>2. 2 ^ 0 = 1 /\ 2 ^ 1 = 2 /\ 2 ^ 2 = 4
        OBVIOUS
      <4>3. Base = T * (2 * 1) \/ Base = T * (2 * 2) \/ Base = T * (2 * 4)
        BY <2>6, <4>1, <4>2
      <4>4. x * T >= Base
        BY <2>3, <2>11, <4>3
      <4>5. QED
        BY <2>8, <2>11, <4>4
    <3>3. QED
      BY <3>1, <3>2
  <2>12. ASSUME t = 0, x \in {Pow(1) - 1, Pow(2) - 1, Pow(4) - 1}
         PROVE  Decided(buf)
    <3>1. T = 1
      BY <2>12 DEF T
    <3>2. r = x * Pow(q)
      BY <2>4, <3>1
    <3>3. CASE x = Pow(1) - 1
      <4>1. x * T = Base - 1 /\ x * T \in Byte \ {0}
        BY <1>4, <3>1, <3>3, Powers
      <4>2. \A P \in Nat : P < len => FlipByte(in_buf, P, Base - 1) \in executed
        BY <2>2, BitRuns
      <4>3. QED
        BY <2>7, <4>1, <4>2
    <3>4. CASE x = Pow(2) - 1
      <4> DEFINE b == Base - 1
      <4>1. x = b + b * Base
        BY <1>4, <3>4, Powers
      <4>2. b \in Byte /\ b # 0
        BY <1>4
      <4> HIDE DEF b
      <4>3. Flipped(p, n, v, b, b, q)
        BY <2>2, <3>2, <4>1, <4>2 DEF Flipped, Shifted, r
      <4>4. /\ b # 0 => q < n
            /\ b # 0 => q + 1 < n
            /\ \A k \in 0 .. n - 1 :
                 /\ k = q => Part(v, 1, k) = XOR(in_buf[p + k + 1], b)
                 /\ k = q + 1 => Part(v, 1, k) = XOR(in_buf[p + k + 1], b)
                 /\ k # q /\ k # q + 1 => Part(v, 1, k) = in_buf[p + k + 1]
        <5>1. InputFacts
          BY <1>1
        <5>2. QED
          BY SMT, <4>3, <5>1, FlippedParts
      <4>5. q \in 0 .. n - 2 /\ \A k \in 0 .. n - 1 :
              Part(v, 1, k) = IF k >= q /\ k < q + 2 THEN XOR(in_buf[p + k + 1], Base - 1)
                                               ELSE in_buf[p + k + 1]
        BY <2>2, <4>2, <4>4 DEF b
      <4>6. QED
        BY <4>5, BytesFlipped DEF buf
    <3>5. CASE x = Pow(4) - 1
      <4> DEFINE N == Pow(4)
      <4>1. /\ N \in Nat /\ N >= 2 /\ Pow(n) \in Nat /\ Pow(n) <= N
            /\ Pow(1) >= 2 /\ Pow(2) >= 2 /\ Pow(3) >= 2 /\ Pow(q) \in Nat
            /\ Pow(0) = 1
        <5>1. /\ Pow(0) = 1 /\ Pow(1) = Base /\ Pow(2) = Base * Base
              /\ Pow(3) = (Base * Base) * Base /\ N = (Base * Base) * (Base * Base)
          BY Powers
        <5> DEFINE A == Base * Base
        <5>2. A \in Nat /\ A >= Base
          BY <1>4
        <5> HIDE DEF A
        <5>3. A * Base \in Nat /\ A * Base >= A /\ A * A \in Nat /\ A * A >= A
          BY <1>4, <5>2
        <5>4. QED
          BY <1>4, <2>3, <5>1, <5>2, <5>3 DEF A
      <4>2. r < N
        BY <1>3, <4>1 DEF Word
      <4>3. r = (N - 1) * Pow(q)
        BY <3>2, <3>5
      <4>4. q = 0
        <5> SUFFICES ASSUME q # 0 PROVE FALSE
          OBVIOUS
        <5>1. q = 1 \/ q = 2 \/ q = 3
          BY <2>2
        <5>2. Pow(q) >= 2
          BY <4>1, <5>1
        <5> DEFINE K == Pow(q)
        <5> HIDE DEF N, K
        <5>3. K \in Nat /\ K >= 2 /\ N \in Nat /\ N >= 2
          BY <4>1, <5>2 DEF K
        <5>4. (N - 1) * K >= (N - 1) * 2 /\ (N - 1) * K \in Nat
          BY <5>3
        <5>5. QED
          BY <4>2, <4>3, <5>3, <5>4 DEF K
      <4>5. r = Pow(4) - 1
        BY <4>1, <4>3, <4>4
      <4>6. n = 4 /\ \A k \in 0 .. 3 : Part(v, 1, k) = XOR(in_buf[p + k + 1], Base - 1)
        BY <1>1, <4>5, AllFlipped DEF r
      <4>7. 0 \in 0 .. n - 4 /\ \A k \in 0 .. n - 1 :
              Part(v, 1, k) = IF k >= 0 /\ k < 0 + 4 THEN XOR(in_buf[p + k + 1], Base - 1)
                                               ELSE in_buf[p + k + 1]
        BY <4>6
      <4>8. QED
        BY <4>7, BytesFlipped DEF buf
    <3>6. QED
      BY <2>12, <3>3, <3>4, <3>5
  <2>13. QED
    BY <2>5, <2>9, <2>10, <2>11, <2>12
<1>9. QED
  BY <1>7, <1>8

-----------------------------------------------------------------------------
(* Arithmetic.                                                             *)

ArithAt(p, n, t) == PutWord(in_buf, p, n, ArithValue(n, WordAt(in_buf, p, n), t))
ArithTry(p, n, t) == n \in {1, 2, 4} /\ p \in Nat /\ p + n <= len /\ t \in ArithTries(n)

\* The components of a triple.
LEMMA Triple ==
  ASSUME NEW A, NEW B, NEW C, NEW t \in A \X B \X C
  PROVE  t[1] \in A /\ t[2] \in B /\ t[3] \in C /\ t = <<t[1], t[2], t[3]>>
OBVIOUS

\* The components of a try.
LEMMA TryTypes ==
  ASSUME NEW n \in {1, 2, 4}, NEW t \in ArithTries(n)
  PROVE  /\ t[1] \in Nat /\ t[1] \in 1 .. ARITH_MAX /\ t[2] \in {1, -1} /\ t[3] \in BOOLEAN
         /\ t = <<t[1], t[2], t[3]>> /\ (n = 1 => t[3] = FALSE) /\ t[1] * t[2] \in Int
<1>1. ARITH_MAX \in Nat
  BY DetAssumption
<1>2. /\ t[1] \in 1 .. ARITH_MAX /\ t[2] \in {1, -1} /\ t[3] \in BOOLEAN
      /\ t = <<t[1], t[2], t[3]>> /\ (n = 1 => t[3] = FALSE)
  <2>1. CASE n = 1
    <3>1. t \in (1 .. ARITH_MAX) \X {1, -1} \X {FALSE}
      BY <2>1 DEF ArithTries
    <3> DEFINE C == {FALSE}
    <3>2. t \in (1 .. ARITH_MAX) \X {1, -1} \X C
      BY <3>1
    <3> HIDE DEF C
    <3>3. t[1] \in 1 .. ARITH_MAX /\ t[2] \in {1, -1} /\ t[3] \in C /\ t = <<t[1], t[2], t[3]>>
      BY <3>2, Triple
    <3>4. t[3] = FALSE
      BY <3>3 DEF C
    <3>5. t[3] \in BOOLEAN
      BY <3>4
    <3>6. QED
      BY <3>3, <3>4, <3>5
  <2>2. CASE n # 1
    <3>1. t \in (1 .. ARITH_MAX) \X {1, -1} \X BOOLEAN
      BY <2>2 DEF ArithTries
    <3>2. QED
      BY <2>2, <3>1
  <2>3. QED
    BY <2>1, <2>2
<1>3. t[1] \in Nat /\ t[1] * t[2] \in Int
  BY <1>1, <1>2
<1>4. QED
  BY <1>2, <1>3

\* The value of a try is an integer.
LEMMA ArithTypes ==
  ASSUME NEW n \in {1, 2, 4}, NEW t \in ArithTries(n), NEW o \in Int
  PROVE  ArithValue(n, o, t) \in Int
<1>1. t[3] \in BOOLEAN /\ (n = 1 => t[3] = FALSE)
  BY TryTypes
<1>2. t[1] * t[2] \in Int
  BY TryTypes
<1> DEFINE d == t[1] * t[2]
<1> HIDE DEF d
<1>3. d \in Int
  BY <1>2 DEF d
<1>4. \A z \in Int : Cast(z, n) \in Int
  BY CastParts, WordInt
<1>5. n # 1 => \A z \in Int : Swap(z, n) \in Int
  <2>1. n # 1 => n \in {2, 4}
    OBVIOUS
  <2>2. QED
    BY <2>1, SwapParts, WordInt
<1>6. ArithValue(n, o, t) = IF t[3] THEN Swap(Cast(Swap(o, n) + d, n), n) ELSE Cast(o + d, n)
  BY DEF ArithValue, d
<1>7. CASE t[3] = FALSE
  <2>1. o + d \in Int
    BY <1>3
  <2>2. QED
    BY <1>1, <1>2, <1>4, <1>6, <1>7, <2>1
<1>8. CASE t[3] = TRUE
  <2>1. n # 1
    BY <1>1, <1>8
  <2>2. Swap(o, n) + d \in Int
    BY <1>3, <1>5, <2>1
  <2>3. Cast(Swap(o, n) + d, n) \in Int
    BY <1>4, <2>2
  <2>4. QED
    BY <1>1, <1>2, <1>5, <1>6, <1>8, <2>1, <2>3
<1>9. QED
  BY <1>1, <1>7, <1>8

\* What is worth trying has been run.
LEMMA ArithCore ==
  ASSUME AllRun, ~no_arith, NEW p, NEW n, NEW t, ArithTry(p, n, t),
         n = 1 \/ Carries(n, WordAt(in_buf, p, n), t)
  PROVE  Decided(ArithAt(p, n, t))
<1> DEFINE o == WordAt(in_buf, p, n)
           v == ArithValue(n, o, t)
           s == IF n = 1 THEN "arith8" ELSE IF n = 2 THEN "arith16" ELSE "arith32"
<1>1. InputFacts /\ in_buf \in Seq(Byte) /\ len = Len(in_buf) /\ len \in Nat
  BY LenProperties DEF AllRun, InputFacts
<1>2. n \in {1, 2, 4} /\ p \in Nat /\ p + n <= len /\ t \in ArithTries(n)
  BY DEF ArithTry
<1>3. o \in Int
  BY <1>1, <1>2, WordAtIs
<1>4. v \in Int
  <2> HIDE DEF o
  <2>1. QED
    BY <1>2, <1>3, ArithTypes
<1>5. CASE could_be_bitflip(XorWords(o, v, n))
  <2> HIDE DEF v
  <2>1. Decided(PutWord(in_buf, p, n, v))
    BY <1>2, <1>4, <1>5, FlipDecided
  <2>2. QED
    BY <2>1 DEF ArithAt, v
<1>6. CASE ~could_be_bitflip(XorWords(o, v, n))
  <2> DEFINE buf == PutWord(in_buf, p, n, v)
  <2>1. WorthArith(n, o, t)
    BY <1>6 DEF WorthArith
  <2>2. SUFFICES ASSUME Matters(buf) PROVE buf \in executed
    BY DEF Decided, ArithAt
  <2>3. Flagged(p, n)
    <3> HIDE DEF v
    <3>1. QED
      BY <1>1, <1>2, <1>4, <2>2, MattersFlagged
  <2>4. /\ s \in ValueStage /\ ~Off(s) /\ p \in 0 .. Turns(s) - 1 /\ ValueRuns(s, p) = ArithRuns(n, p)
    <3>1. CASE n = 1
      <4>1. s = "arith8"
        BY <3>1
      <4>2. QED
        BY <1>1, <1>2, <3>1, <4>1 DEF ValueStage, Off, Turns, ValueRuns
    <3>2. CASE n = 2
      <4>1. s = "arith16"
        BY <3>2
      <4>2. QED
        BY <1>1, <1>2, <3>2, <4>1 DEF ValueStage, Off, Turns, ValueRuns
    <3>3. CASE n = 4
      <4>1. s = "arith32"
        BY <3>3
      <4>2. QED
        BY <1>1, <1>2, <3>3, <4>1 DEF ValueStage, Off, Turns, ValueRuns
    <3>4. QED
      BY <1>2, <3>1, <3>2, <3>3
  <2>5. ArithRuns(n, p) \subseteq executed
    <3> HIDE DEF s
    <3>1. QED
      BY <2>4 DEF AllRun
  <2>6. QED
    BY <1>2, <2>1, <2>3, <2>5 DEF ArithRuns
<1>7. QED
  BY <1>5, <1>6

\* A word made of two halves.
LEMMA HalfParts ==
  ASSUME NEW h \in {1, 2}, NEW lo \in Word(h), NEW hi \in Word(h)
  PROVE  LET v == lo + hi * Pow(h)
             n == 2 * h
         IN  /\ v \in Word(n) /\ v \in Int /\ v % Pow(h) = lo
             /\ \A k \in 0 .. h - 1 : Part(v, 1, k) = Part(lo, 1, k)
             /\ \A k \in h .. n - 1 : Part(v, 1, k) = Part(hi, 1, k - h)
<1> DEFINE v == lo + hi * Pow(h)
<1>0. h \in {1, 2, 4} /\ lo \in Int /\ hi \in Int
  BY WordInt
<1>1. /\ \A k \in 0 .. 3 : Part(lo, 1, k) \in Byte /\ Part(hi, 1, k) \in Byte
  BY <1>0, Parts
<1>2. lo = Part(lo, h, 0) /\ hi = Part(hi, h, 0)
  BY <1>0, CastParts
<1>3. v % Pow(h) = lo
  <2> DEFINE M == Pow(h)
  <2>1. M \in Nat \ {0} /\ lo \in 0 .. M - 1
    BY Powers DEF Word
  <2> HIDE DEF M
  <2>2. (lo + hi * M) % M = lo
    BY <1>0, <2>1, Split
  <2>3. QED
    BY <2>2 DEF M
<1>4. CASE h = 1
  <2> DEFINE a == Part(lo, 1, 0)
             b == Part(hi, 1, 0)
  <2>1. v = a + b * Base /\ a \in Byte /\ b \in Byte
    BY <1>1, <1>2, <1>4, Powers
  <2> HIDE DEF a, b, v
  <2>2. v \in Word(2) /\ Part(v, 1, 0) = a /\ Part(v, 1, 1) = b
    BY <2>1, Digits
  <2>3. v \in Int
    BY <2>2, WordInt
  <2>4. /\ \A k \in 0 .. 0 : Part(v, 1, k) = Part(lo, 1, k)
        /\ \A k \in 1 .. 1 : Part(v, 1, k) = Part(hi, 1, k - 1)
    BY <2>2 DEF a, b
  <2>5. h - 1 = 0 /\ 2 * h = 2 /\ 2 * h - 1 = 1
    BY <1>4
  <2>6. QED
    BY <1>3, <1>4, <2>2, <2>3, <2>4, <2>5 DEF v
<1>5. CASE h = 2
  <2> DEFINE a == Part(lo, 1, 0)
             b == Part(lo, 1, 1)
             c == Part(hi, 1, 0)
             d == Part(hi, 1, 1)
  <2>1. a \in Byte /\ b \in Byte /\ c \in Byte /\ d \in Byte
    BY <1>1
  <2>2. lo = a + b * Base /\ hi = c + d * Base
    BY <1>0, <1>2, <1>5, Parts
  <2>3. v = (a + b * Base) + (c + d * Base) * Pow(2)
    BY <1>5, <2>2
  <2> HIDE DEF a, b, c, d, v
  <2>4. /\ v \in Word(4) /\ Part(v, 1, 0) = a /\ Part(v, 1, 1) = b
        /\ Part(v, 1, 2) = c /\ Part(v, 1, 3) = d
    BY <2>1, <2>3, Digits
  <2>5. v \in Int
    BY <2>4, WordInt
  <2>6. /\ \A k \in 0 .. 1 : Part(v, 1, k) = Part(lo, 1, k)
        /\ \A k \in 2 .. 3 : Part(v, 1, k) = Part(hi, 1, k - 2)
    BY <2>4 DEF a, b, c, d
  <2>7. h - 1 = 1 /\ 2 * h = 4 /\ 2 * h - 1 = 3
    BY <1>5
  <2>8. QED
    BY <1>3, <1>5, <2>4, <2>5, <2>6, <2>7 DEF v
<1>6. QED
  BY <1>4, <1>5

\* Adding to a word without a carry into its upper half.
LEMMA AddLow ==
  ASSUME NEW h \in {1, 2}, NEW z \in Word(2 * h), NEW d \in Int, (z % Pow(h)) + d \in Word(h)
  PROVE  LET lo == z % Pow(h)
             x  == Cast(z + d, 2 * h)
         IN  /\ lo \in Word(h) /\ x \in Word(2 * h)
             /\ \A k \in 0 .. h - 1 : Part(z, 1, k) = Part(lo, 1, k) /\ Part(x, 1, k) = Part(lo + d, 1, k)
             /\ \A k \in h .. 2 * h - 1 : Part(x, 1, k) = Part(z, 1, k)
<1> DEFINE lo == z % Pow(h)
           hi == Part(z, h, h)
           x  == Cast(z + d, 2 * h)
<1>1. h \in {1, 2, 4} /\ 2 * h \in {1, 2, 4} /\ 4 - h \in Nat /\ h \in 0 .. 4 - h
  OBVIOUS
<1>2. z \in Int
  BY <1>1, WordInt
<1>3. lo = Part(z, h, 0)
  BY <1>1, <1>2, CastParts DEF Cast
<1>4. lo \in Word(h) /\ hi \in Word(h)
  BY <1>1, <1>2, <1>3, PartParts
<1>5. z = lo + hi * Pow(h)
  <2>1. Cast(z, 2 * h) = z /\ Cast(z, 2 * h) = Part(z, 2 * h, 0)
    BY <1>1, <1>2, CastParts
  <2>2. CASE h = 1
    BY <1>2, <1>3, <2>1, <2>2, Parts, Powers
  <2>3. CASE h = 2
    BY <1>2, <1>3, <2>1, <2>3, Parts
  <2>4. QED
    BY <2>2, <2>3
<1>6. Pow(h) \in Int
  BY <1>1, Powers
<1> DEFINE y == lo + d
<1>7. y \in Word(h)
  OBVIOUS
<1> HIDE DEF lo, hi, y
<1>8. lo \in Int /\ hi \in Int /\ y \in Int
  BY <1>1, <1>4, <1>7, WordInt
<1>9. z + d = y + hi * Pow(h)
  <2> DEFINE c == hi * Pow(h)
  <2>1. c \in Int /\ z = lo + c
    BY <1>5, <1>6, <1>8
  <2> HIDE DEF c
  <2>2. z + d = y + c
    BY <1>8, <2>1 DEF y
  <2>3. QED
    BY <2>2 DEF c
<1>10. /\ \A k \in 0 .. h - 1 : Part(z, 1, k) = Part(lo, 1, k)
       /\ \A k \in h .. 2 * h - 1 : Part(z, 1, k) = Part(hi, 1, k - h)
  BY <1>4, <1>5, HalfParts
<1>11. /\ z + d \in Word(2 * h) /\ z + d \in Int
       /\ \A k \in 0 .. h - 1 : Part(z + d, 1, k) = Part(y, 1, k)
       /\ \A k \in h .. 2 * h - 1 : Part(z + d, 1, k) = Part(hi, 1, k - h)
  BY <1>4, <1>7, <1>9, HalfParts
<1>12. x = z + d
  BY <1>1, <1>11, CastParts
<1>13. QED
  BY <1>4, <1>10, <1>11, <1>12 DEF lo, y

\* What such an operation on a word of 2h bytes does is what the same operation does on
\* its lower half.
Halved(h, t) == <<t[1], t[2], IF h = 1 THEN FALSE ELSE t[3]>>

\* It is a try of the half.
LEMMA HalvedTry ==
  ASSUME NEW h \in {1, 2}, NEW t \in ArithTries(2 * h)
  PROVE  /\ Halved(h, t) \in ArithTries(h)
         /\ Halved(h, t)[1] = t[1] /\ Halved(h, t)[2] = t[2]
         /\ Halved(h, t)[3] = IF h = 1 THEN FALSE ELSE t[3]
<1>1. 2 * h \in {1, 2, 4} /\ 2 * h # 1
  OBVIOUS
<1>2. t[1] \in 1 .. ARITH_MAX /\ t[2] \in {1, -1} /\ t[3] \in BOOLEAN
  BY <1>1, TryTypes
<1>3. CASE h = 1
  BY <1>2, <1>3 DEF Halved, ArithTries
<1>4. CASE h = 2
  BY <1>2, <1>4 DEF Halved, ArithTries
<1>5. QED
  BY <1>3, <1>4

\* When there is no carry, the sum of the lower half and the operand fits in the half.
LEMMA Stays ==
  ASSUME NEW h \in {1, 2}, NEW t \in ArithTries(2 * h), NEW o \in Word(2 * h), ~Carries(2 * h, o, t)
  PROVE  LET z == IF t[3] THEN Swap(o, 2 * h) ELSE o
         IN  z \in Word(2 * h) /\ (z % Pow(h)) + t[1] * t[2] \in Word(h)
<1> DEFINE z  == IF t[3] THEN Swap(o, 2 * h) ELSE o
           lo == z % Pow(h)
<1>1. 2 * h \in {1, 2, 4} /\ 2 * h \in {2, 4} /\ (2 * h) \div 2 = h /\ h \in {1, 2, 4}
  OBVIOUS
<1>2. t[1] \in Nat /\ t[2] \in {1, -1} /\ t[3] \in BOOLEAN
  BY <1>1, TryTypes
<1>3. z \in Word(2 * h)
  <2>1. o \in Int
    BY <1>1, WordInt
  <2>2. Swap(o, 2 * h) \in Word(2 * h)
    BY <1>1, <2>1, SwapParts
  <2>3. QED
    BY <2>2
<1> HIDE DEF z
<1>4. z \in Int
  BY <1>1, <1>3, WordInt
<1>5. lo \in 0 .. Pow(h) - 1 /\ Pow(h) \in Int
  <2>1. Cast(z, h) \in Word(h)
    BY <1>1, <1>4, CastParts
  <2>2. QED
    BY <1>1, <2>1, Powers DEF Cast, Word
<1>6. ~(IF t[2] = 1 THEN lo + t[1] > Pow(h) - 1 ELSE lo < t[1])
  BY <1>1 DEF Carries, z
<1> DEFINE P == Pow(h)
<1> HIDE DEF lo, P
<1>7. lo + t[1] * t[2] \in 0 .. P - 1
  <2>1. lo \in 0 .. P - 1 /\ P \in Int /\ ~(IF t[2] = 1 THEN lo + t[1] > P - 1 ELSE lo < t[1])
    BY <1>5, <1>6 DEF P
  <2>2. CASE t[2] = 1
    BY <1>2, <2>1, <2>2
  <2>3. CASE t[2] = -1
    BY <1>2, <2>1, <2>3
  <2>4. QED
    BY <1>2, <2>2, <2>3
<1>8. QED
  BY <1>3, <1>7 DEF lo, P, Word, z

\* The case of a little-endian word: its lower half comes first.
LEMMA NoCarryLow ==
  ASSUME InputFacts, NEW h \in {1, 2}, NEW p, NEW t, ArithTry(p, 2 * h, t), ~t[3],
         ~Carries(2 * h, WordAt(in_buf, p, 2 * h), t)
  PROVE  ArithTry(p, h, Halved(h, t)) /\ ArithAt(p, 2 * h, t) = ArithAt(p, h, Halved(h, t))
<1> DEFINE n  == 2 * h
           o  == WordAt(in_buf, p, n)
           o2 == WordAt(in_buf, p, h)
           d  == t[1] * t[2]
           lo == o % Pow(h)
           v  == Cast(o + d, n)
           t2 == Halved(h, t)
<1>1. /\ n \in {1, 2, 4} /\ n # 1 /\ h \in {1, 2, 4} /\ h \in Nat /\ p \in Nat /\ p + n <= len /\ p + h <= len
      /\ t \in ArithTries(n) /\ len \in Nat /\ in_buf \in Seq(Byte) /\ len = Len(in_buf)
  <2>1. len \in Nat /\ in_buf \in Seq(Byte) /\ len = Len(in_buf)
    BY LenProperties DEF InputFacts
  <2>2. QED
    BY <2>1 DEF ArithTry
<1>2. t[1] \in Nat /\ d \in Int
  BY <1>1, TryTypes
<1>3. /\ o \in Word(n) /\ o \in Int /\ \A k \in 0 .. n - 1 : Part(o, 1, k) = in_buf[p + k + 1]
      /\ o2 \in Word(h) /\ o2 \in Int /\ \A k \in 0 .. h - 1 : Part(o2, 1, k) = in_buf[p + k + 1]
  BY <1>1, WordAtIs
<1>4. t2 \in ArithTries(h) /\ t2[1] = t[1] /\ t2[2] = t[2] /\ t2[3] = FALSE
  <2>1. t[3] = FALSE
    BY <1>1, TryTypes
  <2>2. QED
    BY <1>1, <2>1, HalvedTry
<1>5. lo + d \in Word(h)
  <2> HIDE DEF o
  <2>1. QED
    BY <1>1, <1>3, Stays DEF o
<1> HIDE DEF o, o2, d, t2
<1>6. /\ lo \in Word(h) /\ v \in Word(n)
      /\ \A k \in 0 .. h - 1 : Part(o, 1, k) = Part(lo, 1, k) /\ Part(v, 1, k) = Part(lo + d, 1, k)
      /\ \A k \in h .. n - 1 : Part(v, 1, k) = Part(o, 1, k)
  BY <1>2, <1>3, <1>5, AddLow
<1>7. v \in Int /\ lo + d \in Int
  BY <1>1, <1>5, <1>6, WordInt
<1> HIDE DEF lo, v
<1>8. o2 = lo
  <2>1. \A k \in 0 .. h - 1 : Part(o2, 1, k) = Part(lo, 1, k)
    BY <1>1, <1>3, <1>6
  <2>2. QED
    BY <1>1, <1>3, <1>6, <2>1, SameWord
<1>9. ArithValue(n, o, t) = v /\ ArithValue(h, o2, t2) = lo + d
  <2>1. Cast(lo + d, h) = lo + d
    BY <1>1, <1>5, <1>7, CastParts
  <2>2. ArithValue(n, o, t) = v
    BY DEF ArithValue, v, d
  <2>3. ArithValue(h, o2, t2) = Cast(o2 + d, h)
    BY <1>4 DEF ArithValue, d
  <2>4. QED
    BY <1>8, <2>1, <2>2, <2>3
<1> DEFINE y == lo + d
<1> HIDE DEF y
<1>10. SameAs(in_buf, p, n, v, 0, h, y)
  <2>1. \A k \in 0 .. n - 1 : k >= 0 /\ k < 0 + h => Part(v, 1, k) = Part(y, 1, k - 0)
    BY <1>1, <1>6 DEF y
  <2>2. \A k \in 0 .. n - 1 : ~(k >= 0 /\ k < 0 + h) => Part(v, 1, k) = in_buf[p + k + 1]
    BY <1>1, <1>3, <1>6
  <2>3. y \in Int /\ 0 \in 0 .. n - h
    BY <1>1, <1>7 DEF y
  <2> HIDE DEF n
  <2>4. QED
    BY <1>1, <1>7, <2>1, <2>2, <2>3 DEF SameAs
<1>11. PutWord(in_buf, p, n, v) = PutWord(in_buf, p, h, y)
  <2>1. PutWord(in_buf, p, n, v) = PutWord(in_buf, p + 0, h, y)
    BY <1>1, <1>10, SamePut
  <2>2. QED
    BY <1>1, <2>1
<1>12. ArithTry(p, h, t2)
  BY <1>1, <1>4 DEF ArithTry
<1>13. QED
  BY <1>9, <1>11, <1>12 DEF ArithAt, o, o2, t2, y

\* The case of a big-endian word: its lower half comes last.
LEMMA NoCarryHigh ==
  ASSUME InputFacts, NEW h \in {1, 2}, NEW p, NEW t, ArithTry(p, 2 * h, t), t[3],
         ~Carries(2 * h, WordAt(in_buf, p, 2 * h), t)
  PROVE  ArithTry(p + h, h, Halved(h, t)) /\ ArithAt(p, 2 * h, t) = ArithAt(p + h, h, Halved(h, t))
<1> DEFINE n  == 2 * h
           o  == WordAt(in_buf, p, n)
           z  == Swap(o, n)
           o2 == WordAt(in_buf, p + h, h)
           d  == t[1] * t[2]
           lo == z % Pow(h)
           x  == Cast(z + d, n)
           v  == Swap(x, n)
           t2 == Halved(h, t)
<1>1. /\ n \in {1, 2, 4} /\ n \in {2, 4} /\ n # 1 /\ h \in {1, 2, 4} /\ h \in Nat /\ p \in Nat
      /\ p + n <= len /\ p + h + h <= len /\ p + h \in Nat /\ n = h + h
      /\ t \in ArithTries(n) /\ len \in Nat /\ in_buf \in Seq(Byte) /\ len = Len(in_buf)
  <2>1. len \in Nat /\ in_buf \in Seq(Byte) /\ len = Len(in_buf)
    BY LenProperties DEF InputFacts
  <2>2. QED
    BY <2>1 DEF ArithTry
<1>2. t[1] \in Nat /\ d \in Int /\ t[3] = TRUE
  BY <1>1, TryTypes
<1>3. /\ o \in Word(n) /\ o \in Int /\ \A k \in 0 .. n - 1 : Part(o, 1, k) = in_buf[p + k + 1]
      /\ o2 \in Word(h) /\ o2 \in Int /\ \A k \in 0 .. h - 1 : Part(o2, 1, k) = in_buf[p + h + k + 1]
  BY <1>1, WordAtIs
<1>4. t2 \in ArithTries(h) /\ t2[1] = t[1] /\ t2[2] = t[2] /\ t2[3] = IF h = 1 THEN FALSE ELSE TRUE
  BY <1>1, <1>2, HalvedTry
<1>5. lo + d \in Word(h) /\ z \in Word(n)
  <2> HIDE DEF o
  <2>1. QED
    BY <1>1, <1>2, <1>3, Stays DEF o
<1> HIDE DEF o, o2, d, t2
<1>6. \A k \in 0 .. n - 1 : Part(z, 1, k) = Part(o, 1, n - 1 - k)
  BY <1>1, <1>3, SwapParts
<1> HIDE DEF z
<1>7. /\ lo \in Word(h) /\ x \in Word(n)
      /\ \A k \in 0 .. h - 1 : Part(z, 1, k) = Part(lo, 1, k) /\ Part(x, 1, k) = Part(lo + d, 1, k)
      /\ \A k \in h .. n - 1 : Part(x, 1, k) = Part(z, 1, k)
  BY <1>2, <1>5, AddLow
<1>8. x \in Int /\ lo + d \in Int /\ lo \in Int
  BY <1>1, <1>5, <1>7, WordInt
<1> HIDE DEF lo, x
<1>9. v \in Word(n) /\ v \in Int /\ \A k \in 0 .. n - 1 : Part(v, 1, k) = Part(x, 1, n - 1 - k)
  BY <1>1, <1>8, SwapParts, WordInt
<1> DEFINE y == lo + d
           w == IF h = 1 THEN y ELSE Swap(y, h)
           l2 == IF h = 1 THEN lo ELSE Swap(lo, h)
<1> HIDE DEF v, y
<1>10. y \in Int /\ y \in Word(h)
  BY <1>5, <1>8 DEF y
<1>11. w \in Word(h) /\ w \in Int /\ \A k \in 0 .. h - 1 : Part(w, 1, k) = Part(y, 1, h - 1 - k)
  <2>1. CASE h = 1
    BY <1>10, <2>1
  <2>2. CASE h # 1
    <3>1. h \in {2, 4} /\ w = Swap(y, h)
      BY <2>2
    <3>2. QED
      <4>1. Swap(y, h) \in Word(h) /\ \A k \in 0 .. h - 1 : Part(Swap(y, h), 1, k) = Part(y, 1, h - 1 - k)
        BY <1>10, <3>1, SwapParts
      <4>2. Swap(y, h) \in Int
        BY <1>1, <4>1, WordInt
      <4>3. QED
        BY <3>1, <4>1, <4>2
  <2>3. QED
    BY <2>1, <2>2
<1>12. l2 \in Word(h) /\ l2 \in Int /\ \A k \in 0 .. h - 1 : Part(l2, 1, k) = Part(lo, 1, h - 1 - k)
  <2>1. CASE h = 1
    BY <1>7, <1>8, <2>1
  <2>2. CASE h # 1
    <3>1. h \in {2, 4} /\ l2 = Swap(lo, h)
      BY <2>2
    <3>2. QED
      <4>1. Swap(lo, h) \in Word(h) /\ \A k \in 0 .. h - 1 : Part(Swap(lo, h), 1, k) = Part(lo, 1, h - 1 - k)
        BY <1>8, <3>1, SwapParts
      <4>2. Swap(lo, h) \in Int
        BY <1>1, <4>1, WordInt
      <4>3. QED
        BY <3>1, <4>1, <4>2
  <2>3. QED
    BY <2>1, <2>2
<1>13. o2 = l2
  <2>1. ASSUME NEW k \in 0 .. h - 1 PROVE Part(o2, 1, k) = Part(l2, 1, k)
    <3>1. /\ h - 1 - k \in 0 .. h - 1 /\ h - 1 - k \in 0 .. n - 1 /\ n - 1 - (h - 1 - k) = h + k
          /\ h + k \in 0 .. n - 1 /\ p + (h + k) + 1 = p + h + k + 1
      BY <1>1
    <3>2. Part(lo, 1, h - 1 - k) = Part(o, 1, h + k)
      BY <1>6, <1>7, <3>1
    <3>3. QED
      BY <1>3, <1>12, <3>1, <3>2
  <2> HIDE DEF l2
  <2>2. QED
    BY <1>1, <1>3, <1>12, <2>1, SameWord
<1>14. ArithValue(n, o, t) = v /\ ArithValue(h, o2, t2) = w
  <2>1. Cast(y, h) = y
    BY <1>1, <1>10, CastParts
  <2>2. ArithValue(n, o, t) = v
    BY <1>2 DEF ArithValue, v, x, z, d
  <2>3. ArithValue(h, o2, t2) = w
    <3>1. CASE h = 1
      <4>1. ArithValue(h, o2, t2) = Cast(o2 + d, h)
        BY <1>4, <3>1 DEF ArithValue, d
      <4>2. QED
        BY <1>13, <2>1, <3>1, <4>1 DEF y
    <3>2. CASE h # 1
      <4>1. ArithValue(h, o2, t2) = Swap(Cast(Swap(o2, h) + d, h), h)
        BY <1>4, <3>2 DEF ArithValue, d
      <4>2. Swap(Swap(lo, h), h) = Cast(lo, h) /\ Cast(lo, h) = lo
        <5>1. h \in {2, 4}
          BY <3>2
        <5>2. QED
          BY <1>1, <1>7, <1>8, <5>1, SwapTwice, CastParts
      <4>3. Swap(o2, h) + d = y
        BY <1>13, <3>2, <4>2 DEF y
      <4>4. QED
        BY <2>1, <3>2, <4>1, <4>3
    <3>3. QED
      BY <3>1, <3>2
  <2>4. QED
    BY <2>2, <2>3
<1> HIDE DEF w
<1>15. SameAs(in_buf, p, n, v, h, h, w)
  <2>1. ASSUME NEW k \in 0 .. n - 1, k >= h /\ k < h + h
        PROVE  Part(v, 1, k) = Part(w, 1, k - h)
    <3>1. /\ n - 1 - k \in 0 .. h - 1 /\ k - h \in 0 .. h - 1 /\ h - 1 - (k - h) = n - 1 - k
      BY <1>1, <2>1
    <3>2. Part(v, 1, k) = Part(y, 1, n - 1 - k)
      BY <1>7, <1>9, <3>1 DEF y
    <3>3. Part(w, 1, k - h) = Part(y, 1, n - 1 - k)
      BY <1>11, <3>1
    <3>4. QED
      BY <3>2, <3>3
  <2>2. ASSUME NEW k \in 0 .. n - 1, ~(k >= h /\ k < h + h)
        PROVE  Part(v, 1, k) = in_buf[p + k + 1]
    <3>1. n - 1 - k \in h .. n - 1 /\ n - 1 - k \in 0 .. n - 1 /\ n - 1 - (n - 1 - k) = k
      BY <1>1, <2>2
    <3>2. Part(v, 1, k) = Part(z, 1, n - 1 - k)
      BY <1>7, <1>9, <3>1
    <3>3. Part(z, 1, n - 1 - k) = Part(o, 1, k)
      BY <1>6, <3>1
    <3>4. QED
      BY <1>3, <3>2, <3>3
  <2>3. h \in 0 .. n - h
    BY <1>1
  <2> HIDE DEF n
  <2>4. QED
    BY <1>1, <1>9, <1>11, <2>1, <2>2, <2>3 DEF SameAs
<1>16. PutWord(in_buf, p, n, v) = PutWord(in_buf, p + h, h, w)
  <2> HIDE DEF n
  <2>1. QED
    BY <1>1, <1>15, SamePut
<1>17. ArithTry(p + h, h, t2)
  BY <1>1, <1>4 DEF ArithTry
<1>18. QED
  BY <1>14, <1>16, <1>17 DEF ArithAt, o, o2, t2

\* Every arithmetic value has been run.
LEMMA ArithDecided ==
  ASSUME AllRun, ~no_arith, NEW p, NEW n, NEW t, ArithTry(p, n, t)
  PROVE  Decided(ArithAt(p, n, t))
<1>1. InputFacts
  BY DEF AllRun
<1>2. ASSUME NEW q, NEW u, ArithTry(q, 1, u)
      PROVE  Decided(ArithAt(q, 1, u))
  BY <1>2, ArithCore
<1>3. ASSUME NEW h \in {1, 2}, NEW q, NEW u, ArithTry(q, 2 * h, u),
             \A q2, u2 : ArithTry(q2, h, u2) => Decided(ArithAt(q2, h, u2))
      PROVE  Decided(ArithAt(q, 2 * h, u))
  <2>1. CASE Carries(2 * h, WordAt(in_buf, q, 2 * h), u)
    BY <1>3, <2>1, ArithCore
  <2>2. CASE ~Carries(2 * h, WordAt(in_buf, q, 2 * h), u) /\ ~u[3]
    BY <1>1, <1>3, <2>2, NoCarryLow
  <2>3. CASE ~Carries(2 * h, WordAt(in_buf, q, 2 * h), u) /\ u[3]
    BY <1>1, <1>3, <2>3, NoCarryHigh
  <2>4. QED
    BY <2>1, <2>2, <2>3
<1>4. ASSUME NEW q, NEW u, ArithTry(q, 2, u)
      PROVE  Decided(ArithAt(q, 2, u))
  <2>1. 2 * 1 = 2
    OBVIOUS
  <2>2. QED
    BY <1>2, <1>3, <1>4, <2>1
<1>5. ASSUME NEW q, NEW u, ArithTry(q, 4, u)
      PROVE  Decided(ArithAt(q, 4, u))
  <2>1. 2 * 2 = 4
    OBVIOUS
  <2>2. QED
    BY <1>3, <1>4, <1>5, <2>1
<1>6. n \in {1, 2, 4}
  BY DEF ArithTry
<1>7. QED
  BY <1>2, <1>4, <1>5, <1>6

-----------------------------------------------------------------------------
(* Values that arithmetic produces.                                        *)

\* The distance of two words, added or subtracted modulo their size, leads from one to the
\* other.
LEMMA Distance ==
  ASSUME NEW M \in Nat \ {0}, NEW x \in 0 .. M - 1, NEW y \in 0 .. M - 1
  PROVE  /\ (x - y) % M \in 0 .. M - 1
         /\ (x + ((x - y) % M) * (-1)) % M = y
         /\ (x + ((y - x) % M) * 1) % M = y
<1> DEFINE r == (x - y) % M
           q == (x - y) \div M
           s == (y - x) % M
           u == (y - x) \div M
<1>1. r \in 0 .. M - 1 /\ q \in Int /\ x - y = r + q * M
  <2>1. x - y \in Int
    OBVIOUS
  <2>2. QED
    BY <2>1
<1>2. s \in 0 .. M - 1 /\ u \in Int /\ y - x = s + u * M
  <2>1. y - x \in Int
    OBVIOUS
  <2>2. QED
    BY <2>1
<1> HIDE DEF r, q, s, u
<1>3. (y + q * M) % M = y
  BY <1>1, Split
<1>4. -u \in Int
  BY <1>2
<1>5. (y + (-u) * M) % M = y
  BY <1>4, Split
<1>6. x + r * (-1) = y + q * M
  <2> DEFINE c == q * M
  <2>1. c \in Int /\ x - y = r + c
    BY <1>1
  <2> HIDE DEF c
  <2>2. x + r * (-1) = y + c
    BY <1>1, <2>1
  <2>3. QED
    BY <2>2 DEF c
<1>7. x + s * 1 = y + (-u) * M
  <2> DEFINE c == u * M
  <2>1. c \in Int /\ y - x = s + c /\ (-u) * M = -c
    BY <1>2
  <2> HIDE DEF c
  <2>2. x + s * 1 = y - c
    BY <1>2, <2>1
  <2>3. QED
    BY <2>1, <2>2
<1>8. QED
  BY <1>1, <1>3, <1>5, <1>6, <1>7 DEF r, s

\* The order in which a word is taken.
Ordered(v, m, be) == IF be THEN Swap(v, m) ELSE v

\* Taking a word in the same order twice.
LEMMA OrderedWord ==
  ASSUME NEW m \in {1, 2, 4}, NEW v \in Word(m), NEW be \in BOOLEAN, m = 1 => ~be
  PROVE  Ordered(v, m, be) \in Word(m) /\ Ordered(Ordered(v, m, be), m, be) = v
<1>1. v \in Int
  BY WordInt
<1>2. CASE ~be
  BY <1>2 DEF Ordered
<1>3. CASE be
  <2>1. m \in {2, 4}
    BY <1>3
  <2>2. Swap(v, m) \in Word(m) /\ Swap(Swap(v, m), m) = Cast(v, m) /\ Cast(v, m) = v
    BY <1>1, <2>1, SwapParts, SwapTwice, CastParts
  <2>3. QED
    BY <1>3, <2>2 DEF Ordered
<1>4. QED
  BY <1>2, <1>3

\* A word at such a distance is the value of a try.
LEMMA WithinTry ==
  ASSUME NEW m \in {1, 2, 4}, NEW a \in Word(m), NEW b \in Word(m), NEW be \in BOOLEAN, m = 1 => ~be,
         WithinArith(Ordered(a, m, be), Ordered(b, m, be), m), a # b
  PROVE  \E t \in ArithTries(m) : ArithValue(m, a, t) = b
<1> DEFINE x == Ordered(a, m, be)
           y == Ordered(b, m, be)
           M == Pow(m)
<1>1. /\ x \in Word(m) /\ y \in Word(m)
      /\ Ordered(x, m, be) = a /\ Ordered(y, m, be) = b
  BY OrderedWord
<1>2. x # y
  BY <1>1
<1>3. ASSUME NEW d \in 1 .. ARITH_MAX, NEW s \in {1, -1}, Cast(x + d * s, m) = y
      PROVE  \E t \in ArithTries(m) : ArithValue(m, a, t) = b
  <2> DEFINE t == <<d, s, be>>
  <2>1. t \in ArithTries(m)
    <3>1. CASE m = 1
      <4>1. be = FALSE
        BY <3>1
      <4>2. QED
        BY <3>1, <4>1 DEF ArithTries
    <3>2. CASE m # 1
      BY <3>2 DEF ArithTries
    <3>3. QED
      BY <3>1, <3>2
  <2>2. ArithValue(m, a, t) = IF be THEN Swap(Cast(Swap(a, m) + d * s, m), m) ELSE Cast(a + d * s, m)
    BY DEF ArithValue
  <2>3. ArithValue(m, a, t) = b
    <3>1. CASE be
      <4>1. ArithValue(m, a, t) = Swap(Cast(x + d * s, m), m)
        BY <2>2, <3>1 DEF Ordered
      <4>2. Swap(y, m) = b
        BY <1>1, <3>1 DEF Ordered
      <4>3. QED
        BY <1>3, <4>1, <4>2
    <3>2. CASE ~be
      BY <1>3, <2>2, <3>2 DEF Ordered
    <3>3. QED
      BY <3>1, <3>2
  <2>4. QED
    BY <2>1, <2>3
<1> HIDE DEF x, y, M
<1>4. M \in Nat \ {0} /\ x \in 0 .. M - 1 /\ y \in 0 .. M - 1
  BY <1>1, Powers DEF M, Word
<1>5. ARITH_MAX \in Nat
  BY DetAssumption
<1>6. CASE Cast(x - y, m) <= ARITH_MAX
  <2> DEFINE d == (x - y) % M
  <2>1. d \in 0 .. M - 1 /\ (x + d * (-1)) % M = y
    BY <1>4, Distance
  <2>2. d <= ARITH_MAX
    BY <1>6 DEF Cast, M
  <2> HIDE DEF d
  <2>3. d # 0
    <3>1. d = 0 => (x + d * (-1)) % M = x
      BY <1>4
    <3>2. QED
      BY <1>2, <2>1, <3>1
  <2>4. d \in 1 .. ARITH_MAX
    BY <1>4, <1>5, <2>1, <2>2, <2>3
  <2>5. Cast(x + d * (-1), m) = y
    BY <2>1 DEF Cast, M
  <2>6. QED
    BY <1>3, <2>4, <2>5
<1>7. CASE Cast(y - x, m) <= ARITH_MAX
  <2> DEFINE d == (y - x) % M
  <2>1. d \in 0 .. M - 1 /\ (x + d * 1) % M = y
    BY <1>4, Distance
  <2>2. d <= ARITH_MAX
    BY <1>7 DEF Cast, M
  <2> HIDE DEF d
  <2>3. d # 0
    <3>1. d = 0 => (x + d * 1) % M = x
      BY <1>4
    <3>2. QED
      BY <1>2, <2>1, <3>1
  <2>4. d \in 1 .. ARITH_MAX
    BY <1>4, <1>5, <2>1, <2>2, <2>3
  <2>5. Cast(x + d * 1, m) = y
    BY <2>1 DEF Cast, M
  <2>6. QED
    BY <1>3, <2>4, <2>5
<1>8. QED
  BY <1>6, <1>7 DEF WithinArith, x, y

\* The words o and v of n bytes differ at most in the k-th part of m bytes.
OnePart(o, v, n, m, k) ==
  /\ n \in {1, 2, 4} /\ m \in {1, 2, 4} /\ m <= n /\ k \in 0 .. (n \div m) - 1 /\ o \in Int /\ v \in Int
  /\ \A j \in 0 .. (n \div m) - 1 : j # k => Part(o, m, m * j) = Part(v, m, m * j)

\* The bytes outside that part are the same.
LEMMA OnePartBytes ==
  ASSUME NEW n, NEW m, NEW k, NEW o, NEW v, OnePart(o, v, n, m, k)
  PROVE  /\ m * k \in 0 .. n - m /\ m * k \in 0 .. 4 - m
         /\ \A c \in 0 .. n - 1 : ~(c >= m * k /\ c < m * k + m) => Part(v, 1, c) = Part(o, 1, c)
<1>1. /\ n \in {1, 2, 4} /\ m \in {1, 2, 4} /\ m <= n /\ k \in 0 .. (n \div m) - 1 /\ o \in Int /\ v \in Int
      /\ \A j \in 0 .. (n \div m) - 1 : j # k => Part(o, m, m * j) = Part(v, m, m * j)
  BY DEF OnePart
<1>2. CASE m = 1
  <2>1. n \div m = n /\ m * k = k /\ \A c \in 0 .. n - 1 : m * c = c
    BY <1>1, <1>2
  <2>2. QED
    BY <1>1, <1>2, <2>1
<1>3. CASE m = 2 /\ n = 2
  <2>1. n \div m = 1 /\ k = 0
    BY <1>1, <1>3
  <2>2. QED
    BY <1>1, <1>3, <2>1
<1>4. CASE m = 2 /\ n = 4
  <2>1. n \div m = 2 /\ k \in {0, 1}
    BY <1>1, <1>4
  <2>2. /\ Part(Part(o, 2, 0), 1, 0) = Part(o, 1, 0) /\ Part(Part(o, 2, 0), 1, 1) = Part(o, 1, 1)
        /\ Part(Part(o, 2, 2), 1, 0) = Part(o, 1, 2) /\ Part(Part(o, 2, 2), 1, 1) = Part(o, 1, 3)
    BY <1>1, PartParts
  <2>3. /\ Part(Part(v, 2, 0), 1, 0) = Part(v, 1, 0) /\ Part(Part(v, 2, 0), 1, 1) = Part(v, 1, 1)
        /\ Part(Part(v, 2, 2), 1, 0) = Part(v, 1, 2) /\ Part(Part(v, 2, 2), 1, 1) = Part(v, 1, 3)
    BY <1>1, PartParts
  <2>4. CASE k = 0
    <3>1. Part(o, 2, 2) = Part(v, 2, 2)
      <4>1. 1 \in 0 .. (n \div m) - 1 /\ m * 1 = 2
        BY <1>4, <2>1
      <4>2. QED
        BY <1>1, <1>4, <2>4, <4>1
    <3>2. \A c \in 0 .. n - 1 : ~(c >= m * k /\ c < m * k + m) => c \in {2, 3}
      BY <1>4, <2>4
    <3>3. QED
      BY <1>4, <2>2, <2>3, <2>4, <3>1, <3>2
  <2>5. CASE k = 1
    <3>1. Part(o, 2, 0) = Part(v, 2, 0)
      <4>1. 0 \in 0 .. (n \div m) - 1 /\ m * 0 = 0
        BY <1>4, <2>1
      <4>2. QED
        BY <1>1, <1>4, <2>5, <4>1
    <3>2. \A c \in 0 .. n - 1 : ~(c >= m * k /\ c < m * k + m) => c \in {0, 1}
      BY <1>4, <2>5
    <3>3. QED
      BY <1>4, <2>2, <2>3, <2>5, <3>1, <3>2
  <2>6. QED
    BY <2>1, <2>4, <2>5
<1>5. CASE m = 4
  <2>1. n = 4 /\ n \div m = 1 /\ k = 0
    BY <1>1, <1>5
  <2>2. QED
    BY <1>1, <1>5, <2>1
<1>6. QED
  BY <1>1, <1>2, <1>3, <1>4, <1>5

\* Writing a word that differs from the input in one part is writing that part.
LEMMA PartPut ==
  ASSUME InputFacts, NEW n, NEW p \in Nat, p + n <= len, NEW v, NEW m, NEW k,
         OnePart(WordAt(in_buf, p, n), v, n, m, k)
  PROVE  /\ p + m * k \in Nat /\ p + m * k + m <= len /\ m \in {1, 2, 4}
         /\ WordAt(in_buf, p + m * k, m) = Part(WordAt(in_buf, p, n), m, m * k)
         /\ PutWord(in_buf, p, n, v) = PutWord(in_buf, p + m * k, m, Part(v, m, m * k))
<1> DEFINE o == WordAt(in_buf, p, n)
           j == m * k
           w == Part(v, m, j)
           a == WordAt(in_buf, p + j, m)
<1>1. len \in Nat /\ in_buf \in Seq(Byte) /\ len = Len(in_buf)
  BY LenProperties DEF InputFacts
<1>2. n \in {1, 2, 4} /\ m \in {1, 2, 4} /\ m <= n /\ o \in Int /\ v \in Int
  BY DEF OnePart
<1>3. /\ j \in 0 .. n - m /\ j \in 0 .. 4 - m
      /\ \A c \in 0 .. n - 1 : ~(c >= j /\ c < j + m) => Part(v, 1, c) = Part(o, 1, c)
  <2> HIDE DEF o
  <2>1. QED
    BY OnePartBytes DEF o
<1> HIDE DEF j
<1>4. p + j \in Nat /\ p + j + m <= len /\ j \in Nat
  BY <1>1, <1>2, <1>3
<1>5. \A c \in 0 .. n - 1 : Part(o, 1, c) = in_buf[p + c + 1]
  BY <1>1, <1>2, WordAtIs
<1>6. a \in Word(m) /\ \A c \in 0 .. m - 1 : Part(a, 1, c) = in_buf[p + j + c + 1]
  BY <1>1, <1>2, <1>4, WordAtIs
<1> HIDE DEF o, a
<1>7. /\ w \in Word(m) /\ \A c \in 0 .. m - 1 : Part(w, 1, c) = Part(v, 1, j + c)
      /\ Part(o, m, j) \in Word(m) /\ \A c \in 0 .. m - 1 : Part(Part(o, m, j), 1, c) = Part(o, 1, j + c)
  BY <1>2, <1>3, PartParts
<1>8. a = Part(o, m, j)
  <2>1. ASSUME NEW c \in 0 .. m - 1 PROVE Part(a, 1, c) = Part(Part(o, m, j), 1, c)
    <3>1. j + c \in 0 .. n - 1 /\ p + (j + c) + 1 = p + j + c + 1
      BY <1>1, <1>2, <1>3
    <3>2. QED
      BY <1>5, <1>6, <1>7, <3>1
  <2>2. QED
    BY <1>2, <1>6, <1>7, <2>1, SameWord
<1>9. w \in Int
  BY <1>2, <1>7, WordInt
<1> HIDE DEF w
<1>10. SameAs(in_buf, p, n, v, j, m, w)
  <2>1. ASSUME NEW c \in 0 .. n - 1, c >= j /\ c < j + m PROVE Part(v, 1, c) = Part(w, 1, c - j)
    <3>1. c - j \in 0 .. m - 1 /\ j + (c - j) = c
      BY <1>2, <1>3, <2>1
    <3>2. QED
      BY <1>7, <3>1
  <2>2. ASSUME NEW c \in 0 .. n - 1, ~(c >= j /\ c < j + m) PROVE Part(v, 1, c) = in_buf[p + c + 1]
    BY <1>3, <1>5, <2>2
  <2>3. QED
    BY <1>1, <1>2, <1>3, <1>9, <2>1, <2>2 DEF SameAs
<1>11. PutWord(in_buf, p, n, v) = PutWord(in_buf, p + j, m, w)
  BY <1>1, <1>10, SamePut
<1>12. QED
  BY <1>2, <1>4, <1>8, <1>11 DEF j, o, w, a

\* If the part is within the reach of arithmetic, the word has been tried as that part.
LEMMA PartDecided ==
  ASSUME AllRun, ~no_arith, NEW n, NEW p \in Nat, p + n <= len, NEW v, NEW m, NEW k,
         OnePart(WordAt(in_buf, p, n), v, n, m, k), NEW be \in BOOLEAN, m = 1 => ~be,
         Part(WordAt(in_buf, p, n), m, m * k) # Part(v, m, m * k),
         WithinArith(Ordered(Part(WordAt(in_buf, p, n), m, m * k), m, be), Ordered(Part(v, m, m * k), m, be), m)
  PROVE  Decided(PutWord(in_buf, p, n, v))
<1> DEFINE o == WordAt(in_buf, p, n)
           q == p + m * k
           a == Part(o, m, m * k)
           b == Part(v, m, m * k)
<1>0. InputFacts
  BY DEF AllRun
<1>1. /\ q \in Nat /\ q + m <= len /\ m \in {1, 2, 4}
      /\ WordAt(in_buf, q, m) = a /\ PutWord(in_buf, p, n, v) = PutWord(in_buf, q, m, b)
  BY <1>0, PartPut
<1>2. a \in Word(m) /\ b \in Word(m)
  <2>1. m * k \in 0 .. 4 - m /\ m \in {1, 2, 4} /\ o \in Int /\ v \in Int
    <3> HIDE DEF o
    <3>1. OnePart(o, v, n, m, k)
      BY DEF o
    <3>2. QED
      BY <3>1, OnePartBytes DEF OnePart
  <2> DEFINE j == m * k
  <2> HIDE DEF j, o
  <2>2. Part(o, m, j) \in Word(m) /\ Part(v, m, j) \in Word(m)
    BY <2>1, PartParts DEF j
  <2>3. QED
    BY <2>2 DEF j
<1>3. WithinArith(Ordered(a, m, be), Ordered(b, m, be), m) /\ a # b
  OBVIOUS
<1> HIDE DEF o, q, a, b
<1>4. PICK t \in ArithTries(m) : ArithValue(m, a, t) = b
  BY <1>1, <1>2, <1>3, WithinTry
<1>5. ArithTry(q, m, t)
  BY <1>1 DEF ArithTry
<1>6. Decided(ArithAt(q, m, t))
  BY <1>5, ArithDecided
<1>7. ArithAt(q, m, t) = PutWord(in_buf, q, m, b)
  BY <1>1, <1>4 DEF ArithAt
<1>8. QED
  BY <1>1, <1>6, <1>7

\* With AFL_NO_ARITH, what arithmetic on a byte would produce is taken for tried.
LEMMA NoArithByte ==
  ASSUME InputFacts, no_arith, NEW p \in Nat, p + 1 <= len, NEW v \in Word(1),
         WithinArith(WordAt(in_buf, p, 1), v, 1), v # WordAt(in_buf, p, 1)
  PROVE  Decided(PutWord(in_buf, p, 1, v))
<1> DEFINE o == WordAt(in_buf, p, 1)
           x == PutWord(in_buf, p, 1, v)
<1>1. len \in Nat /\ in_buf \in Seq(Byte) /\ len = Len(in_buf)
  BY LenProperties DEF InputFacts
<1>2. v \in Int /\ o \in Word(1) /\ o \in Int /\ Part(o, 1, 0) = in_buf[p + 0 + 1]
  BY <1>1, WordInt, WordAtIs
<1>3. Part(v, 1, 0) = v /\ Part(o, 1, 0) = o
  BY <1>2, CastParts
<1>4. in_buf[p + 1] = o
  BY <1>2, <1>3
<1>5. \A k \in 1 .. Len(in_buf) : x[k] = IF k > p /\ k <= p + 1 THEN Part(v, 1, k - p - 1) ELSE in_buf[k]
  BY <1>1, <1>2, PutWordIs
<1> HIDE DEF o, x
<1>6. p + 1 \in 1 .. len /\ \A k \in 1 .. len : (k > p /\ k <= p + 1) <=> k = p + 1
  BY <1>1
<1>7. x[p + 1] = v /\ \A k \in 1 .. len : k # p + 1 => x[k] = in_buf[k]
  BY <1>1, <1>3, <1>5, <1>6
<1>8. Changed(x) = {p + 1}
  BY <1>4, <1>6, <1>7 DEF Changed, o
<1>9. WithinArith(v, o, 1)
  BY DEF WithinArith, o
<1>10. TakenForTried(x)
  BY <1>4, <1>6, <1>7, <1>8, <1>9 DEF TakenForTried
<1>11. QED
  BY <1>10 DEF Decided, x

\* Nothing is lost by what could_be_arith() leaves out.
LEMMA NearDecided ==
  ASSUME AllRun, NEW n \in {1, 2, 4}, NEW p \in Nat, p + n <= len, NEW v \in Word(n), ~no_arith \/ n = 1,
         could_be_arith(WordAt(in_buf, p, n), v, n)
  PROVE  Decided(PutWord(in_buf, p, n, v))
<1> DEFINE o == WordAt(in_buf, p, n)
           Differ(m) == {k \in 0 .. (n \div m) - 1 : Part(o, m, m * k) # Part(v, m, m * k)}
           Near(m, k, be) == WithinArith(Ordered(Part(o, m, m * k), m, be), Ordered(Part(v, m, m * k), m, be), m)
<1>1. InputFacts /\ len \in Nat /\ in_buf \in Seq(Byte) /\ len = Len(in_buf)
  BY LenProperties DEF AllRun, InputFacts
<1>2. o \in Word(n) /\ o \in Int /\ v \in Int /\ \A k \in 0 .. n - 1 : Part(o, 1, k) = in_buf[p + k + 1]
  BY <1>1, WordInt, WordAtIs
<1>3. CASE o = v
  <2>1. \A k \in 0 .. n - 1 : Part(v, 1, k) = in_buf[p + k + 1]
    BY <1>2, <1>3
  <2>2. QED
    BY <1>1, <1>2, <2>1, SameDecided
<1>4. CASE o # v
  <2>1. ASSUME NEW m \in {1, 2, 4}, m <= n, NEW k, Differ(m) = {k}, NEW be \in BOOLEAN, m = 1 => ~be,
               Near(m, k, be)
        PROVE  Decided(PutWord(in_buf, p, n, v))
    <3>1. /\ k \in 0 .. (n \div m) - 1 /\ Part(o, m, m * k) # Part(v, m, m * k)
          /\ \A j \in 0 .. (n \div m) - 1 : j # k => Part(o, m, m * j) = Part(v, m, m * j)
      BY <2>1
    <3>2. OnePart(o, v, n, m, k)
      BY <1>2, <2>1, <3>1 DEF OnePart
    <3>3. CASE ~no_arith
      BY <2>1, <3>1, <3>2, <3>3, PartDecided
    <3>4. CASE no_arith
      <4>1. n = 1 /\ m = 1 /\ be = FALSE /\ k = 0 /\ m * k = 0
        <5>1. n = 1
          BY <3>4
        <5>2. m = 1
          BY <2>1, <5>1
        <5>3. k = 0
          BY <3>1, <5>1, <5>2
        <5>4. be = FALSE
          BY <2>1, <5>2
        <5>5. QED
          BY <5>1, <5>2, <5>3, <5>4
      <4>2. Part(o, 1, 0) = o /\ Part(v, 1, 0) = v
        <5>1. o \in Word(1) /\ v \in Word(1)
          BY <1>2, <4>1
        <5>2. QED
          BY <1>2, <5>1, CastParts
      <4>3. WithinArith(o, v, 1)
        BY <2>1, <4>1, <4>2 DEF Ordered
      <4>4. QED
        BY <1>1, <1>4, <3>4, <4>1, <4>3, NoArithByte
    <3>5. QED
      BY <3>3, <3>4
  <2>2. \/ \E k \in Differ(1) : Differ(1) = {k} /\ Near(1, k, FALSE)
        \/ n > 1 /\ \E k \in Differ(2) : Differ(2) = {k} /\ (Near(2, k, FALSE) \/ Near(2, k, TRUE))
        \/ n = 4 /\ (Near(4, 0, FALSE) \/ Near(4, 0, TRUE))
    BY <1>4 DEF could_be_arith, Ordered
  <2>3. n = 4 => Differ(4) = {0}
    <3>1. n = 4 => Part(o, 4, 4 * 0) = o /\ Part(v, 4, 4 * 0) = v
      <4> HIDE DEF o
      <4>1. n = 4 => Part(o, 4, 0) = o /\ Part(v, 4, 0) = v
        BY <1>2, CastParts
      <4>2. QED
        BY <4>1
    <3>2. n = 4 => 0 .. (n \div 4) - 1 = {0}
      OBVIOUS
    <3>3. QED
      BY <1>4, <3>1, <3>2
  <2> HIDE DEF Differ, Near
  <2>4. n > 1 => 2 <= n
    OBVIOUS
  <2>5. 1 <= n
    OBVIOUS
  <2>6. ASSUME NEW m \in {1, 2, 4}, m <= n, NEW k, Differ(m) = {k}, Near(m, k, FALSE)
        PROVE  Decided(PutWord(in_buf, p, n, v))
    BY <2>1, <2>6, Zenon
  <2>7. ASSUME NEW m \in {1, 2, 4}, m <= n, m # 1, NEW k, Differ(m) = {k}, Near(m, k, TRUE)
        PROVE  Decided(PutWord(in_buf, p, n, v))
    BY <2>1, <2>7, Zenon
  <2> DEFINE LE(m, k) == Near(m, k, FALSE)
             BE(m, k) == Near(m, k, TRUE)
  <2>8. \/ \E k \in Differ(1) : Differ(1) = {k} /\ LE(1, k)
        \/ n > 1 /\ \E k \in Differ(2) : Differ(2) = {k} /\ (LE(2, k) \/ BE(2, k))
        \/ n = 4 /\ (LE(4, 0) \/ BE(4, 0))
    BY <2>2, Zenon
  <2>9. /\ \A k : \A m \in {1, 2, 4} : m <= n /\ Differ(m) = {k} /\ LE(m, k) => Decided(PutWord(in_buf, p, n, v))
        /\ \A k : \A m \in {1, 2, 4} : m <= n /\ m # 1 /\ Differ(m) = {k} /\ BE(m, k)
                                   => Decided(PutWord(in_buf, p, n, v))
    BY <2>6, <2>7, Zenon
  <2> HIDE DEF LE, BE
  <2>10. QED
    BY <2>3, <2>4, <2>5, <2>8, <2>9
<1>5. QED
  BY <1>3, <1>4

-----------------------------------------------------------------------------
(* Interesting values.                                                     *)

IntAt(p, n, t) == PutWord(in_buf, p, n, InterestValue(n, t))
IntTry(p, n, t) ==
  n \in {1, 2, 4} /\ p \in Nat /\ p + n <= len /\ t \in InterestTries(n) /\ (n = 1 \/ ~no_arith)

\* The components of a pair.
LEMMA Pair ==
  ASSUME NEW A, NEW B, NEW t \in A \X B
  PROVE  t[1] \in A /\ t[2] \in B
OBVIOUS

\* The components of a try, and its value.
LEMMA IntTypes ==
  ASSUME NEW n \in {1, 2, 4}, NEW t \in InterestTries(n)
  PROVE  /\ t[1] \in 1 .. Len(Interesting(n)) /\ t[2] \in BOOLEAN /\ (n = 1 => t[2] = FALSE)
         /\ Interesting(n)[t[1]] \in Int /\ InterestValue(n, t) \in Word(n) /\ InterestValue(n, t) \in Int
<1>1. Interesting(n) \in Seq(Int)
  <2>1. interesting_8 \in Seq(Int) /\ interesting_16 \in Seq(Int) /\ interesting_32 \in Seq(Int)
    BY WordsAssumption
  <2>2. QED
    BY <2>1 DEF Interesting
<1> DEFINE C == IF n = 1 THEN {FALSE} ELSE BOOLEAN
<1>2. t \in (1 .. Len(Interesting(n))) \X C
  BY DEF InterestTries
<1> HIDE DEF C
<1>3. t[1] \in 1 .. Len(Interesting(n)) /\ t[2] \in C
  BY <1>2, Pair
<1>4. t[2] \in BOOLEAN /\ (n = 1 => t[2] = FALSE)
  <2>1. CASE n = 1
    <3>1. t[2] = FALSE
      BY <1>3, <2>1 DEF C
    <3>2. QED
      BY <3>1
  <2>2. CASE n # 1
    BY <1>3, <2>2 DEF C
  <2>3. QED
    BY <2>1, <2>2
<1>5. Interesting(n)[t[1]] \in Int
  BY <1>1, <1>3, ElementOfSeq
<1> DEFINE x == Interesting(n)[t[1]]
<1> HIDE DEF x
<1>6. InterestValue(n, t) = IF t[2] THEN Swap(x, n) ELSE Cast(x, n)
  BY DEF InterestValue, x
<1>7. x \in Int
  BY <1>5 DEF x
<1>8. Cast(x, n) \in Word(n)
  BY <1>7, CastParts
<1>9. t[2] => Swap(x, n) \in Word(n)
  <2>1. t[2] => n \in {2, 4}
    BY <1>4
  <2>2. QED
    BY <1>7, <2>1, SwapParts
<1>10. InterestValue(n, t) \in Word(n)
  BY <1>6, <1>8, <1>9
<1>11. InterestValue(n, t) \in Int
  BY <1>10, WordInt
<1>12. QED
  BY <1>3, <1>4, <1>5, <1>10, <1>11

\* What is worth trying has been run.
LEMMA IntCore ==
  ASSUME AllRun, NEW p, NEW n, NEW t, IntTry(p, n, t),
         t[2] => InterestValue(n, t) # Swap(InterestValue(n, t), n),
         n = 1 \/ ~could_be_interest(WordAt(in_buf, p, n), InterestValue(n, t), n, t[2])
  PROVE  Decided(IntAt(p, n, t))
<1> DEFINE o == WordAt(in_buf, p, n)
           v == InterestValue(n, t)
           s == IF n = 1 THEN "int8" ELSE IF n = 2 THEN "int16" ELSE "int32"
<1>1. InputFacts /\ in_buf \in Seq(Byte) /\ len = Len(in_buf) /\ len \in Nat
  BY LenProperties DEF AllRun, InputFacts
<1>2. n \in {1, 2, 4} /\ p \in Nat /\ p + n <= len /\ t \in InterestTries(n) /\ (n = 1 \/ ~no_arith)
  BY DEF IntTry
<1>3. v \in Int /\ v \in Word(n)
  BY <1>2, IntTypes
<1>4. CASE could_be_bitflip(XorWords(o, v, n))
  <2> HIDE DEF v
  <2>1. Decided(PutWord(in_buf, p, n, v))
    BY <1>2, <1>3, <1>4, FlipDecided
  <2>2. QED
    BY <2>1 DEF IntAt, v
<1>5. CASE could_be_arith(o, v, n)
  <2> HIDE DEF v
  <2>1. Decided(PutWord(in_buf, p, n, v))
    BY <1>2, <1>3, <1>5, NearDecided
  <2>2. QED
    BY <2>1 DEF IntAt, v
<1>6. CASE ~could_be_bitflip(XorWords(o, v, n)) /\ ~could_be_arith(o, v, n)
  <2> DEFINE buf == PutWord(in_buf, p, n, v)
  <2>1. WorthInterest(n, o, t)
    BY <1>6 DEF WorthInterest
  <2>2. SUFFICES ASSUME Matters(buf) PROVE buf \in executed
    BY DEF Decided, IntAt
  <2>3. Flagged(p, n)
    <3> HIDE DEF v
    <3>1. QED
      BY <1>1, <1>2, <1>3, <2>2, MattersFlagged
  <2>4. /\ s \in ValueStage /\ ~Off(s) /\ p \in 0 .. Turns(s) - 1 /\ ValueRuns(s, p) = InterestRuns(n, p)
    <3>1. CASE n = 1
      <4>1. s = "int8"
        BY <3>1
      <4>2. QED
        BY <1>1, <1>2, <3>1, <4>1 DEF ValueStage, Off, Turns, ValueRuns
    <3>2. CASE n = 2
      <4>1. s = "int16"
        BY <3>2
      <4>2. QED
        BY <1>1, <1>2, <3>2, <4>1 DEF ValueStage, Off, Turns, ValueRuns
    <3>3. CASE n = 4
      <4>1. s = "int32"
        BY <3>3
      <4>2. QED
        BY <1>1, <1>2, <3>3, <4>1 DEF ValueStage, Off, Turns, ValueRuns
    <3>4. QED
      BY <1>2, <3>1, <3>2, <3>3
  <2>5. InterestRuns(n, p) \subseteq executed
    <3> HIDE DEF s
    <3>1. QED
      BY <2>4 DEF AllRun
  <2>6. QED
    BY <1>2, <2>1, <2>3, <2>5 DEF InterestRuns
<1>7. QED
  BY <1>4, <1>5, <1>6

\* Replacing a part of a word.
Sum4(a, b, c, d, B) == a + b * B + c * (B * B) + d * (B * B * B)
Patched(o, x, m, k) == o + (x - Part(o, m, k)) * Pow(k)

\* The bytes of a word with a part replaced.
LEMMA PatchedParts ==
  ASSUME NEW o \in Word(4), NEW m \in {1, 2}, NEW k \in 0 .. 4 - m, NEW x \in Word(m)
  PROVE  \A c \in 0 .. 3 : Part(Patched(o, x, m, k), 1, c)
                             = IF c >= k /\ c < k + m THEN Part(x, 1, c - k) ELSE Part(o, 1, c)
<1> DEFINE v == Patched(o, x, m, k)
           a == Part(o, 1, 0)
           b == Part(o, 1, 1)
           c == Part(o, 1, 2)
           d == Part(o, 1, 3)
           e == Part(x, 1, 0)
           f == Part(x, 1, 1)
           B == Base
<1>1. o \in Int /\ x \in Int /\ m \in {1, 2, 4}
  BY WordInt
<1>2. /\ a \in Byte /\ b \in Byte /\ c \in Byte /\ d \in Byte /\ e \in Byte /\ f \in Byte
  BY <1>1, Parts
<1>3. Part(o, 2, 0) = a + b * B /\ Part(o, 2, 1) = b + c * B /\ Part(o, 2, 2) = c + d * B
  BY <1>1, Parts
<1>4. (m = 1 => x = e) /\ (m = 2 => x = e + f * B)
  BY <1>1, CastParts, Parts
<1>5. B \in Int /\ Pow(0) = 1 /\ Pow(1) = B /\ Pow(2) = B * B /\ Pow(3) = B * B * B
  BY Powers
<1>6. \A w0, w1, w2, w3 \in Byte :
        /\ Sum4(w0, w1, w2, w3, B) = (w0 + w1 * B) + (w2 + w3 * B) * Pow(2)
        /\ Part(Sum4(w0, w1, w2, w3, B), 1, 0) = w0 /\ Part(Sum4(w0, w1, w2, w3, B), 1, 1) = w1
        /\ Part(Sum4(w0, w1, w2, w3, B), 1, 2) = w2 /\ Part(Sum4(w0, w1, w2, w3, B), 1, 3) = w3
  <2> TAKE w0, w1, w2, w3 \in Byte
  <2>1. Sum4(w0, w1, w2, w3, B) = w0 + w1 * Base + w2 * Pow(2) + w3 * Pow(3)
    BY <1>5 DEF Sum4
  <2>2. QED
    BY <2>1, Digits
<1>7. o = Sum4(a, b, c, d, B)
  <2>1. o = Part(o, 2, 0) + Part(o, 2, 2) * Pow(2)
    BY <1>1, CastParts, Parts
  <2>2. QED
    BY <1>2, <1>3, <1>6, <2>1
<1> HIDE DEF a, b, c, d, e, f, B
<1>8. a \in Int /\ b \in Int /\ c \in Int /\ d \in Int /\ e \in Int /\ f \in Int
  BY <1>2, ByteFacts
<1>9. CASE m = 1
  <2>1. CASE k = 0
    <3>1. v = o + (e - a) * 1
      BY <1>3, <1>4, <1>5, <1>9, <2>1 DEF Patched, a
    <3>2. v = Sum4(e, b, c, d, B)
      BY <1>5, <1>7, <1>8, <3>1 DEF Sum4
    <3>3. Part(v, 1, 0) = e /\ Part(v, 1, 1) = b /\ Part(v, 1, 2) = c /\ Part(v, 1, 3) = d
      BY <1>2, <1>6, <3>2
    <3>4. QED
      BY <1>9, <2>1, <3>3 DEF a, b, c, d, e, f
  <2>2. CASE k = 1
    <3>1. v = o + (e - b) * B
      BY <1>3, <1>4, <1>5, <1>9, <2>2 DEF Patched, b
    <3>2. v = Sum4(a, e, c, d, B)
      BY <1>5, <1>7, <1>8, <3>1 DEF Sum4
    <3>3. Part(v, 1, 0) = a /\ Part(v, 1, 1) = e /\ Part(v, 1, 2) = c /\ Part(v, 1, 3) = d
      BY <1>2, <1>6, <3>2
    <3>4. QED
      BY <1>9, <2>2, <3>3 DEF a, b, c, d, e, f
  <2>3. CASE k = 2
    <3>1. v = o + (e - c) * (B * B)
      BY <1>3, <1>4, <1>5, <1>9, <2>3 DEF Patched, c
    <3>2. v = Sum4(a, b, e, d, B)
      BY <1>5, <1>7, <1>8, <3>1 DEF Sum4
    <3>3. Part(v, 1, 0) = a /\ Part(v, 1, 1) = b /\ Part(v, 1, 2) = e /\ Part(v, 1, 3) = d
      BY <1>2, <1>6, <3>2
    <3>4. QED
      BY <1>9, <2>3, <3>3 DEF a, b, c, d, e, f
  <2>4. CASE k = 3
    <3>1. v = o + (e - d) * (B * B * B)
      BY <1>3, <1>4, <1>5, <1>9, <2>4 DEF Patched, d
    <3>2. v = Sum4(a, b, c, e, B)
      BY <1>5, <1>7, <1>8, <3>1 DEF Sum4
    <3>3. Part(v, 1, 0) = a /\ Part(v, 1, 1) = b /\ Part(v, 1, 2) = c /\ Part(v, 1, 3) = e
      BY <1>2, <1>6, <3>2
    <3>4. QED
      BY <1>9, <2>4, <3>3 DEF a, b, c, d, e, f
  <2>5. QED
    BY <1>9, <2>1, <2>2, <2>3, <2>4
<1>10. CASE m = 2
  <2>1. CASE k = 0
    <3>1. v = o + ((e + f * B) - (a + b * B)) * 1
      BY <1>3, <1>4, <1>5, <1>10, <2>1 DEF Patched
    <3>2. v = Sum4(e, f, c, d, B)
      BY <1>5, <1>7, <1>8, <3>1 DEF Sum4
    <3>3. Part(v, 1, 0) = e /\ Part(v, 1, 1) = f /\ Part(v, 1, 2) = c /\ Part(v, 1, 3) = d
      BY <1>2, <1>6, <3>2
    <3>4. QED
      BY <1>10, <2>1, <3>3 DEF a, b, c, d, e, f
  <2>2. CASE k = 1
    <3>1. v = o + ((e + f * B) - (b + c * B)) * B
      BY <1>3, <1>4, <1>5, <1>10, <2>2 DEF Patched
    <3>2. v = Sum4(a, e, f, d, B)
      BY <1>5, <1>7, <1>8, <3>1 DEF Sum4
    <3>3. Part(v, 1, 0) = a /\ Part(v, 1, 1) = e /\ Part(v, 1, 2) = f /\ Part(v, 1, 3) = d
      BY <1>2, <1>6, <3>2
    <3>4. QED
      BY <1>10, <2>2, <3>3 DEF a, b, c, d, e, f
  <2>3. CASE k = 2
    <3>1. v = o + ((e + f * B) - (c + d * B)) * (B * B)
      BY <1>3, <1>4, <1>5, <1>10, <2>3 DEF Patched
    <3>2. v = Sum4(a, b, e, f, B)
      BY <1>5, <1>7, <1>8, <3>1 DEF Sum4
    <3>3. Part(v, 1, 0) = a /\ Part(v, 1, 1) = b /\ Part(v, 1, 2) = e /\ Part(v, 1, 3) = f
      BY <1>2, <1>6, <3>2
    <3>4. QED
      BY <1>10, <2>3, <3>3 DEF a, b, c, d, e, f
  <2>4. QED
    BY <1>10, <2>1, <2>2, <2>3
<1>11. QED
  BY <1>9, <1>10

\* A word with an interesting value of m bytes inserted is that value at its position.
IntDone(m) == \A q, u : IntTry(q, m, u) => Decided(IntAt(q, m, u))
Inserts(p, n, v, m, k, u) ==
  /\ n \in {2, 4} /\ p \in Nat /\ p + n <= len /\ v \in Word(n)
  /\ m \in {1, 2} /\ m <= n /\ k \in 0 .. n - m /\ u \in InterestTries(m) /\ (m = 1 \/ ~no_arith)
  /\ v = Patched(WordAt(in_buf, p, n), InterestValue(m, u), m, k)

\* Then it has been tried as that value.
LEMMA InsertDecided ==
  ASSUME InputFacts, NEW p, NEW n, NEW v, NEW m, NEW k, NEW u, Inserts(p, n, v, m, k, u), IntDone(m)
  PROVE  Decided(PutWord(in_buf, p, n, v))
<1> DEFINE o == WordAt(in_buf, p, n)
           x == InterestValue(m, u)
<1>1. len \in Nat /\ in_buf \in Seq(Byte) /\ len = Len(in_buf)
  BY LenProperties DEF InputFacts
<1>2. /\ n \in {2, 4} /\ n \in {1, 2, 4} /\ p \in Nat /\ p + n <= len /\ v \in Word(n)
      /\ m \in {1, 2} /\ m \in {1, 2, 4} /\ m <= n /\ k \in 0 .. n - m /\ u \in InterestTries(m)
      /\ (m = 1 \/ ~no_arith) /\ v = Patched(o, x, m, k)
  BY DEF Inserts
<1>3. o \in Word(n) /\ \A c \in 0 .. n - 1 : Part(o, 1, c) = in_buf[p + c + 1]
  BY <1>1, <1>2, WordAtIs
<1>4. x \in Word(m) /\ x \in Int
  BY <1>2, IntTypes
<1>5. v \in Int
  BY <1>2, WordInt
<1> HIDE DEF o, x
<1>6. o \in Word(4)
  <2>1. CASE n = 4
    BY <1>3, <2>1
  <2>2. CASE n = 2
    <3>1. Pow(2) = Base * Base /\ Pow(4) = (Base * Base) * (Base * Base) /\ Base \in Nat /\ Base >= 1
      BY Powers
    <3> DEFINE S == Base * Base
    <3>2. S \in Nat /\ S >= 1
      BY <3>1
    <3> HIDE DEF S
    <3>3. S * S >= S /\ S * S \in Nat
      BY <3>2
    <3>4. o \in 0 .. S - 1
      BY <1>3, <2>2, <3>1 DEF Word, S
    <3>5. o \in 0 .. S * S - 1
      BY <3>2, <3>3, <3>4
    <3>6. QED
      BY <3>1, <3>5 DEF Word, S
  <2>3. QED
    BY <1>2, <2>1, <2>2
<1>7. k \in 0 .. 4 - m
  BY <1>2
<1>8. \A c \in 0 .. 3 : Part(v, 1, c) = IF c >= k /\ c < k + m THEN Part(x, 1, c - k) ELSE Part(o, 1, c)
  BY <1>2, <1>4, <1>6, <1>7, PatchedParts
<1>9. SameAs(in_buf, p, n, v, k, m, x)
  <2>1. \A c \in 0 .. n - 1 : c \in 0 .. 3
    BY <1>2
  <2>2. \A c \in 0 .. n - 1 :
          Part(v, 1, c) = IF c >= k /\ c < k + m THEN Part(x, 1, c - k) ELSE in_buf[p + c + 1]
    BY <1>3, <1>8, <2>1
  <2>3. QED
    BY <1>1, <1>2, <1>4, <1>5, <2>2 DEF SameAs
<1>10. PutWord(in_buf, p, n, v) = PutWord(in_buf, p + k, m, x)
  BY <1>1, <1>9, SamePut
<1>11. IntTry(p + k, m, u)
  <2>1. p + k \in Nat /\ p + k + m <= len
    BY <1>1, <1>2
  <2>2. QED
    BY <1>2, <2>1 DEF IntTry
<1>12. IntAt(p + k, m, u) = PutWord(in_buf, p + k, m, x)
  BY DEF IntAt, x
<1>13. QED
  BY <1>10, <1>11, <1>12 DEF IntDone

\* The values that could_be_interest() compares with are those of a try.
LEMMA IntTries ==
  ASSUME NEW n \in {1, 2, 4}, NEW e \in 1 .. Len(Interesting(n))
  PROVE  /\ <<e, FALSE>> \in InterestTries(n)
         /\ InterestValue(n, <<e, FALSE>>) = Cast(Interesting(n)[e], n)
         /\ n # 1 => /\ <<e, TRUE>> \in InterestTries(n)
                     /\ InterestValue(n, <<e, TRUE>>) = Swap(Interesting(n)[e], n)
                     /\ Cast(Swap(Interesting(n)[e], n), n) = Swap(Interesting(n)[e], n)
<1>1. <<e, FALSE>> \in InterestTries(n)
  <2>1. CASE n = 1
    BY <2>1 DEF InterestTries
  <2>2. CASE n # 1
    BY <2>2 DEF InterestTries
  <2>3. QED
    BY <2>1, <2>2
<1>2. n # 1 => <<e, TRUE>> \in InterestTries(n)
  BY DEF InterestTries
<1>3. InterestValue(n, <<e, FALSE>>) = Cast(Interesting(n)[e], n)
  BY DEF InterestValue
<1>4. InterestValue(n, <<e, TRUE>>) = Swap(Interesting(n)[e], n)
  BY DEF InterestValue
<1>5. n # 1 => Cast(Swap(Interesting(n)[e], n), n) = Swap(Interesting(n)[e], n)
  <2>1. ASSUME n # 1 PROVE Cast(InterestValue(n, <<e, TRUE>>), n) = InterestValue(n, <<e, TRUE>>)
    <3> DEFINE w == InterestValue(n, <<e, TRUE>>)
    <3>1. w \in Word(n) /\ w \in Int
      BY <1>2, <2>1, IntTypes
    <3> HIDE DEF w
    <3>2. Cast(w, n) = w
      BY <3>1, CastParts
    <3>3. QED
      BY <3>2 DEF w
  <2>2. QED
    BY <1>4, <2>1
<1>6. QED
  BY <1>1, <1>2, <1>3, <1>4, <1>5

\* What could_be_interest() takes for produced by narrower values.
Narrower(p, n, v, m) == \E k \in 0 .. n - m : \E u \in InterestTries(m) :
  v = Patched(WordAt(in_buf, p, n), InterestValue(m, u), m, k)

\* The cases of could_be_interest().
LEMMA InterestCases ==
  ASSUME NEW p, NEW n \in {2, 4}, NEW v, NEW le \in BOOLEAN,
         could_be_interest(WordAt(in_buf, p, n), v, n, le)
  PROVE  \/ v = WordAt(in_buf, p, n)
         \/ Narrower(p, n, v, 1)
         \/ n = 4 /\ Narrower(p, n, v, 2)
         \/ n = 2 /\ le /\ \E e \in 1 .. Len(interesting_16) :
              v = Patched(WordAt(in_buf, p, n), Cast(interesting_16[e], 2), 2, 0)
         \/ n = 4 /\ le /\ \E e \in 1 .. Len(interesting_32) : v = Cast(interesting_32[e], 4)
<1> DEFINE o == WordAt(in_buf, p, n)
           Insert(x, m, k) == o + (Cast(x, m) - Part(o, m, k)) * Pow(k)
<1>1. Interesting(1) = interesting_8 /\ Interesting(2) = interesting_16
  BY DEF Interesting
<1>2. \/ o = v
      \/ \E k \in 0 .. n - 1, e \in 1 .. Len(interesting_8) : v = Insert(interesting_8[e], 1, k)
      \/ /\ n # 2 \/ le
         /\ \E k \in 0 .. n - 2, e \in 1 .. Len(interesting_16) :
              \/ v = Insert(interesting_16[e], 2, k)
              \/ n > 2 /\ v = Insert(Swap(interesting_16[e], 2), 2, k)
      \/ /\ n = 4 /\ le
         /\ \E e \in 1 .. Len(interesting_32) : v = Cast(interesting_32[e], 4)
  BY DEF could_be_interest
<1> HIDE DEF o
<1>3. ASSUME NEW k \in 0 .. n - 1, NEW e \in 1 .. Len(interesting_8), v = Insert(interesting_8[e], 1, k)
      PROVE  Narrower(p, n, v, 1)
  <2>1. <<e, FALSE>> \in InterestTries(1) /\ InterestValue(1, <<e, FALSE>>) = Cast(interesting_8[e], 1)
    BY <1>1, IntTries
  <2>2. v = Patched(o, InterestValue(1, <<e, FALSE>>), 1, k)
    BY <1>3, <2>1 DEF Patched
  <2>3. QED
    BY <2>1, <2>2 DEF Narrower, o
<1>4. ASSUME NEW k \in 0 .. n - 2, NEW e \in 1 .. Len(interesting_16),
             \/ v = Insert(interesting_16[e], 2, k)
             \/ v = Insert(Swap(interesting_16[e], 2), 2, k)
      PROVE  Narrower(p, n, v, 2)
  <2>1. /\ <<e, FALSE>> \in InterestTries(2) /\ InterestValue(2, <<e, FALSE>>) = Cast(interesting_16[e], 2)
        /\ <<e, TRUE>> \in InterestTries(2) /\ InterestValue(2, <<e, TRUE>>) = Cast(Swap(interesting_16[e], 2), 2)
    <3>1. 2 \in {1, 2, 4} /\ 2 # 1 /\ e \in 1 .. Len(Interesting(2))
      BY <1>1
    <3>2. /\ <<e, FALSE>> \in InterestTries(2) /\ InterestValue(2, <<e, FALSE>>) = Cast(Interesting(2)[e], 2)
          /\ <<e, TRUE>> \in InterestTries(2) /\ InterestValue(2, <<e, TRUE>>) = Swap(Interesting(2)[e], 2)
          /\ Cast(Swap(Interesting(2)[e], 2), 2) = Swap(Interesting(2)[e], 2)
      BY <3>1, IntTries, Zenon
    <3>3. QED
      BY <1>1, <3>2, Zenon
  <2>2. \/ v = Patched(o, InterestValue(2, <<e, FALSE>>), 2, k)
        \/ v = Patched(o, InterestValue(2, <<e, TRUE>>), 2, k)
    BY <1>4, <2>1 DEF Patched
  <2>3. QED
    BY <2>1, <2>2 DEF Narrower, o
<1>5. CASE n = 4
  <2>1. n # 2 /\ n > 2
    BY <1>5
  <2>2. QED
    BY <1>2, <1>3, <1>4, <1>5, <2>1 DEF o
<1>6. CASE n = 2
  <2>1. n # 4 /\ ~(n > 2) /\ 0 .. n - 2 = {0}
    BY <1>6
  <2>2. \A e : Insert(interesting_16[e], 2, 0) = Patched(o, Cast(interesting_16[e], 2), 2, 0)
    BY DEF Patched
  <2>3. QED
    BY <1>2, <1>3, <1>6, <2>1, <2>2 DEF o
<1>7. QED
  BY <1>5, <1>6

\* Every interesting value has been run.
LEMMA IntDecided ==
  ASSUME AllRun
  PROVE  IntDone(1) /\ IntDone(2) /\ IntDone(4)
<1>1. InputFacts /\ len \in Nat /\ in_buf \in Seq(Byte) /\ len = Len(in_buf)
  BY LenProperties DEF AllRun, InputFacts
<1>2. IntDone(1)
  <2>1. ASSUME NEW q, NEW u, IntTry(q, 1, u) PROVE Decided(IntAt(q, 1, u))
    <3>1. u \in InterestTries(1)
      BY <2>1 DEF IntTry
    <3>2. u[2] = FALSE
      BY <3>1, IntTypes
    <3>3. u[2] => InterestValue(1, u) # Swap(InterestValue(1, u), 1)
      BY <3>2
    <3>4. QED
      BY <2>1, <3>3, IntCore
  <2>2. QED
    BY <2>1 DEF IntDone
<1> DEFINE Smaller(n) == IntDone(1) /\ (n = 4 => IntDone(2))
<1>3. ASSUME NEW n \in {2, 4}, Smaller(n), NEW p \in Nat, p + n <= len, ~no_arith, NEW v \in Word(n),
             v = WordAt(in_buf, p, n) \/ Narrower(p, n, v, 1) \/ (n = 4 /\ Narrower(p, n, v, 2))
      PROVE  Decided(PutWord(in_buf, p, n, v))
  <2>1. n \in {1, 2, 4} /\ v \in Int
    BY WordInt
  <2>2. CASE v = WordAt(in_buf, p, n)
    <3>1. \A k \in 0 .. n - 1 : Part(v, 1, k) = in_buf[p + k + 1]
      BY <1>1, <1>3, <2>1, <2>2, WordAtIs
    <3>2. QED
      BY <1>1, <1>3, <2>1, <3>1, SameDecided
  <2>3. CASE Narrower(p, n, v, 1)
    <3>1. PICK k \in 0 .. n - 1, u \in InterestTries(1) :
            v = Patched(WordAt(in_buf, p, n), InterestValue(1, u), 1, k)
      BY <2>3 DEF Narrower
    <3>2. Inserts(p, n, v, 1, k, u)
      BY <1>3, <3>1 DEF Inserts
    <3>3. QED
      BY <1>1, <1>3, <3>2, InsertDecided
  <2>4. CASE n = 4 /\ Narrower(p, n, v, 2)
    <3>1. PICK k \in 0 .. n - 2, u \in InterestTries(2) :
            v = Patched(WordAt(in_buf, p, n), InterestValue(2, u), 2, k)
      BY <2>4 DEF Narrower
    <3>2. Inserts(p, n, v, 2, k, u)
      BY <1>3, <2>4, <3>1 DEF Inserts
    <3>3. QED
      BY <1>1, <1>3, <2>4, <3>2, InsertDecided
  <2>5. QED
    BY <1>3, <2>2, <2>3, <2>4
<1>4. ASSUME NEW n \in {2, 4}, Smaller(n), NEW p, NEW t, IntTry(p, n, t), t[2] = FALSE
      PROVE  Decided(IntAt(p, n, t))
  <2> DEFINE v == InterestValue(n, t)
  <2>1. n \in {1, 2, 4} /\ n # 1 /\ p \in Nat /\ p + n <= len /\ t \in InterestTries(n) /\ ~no_arith
    BY <1>4 DEF IntTry
  <2>2. v \in Word(n)
    BY <2>1, IntTypes
  <2>3. CASE could_be_interest(WordAt(in_buf, p, n), v, n, t[2])
    <3> HIDE DEF v
    <3>1. v = WordAt(in_buf, p, n) \/ Narrower(p, n, v, 1) \/ (n = 4 /\ Narrower(p, n, v, 2))
      BY <1>4, <2>3, InterestCases
    <3>2. Decided(PutWord(in_buf, p, n, v))
      BY <1>3, <1>4, <2>1, <2>2, <3>1
    <3>3. QED
      BY <3>2 DEF IntAt, v
  <2>4. CASE ~could_be_interest(WordAt(in_buf, p, n), v, n, t[2])
    <3>1. t[2] => v # Swap(v, n)
      BY <1>4
    <3>2. QED
      BY <1>4, <2>4, <3>1, IntCore
  <2>5. QED
    BY <2>3, <2>4
<1>5. ASSUME NEW n \in {2, 4}, Smaller(n), NEW p \in Nat, p + n <= len, ~no_arith,
             NEW e \in 1 .. Len(Interesting(n))
      PROVE  Decided(PutWord(in_buf, p, n, Cast(Interesting(n)[e], n)))
  <2> DEFINE t == <<e, FALSE>>
  <2>0. n \in {1, 2, 4}
    OBVIOUS
  <2>1. t \in InterestTries(n) /\ InterestValue(n, t) = Cast(Interesting(n)[e], n) /\ t[2] = FALSE
    BY <2>0, IntTries
  <2> HIDE DEF t
  <2>2. IntTry(p, n, t)
    BY <1>5, <2>0, <2>1 DEF IntTry
  <2>3. Decided(IntAt(p, n, t))
    BY <1>4, <1>5, <2>1, <2>2
  <2>4. QED
    BY <2>1, <2>3 DEF IntAt
<1>6. ASSUME NEW n \in {2, 4}, Smaller(n), NEW p, NEW t, IntTry(p, n, t), t[2] = TRUE
      PROVE  Decided(IntAt(p, n, t))
  <2> DEFINE v == InterestValue(n, t)
             x == Interesting(n)[t[1]]
  <2>1. n \in {1, 2, 4} /\ n # 1 /\ p \in Nat /\ p + n <= len /\ t \in InterestTries(n) /\ ~no_arith
    BY <1>6 DEF IntTry
  <2>2. v \in Word(n) /\ t[1] \in 1 .. Len(Interesting(n)) /\ x \in Int
    BY <2>1, IntTypes
  <2>3. v = Swap(x, n)
    BY <1>6 DEF InterestValue
  <2>4. ASSUME NEW e \in 1 .. Len(Interesting(n)), v = Cast(Interesting(n)[e], n)
        PROVE  Decided(IntAt(p, n, t))
    <3>1. Decided(PutWord(in_buf, p, n, Cast(Interesting(n)[e], n)))
      BY <1>5, <1>6, <2>1
    <3>2. QED
      BY <2>4, <3>1 DEF IntAt
  <2> HIDE DEF v, x
  <2>5. CASE v = Swap(v, n)
    <3>1. Swap(v, n) = Cast(x, n)
      BY <2>2, <2>3, SwapTwice
    <3>2. v = Cast(Interesting(n)[t[1]], n)
      BY <2>5, <3>1 DEF x
    <3>3. QED
      BY <2>2, <2>4, <3>2
  <2>6. CASE could_be_interest(WordAt(in_buf, p, n), v, n, t[2])
    <3>1. \/ v = WordAt(in_buf, p, n) \/ Narrower(p, n, v, 1) \/ (n = 4 /\ Narrower(p, n, v, 2))
          \/ n = 2 /\ \E e \in 1 .. Len(interesting_16) :
               v = Patched(WordAt(in_buf, p, n), Cast(interesting_16[e], 2), 2, 0)
          \/ n = 4 /\ \E e \in 1 .. Len(interesting_32) : v = Cast(interesting_32[e], 4)
      BY <1>6, <2>6, InterestCases
    <3>2. CASE v = WordAt(in_buf, p, n) \/ Narrower(p, n, v, 1) \/ (n = 4 /\ Narrower(p, n, v, 2))
      <4>1. Decided(PutWord(in_buf, p, n, v))
        BY <1>3, <1>6, <2>1, <2>2, <3>2
      <4>2. QED
        BY <4>1 DEF IntAt, v
    <3>3. CASE n = 4 /\ \E e \in 1 .. Len(interesting_32) : v = Cast(interesting_32[e], 4)
      <4>1. Interesting(4) = interesting_32
        BY DEF Interesting
      <4>2. QED
        BY <2>4, <3>3, <4>1
    <3>4. CASE n = 2 /\ \E e \in 1 .. Len(interesting_16) :
               v = Patched(WordAt(in_buf, p, n), Cast(interesting_16[e], 2), 2, 0)
      <4>1. Interesting(2) = interesting_16
        BY DEF Interesting
      <4>2. PICK e \in 1 .. Len(interesting_16) :
               v = Patched(WordAt(in_buf, p, n), Cast(interesting_16[e], 2), 2, 0)
        BY <3>4
      <4> DEFINE o == WordAt(in_buf, p, n)
                 y == Cast(interesting_16[e], 2)
      <4>3. o \in Word(2) /\ o \in Int
        BY <1>1, <2>1, <3>4, WordAtIs
      <4>4. y \in Int
        <5>1. interesting_16 \in Seq(Int)
          BY WordsAssumption
        <5>2. interesting_16[e] \in Int
          BY <4>2, <5>1, ElementOfSeq
        <5>3. QED
          BY <5>2, CastParts, WordInt
      <4> HIDE DEF o, y
      <4>5. Part(o, 2, 0) = o
        BY <4>3, CastParts
      <4>6. v = o + (y - o) * 1
        BY <4>2, <4>5, Powers DEF Patched, o, y
      <4>7. v = y
        BY <4>3, <4>4, <4>6
      <4>8. v = Cast(Interesting(n)[e], n) /\ e \in 1 .. Len(Interesting(n))
        BY <3>4, <4>1, <4>2, <4>7 DEF y
      <4>9. QED
        BY <2>4, <4>8
    <3>5. QED
      BY <3>1, <3>2, <3>3, <3>4
  <2>7. CASE v # Swap(v, n) /\ ~could_be_interest(WordAt(in_buf, p, n), v, n, t[2])
    BY <1>6, <2>7, IntCore DEF v
  <2>8. QED
    BY <2>5, <2>6, <2>7
<1>7. ASSUME NEW n \in {2, 4}, Smaller(n) PROVE IntDone(n)
  <2>1. ASSUME NEW p, NEW t, IntTry(p, n, t) PROVE Decided(IntAt(p, n, t))
    <3>1. n \in {1, 2, 4} /\ t \in InterestTries(n)
      BY <2>1 DEF IntTry
    <3>2. t[2] \in BOOLEAN
      BY <3>1, IntTypes
    <3>3. t[2] = FALSE \/ t[2] = TRUE
      BY <3>2
    <3>4. QED
      BY <1>4, <1>6, <1>7, <2>1, <3>3
  <2>2. QED
    BY <2>1 DEF IntDone
<1>8. IntDone(2)
  BY <1>2, <1>7
<1>9. IntDone(4)
  BY <1>2, <1>7, <1>8
<1>10. QED
  BY <1>2, <1>8, <1>9

\* Once all turns are over, nothing that was intended is missing.
LEMMA AllTried ==
  ASSUME AllRun
  PROVE  ValuesTried
<1>1. InputFacts /\ len \in Nat
  BY LenProperties DEF AllRun, InputFacts
<1>2. ASSUME NEW n \in {1, 2, 4}, NEW p \in 0 .. len - n, NEW buf \in Intended(p, n)
      PROVE  Decided(buf)
  <2> DEFINE o == WordAt(in_buf, p, n)
  <2>1. p \in Nat /\ p + n <= len
    BY <1>1
  <2>2. \/ /\ ~no_arith
           /\ \E t \in ArithTries(n) : buf = PutWord(in_buf, p, n, ArithValue(n, o, t))
        \/ /\ n = 1 \/ ~no_arith
           /\ \E t \in InterestTries(n) : buf = PutWord(in_buf, p, n, InterestValue(n, t))
    BY DEF Intended
  <2>3. CASE ~no_arith /\ \E t \in ArithTries(n) : buf = PutWord(in_buf, p, n, ArithValue(n, o, t))
    <3>1. PICK t \in ArithTries(n) : buf = ArithAt(p, n, t)
      BY <2>3 DEF ArithAt
    <3>2. ArithTry(p, n, t)
      BY <2>1 DEF ArithTry
    <3>3. QED
      BY <2>3, <3>1, <3>2, ArithDecided
  <2>4. CASE (n = 1 \/ ~no_arith) /\ \E t \in InterestTries(n) : buf = PutWord(in_buf, p, n, InterestValue(n, t))
    <3>1. PICK t \in InterestTries(n) : buf = IntAt(p, n, t)
      BY <2>4 DEF IntAt
    <3>2. IntTry(p, n, t)
      BY <2>1, <2>4 DEF IntTry
    <3>3. IntDone(n)
      BY IntDecided
    <3>4. QED
      BY <3>1, <3>2, <3>3 DEF IntDone
  <2>5. QED
    BY <2>2, <2>3, <2>4
<1>3. QED
  BY <1>2 DEF ValuesTried, Decided

-----------------------------------------------------------------------------
(* The turns of the stages of values.                                      *)

\* The order of the stages is a strict one, and the dictionary stages come last.
LEMMA Ranks ==
  /\ \A s \in ValueStage : Rank(s) \in 1 .. 12
  /\ Rank("det_done") = 13 /\ Rank("flip1") = 1 /\ Rank("flip8") = 4
  /\ ValueStage \subseteq DetStage
  /\ \A s \in DetStage \cup {"det_done"} : Rank(s) \in 1 .. 13
BY DEF Rank, ValueStage, DetStage

\* What a turn runs depends on the effector map only once that is complete.
LEMMA RunsKept ==
  ASSUME NEW s \in ValueStage, NEW j, in_buf' = in_buf, eff_map' = eff_map \/ Rank(s) <= 4
  PROVE  ValueRuns(s, j)' = ValueRuns(s, j)
<1>1. CASE eff_map' = eff_map
  BY <1>1 DEF ValueRuns, FlipRuns, ArithRuns, InterestRuns, Flagged
<1>2. CASE Rank(s) <= 4
  <2>1. s \in {"flip1", "flip2", "flip4", "flip8"}
    BY <1>2 DEF Rank, ValueStage
  <2>2. CASE s = "flip1"
    BY <2>2 DEF ValueRuns
  <2>3. CASE s = "flip2"
    BY <2>3 DEF ValueRuns
  <2>4. CASE s = "flip4"
    BY <2>4 DEF ValueRuns
  <2>5. CASE s = "flip8"
    BY <2>5 DEF ValueRuns
  <2>6. QED
    BY <2>1, <2>2, <2>3, <2>4, <2>5
<1>3. QED
  BY <1>1, <1>2

\* What a turn runs is in executed.
LEMMA TurnRuns ==
  ASSUME RestoredInv, DetTurn, ~next_stage, stage \in ValueStage
  PROVE  ValueRuns(stage, i) \subseteq executed'
<1>1. out_buf = in_buf
  BY Ranks DEF RestoredInv
<1>2. CASE flip1
  BY <1>1, <1>2 DEF flip1, turn, ValueRuns
<1>3. CASE flip2
  BY <1>1, <1>3 DEF flip2, turn, ValueRuns
<1>4. CASE flip4
  BY <1>1, <1>4 DEF flip4, turn, ValueRuns
<1>5. CASE flip8
  BY <1>1, <1>5 DEF flip8, turn, ValueRuns
<1>6. ASSUME NEW s, NEW n, flip_bytes(s, n) PROVE stage = s /\ FlipRuns(n, i) \subseteq executed'
  BY <1>1, <1>6 DEF flip_bytes, turn, FlipRuns
<1>7. CASE flip16 \/ flip32
  <2>1. CASE flip16
    BY <1>6, <2>1 DEF flip16, ValueRuns
  <2>2. CASE flip32
    BY <1>6, <2>2 DEF flip32, ValueRuns
  <2>3. QED
    BY <1>7, <2>1, <2>2
<1>8. ASSUME NEW s, NEW n, arith(s, n) PROVE stage = s /\ ArithRuns(n, i) \subseteq executed'
  <2> DEFINE o == WordAt(out_buf, i, n)
             tried == {t \in ArithTries(n) : WorthArith(n, o, t)}
  <2>1. stage = s
    BY <1>8 DEF arith, word_turn
  <2>2. Flagged(i, n) =>
          turn(s, {PutWord(out_buf, i, n, ArithValue(n, o, t)) : t \in tried},
               Cardinality(tried), Cardinality(ArithTries(n)) - Cardinality(tried))
    BY <1>8 DEF arith, word_turn
  <2>3. Flagged(i, n) => executed' = executed \cup {PutWord(out_buf, i, n, ArithValue(n, o, t)) : t \in tried}
    BY <2>2 DEF turn
  <2>4. QED
    BY <1>1, <2>1, <2>3 DEF ArithRuns
<1>9. ASSUME NEW s, NEW n, interest(s, n) PROVE stage = s /\ InterestRuns(n, i) \subseteq executed'
  <2> DEFINE o == WordAt(out_buf, i, n)
             tried == {t \in InterestTries(n) : WorthInterest(n, o, t)}
  <2>1. stage = s
    BY <1>9 DEF interest, word_turn
  <2>2. Flagged(i, n) =>
          turn(s, {PutWord(out_buf, i, n, InterestValue(n, t)) : t \in tried},
               Cardinality(tried), Cardinality(InterestTries(n)) - Cardinality(tried))
    BY <1>9 DEF interest, word_turn
  <2>3. Flagged(i, n) => executed' = executed \cup {PutWord(out_buf, i, n, InterestValue(n, t)) : t \in tried}
    BY <2>2 DEF turn
  <2>4. QED
    BY <1>1, <2>1, <2>3 DEF InterestRuns
<1>10. CASE arith8 \/ arith16 \/ arith32
  <2>1. CASE arith8
    BY <1>8, <2>1 DEF arith8, ValueRuns
  <2>2. CASE arith16
    BY <1>8, <2>2 DEF arith16, ValueRuns
  <2>3. CASE arith32
    BY <1>8, <2>3 DEF arith32, ValueRuns
  <2>4. QED
    BY <1>10, <2>1, <2>2, <2>3
<1>11. CASE int8 \/ int16 \/ int32
  <2>1. CASE int8
    BY <1>9, <2>1 DEF int8, ValueRuns
  <2>2. CASE int16
    BY <1>9, <2>2 DEF int16, ValueRuns
  <2>3. CASE int32
    BY <1>9, <2>3 DEF int32, ValueRuns
  <2>4. QED
    BY <1>11, <2>1, <2>2, <2>3
<1>12. ~(ext_UO \/ ext_UI \/ ext_AO)
  BY DEF ext_UO, ext_UI, ext_AO, ValueStage
<1>13. QED
  BY <1>2, <1>3, <1>4, <1>5, <1>7, <1>10, <1>11, <1>12 DEF DetTurn

\* One more turn.
LEMMA TurnKeepsValues ==
  ASSUME InputInv, RestoredInv, ValuesInv, DetTurn, ~next_stage
  PROVE  ValuesInv'
<1>1. /\ stage \in DetStage /\ i' = i + 1
      /\ UNCHANGED <<stage, in_buf, len, no_arith>>
      /\ eff_map' = eff_map \/ stage = "flip8"
      /\ executed \subseteq executed'
  BY TurnEffect
<1>2. i \in Nat
  BY DEF InputInv
<1>3. \A s \in ValueStage : Turns(s)' = Turns(s) /\ Off(s)' = Off(s)
  BY <1>1 DEF Turns, Off, ValueStage
<1> SUFFICES ASSUME NEW s \in ValueStage, NEW j \in 0 .. Turns(s) - 1,
                    (stage = s /\ j < i + 1) \/ (Rank(stage) > Rank(s) /\ ~Off(s))
             PROVE  ValueRuns(s, j)' \subseteq executed'
  BY <1>1, <1>3 DEF ValuesInv
<1>4. eff_map' = eff_map \/ Rank(s) <= 4
  <2>1. stage = "flip8" => Rank(s) <= 4
    BY Ranks
  <2>2. QED
    BY <1>1, <2>1
<1>5. ValueRuns(s, j)' = ValueRuns(s, j)
  BY <1>1, <1>4, RunsKept
<1>6. CASE (stage = s /\ j < i) \/ (Rank(stage) > Rank(s) /\ ~Off(s))
  BY <1>1, <1>5, <1>6 DEF ValuesInv
<1>7. CASE stage = s /\ j = i
  <2>1. ValueRuns(stage, i) \subseteq executed'
    BY <1>7, TurnRuns
  <2>2. QED
    BY <1>5, <1>7, <2>1
<1>8. j \in Int
  <2>1. Turns(s) \in Int
    <3>1. len \in Nat /\ len * ByteBits \in Int
      BY Constants DEF InputInv
    <3>2. QED
      BY <3>1 DEF Turns, ValueStage
  <2>2. QED
    BY <2>1
<1>9. QED
  BY <1>2, <1>6, <1>7, <1>8

\* A stage that a move skips has no turns, or is switched off.
LEMMA MoveSkips ==
  ASSUME len \in Nat, stage \in DetStage, NEW s \in ValueStage, NEW j \in 0 .. Turns(s) - 1, ~Off(s),
         Rank(NextStage) > Rank(s)
  PROVE  Rank(stage) > Rank(s) \/ s = stage
<1>1. CASE stage \in {"flip1", "flip2", "flip4"}
  <2>1. /\ stage = "flip1" => NextStage = "flip2"
        /\ stage = "flip2" => NextStage = "flip4"
        /\ stage = "flip4" => NextStage = "flip8"
    BY DEF NextStage
  <2>2. QED
    BY <1>1, <2>1 DEF Rank, ValueStage
<1>2. CASE stage \in {"ext_UO", "ext_UI", "ext_AO"}
  BY <1>2 DEF Rank, ValueStage
<1>3. /\ s \in {"flip16", "arith16", "int16"} => len >= 2
      /\ s \in {"flip32", "arith32", "int32"} => len >= 4
  <2>1. CASE s \in {"flip16", "arith16", "int16"}
    <3>1. Turns(s) = len - 1
      BY <2>1 DEF Turns
    <3>2. QED
      BY <2>1, <3>1
  <2>2. CASE s \in {"flip32", "arith32", "int32"}
    <3>1. Turns(s) = len - 3
      BY <2>2 DEF Turns
    <3>2. QED
      BY <2>2, <3>1
  <2>3. QED
    BY <2>1, <2>2
<1>4. no_arith => s \notin {"arith8", "arith16", "arith32", "int16", "int32"}
  BY DEF Off
<1>5. CASE stage \in {"flip8", "flip16", "flip32"}
  <2>1. /\ len >= 2 /\ stage = "flip8" => NextStage = "flip16"
        /\ len >= 4 /\ stage = "flip16" => NextStage = "flip32"
        /\ NextStage \in {"flip16", "flip32", "arith8", "int8"}
        /\ ~no_arith => NextStage # "int8"
    BY <1>5 DEF NextStage, skip_bitflip, skip_arith
  <2>2. QED
    BY <1>3, <1>4, <1>5, <2>1 DEF Rank, ValueStage
<1>6. CASE stage \in {"arith8", "arith16", "arith32"}
  <2>1. /\ len >= 2 /\ stage = "arith8" => NextStage = "arith16"
        /\ len >= 4 /\ stage = "arith16" => NextStage = "arith32"
        /\ NextStage \in {"arith16", "arith32", "int8"}
    BY <1>6 DEF NextStage, skip_arith
  <2>2. QED
    BY <1>3, <1>6, <2>1 DEF Rank, ValueStage
<1>7. CASE stage \in {"int8", "int16", "int32"}
  <2>1. /\ len >= 2 /\ ~no_arith /\ stage = "int8" => NextStage = "int16"
        /\ len >= 4 /\ stage = "int16" => NextStage = "int32"
    BY <1>7 DEF NextStage
  <2>2. QED
    BY <1>3, <1>4, <1>7, <2>1 DEF Rank, ValueStage
<1>8. QED
  BY <1>1, <1>2, <1>5, <1>6, <1>7 DEF DetStage

\* From one stage to the next.
LEMMA MoveKeepsValues ==
  ASSUME InputInv, ValuesInv, next_stage
  PROVE  ValuesInv'
<1>1. /\ stage \in DetStage /\ stage' = NextStage /\ i' = 0 /\ i >= Turns(stage)
      /\ UNCHANGED <<in_buf, len, no_arith, executed>>
      /\ eff_map' = eff_map \/ stage \in {"flip4", "flip8"}
  BY DEF next_stage, bufVars
<1>2. len \in Nat /\ i \in Nat
  BY DEF InputInv
<1>3. \A s \in ValueStage : Turns(s)' = Turns(s) /\ Off(s)' = Off(s)
  BY <1>1 DEF Turns, Off, ValueStage
<1> SUFFICES ASSUME NEW s \in ValueStage, NEW j \in 0 .. Turns(s) - 1,
                    (NextStage = s /\ j < 0) \/ (Rank(NextStage) > Rank(s) /\ ~Off(s))
             PROVE  ValueRuns(s, j)' \subseteq executed
  BY <1>1, <1>3 DEF ValuesInv
<1>4. Turns(s) \in Int
  <2>1. len * ByteBits \in Int
    BY <1>2, Constants
  <2>2. QED
    BY <1>2, <2>1 DEF Turns, ValueStage
<1>5. Rank(NextStage) > Rank(s) /\ ~Off(s)
  BY <1>4
<1>6. Rank(stage) > Rank(s) \/ s = stage
  BY <1>1, <1>2, <1>5, MoveSkips
<1>7. eff_map' = eff_map \/ Rank(s) <= 4
  <2>1. stage \in {"flip4", "flip8"} => Rank(stage) <= 4 /\ Rank(stage) \in Int
    BY DEF Rank
  <2>2. Rank(s) \in Int
    BY Ranks
  <2>3. QED
    BY <1>1, <1>6, <2>1, <2>2
<1>8. ValueRuns(s, j)' = ValueRuns(s, j)
  BY <1>1, <1>7, RunsKept
<1>9. ValueRuns(s, j) \subseteq executed
  <2>1. s = stage => j < i
    BY <1>1, <1>2, <1>4
  <2>2. QED
    BY <1>1, <1>5, <1>6, <2>1 DEF ValuesInv
<1>10. QED
  BY <1>8, <1>9

\* The values run so far.
LEMMA AlwaysValues == Spec => []ValuesInv
<1>1. Init => ValuesInv
  BY DEF Init, ValuesInv, DetStage
<1>2. InputInv /\ RestoredInv /\ CountInv /\ ValuesInv /\ [Next]_vars => ValuesInv'
  <2>1. ASSUME InputInv, RestoredInv, ValuesInv, det_turn PROVE ValuesInv'
    BY <2>1, TurnKeepsValues, MoveKeepsValues DEF det_turn
  <2>2. ASSUME CountInv, InputInv, trim_and_score PROVE ValuesInv'
    <3>1. i' = 0 /\ stage' \in {"havoc_stage", "flip1"}
      BY <2>2 DEF trim_and_score, CountInv
    <3>2. QED
      BY <3>1, Ranks DEF ValuesInv, DetStage
  <2>3. ASSUME Next, ~det_turn, ~trim_and_score PROVE ValuesInv'
    <3>1. stage' \notin DetStage \cup {"det_done"}
      BY <2>3 DEF Next, map_input, trim_and_score, stop_trimming, abandon_det,
         mark_as_det_done, havoc_stage, change_value, delete_bytes, clone_bytes,
         overwrite_bytes, overwrite_with_extra, insert_extra, tweak, InStack, run_havoc,
         abandon_havoc, end_havoc, splice_fails, splice_with_target, finish, abandon_entry,
         DetStage
    <3>2. QED
      BY <3>1 DEF ValuesInv
  <2>4. ASSUME ValuesInv, UNCHANGED vars PROVE ValuesInv'
    <3>1. UNCHANGED <<stage, i, in_buf, len, no_arith, eff_map, executed>>
      BY <2>4 DEF vars, detVars, bufVars
    <3>2. \A s \in ValueStage : Turns(s)' = Turns(s) /\ Off(s)' = Off(s)
      BY <3>1 DEF Turns, Off, ValueStage
    <3>3. \A s \in ValueStage : \A j : ValueRuns(s, j)' = ValueRuns(s, j)
      BY <3>1, RunsKept
    <3>4. QED
      BY <2>4, <3>1, <3>2, <3>3 DEF ValuesInv
  <2>5. QED
    BY <2>1, <2>2, <2>3, <2>4
<1>3. QED
  BY <1>1, <1>2, AlwaysLengths, AlwaysRestored, AlwaysCounts, PTL DEF Spec

\* For inputs, dictionaries and tables of interesting values of any size: when the
\* deterministic stages are over, every arithmetic and interesting value that touches a
\* flagged block has been run, although each stage leaves out what another one is believed
\* to cover, but for the two kinds of values that TakenForTried() names; and so has every
\* token.
THEOREM DetCorrect == Spec => []DetComplete
<1>1. InputInv /\ LengthInv /\ ValuesInv => (stage = "det_done" => ValuesTried)
  <2> SUFFICES ASSUME InputInv, LengthInv, ValuesInv, stage = "det_done" PROVE ValuesTried
    OBVIOUS
  <2>1. InputFacts
    BY DEF InputFacts, InputInv, LengthInv
  <2>2. \A s \in ValueStage : ~Off(s) => \A j \in 0 .. Turns(s) - 1 : ValueRuns(s, j) \subseteq executed
    <3>1. \A s \in ValueStage : Rank(stage) > Rank(s)
      BY Ranks
    <3>2. QED
      BY <3>1 DEF ValuesInv
  <2>3. AllRun
    BY <2>1, <2>2 DEF AllRun
  <2>4. QED
    BY <2>3, AllTried
<1>2. (stage = "det_done" => ValuesTried) /\ (stage = "det_done" => TokensTried) => DetComplete
  BY DEF DetComplete
<1>3. QED
  BY <1>1, <1>2, AlwaysLengths, AlwaysValues, DictionaryComplete, PTL

=============================================================================
