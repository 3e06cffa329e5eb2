------------------------------ MODULE FuzzOne -------------------------------
(***************************************************************************)
(* fuzz_one() of DAFL/afl-fuzz.c on one entry of the queue, from mapping   *)
(* the input to returning: trimming, the performance score, the            *)
(* deterministic stages of DetStages, the havoc stage with its dozen       *)
(* tweaks, and splicing with another entry, after which havoc starts over. *)
(*                                                                         *)
(* From the havoc stage on the contents of the buffers are random; what    *)
(* counts is how long the input is, how much memory out_buf has, and which *)
(* bytes an operation touches.  Any execution may make fuzz_one() abandon  *)
(* the entry (Ctrl-C, SIGUSR1, repeated timeouts) or add to the queue.     *)
(***************************************************************************)
EXTENDS DetStages

CONSTANTS
  Entries,            \* queue entries and configurations: records, see EntryOK
  avg_exec_us,        \* averages over the queue
  avg_bitmap_size,
  HAVOC_CYCLES,       \* 256 and 1024
  HAVOC_CYCLES_INIT,
  HAVOC_MIN,          \* 16
  havoc_div,          \* divisor for slow targets
  HAVOC_MAX_MULT,     \* 16
  SPLICE_CYCLES,      \* 15
  SPLICE_HAVOC,       \* 32
  HAVOC_BLK_SMALL,    \* block sizes: 32, 128, 1500 and 32768
  HAVOC_BLK_MEDIUM,
  HAVOC_BLK_LARGE,
  HAVOC_BLK_XL,
  MaxTweaks,          \* bound: tweaks of one execution that change the length
  MaxFinds            \* bound: executions of the havoc stage that find a case

\* Each entry is long enough to be in the queue: read_testcases() and
\* save_if_interesting() admit no empty input.
EntryOK(e) ==
  /\ e.data \in Seq(Byte) /\ Len(e.data) \in 1 .. MAX_FILE
  /\ e.extras \in Seq(Seq(Byte)) /\ Len(e.extras) <= MaxExtras /\ ByLength(e.extras)
  /\ e.trimmed \in 1 .. Len(e.data)      \* length after trim_case()
  /\ e.others \subseteq 1 .. MAX_FILE    \* lengths of the other entries
  /\ {e.no_arith, e.det, e.splicing, e.no_dfg, e.t_x} \subseteq BOOLEAN
  /\ {e.exec_us, e.bitmap_size, e.handicap, e.depth, e.prox, e.avg_prox} \subseteq Nat

ASSUME EntriesAssumption == \A e \in Entries : EntryOK(e)

ASSUME HavocAssumption ==
  /\ {HAVOC_BLK_SMALL, HAVOC_BLK_MEDIUM, HAVOC_BLK_LARGE, HAVOC_BLK_XL} \subseteq Nat \ {0}
  /\ HAVOC_BLK_SMALL <= HAVOC_BLK_MEDIUM /\ HAVOC_BLK_MEDIUM <= HAVOC_BLK_LARGE
  /\ HAVOC_BLK_LARGE <= HAVOC_BLK_XL

VARIABLES
  entry,         \* queue_cur and the configuration
  handicap,      \* of the entry: number of queue cycles it is behind
  perf_score, orig_perf,
  doing_det,
  temp_len,      \* length of the input in out_buf
  capacity,      \* allocated size of out_buf
  splice_cycle,
  spliced,       \* in_buf # orig_in
  tweaks, finds, \* counters for the bounds
  out_of_bounds  \* history: has an operation touched a byte outside its buffer?

havocVars == <<perf_score, orig_perf, doing_det, temp_len, capacity, splice_cycle,
               spliced, tweaks, finds, out_of_bounds>>
dictRest  == <<phase, auto_files, resume_files, loaded, adds, deaths>>
entryVars == <<entry, handicap>>
vars      == <<detVars, dictTables, dictRest, entryVars, havocVars>>

Lesser(a, b) == IF a < b THEN a ELSE b

----------------------------------------------------------------------------
(* The performance score. *)

\* A multiplication by n / d, rounded down.
Scale(v, n, d) == (v * n) \div d

SpeedScore(us) ==
  CASE us > avg_exec_us * 10     -> 10
    [] us > avg_exec_us * 4      -> 25
    [] us > avg_exec_us * 2      -> 50
    [] us * 3 > avg_exec_us * 4  -> 75
    [] us * 4 < avg_exec_us      -> 300
    [] us * 3 < avg_exec_us      -> 200
    [] us * 2 < avg_exec_us      -> 150
    [] OTHER                     -> 100

SizeScore(score, size) ==
  CASE size * 3 > avg_bitmap_size * 10 -> score * 3
    [] size > avg_bitmap_size * 2      -> score * 2
    [] size * 3 > avg_bitmap_size * 4  -> Scale(score, 3, 2)
    [] size * 3 < avg_bitmap_size      -> Scale(score, 1, 4)
    [] size * 2 < avg_bitmap_size      -> Scale(score, 1, 2)
    [] size * 3 < avg_bitmap_size * 2  -> Scale(score, 3, 4)
    [] OTHER                           -> score

calculate_score(q) ==
  LET late  == IF handicap >= 4 THEN 4 ELSE IF handicap > 0 THEN 2 ELSE 1
      depth == IF q.depth <= 3 THEN 1 ELSE IF q.depth <= 7 THEN 2
               ELSE IF q.depth <= 13 THEN 3 ELSE IF q.depth <= 25 THEN 4 ELSE 5
  IN  Lesser(SizeScore(SpeedScore(q.exec_us), q.bitmap_size) * late * depth,
             HAVOC_MAX_MULT * 100)

\* The factor, as numerator and denominator.  With -c it lies between 1/32 and
\* 32, depending on the score and the time; its extremes stand for it.
calculate_factor(q, prox_score) ==
  IF q.t_x THEN {<<1, 32>>, <<1, 1>>, <<32, 1>>}
  ELSE IF q.no_dfg \/ q.avg_prox = 0 THEN {<<1, 1>>}
  ELSE {<<prox_score, q.avg_prox>>}
----------------------------------------------------------------------------
(* Up to the first stage. *)

Init ==
  /\ entry \in Entries /\ handicap = entry.handicap
  /\ phase = "run" /\ extras = entry.extras /\ a_extras = <<>> /\ auto_changed = FALSE
  /\ auto_files = <<>> /\ resume_files = <<>> /\ loaded = 0 /\ adds = 0 /\ deaths = 0
  /\ stage = "map" /\ i = 0 /\ stage_cur = 0 /\ stage_max = 0
  /\ in_buf = entry.data /\ out_buf = <<>> /\ len = 0 /\ no_arith = entry.no_arith
  /\ prev_cksum = 0 /\ a_collect = <<>> /\ cksums = <<>> /\ tokens = <<>>
  /\ eff_map = {} /\ ex_tmp = <<>> /\ heap = [b \in Buffers |-> 0]
  /\ passed_det = ~entry.det /\ executed = {}
  /\ perf_score = 100 /\ orig_perf = 0 /\ doing_det = FALSE
  /\ temp_len = 0 /\ capacity = 0 /\ splice_cycle = 0 /\ spliced = FALSE
  /\ tweaks = 0 /\ finds = 0 /\ out_of_bounds = FALSE

\* The input is mapped and out_buf allocated; a calibration that fails again
\* makes fuzz_one() abandon the entry.
map_input ==
  /\ stage = "map" /\ stage' \in {"trim", "abandon"}
  /\ heap' = Alloc(Alloc(heap, "orig_in"), "out_buf")
  /\ len' = Len(in_buf) /\ capacity' = len'
  /\ UNCHANGED <<i, in_buf, out_buf, no_arith, stage_cur, stage_max, flipVars, eff_map,
                 ex_tmp, passed_det, executed, dictTables, dictRest, entryVars, perf_score,
                 orig_perf, doing_det, temp_len, splice_cycle, spliced, tweaks, finds,
                 out_of_bounds>>

\* trim_case() may shorten the entry, but not out_buf; Ctrl-C abandons it.  The
\* deterministic stages follow unless they are off or done.
trim_and_score ==
  /\ stage = "trim"
  /\ \E n \in {Len(in_buf), entry.trimmed} :
       LET data == SubSeq(in_buf, 1, n)
       IN  /\ in_buf' = data /\ len' = n
           /\ out_buf' = data /\ out_of_bounds' = (n > capacity)
  /\ perf_score' = calculate_score(entry) /\ orig_perf' = perf_score'
  /\ handicap' = IF handicap >= 4 THEN handicap - 4
                 ELSE IF handicap > 0 THEN handicap - 1 ELSE handicap
  /\ doing_det' = ~passed_det
  /\ stage' = IF passed_det THEN "havoc_stage" ELSE "flip1"
  /\ stage_max' = IF passed_det THEN 0 ELSE len' * ByteBits
  /\ UNCHANGED <<i, no_arith, stage_cur, flipVars, eff_map, ex_tmp, heap, passed_det,
                 executed, dictTables, dictRest, entry, temp_len, capacity, splice_cycle,
                 spliced, tweaks, finds>>

stop_trimming ==
  /\ stage = "trim" /\ stage' = "abandon"
  /\ UNCHANGED <<i, bufVars, stage_cur, stage_max, flipVars, eff_map, ex_tmp, heap,
                 passed_det, executed, dictTables, dictRest, entryVars, havocVars>>

det_turn == DetTurn /\ UNCHANGED <<dictRest, entryVars, havocVars>>

\* An execution of a deterministic stage reports that the entry is to be
\* abandoned; the insertion stage frees its buffer first.
abandon_det ==
  /\ stage \in DetStage /\ i < Turns(stage)
  /\ stage' = "abandon" /\ executed' = {}
  /\ heap' = IF stage = "ext_UI" THEN Free(heap, "ex_tmp") ELSE heap
  /\ UNCHANGED <<i, bufVars, stage_cur, stage_max, flipVars, eff_map, ex_tmp,
                 passed_det, dictTables, dictRest, entryVars, havocVars>>

mark_as_det_done ==
  /\ stage = "det_done" /\ stage' = "havoc_stage"
  /\ passed_det' = TRUE /\ executed' = {}
  /\ UNCHANGED <<i, bufVars, stage_cur, stage_max, flipVars, eff_map, ex_tmp, heap,
                 dictTables, dictRest, entryVars, havocVars>>

----------------------------------------------------------------------------
(* Havoc. *)

\* Everything but the havoc variables and the position in the stage.
detRest == <<i, in_buf, out_buf, no_arith, flipVars, eff_map, ex_tmp, passed_det,
             executed, dictTables, dictRest, entryVars>>

\* havoc_stage: the length of the stage depends on the score of the entry or, if
\* it was spliced with an entry of score prox_score, on the mean of the two.
havoc_stage ==
  /\ stage = "havoc_stage" /\ stage' = "havoc"
  /\ \E other \in IF spliced THEN {0, entry.prox} ELSE {entry.prox} :
     \E f \in calculate_factor(entry, (entry.prox + other) \div 2) :
       LET base   == IF splice_cycle = 0 THEN perf_score ELSE orig_perf
           cycles == IF splice_cycle # 0 THEN SPLICE_HAVOC
                     ELSE IF doing_det THEN HAVOC_CYCLES_INIT ELSE HAVOC_CYCLES
           runs   == (Scale(cycles * Scale(base, f[1], f[2]), 1, havoc_div)) \div 100
       IN  /\ perf_score' = Scale(base, f[1], f[2])
           /\ stage_max' = IF runs < HAVOC_MIN THEN HAVOC_MIN ELSE runs
  /\ stage_cur' = 0 /\ temp_len' = len /\ tweaks' = 0
  /\ UNCHANGED <<detRest, len, heap, orig_perf, doing_det, capacity, splice_cycle,
                 spliced, finds, out_of_bounds>>

\* choose_block_len(): the classes of block sizes it draws from depend on the
\* age of the session; all of them are possible here.
choose_block_len(limit) ==
  LET Class(lo, hi) == LET from == IF lo >= limit THEN 1 ELSE lo
                       IN  from .. Lesser(hi, limit)
  IN  Class(1, HAVOC_BLK_SMALL) \cup Class(HAVOC_BLK_SMALL, HAVOC_BLK_MEDIUM)
        \cup Class(HAVOC_BLK_MEDIUM, HAVOC_BLK_LARGE) \cup Class(HAVOC_BLK_LARGE, HAVOC_BLK_XL)

\* UR(n).
Random(n) == 0 .. n - 1

\* A tweak that leaves temp_len bytes in a buffer of size bytes, and touches the
\* bytes before the offset reach of a buffer of limit bytes.
tweak(new_len, size, reach, limit) ==
  /\ temp_len' = new_len /\ capacity' = size
  /\ out_of_bounds' = (out_of_bounds \/ reach > limit)
  /\ tweaks' = tweaks + 1
  /\ UNCHANGED <<detRest, stage, len, heap, stage_cur, stage_max, perf_score, orig_perf,
                 doing_det, splice_cycle, spliced, finds>>

InStack == stage = "havoc" /\ stage_cur < stage_max /\ tweaks < MaxTweaks

\* Cases 0 to 10: a bit, a byte or a word somewhere.
change_value ==
  /\ InStack
  /\ \E n \in {1, 2, 4} : /\ temp_len >= n
                          /\ \E pos \in Random(temp_len - n + 1) :
                               tweak(temp_len, capacity, pos + n, temp_len)

\* Cases 11 and 12.
delete_bytes ==
  /\ InStack /\ temp_len >= 2
  /\ \E del_len \in choose_block_len(temp_len - 1) :
       \E del_from \in Random(temp_len - del_len + 1) :
         tweak(temp_len - del_len, capacity, del_from + del_len, temp_len)

\* Case 13: a block is cloned, or one of a constant byte inserted; out_buf is
\* replaced by a larger buffer.
clone_bytes ==
  /\ InStack /\ temp_len + HAVOC_BLK_XL < MAX_FILE
  /\ \/ \E clone_len \in choose_block_len(temp_len) :
          \E clone_from \in Random(temp_len - clone_len + 1) :
            tweak(temp_len + clone_len, temp_len + clone_len, clone_from + clone_len, temp_len)
     \/ \E clone_len \in choose_block_len(HAVOC_BLK_XL) :
          \E clone_to \in Random(temp_len) :
            tweak(temp_len + clone_len, temp_len + clone_len,
                  clone_to + clone_len + (temp_len - clone_to), temp_len + clone_len)

\* Case 14.
overwrite_bytes ==
  /\ InStack /\ temp_len >= 2
  /\ \E copy_len \in choose_block_len(temp_len - 1) :
       \E to \in Random(temp_len - copy_len + 1) :
         tweak(temp_len, capacity, to + copy_len, temp_len)

\* Cases 15 and 16: a token of either dictionary.
TokenLengths == {Len(extras[k]) : k \in 1 .. Len(extras)}
                  \cup {Len(a_extras[k].data) : k \in 1 .. Len(a_extras)}

overwrite_with_extra ==
  /\ InStack
  /\ \E n \in TokenLengths :
       /\ n <= temp_len
       /\ \E pos \in Random(temp_len - n + 1) : tweak(temp_len, capacity, pos + n, temp_len)

insert_extra ==
  /\ InStack
  /\ \E n \in TokenLengths, pos \in Random(temp_len + 1) :
       /\ temp_len + n < MAX_FILE
       /\ tweak(temp_len + n, temp_len + n, pos + n + (temp_len - pos), temp_len + n)

run_havoc_no_realloc ==
  /\ stage = "havoc" /\ stage_cur < stage_max
  /\ stage_cur' = stage_cur + 1 /\ tweaks' = 0
  /\ capacity' = capacity
  /\ temp_len' = len
  /\ out_of_bounds' = (out_of_bounds \/ len > capacity')
  /\ \E found \in BOOLEAN :
       LET extend == found /\ perf_score <= HAVOC_MAX_MULT * 100
       IN  /\ found => finds < MaxFinds
           /\ finds' = IF found THEN finds + 1 ELSE finds
           /\ stage_max'  = IF extend THEN stage_max * 2 ELSE stage_max
           /\ perf_score' = IF extend THEN perf_score * 2 ELSE perf_score
  /\ UNCHANGED <<detRest, stage, len, heap, orig_perf, doing_det, splice_cycle,
                 spliced>>

\* The execution, after which out_buf is restored.  If the queue has grown, the
\* stage is made longer.
run_havoc ==
  /\ stage = "havoc" /\ stage_cur < stage_max
  /\ stage_cur' = stage_cur + 1 /\ tweaks' = 0
  /\ capacity' = IF temp_len < len THEN len ELSE capacity
  /\ temp_len' = len
  /\ out_of_bounds' = (out_of_bounds \/ len > capacity')
  /\ \E found \in BOOLEAN :
       LET extend == found /\ perf_score <= HAVOC_MAX_MULT * 100
       IN  /\ found => finds < MaxFinds
           /\ finds' = IF found THEN finds + 1 ELSE finds
           /\ stage_max'  = IF extend THEN stage_max * 2 ELSE stage_max
           /\ perf_score' = IF extend THEN perf_score * 2 ELSE perf_score
  /\ UNCHANGED <<detRest, stage, len, heap, orig_perf, doing_det, splice_cycle,
                 spliced>>

abandon_havoc ==
  /\ stage = "havoc" /\ stage_cur < stage_max /\ stage' = "abandon"
  /\ UNCHANGED <<detRest, len, heap, stage_cur, stage_max, havocVars>>
----------------------------------------------------------------------------
(* Splicing, and the way out. *)

end_havoc ==
  /\ stage = "havoc" /\ stage_cur >= stage_max /\ stage' = "retry_splicing"
  /\ stage_cur' = 0 /\ stage_max' = 0
  /\ UNCHANGED <<detRest, len, heap, havocVars>>

\* The length of the entry itself.
cur_len == Len(in_buf)
may_splice ==
  entry.splicing /\ splice_cycle < SPLICE_CYCLES /\ entry.others # {} /\ cur_len > 1

\* What retry_splicing does first: the input of an earlier splice is dropped.
Unspliced == IF spliced THEN Free(heap, "in_buf") ELSE heap

\* There is no entry to splice with after the one drawn, or it does not differ
\* from this one in a second byte beyond the first two.
splice_fails ==
  /\ stage = "retry_splicing" /\ may_splice
  /\ splice_cycle' = splice_cycle + 1
  /\ heap' = Unspliced /\ spliced' = FALSE
  /\ len' = IF spliced THEN cur_len ELSE len
  /\ UNCHANGED <<detRest, stage, stage_cur, stage_max, perf_score, orig_perf, doing_det,
                 temp_len, capacity, tweaks, finds, out_of_bounds>>

splice_with_target_uncounted ==
  /\ stage = "retry_splicing" /\ may_splice
  /\ splice_cycle' = splice_cycle
  /\ \E t \in entry.others : \E l_diff \in 2 .. Lesser(cur_len, t) - 1 :
     \E f_diff \in 0 .. l_diff - 1 : \E split_at \in f_diff .. l_diff - 1 :
       /\ t >= 2
       /\ len' = t /\ capacity' = t
       /\ out_of_bounds' = (out_of_bounds \/ split_at > Lesser(cur_len, t))
  /\ heap' = Alloc(Unspliced, "in_buf") /\ spliced' = TRUE
  /\ stage' = "havoc_stage"
  /\ UNCHANGED <<detRest, stage_cur, stage_max, perf_score, orig_perf, doing_det,
                 temp_len, tweaks, finds>>

splice_with_target ==
  /\ stage = "retry_splicing" /\ may_splice
  /\ splice_cycle' = splice_cycle + 1
  /\ \E t \in entry.others : \E l_diff \in 2 .. Lesser(cur_len, t) - 1 :
     \E f_diff \in 0 .. l_diff - 1 : \E split_at \in f_diff .. l_diff - 1 :
       /\ t >= 2
       /\ len' = t /\ capacity' = t
       /\ out_of_bounds' = (out_of_bounds \/ split_at > Lesser(cur_len, t))
  /\ heap' = Alloc(Unspliced, "in_buf") /\ spliced' = TRUE
  /\ stage' = "havoc_stage"
  /\ UNCHANGED <<detRest, stage_cur, stage_max, perf_score, orig_perf, doing_det,
                 temp_len, tweaks, finds>>

finish ==
  /\ stage = "retry_splicing" /\ ~may_splice /\ stage' = "abandon"
  /\ UNCHANGED <<detRest, len, heap, stage_cur, stage_max, havocVars>>

\* abandon_entry; eff_map is a null pointer unless flip8 was reached.  What
\* becomes of was_fuzzed and the counters is in FavoredSet.
abandon_entry ==
  /\ stage = "abandon" /\ stage' = "returned"
  /\ LET h == Free(Free(heap, "orig_in"), "out_buf")
         g == IF spliced THEN Free(h, "in_buf") ELSE h
     IN  heap' = IF eff_map # {} THEN Free(g, "eff_map") ELSE g
  /\ UNCHANGED <<detRest, len, stage_cur, stage_max, havocVars>>

Next ==
  \/ map_input \/ trim_and_score \/ stop_trimming
  \/ det_turn \/ abandon_det \/ mark_as_det_done
  \/ havoc_stage
  \/ change_value \/ delete_bytes \/ clone_bytes \/ overwrite_bytes
  \/ overwrite_with_extra \/ insert_extra
  \/ run_havoc \/ abandon_havoc \/ end_havoc
  \/ splice_fails \/ splice_with_target \/ finish \/ abandon_entry

\* fuzz_one() runs on: nothing else is needed for it to get ahead.
Spec == Init /\ [][Next]_vars /\ WF_vars(Next)

----------------------------------------------------------------------------
(* Properties. *)

\* Each buffer of fuzz_one() is allocated and freed in turn, whichever stage it
\* is left from and however often the input is spliced, and all are free when it
\* returns; no tweak, copy or splice touches a byte outside its buffer; and the
\* input that is run has between 1 and MAX_FILE bytes, within its buffer.
BuffersSound ==
  /\ \A b \in Buffers : heap[b] \in {0, 1} /\ (stage = "returned" => heap[b] = 0)
  /\ ~out_of_bounds
  /\ stage = "havoc" => temp_len \in 1 .. MAX_FILE /\ temp_len <= capacity

\* fuzz_one() returns, although finds make the havoc stage longer and splicing
\* starts it anew.
FuzzOneReturns == <>(stage = "returned")

=============================================================================
