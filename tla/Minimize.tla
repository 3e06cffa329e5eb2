------------------------------ MODULE Minimize ------------------------------
(***************************************************************************)
(* The programs of DAFL that find out what matters in an input by running  *)
(* variants of it.  trim_case() of afl-fuzz.c and minimize() of afl-tmin.c *)
(* make it smaller: the former keeps the trace of a queue entry, the       *)
(* latter a crash or a trace; both change the input in place while they go *)
(* over it, in blocks whose length depends on how much of it is left.      *)
(* analyze() of afl-analyze.c changes one byte after the other and reports *)
(* what each does.                                                         *)
(*                                                                         *)
(* The target is deterministic: Outcome says how it ends on an input, and  *)
(* how often it takes each branch.  A step is one execution of the target. *)
(***************************************************************************)
EXTENDS Integers, Sequences, SequencesExt, FiniteSetsExt, HitCounts

CONSTANTS
  Jobs,               \* what to minimise, see JobOK
  Branches,
  Outcome(_, _),      \* target and input -> [timed_out, crashed, hits]
  Symbols,            \* the alphabet of the input; 0 stands for '0'
  TRIM_START_STEPS,   \* 16
  TRIM_END_STEPS,     \* 1024
  TRIM_MIN_BYTES,     \* 4
  TMIN_SET_STEPS,     \* 128
  TMIN_SET_MIN_SIZE,  \* 4
  MAX_AUTO_EXTRA      \* 32

JobOK(j) ==
  /\ j.tool \in {"tmin", "trim", "analyze"} /\ j.data \in Seq(Symbols) /\ j.data # <<>>
  /\ {j.exact_mode, j.edges_only} \subseteq BOOLEAN
  /\ j.mask \subseteq Branches

ASSUME MinimizeAssumption ==
  /\ \A j \in Jobs : JobOK(j)
  /\ 0 \in Symbols /\ Symbols \subseteq 0 .. 255
  /\ {TRIM_START_STEPS, TRIM_END_STEPS, TRIM_MIN_BYTES, TMIN_SET_STEPS, TMIN_SET_MIN_SIZE,
      MAX_AUTO_EXTRA} \subseteq Nat \ {0}

VARIABLES
  job,
  pc,
  in_data,       \* the input; its length is in_len, or q->len
  tmp_buf,       \* in stage #3, the input with the character being tried
  crash_mode,
  orig_cksum,
  block,         \* set_len, del_len or remove_len
  pos,           \* set_pos, del_pos, remove_pos or i
  len_p2,
  prev_del,
  changed_any,
  cur_pass,
  needs_write,
  alpha_map,     \* symbols yet to be tried in stage #2
  out_file,      \* the result on disk
  (* afl-analyze *)
  b_data,        \* the response to each byte so far, with its top bit
  seq_byte,      \* that bit for the current byte
  prev_cksums,   \* what changing the last byte led to
  report         \* what dump_hex() has printed

analyzeVars == <<b_data, seq_byte, prev_cksums, report>>
vars == <<job, pc, in_data, tmp_buf, crash_mode, orig_cksum, block, pos, len_p2, prev_del,
          changed_any, cur_pass, needs_write, alpha_map, out_file, analyzeVars>>

----------------------------------------------------------------------------
(* Executions. *)

\* What is left of a trace after classify_counts() and apply_mask().
TraceOf(j, s) ==
  [b \in Branches \ j.mask |->
     IF j.edges_only THEN (IF Outcome(j.target, s).hits[b] = 0 THEN {} ELSE {0})
     ELSE count_class(Outcome(j.target, s).hits[b])]
\* How run_target() sees the target end.
KindOf(j, s) ==
  IF Outcome(j.target, s).timed_out THEN "hang"
  ELSE IF Outcome(j.target, s).crashed THEN "crash" ELSE "ok"
Signature(s) == TraceOf(job, s)
Kind(s)      == KindOf(job, s)

\* What run_target() of afl-tmin returns, but for the first run.
Accepted(s) ==
  /\ Kind(s) # "hang"
  /\ crash_mode <=> Kind(s) = "crash"
  /\ (crash_mode /\ ~job.exact_mode) \/ Signature(s) = orig_cksum

\* Find first power of two greater or equal to v.
next_p2(v) == CHOOSE p \in {2 ^ k : k \in 0 .. v} : p >= v /\ (p = 1 \/ p \div 2 < v)

in_len == Len(in_data)
Larger(a, b) == IF a < b THEN b ELSE a
Lesser(a, b) == IF a < b THEN a ELSE b

\* The input without the n bytes from offset p on, or with '0' in their place.
Without(s, p, n) == SubSeq(s, 1, p) \o SubSeq(s, p + n + 1, Len(s))
Zeroed(s, p, n)  == [k \in 1 .. Len(s) |-> IF k \in p + 1 .. p + n THEN 0 ELSE s[k]]

Init ==
  /\ job \in Jobs /\ in_data = job.data
  /\ out_file = IF job.tool = "tmin" THEN <<>> ELSE job.data
  /\ pc = IF job.tool = "trim" THEN "trim" ELSE "dry_run"
  /\ b_data = <<>> /\ seq_byte = 0 /\ prev_cksums = [k \in 1 .. 4 |-> <<0>>]
  /\ report = <<>>
  /\ tmp_buf = <<>> /\ crash_mode = FALSE /\ orig_cksum = <<>>
  /\ block = 0 /\ pos = 0 /\ len_p2 = 0 /\ prev_del = TRUE /\ changed_any = FALSE
  /\ cur_pass = 0 /\ needs_write = FALSE /\ alpha_map = {}

\* What only one of the tools uses.
trimVars == <<len_p2, needs_write>>
tminVars == <<tmp_buf, crash_mode, prev_del, changed_any, cur_pass, alpha_map>>
----------------------------------------------------------------------------
(* afl-tmin. *)

\* The first run sets the mode and the checksum to keep.
dry_run ==
  /\ pc = "dry_run" /\ job.tool = "tmin"
  /\ crash_mode' = (Kind(in_data) = "crash")
  /\ orig_cksum' = Signature(in_data)
  /\ pc' = IF \/ Kind(in_data) = "hang"
              \/ ~crash_mode' /\ \A b \in DOMAIN orig_cksum' : orig_cksum'[b] = {}
           THEN "fatal" ELSE "normalize"
  /\ block' = Larger(next_p2(in_len \div TMIN_SET_STEPS), TMIN_SET_MIN_SIZE) /\ pos' = 0
  /\ UNCHANGED <<job, analyzeVars, in_data, tmp_buf, prev_del, changed_any, cur_pass,
                 alpha_map, trimVars, out_file>>

\* Stage #0: blocks of the input are set to '0'.
normalize_block ==
  /\ pc = "normalize" /\ pos < in_len
  /\ LET use_len == Lesser(block, in_len - pos)
         zeroed  == Zeroed(in_data, pos, use_len)
     IN  in_data' = IF zeroed # in_data /\ Accepted(zeroed) THEN zeroed ELSE in_data
  /\ pos' = pos + block
  /\ UNCHANGED <<job, analyzeVars, pc, tminVars, orig_cksum, block, trimVars, out_file>>

\* next_pass, from stage #0 or after a pass that changed something.
next_pass ==
  /\ \/ pc = "normalize" /\ pos >= in_len
     \/ pc = "characters" /\ pos >= in_len /\ changed_any
  /\ pc' = "delete" /\ cur_pass' = Lesser(cur_pass + 1, 2) /\ changed_any' = FALSE
  /\ block' = next_p2(in_len \div TRIM_START_STEPS) /\ pos' = 0 /\ prev_del' = TRUE
  /\ UNCHANGED <<job, analyzeVars, in_data, tmp_buf, crash_mode, alpha_map, orig_cksum,
                 trimVars, out_file>>

\* Stage #1: a block is left out.  A block like the one before, which could not
\* be left out, is not tried.
delete_block ==
  /\ pc = "delete" /\ pos < in_len
  /\ LET tail_len == Larger(in_len - pos - block, 0)
         no_op    == /\ ~prev_del /\ tail_len > 0
                     /\ SubSeq(in_data, pos - block + 1, pos)
                          = SubSeq(in_data, pos + 1, pos + block)
         shorter  == Without(in_data, pos, block)
         res      == ~no_op /\ Accepted(shorter)
     IN  /\ in_data' = IF res THEN shorter ELSE in_data
         /\ pos' = IF res THEN pos ELSE pos + block
         /\ prev_del' = res
         /\ changed_any' = (changed_any \/ res)
  /\ UNCHANGED <<job, analyzeVars, pc, tmp_buf, crash_mode, cur_pass, alpha_map,
                 orig_cksum, block, trimVars, out_file>>

\* Mutant: two passes have to do.
next_del_blksize_two_passes ==
  /\ pc = "delete" /\ pos >= in_len
  /\ IF block > 1 /\ in_len >= 1
       THEN pc' = pc /\ block' = block \div 2 /\ pos' = 0 /\ prev_del' = TRUE
       ELSE /\ pc' = IF cur_pass > 1 THEN "finalize" ELSE "alphabet"
            /\ UNCHANGED <<block, pos, prev_del>>
  /\ alpha_map' = IF pc' = "alphabet" THEN ToSet(in_data) \ {0} ELSE alpha_map
  /\ UNCHANGED <<job, analyzeVars, in_data, tmp_buf, crash_mode, changed_any, cur_pass,
                 orig_cksum, trimVars, out_file>>

\* Mutant: blocks of one byte are not the last ones.
next_del_blksize_again ==
  /\ pc = "delete" /\ pos >= in_len
  /\ IF block >= 1 /\ in_len >= 1
       THEN pc' = pc /\ block' = Larger(block \div 2, 1) /\ pos' = 0 /\ prev_del' = TRUE
       ELSE /\ pc' = IF cur_pass > 1 /\ ~changed_any THEN "finalize" ELSE "alphabet"
            /\ UNCHANGED <<block, pos, prev_del>>
  /\ alpha_map' = IF pc' = "alphabet" THEN ToSet(in_data) \ {0} ELSE alpha_map
  /\ UNCHANGED <<job, analyzeVars, in_data, tmp_buf, crash_mode, changed_any, cur_pass,
                 orig_cksum, trimVars, out_file>>

\* Smaller blocks; after a pass without a change, afl-tmin is done.
next_del_blksize ==
  /\ pc = "delete" /\ pos >= in_len
  /\ IF block > 1 /\ in_len >= 1
       THEN pc' = pc /\ block' = block \div 2 /\ pos' = 0 /\ prev_del' = TRUE
       ELSE /\ pc' = IF cur_pass > 1 /\ ~changed_any THEN "finalize" ELSE "alphabet"
            /\ UNCHANGED <<block, pos, prev_del>>
  /\ alpha_map' = IF pc' = "alphabet" THEN ToSet(in_data) \ {0} ELSE alpha_map
  /\ UNCHANGED <<job, analyzeVars, in_data, tmp_buf, crash_mode, changed_any, cur_pass,
                 orig_cksum, trimVars, out_file>>

\* Stage #2: all occurrences of a symbol are set to '0'.
minimize_symbol ==
  /\ pc = "alphabet" /\ alpha_map # {}
  /\ LET sym    == Min(alpha_map)
         zeroed == [k \in DOMAIN in_data |-> IF in_data[k] = sym THEN 0 ELSE in_data[k]]
     IN  /\ alpha_map' = alpha_map \ {sym}
         /\ in_data' = IF Accepted(zeroed) THEN zeroed ELSE in_data
         /\ changed_any' = (changed_any \/ Accepted(zeroed))
  /\ UNCHANGED <<job, analyzeVars, pc, tmp_buf, crash_mode, prev_del, cur_pass,
                 orig_cksum, block, pos, trimVars, out_file>>

start_characters ==
  /\ pc = "alphabet" /\ alpha_map = {} /\ pc' = "characters"
  /\ tmp_buf' = in_data /\ pos' = 0
  /\ UNCHANGED <<job, analyzeVars, in_data, crash_mode, prev_del, changed_any, cur_pass,
                 alpha_map, orig_cksum, block, trimVars, out_file>>

\* Mutant: a character that has to stay is not put back.
minimize_character_not_restored ==
  /\ pc = "characters" /\ pos < in_len
  /\ LET tried == Zeroed(tmp_buf, pos, 1)
         res   == tmp_buf[pos + 1] # 0 /\ Accepted(tried)
     IN  /\ tmp_buf' = tried
         /\ in_data' = IF res THEN Zeroed(in_data, pos, 1) ELSE in_data
         /\ changed_any' = (changed_any \/ res)
  /\ pos' = pos + 1
  /\ UNCHANGED <<job, analyzeVars, pc, crash_mode, prev_del, cur_pass, alpha_map,
                 orig_cksum, block, trimVars, out_file>>

\* Stage #3: single characters are set to '0'.
minimize_character ==
  /\ pc = "characters" /\ pos < in_len
  /\ LET tried == Zeroed(tmp_buf, pos, 1)
         res   == tmp_buf[pos + 1] # 0 /\ Accepted(tried)
     IN  /\ tmp_buf' = IF res THEN tried ELSE tmp_buf
         /\ in_data' = IF res THEN Zeroed(in_data, pos, 1) ELSE in_data
         /\ changed_any' = (changed_any \/ res)
  /\ pos' = pos + 1
  /\ UNCHANGED <<job, analyzeVars, pc, crash_mode, prev_del, cur_pass, alpha_map,
                 orig_cksum, block, trimVars, out_file>>

\* finalize_all, and the file main() writes.
finalize_all ==
  /\ pc = "finalize" \/ (pc = "characters" /\ pos >= in_len /\ ~changed_any)
  /\ pc' = "done" /\ out_file' = in_data
  /\ UNCHANGED <<job, analyzeVars, in_data, tminVars, orig_cksum, block, pos, trimVars>>

\* Ctrl-C during an execution: run_target() writes what there is so far.
stop_soon ==
  /\ job.tool = "tmin"
  /\ pc \in {"dry_run", "normalize", "delete", "alphabet", "characters"}
  /\ pc' = "aborted" /\ out_file' = in_data
  /\ UNCHANGED <<job, analyzeVars, in_data, tminVars, orig_cksum, block, pos, trimVars>>

----------------------------------------------------------------------------
(* trim_case(). *)

SmallestStep(p2) == Larger(p2 \div TRIM_END_STEPS, TRIM_MIN_BYTES)

trim_case ==
  /\ pc = "trim"
  /\ orig_cksum' = Signature(in_data)   \* q->exec_cksum, from the calibration
  /\ len_p2' = next_p2(in_len)
  /\ block' = Larger(len_p2' \div TRIM_START_STEPS, TRIM_MIN_BYTES) /\ pos' = block'
  /\ pc' = IF in_len < 5 THEN "done"
           ELSE IF block' < SmallestStep(len_p2') THEN "write" ELSE "trimming"
  /\ UNCHANGED <<job, analyzeVars, in_data, tminVars, needs_write, out_file>>

\* Only the trace counts, not how the target ends.  The first block stays.
trim_block ==
  /\ pc = "trimming" /\ pos < in_len
  /\ LET shorter == Without(in_data, pos, Lesser(block, in_len - pos))
     IN  IF Signature(shorter) = orig_cksum
         THEN /\ in_data' = shorter /\ len_p2' = next_p2(Len(shorter))
              /\ needs_write' = TRUE /\ UNCHANGED pos
         ELSE pos' = pos + block /\ UNCHANGED <<in_data, len_p2, needs_write>>
  /\ UNCHANGED <<job, analyzeVars, pc, tminVars, orig_cksum, block, out_file>>

next_remove_len ==
  /\ pc = "trimming" /\ pos >= in_len
  /\ block' = block \div 2 /\ pos' = block'
  /\ pc' = IF block' < SmallestStep(len_p2) THEN "write" ELSE pc
  /\ UNCHANGED <<job, analyzeVars, in_data, tminVars, orig_cksum, trimVars, out_file>>

write_trimmed ==
  /\ pc = "write" /\ pc' = "done"
  /\ out_file' = IF needs_write THEN in_data ELSE out_file
  /\ UNCHANGED <<job, analyzeVars, in_data, tminVars, orig_cksum, block, pos, trimVars>>

\* Ctrl-C, or a target that cannot be run: the file stays as it was.
abort_trimming ==
  /\ pc = "trimming" /\ pos < in_len /\ pc' = "aborted"
  /\ UNCHANGED <<job, analyzeVars, in_data, tminVars, orig_cksum, block, pos, trimVars,
                 out_file>>

----------------------------------------------------------------------------
(* afl-analyze. *)

\* What its run_target() returns: 0, the checksum, or the complement of it.
Checksum(s) ==
  IF Kind(s) = "hang" THEN <<0>> ELSE <<Kind(s) = "crash", Signature(s)>>

start_analysis ==
  /\ pc = "dry_run" /\ job.tool = "analyze"
  /\ orig_cksum' = Checksum(in_data)
  /\ pc' = IF \/ Kind(in_data) = "hang"
              \/ \A b \in DOMAIN Signature(in_data) : Signature(in_data)[b] = {}
           THEN "fatal" ELSE "analyze"
  /\ UNCHANGED <<job, analyzeVars, in_data, tminVars, trimVars, block, pos, out_file>>

RESP_NONE     == 0
RESP_MINOR    == 1
RESP_VARIABLE == 2
RESP_FIXED    == 3
RESP_LEN      == 4
RESP_CKSUM    == 5
RESP_SUSPECT  == 6

\* The class of a byte, by what its four changes led to.
Response(sums) ==
  LET orig == {k \in 1 .. 4 : sums[k] = orig_cksum}
  IN  CASE orig = 1 .. 4                   -> RESP_NONE
        [] orig # 1 .. 4 /\ orig # {}      -> RESP_MINOR
        [] orig = {} /\ Cardinality(Range(sums)) = 1 -> RESP_FIXED
        [] orig = {} /\ Cardinality(Range(sums)) # 1 -> RESP_VARIABLE

\* The four changes, each made to what the last one has left; ^0x01 and ^0xff.
Xor01(b) == IF b % 2 = 0 THEN b + 1 ELSE b - 1
XorFF(b) == 255 - b
Changes(b) ==
  LET xor_ff == XorFF(b)
      xor_01 == XorFF(Xor01(xor_ff))
      sub_10 == (Xor01(xor_01) - 16) % 256
      add_10 == (sub_10 + 32) % 256
  IN  <<xor_ff, xor_01, sub_10, add_10>>

\* Mutant: a section that starts marks itself by setting the bit.
analyze_byte_sets_bit ==
  /\ pc = "analyze" /\ pos < in_len
  /\ LET changes == Changes(in_data[pos + 1])
         sums    == [k \in 1 .. 4 |-> Checksum([in_data EXCEPT ![pos + 1] = changes[k]])]
     IN  /\ seq_byte' = IF \A k \in 1 .. 4 : prev_cksums[k] # sums[k] THEN 1 ELSE seq_byte
         /\ b_data' = Append(b_data, [resp |-> Response(sums), seq |-> seq_byte'])
         /\ prev_cksums' = sums
         /\ in_data' = [in_data EXCEPT ![pos + 1] = (changes[4] - 16) % 256]
  /\ pos' = pos + 1
  /\ UNCHANGED <<job, pc, tminVars, trimVars, orig_cksum, block, out_file, report>>

\* One byte is changed four times, and changed back.  If none of the checksums is
\* the one of the last byte, a new section starts: the top bit is flipped.
analyze_byte ==
  /\ pc = "analyze" /\ pos < in_len
  /\ LET changes == Changes(in_data[pos + 1])
         sums    == [k \in 1 .. 4 |-> Checksum([in_data EXCEPT ![pos + 1] = changes[k]])]
     IN  /\ seq_byte' = IF \A k \in 1 .. 4 : prev_cksums[k] # sums[k]
                        THEN 1 - seq_byte ELSE seq_byte
         /\ b_data' = Append(b_data, [resp |-> Response(sums), seq |-> seq_byte'])
         /\ prev_cksums' = sums
         /\ in_data' = [in_data EXCEPT ![pos + 1] = (changes[4] - 16) % 256]
  /\ pos' = pos + 1
  /\ UNCHANGED <<job, pc, tminVars, trimVars, orig_cksum, block, out_file, report>>

end_analysis ==
  /\ pc = "analyze" /\ pos >= in_len
  /\ pc' = "dump" /\ pos' = 0
  /\ UNCHANGED <<job, analyzeVars, in_data, tminVars, trimVars, orig_cksum, block,
                 out_file>>

\* Two or four bytes, lowest first, are at most in_len, which is less than 2^24.
AtMostLen(s) ==
  /\ Len(s) = 4 => s[4] = 0
  /\ s[1] + s[2] * 256 + (IF Len(s) = 4 THEN s[3] * 65536 ELSE 0) <= in_len

\* What a section of fixed response may be, by its length and value.
FixedKind(s) ==
  LET nonzero == Range(s) # {0}
      uneven  == IF Len(s) = 2 THEN s[1] - s[2] > 32 \/ s[2] - s[1] > 32
                 ELSE \E k \in 2 .. 4 : s[1] \div 128 # s[k] \div 128
  IN  CASE Len(s) \in {2, 4} ->
             IF nonzero /\ (AtMostLen(s) \/ AtMostLen(Reverse(s))) THEN RESP_LEN
             ELSE IF nonzero /\ uneven THEN RESP_CKSUM ELSE RESP_FIXED
        [] Len(s) \notin {2, 4} /\ Len(s) >= MAX_AUTO_EXTRA -> RESP_SUSPECT
        [] Len(s) \notin {2, 4} /\ Len(s) < MAX_AUTO_EXTRA -> RESP_FIXED

\* dump_hex() prints the section that starts at pos.
dump_hex ==
  /\ pc = "dump" /\ pos < in_len
  /\ LET others == {k \in pos + 1 .. in_len : b_data[k].seq # b_data[pos + 1].seq}
         last   == IF others = {} THEN in_len ELSE Min(others) - 1
         rtype  == Max({b_data[k].resp : k \in pos + 1 .. last})
     IN  /\ report' = Append(report,
                 [first |-> pos + 1, last |-> last,
                  type  |-> IF rtype # RESP_FIXED THEN rtype
                            ELSE FixedKind(SubSeq(in_data, pos + 1, last))])
         /\ pos' = last
  /\ UNCHANGED <<job, pc, in_data, b_data, seq_byte, prev_cksums, tminVars, trimVars,
                 orig_cksum, block, out_file>>

end_dump ==
  /\ pc = "dump" /\ pos >= in_len /\ pc' = "done"
  /\ UNCHANGED <<job, analyzeVars, in_data, tminVars, trimVars, orig_cksum, block, pos,
                 out_file>>

\* Ctrl-C during an execution.
stop_analysis ==
  /\ pc = "analyze" /\ pos < in_len /\ pc' = "aborted"
  /\ UNCHANGED <<job, analyzeVars, in_data, tminVars, trimVars, orig_cksum, block, pos,
                 out_file>>

Next ==
  \/ dry_run \/ normalize_block \/ next_pass \/ delete_block \/ next_del_blksize
  \/ minimize_symbol \/ start_characters \/ minimize_character \/ finalize_all \/ stop_soon
  \/ trim_case \/ trim_block \/ next_remove_len \/ write_trimmed \/ abort_trimming
  \/ start_analysis \/ analyze_byte \/ end_analysis \/ dump_hex \/ end_dump \/ stop_analysis

\* They are sequential programs whose every execution of the target is ended
\* by a timeout at the latest.
Spec == Init /\ [][Next]_vars /\ WF_vars(Next)

----------------------------------------------------------------------------
(* Properties. *)

\* An input that does what the original does, as far as the mode asks for it.
LikeOriginal(s) ==
  /\ Kind(s) = Kind(job.data)
  /\ (Kind(s) = "crash" /\ ~job.exact_mode) \/ Signature(s) = Signature(job.data)

\* Whatever afl-tmin has made of the input at any time, when it may be told to stop
\* and write it, still does what the original does; and the file of a queue entry
\* always has the trace of the original, and is not empty.
OutcomeKept ==
  /\ job.tool = "tmin" /\ pc \notin {"dry_run", "fatal", "aborted"} => LikeOriginal(in_data)
  /\ job.tool = "tmin" /\ pc \in {"done", "aborted"} => LikeOriginal(out_file)
  /\ job.tool = "trim" => Signature(out_file) = Signature(job.data) /\ out_file # <<>>

\* When afl-tmin is done, no byte of the result can be left out, although blocks
\* that look like the one before are skipped.
OneMinimal ==
  job.tool = "tmin" /\ pc = "done" =>
    \A p \in 0 .. Len(out_file) - 1 : ~LikeOriginal(Without(out_file, p, 1))

\* afl-analyze reports on the input it was given, although it changes it all the
\* time: its sections are those where a change of a byte does not do what it does
\* to the byte before, whatever the change; they are without effect, have some
\* harmless changes, or one whose every change leads to the same other behaviour.
SumsAt(k) ==
  [c \in 1 .. 4 |-> Checksum([job.data EXCEPT ![k] =
     <<255 - @, IF @ % 2 = 0 THEN @ + 1 ELSE @ - 1, (@ + 240) % 256, (@ + 16) % 256>>[c]])]
Starts ==
  {k \in DOMAIN job.data : k > 1 => \A c \in 1 .. 4 : SumsAt(k - 1)[c] # SumsAt(k)[c]}
NoEffect(k)  == Range(SumsAt(k)) = {Checksum(job.data)}
OneEffect(k) == Cardinality(Range(SumsAt(k))) = 1 /\ ~NoEffect(k)
Harmless(k)  == Checksum(job.data) \in Range(SumsAt(k))
AnalysisExact ==
  job.tool = "analyze" /\ pc = "done" =>
    /\ in_data = job.data
    /\ {report[j].first : j \in DOMAIN report} = Starts
    /\ \A j \in DOMAIN report :
         LET section == report[j].first .. report[j].last
         IN  /\ report[j].last = IF j < Len(report) THEN report[j + 1].first - 1
                                 ELSE Len(job.data)
             /\ report[j].type = RESP_NONE <=> \A k \in section : NoEffect(k)
             /\ report[j].type <= RESP_MINOR <=> \A k \in section : Harmless(k)
             /\ report[j].type >= RESP_FIXED <=> \E k \in section : OneEffect(k)

\* Each pass of afl-tmin makes the input smaller or simpler, so there is a last one;
\* and the steps of the trimmer get smaller until there are none left.
MinimizeEnds == <>(pc \in {"done", "aborted", "fatal"})

=============================================================================
