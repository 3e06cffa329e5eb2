---------------------------- MODULE CoverageMap -----------------------------
(***************************************************************************)
(* What afl-fuzz makes of the maps an execution leaves behind: the hit     *)
(* counts are put into classes, compared with what earlier executions have *)
(* left in three virgin maps, and the input is queued, or saved as a crash *)
(* or a hang, or dropped.  From has_new_bits(), classify_counts(),         *)
(* simplify_trace(), calibrate_case(), save_if_interesting() and           *)
(* common_fuzz_stuff() of DAFL/afl-fuzz.c.                                 *)
(*                                                                         *)
(* A byte of a classified trace or of a virgin map is the set of its bits. *)
(* An input is the set of the outcomes [path, fault] it may have: a flaky  *)
(* target has several.                                                     *)
(***************************************************************************)
EXTENDS Tracing, HitCounts, FiniteSetsExt

CONSTANTS
  Configs,            \* how target and fuzzer are set up, see ConfigOK
  DfgFiles,           \* DAFL_DFG_SCORE: sequences of [line, score]
  Inputs,             \* what the target does: sets of outcomes
  WordBytes,          \* bytes per machine word, 4 or 8
  CAL_CYCLES,         \* 8, or 3 with AFL_FAST_CAL
  CAL_CYCLES_LONG,    \* 40
  KEEP_UNIQUE_HANG,   \* 500
  KEEP_UNIQUE_CRASH,  \* 5000
  TMOUT_LIMIT,        \* 250
  MaxExecs,           \* bound: executions of the fuzzing stages
  MaxRestarts         \* bound: sessions started with -B

Fault == {"NONE", "TMOUT", "CRASH"}
ConfigOK(c) ==
  /\ c.flavour \in {"llvm", "as32", "as64", "qemu"} /\ c.crash_mode \in {"NONE", "CRASH"}
  /\ {c.selective, c.no_filename_match, c.dumb_mode, c.generous} \subseteq BOOLEAN
  /\ c.ratio \in 0 .. 100

ASSUME CoverageAssumption ==
  /\ \A c \in Configs : ConfigOK(c)
  /\ WordBytes \in Nat \ {0} /\ MAP_SIZE % WordBytes = 0
  /\ \A f \in DfgFiles : f \in Seq([line : STRING \X (Nat \ {0}), score : Nat])
  /\ \A x \in Inputs : \A o \in x :
       /\ o.fault \in Fault
       /\ o.path \in Seq([blk : Blk, times : Nat \ {0}])

VARIABLES
  conf, dfg_file,
  phase,
  dfg_node_map, idx, \* of the LLVM pass
  code,              \* the compiled blocks
  trace_bits, dfg_bits, fault,
  virgin_bits, virgin_tmout, virgin_crash, bitmap_changed, fuzz_bitmap,
  var_bytes, subseq_tmouts,
  entries,           \* the queue, in the order of discovery
  cal,               \* the local variables of calibrate_case()
  unique_tmouts, unique_hangs, unique_crashes,
  input, run,        \* the input being judged, and its last execution
  execs, restarts,   \* counters for the bounds
  seen, file_seen,   \* history: bits examined so far, and in fuzz_bitmap
  crash_log, tmout_log  \* history: what simplified traces were examined

buildVars == <<conf, dfg_file, dfg_node_map, idx, code>>
mapVars   == <<virgin_bits, virgin_tmout, virgin_crash, bitmap_changed>>
fileVars  == <<fuzz_bitmap, file_seen>>
faultVars == <<unique_tmouts, unique_hangs, unique_crashes, crash_log, tmout_log>>
countVars == <<execs, restarts>>
vars == <<buildVars, phase, trace_bits, dfg_bits, fault, mapVars, fileVars, var_bytes,
          subseq_tmouts, entries, cal, faultVars, input, run, countVars, seen>>

----------------------------------------------------------------------------
(* The maps. *)

Pristine == [l \in Loc |-> Bits]
Words   == MAP_SIZE \div WordBytes
BytesOf(w) == w * WordBytes .. (w + 1) * WordBytes - 1

classify_counts(area) == [l \in Loc |-> count_class(area[l])]

\* Mutant: bytes that are not hit stay as they are.
simplify_trace_sparse(trace) == [l \in Loc |-> IF trace[l] = {} THEN {} ELSE {7}]
simplify_trace(trace) == [l \in Loc |-> IF trace[l] = {} THEN {0} ELSE {7}]

\* has_new_bits(): word by word.
Clear(vir, cur, bytes) == [l \in Loc |-> IF l \in bytes THEN vir[l] \ cur[l] ELSE vir[l]]
NewTuple(cur, vir, bytes) == \E l \in bytes : cur[l] # {} /\ vir[l] = Bits
\* Mutants: nothing is cleared after a new tuple; the last word decides.
CompareWord_early(cur, acc, w) ==
  IF acc.ret = 2 \/ \A l \in BytesOf(w) : cur[l] \cap acc.virgin[l] = {} THEN acc
  ELSE [ret    |-> IF NewTuple(cur, acc.virgin, BytesOf(w)) THEN 2 ELSE 1,
        virgin |-> Clear(acc.virgin, cur, BytesOf(w))]
CompareWord_last(cur, acc, w) ==
  IF \A l \in BytesOf(w) : cur[l] \cap acc.virgin[l] = {} THEN acc
  ELSE [ret    |-> IF NewTuple(cur, acc.virgin, BytesOf(w)) THEN 2 ELSE 1,
        virgin |-> Clear(acc.virgin, cur, BytesOf(w))]
\* Unchanged words are skipped; a pristine byte that is hit is a new tuple.
CompareWord(cur, acc, w) ==
  IF \A l \in BytesOf(w) : cur[l] \cap acc.virgin[l] = {} THEN acc
  ELSE [ret    |-> IF acc.ret = 2 \/ NewTuple(cur, acc.virgin, BytesOf(w)) THEN 2 ELSE 1,
        virgin |-> Clear(acc.virgin, cur, BytesOf(w))]
has_new_bits(cur, virgin) ==
  LET acc[k \in 0 .. Words] == IF k = 0 THEN [ret |-> 0, virgin |-> virgin]
                                        ELSE CompareWord(cur, acc[k - 1], k - 1)
  IN  acc[Words]

count_bytes(trace) == Cardinality({l \in Loc : trace[l] # {}})
compute_proximity_score(dfg) ==
  LET prox_score[k \in 0 .. DFG_MAP_SIZE] ==
        IF k = 0 THEN 0 ELSE prox_score[k - 1] + dfg[DFG_MAP_SIZE - k]
  IN  prox_score[DFG_MAP_SIZE]

\* The bits of a trace, as pairs: what the histories are made of.
Pairs(trace) == UNION {{<<l, b>> : b \in trace[l]} : l \in Loc}

----------------------------------------------------------------------------
(* Building the target. *)

NoCal == [on |-> FALSE]
NoRun == [path |-> <<>>, fault |-> "NONE"]

Init ==
  /\ conf \in Configs
  /\ dfg_file \in IF conf.flavour = "llvm" THEN DfgFiles ELSE {<<>>}
  /\ phase = "dfg" /\ dfg_node_map = <<>> /\ idx = 0 /\ code = <<>>
  /\ trace_bits = [l \in Loc |-> {}] /\ dfg_bits = ZeroDfg /\ fault = "NONE"
  /\ virgin_bits = Pristine /\ virgin_tmout = Pristine /\ virgin_crash = Pristine
  /\ bitmap_changed = TRUE /\ fuzz_bitmap = <<>> /\ var_bytes = {} /\ subseq_tmouts = 0
  /\ entries = <<>> /\ cal = NoCal
  /\ unique_tmouts = 0 /\ unique_hangs = 0 /\ unique_crashes = 0
  /\ input = {} /\ run = NoRun /\ execs = 0 /\ restarts = 0
  /\ seen = {} /\ file_seen = {} /\ crash_log = <<>> /\ tmout_log = <<>>

fuzzVars == <<trace_bits, dfg_bits, fault, mapVars, fileVars, var_bytes, subseq_tmouts,
              entries, cal, faultVars, input, run, countVars, seen>>

\* Mutant: a large file is not refused.
read_dfg_line_unchecked ==
  /\ phase = "dfg" /\ idx < Len(dfg_file)
  /\ dfg_node_map' = AddNode(dfg_node_map, idx, dfg_file[idx + 1])
  /\ idx' = idx + 1
  /\ phase' = phase
  /\ UNCHANGED <<conf, dfg_file, code, fuzzVars>>

\* initDFGNodeMap() reads a line; the compiler gives up on a file that is too
\* large.
read_dfg_line ==
  /\ phase = "dfg" /\ idx < Len(dfg_file)
  /\ dfg_node_map' = AddNode(dfg_node_map, idx, dfg_file[idx + 1])
  /\ idx' = idx + 1
  /\ phase' = IF idx' >= DFG_MAP_SIZE THEN "refused" ELSE phase
  /\ UNCHANGED <<conf, dfg_file, code, fuzzVars>>

compile_block ==
  /\ phase = "dfg" /\ idx = Len(dfg_file)
  /\ \E c \in Compiled(Len(code) + 1, conf, dfg_node_map) : code' = Append(code, c)
  /\ phase' = IF Len(code') = Len(Blocks) THEN "fuzz" ELSE phase
  /\ UNCHANGED <<conf, dfg_file, dfg_node_map, idx, fuzzVars>>

----------------------------------------------------------------------------
(* Executions. *)

\* Mutant: dfg_bits keeps the scores of earlier executions.
run_target_dfg_kept(o) ==
  LET m == IF conf.dumb_mode THEN [area |-> ZeroTrace, dfg |-> ZeroDfg]
           ELSE Execute(conf.flavour, code, o.path, ZeroTrace, dfg_bits)
  IN  /\ trace_bits' = classify_counts(m.area) /\ dfg_bits' = m.dfg /\ run' = o

\* run_target(): both maps are cleared first.  A target without instrumentation
\* (-n) is not told of them.
run_target(o) ==
  LET m == IF conf.dumb_mode THEN [area |-> ZeroTrace, dfg |-> ZeroDfg]
           ELSE Execute(conf.flavour, code, o.path, ZeroTrace, ZeroDfg)
  IN  /\ trace_bits' = classify_counts(m.area) /\ dfg_bits' = m.dfg /\ run' = o

\* common_fuzz_stuff() runs an input.  After too many timeouts in a row it is
\* not judged, and the caller moves on.
common_fuzz_stuff ==
  /\ phase = "fuzz" /\ execs < MaxExecs /\ execs' = execs + 1
  /\ \E x \in Inputs : \E o \in x :
       /\ input' = x /\ fault' = o.fault /\ run_target(o)
       /\ subseq_tmouts' = IF o.fault = "TMOUT" THEN subseq_tmouts + 1 ELSE 0
       /\ phase' = IF o.fault = "TMOUT" /\ subseq_tmouts > TMOUT_LIMIT
                   THEN "fuzz" ELSE "judge"
  /\ UNCHANGED <<buildVars, mapVars, fileVars, var_bytes, entries, cal, faultVars,
                 restarts, seen>>

\* Ctrl-C or SIGUSR1 arrives meanwhile: the execution is not judged either.
skip_requested ==
  /\ phase = "judge" /\ phase' = "fuzz"
  /\ UNCHANGED <<buildVars, fuzzVars>>

\* Comparing the trace with virgin_bits; what came of it is r.
Examine(trace, r) ==
  /\ virgin_bits' = r.virgin
  /\ bitmap_changed' = (bitmap_changed \/ r.ret > 0)
  /\ seen' = seen \cup Pairs(trace)
  /\ UNCHANGED <<virgin_tmout, virgin_crash>>

\* A location no examined execution has hit yet.
IsNew(trace) == \E l \in Loc : trace[l] # {} /\ ~ \E p \in seen : p[1] = l

\* save_if_interesting(), the fault being the one looked for: the input is
\* queued if its trace brings something new, and calibrated at once.  The name
\* of the file carries the proximity score.
queue_if_new ==
  /\ phase = "judge" /\ fault = conf.crash_mode
  /\ LET r == has_new_bits(trace_bits, virgin_bits)
     IN  /\ Examine(trace_bits, r)
         /\ IF r.ret = 0
              THEN phase' = "fuzz" /\ UNCHANGED <<entries, cal>>
              ELSE /\ phase' = "calibrate"
                   /\ entries' = Append(entries,
                        [name_score |-> compute_proximity_score(dfg_bits),
                         prox_score |-> compute_proximity_score(dfg_bits),
                         has_new_cov |-> r.ret = 2, bitmap_size |-> 0,
                         var_behavior |-> FALSE,
                         found_by |-> run, kept_by |-> run,
                         new_cov |-> IsNew(trace_bits), bits |-> Pairs(trace_bits) \ seen])
                   /\ cal' = [on |-> TRUE, first_trace |-> trace_bits, stage_cur |-> 0,
                              stage_max |-> CAL_CYCLES, new_bits |-> 0,
                              var_detected |-> FALSE]
  /\ UNCHANGED <<buildVars, trace_bits, dfg_bits, fault, fileVars, var_bytes,
                 subseq_tmouts, unique_tmouts, unique_hangs, unique_crashes, crash_log,
                 tmout_log, input, run, countVars>>

\* The calibration ends, because it is complete or because the input behaved
\* differently; save_if_interesting() then looks at the original fault.
EndCalibration(c, bits, new_cov, complete) ==
  /\ LET q == entries[Len(entries)]
     IN  entries' = [entries EXCEPT ![Len(entries)] =
           [q EXCEPT !.has_new_cov = @ \/ c.new_bits = 2,
                     !.var_behavior = @ \/ c.var_detected,
                     !.bitmap_size = IF complete THEN count_bytes(trace_bits') ELSE @,
                     !.prox_score = IF complete THEN compute_proximity_score(dfg_bits')
                                    ELSE @,
                     !.kept_by = IF complete THEN run' ELSE @,
                     !.bits = @ \cup bits, !.new_cov = @ \/ new_cov]]
  /\ cal' = NoCal
  /\ phase' = IF fault = "CRASH" THEN "crash" ELSE "fuzz"

GoOn(c, bits, new_cov) ==
  /\ LET q == entries[Len(entries)]
     IN  entries' = [entries EXCEPT ![Len(entries)] =
           [q EXCEPT !.bits = @ \cup bits, !.new_cov = @ \/ new_cov]]
  /\ cal' = c /\ UNCHANGED phase

\* One execution of calibrate_case().  A trace unlike the first is examined, and
\* the bytes that differ are variable; if that is news, there are more runs.
calibrate_case ==
  /\ phase = "calibrate"
  /\ \E o \in input :
       /\ run_target(o)
       /\ IF \/ o.fault # conf.crash_mode
             \/ ~conf.dumb_mode /\ cal.stage_cur = 0 /\ count_bytes(trace_bits') = 0
          THEN /\ EndCalibration(cal, {}, FALSE, FALSE)
               /\ UNCHANGED <<mapVars, seen, var_bytes>>
          ELSE LET differs == trace_bits' # cal.first_trace
                   r    == IF differs THEN has_new_bits(trace_bits', virgin_bits)
                           ELSE [ret |-> 0, virgin |-> virgin_bits]
                   vars_found == {l \in Loc : cal.first_trace[l] # trace_bits'[l]}
                   c    == [cal EXCEPT !.stage_cur = @ + 1,
                                       !.new_bits = IF r.ret > @ THEN r.ret ELSE @,
                                       !.var_detected = @ \/ differs,
                                       !.stage_max = IF vars_found \subseteq var_bytes THEN @
                                                     ELSE CAL_CYCLES_LONG]
                   bits == IF differs THEN Pairs(trace_bits') \ seen ELSE {}
                   new  == differs /\ IsNew(trace_bits')
               IN  /\ Examine(IF differs THEN trace_bits' ELSE cal.first_trace, r)
                   /\ var_bytes' = var_bytes \cup vars_found
                   /\ IF c.stage_cur = c.stage_max THEN EndCalibration(c, bits, new, TRUE)
                      ELSE GoOn(c, bits, new)
  /\ UNCHANGED <<buildVars, fault, fileVars, subseq_tmouts, faultVars, input,
                 countVars>>

----------------------------------------------------------------------------
(* Faults. *)

\* A fault that is not looked for: no crash in -C mode.
ignore_fault ==
  /\ phase = "judge" /\ fault = "NONE" /\ conf.crash_mode # "NONE" /\ phase' = "fuzz"
  /\ UNCHANGED <<buildVars, fuzzVars>>

Hits(trace) == {l \in Loc : trace[l] # {}}

\* save_if_interesting() on a timeout.  A new one is run again with a generous
\* limit, unless the limit is generous already.
judge_tmout ==
  /\ phase = "judge" /\ fault = "TMOUT"
  /\ LET simple == simplify_trace(trace_bits)
         r      == has_new_bits(simple, virgin_tmout)
         new    == conf.dumb_mode \/ r.ret > 0
     IN  IF unique_hangs >= KEEP_UNIQUE_HANG
         THEN phase' = "fuzz" /\ UNCHANGED <<trace_bits, virgin_tmout, unique_tmouts,
                                            unique_hangs, tmout_log>>
         ELSE /\ IF conf.dumb_mode THEN UNCHANGED <<trace_bits, virgin_tmout>>
                 ELSE trace_bits' = simple /\ virgin_tmout' = r.virgin
              /\ tmout_log' = Append(tmout_log, [hits |-> Hits(trace_bits), kept |-> new])
              /\ unique_tmouts' = IF new THEN unique_tmouts + 1 ELSE unique_tmouts
              /\ unique_hangs' = IF new /\ conf.generous THEN unique_hangs + 1
                                 ELSE unique_hangs
              /\ phase' = IF new /\ ~conf.generous THEN "rerun" ELSE "fuzz"
  /\ UNCHANGED <<buildVars, dfg_bits, fault, virgin_bits, virgin_crash, bitmap_changed,
                 fileVars, var_bytes, subseq_tmouts, entries, cal, unique_crashes,
                 crash_log, input, run, countVars, seen>>

\* The second run may turn out to be a crash.
rerun_hang ==
  /\ phase = "rerun"
  /\ \E o \in input :
       /\ run_target(o)
       /\ unique_hangs' = IF o.fault = "TMOUT" THEN unique_hangs + 1 ELSE unique_hangs
       /\ phase' = IF o.fault = "CRASH" THEN "crash" ELSE "fuzz"
  /\ UNCHANGED <<buildVars, fault, mapVars, fileVars, var_bytes, subseq_tmouts, entries,
                 cal, unique_tmouts, unique_crashes, crash_log, tmout_log, input,
                 countVars, seen>>

\* keep_as_crash: a crash, one that a second run uncovered, or one that was
\* queued in -C mode (trace_bits is then that of the calibration).
keep_as_crash ==
  /\ phase = "crash" \/ (phase = "judge" /\ fault = "CRASH" /\ conf.crash_mode # "CRASH")
  /\ phase' = "fuzz"
  /\ LET simple == simplify_trace(trace_bits)
         r      == has_new_bits(simple, virgin_crash)
         new    == conf.dumb_mode \/ r.ret > 0
     IN  IF unique_crashes >= KEEP_UNIQUE_CRASH
         THEN UNCHANGED <<trace_bits, virgin_crash, unique_crashes, crash_log>>
         ELSE /\ IF conf.dumb_mode THEN UNCHANGED <<trace_bits, virgin_crash>>
                 ELSE trace_bits' = simple /\ virgin_crash' = r.virgin
              /\ crash_log' = Append(crash_log, [hits |-> Hits(trace_bits), kept |-> new])
              /\ unique_crashes' = IF new THEN unique_crashes + 1 ELSE unique_crashes
  /\ UNCHANGED <<buildVars, dfg_bits, fault, virgin_bits, virgin_tmout, bitmap_changed,
                 fileVars, var_bytes, subseq_tmouts, entries, cal, unique_tmouts,
                 unique_hangs, tmout_log, input, run, countVars, seen>>

----------------------------------------------------------------------------
(* The file fuzz_bitmap. *)

\* Called by show_stats(), which calibrate_case() calls too.
write_bitmap ==
  /\ phase \in {"fuzz", "calibrate"} /\ bitmap_changed /\ bitmap_changed' = FALSE
  /\ fuzz_bitmap' = virgin_bits /\ file_seen' = seen
  /\ UNCHANGED <<buildVars, phase, trace_bits, dfg_bits, fault, virgin_bits,
                 virgin_tmout, virgin_crash, var_bytes, subseq_tmouts, entries, cal,
                 faultVars, input, run, countVars, seen>>

\* read_bitmap(): a new session that is given the file with -B.
read_bitmap ==
  /\ phase = "fuzz" /\ fuzz_bitmap # <<>> /\ restarts < MaxRestarts
  /\ restarts' = restarts + 1
  /\ virgin_bits' = fuzz_bitmap /\ seen' = file_seen
  /\ virgin_tmout' = Pristine /\ virgin_crash' = Pristine /\ bitmap_changed' = TRUE
  /\ var_bytes' = {} /\ subseq_tmouts' = 0 /\ entries' = <<>>
  /\ unique_tmouts' = 0 /\ unique_hangs' = 0 /\ unique_crashes' = 0
  /\ crash_log' = <<>> /\ tmout_log' = <<>>
  /\ UNCHANGED <<buildVars, phase, trace_bits, dfg_bits, fault, fileVars, cal, input,
                 run, execs>>

Next ==
  \/ read_dfg_line \/ compile_block
  \/ common_fuzz_stuff \/ skip_requested \/ queue_if_new \/ calibrate_case
  \/ ignore_fault \/ judge_tmout \/ rerun_hang \/ keep_as_crash
  \/ write_bitmap \/ read_bitmap

Spec == Init /\ [][Next]_vars

----------------------------------------------------------------------------
(* Properties. *)

\* The visits of a path that are instrumented, the tuple visit k starts with and the
\* one that each further turn of it executes: "shared_mem[cur_location ^
\* prev_location]++; prev_location = cur_location >> 1", where the previous location
\* is that of the last instrumented block (of the same object file in 64-bit code
\* from afl-as).
Traced(path) == {k \in DOMAIN path : code[path[k].blk].loc # None}
SameScope(b1, b2) == conf.flavour = "as64" => Blocks[b1].file = Blocks[b2].file
Tuple(path, k) ==
  LET before == {j \in Traced(path) : j < k /\ SameScope(path[j].blk, path[k].blk)}
      prev   == IF before = {} THEN 0 ELSE code[path[Max(before)].blk].loc \div 2
  IN  XOR(prev, code[path[k].blk].loc)
LoopTuple(v) == XOR(code[v.blk].loc \div 2, code[v.blk].loc)
\* The turns of visit k, and of all visits, that execute the tuple l.
TurnsOf(path, k, l) ==
  (IF Tuple(path, k) = l THEN {1} ELSE {})
    \cup (IF LoopTuple(path[k]) = l THEN 2 .. path[k].times ELSE {})
Turns(path, l) == UNION {{k} \X TurnsOf(path, k, l) : k \in Traced(path)}

\* Whichever compiler instrumented the target, a byte of the classified trace is
\* the class of the number of times its tuple was executed, modulo 256: the three
\* code sequences that store a hit agree with the documented one.
TraceExact ==
  phase = "judge" /\ ~conf.dumb_mode =>
    \A l \in Loc : trace_bits[l] = count_class(Cardinality(Turns(run.path, l)) % 256)

\* Every location the target was compiled with lies in dfg_bits, two blocks share
\* one only if they are the same node, and no file is cut short.
NodeKey(b) ==
  LET known == {k \in DOMAIN Blocks[b].lines :
                  \E e \in ToSet(dfg_file) :
                     e.line = <<Blocks[b].file, Blocks[b].lines[k]>>}
  IN  IF known = {} THEN <<>> ELSE <<Blocks[b].file, Blocks[b].lines[Min(known)]>>
NodesInRange ==
  \A b, c \in DOMAIN code :
    /\ code[b].node # NoNode => code[b].node.idx \in 0 .. DFG_MAP_SIZE - 1
    /\ code[b].node # NoNode /\ code[c].node # NoNode =>
         (code[b].node.idx = code[c].node.idx <=> NodeKey(b) = NodeKey(c))

\* The score of a file in the queue, and that of the entry once it is calibrated,
\* is the sum of the scores of the nodes that one execution of it reached, each
\* counted once, and of no other execution.
ScoreOf(key) ==
  LET lines == {k \in DOMAIN dfg_file : dfg_file[k].line = key}
  IN  dfg_file[Max(lines)].score
Reached(path) == {NodeKey(path[k].blk) : k \in Traced(path)} \ {<<>>}
\* One unit for every point of a node that was reached: as many as the sum of them.
ProximityUnits(path) == UNION {{key} \X (1 .. ScoreOf(key)) : key \in Reached(path)}
ProximityOf(r) == IF conf.flavour # "llvm" \/ conf.dumb_mode THEN 0
                  ELSE Cardinality(ProximityUnits(r.path))
ProximityExact ==
  \A k \in DOMAIN entries : /\ entries[k].name_score = ProximityOf(entries[k].found_by)
                            /\ entries[k].prox_score = ProximityOf(entries[k].kept_by)

\* virgin_bits is what no examined execution has set, however the trace is spread
\* over machine words and whatever earlier sessions put into the file of -B; and
\* fuzz_bitmap agrees with it unless bitmap_changed says otherwise.
VirginExact ==
  /\ \A l \in Loc : virgin_bits[l] = {b \in Bits : <<l, b>> \notin seen}
  /\ ~bitmap_changed => fuzz_bitmap = virgin_bits

\* No coverage is lost and none is counted twice: each bit that was cleared in
\* virgin_bits was brought by an entry of the queue, each entry brought one when it
\* was queued, and an entry is marked has_new_cov exactly if an execution of it was
\* the first to hit some location.
NoveltyExact ==
  /\ restarts = 0 => seen = UNION {entries[k].bits : k \in DOMAIN entries}
  /\ \A k \in DOMAIN entries :
       /\ entries[k].bits # {}
       /\ ~(cal.on /\ k = Len(entries)) => (entries[k].has_new_cov <=> entries[k].new_cov)

\* "A crash is unique if its trace includes a tuple not seen in any of the previous
\* crashes, or is missing a tuple that was always present in earlier faults"; the
\* same for timeouts.
UniqueIn(log, k) ==
  \/ k = 1
  \/ log[k].hits \ UNION {log[j].hits : j \in 1 .. k - 1} # {}
  \/ \E l \in Loc \ log[k].hits : \A j \in 1 .. k - 1 : l \in log[j].hits
FaultsUnique ==
  ~conf.dumb_mode =>
    /\ \A k \in DOMAIN crash_log : crash_log[k].kept <=> UniqueIn(crash_log, k)
    /\ \A k \in DOMAIN tmout_log : tmout_log[k].kept <=> UniqueIn(tmout_log, k)

=============================================================================
