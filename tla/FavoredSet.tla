----------------------------- MODULE FavoredSet -----------------------------
(***************************************************************************)
(* The favoured entries of afl-fuzz (DAFL/afl-fuzz.c): for every byte of   *)
(* the coverage map the cheapest entry that hits it (top_rated), with      *)
(* reference-counted copies of the winners' traces (trace_mini, tc_ref);   *)
(* the selection of a small set of favoured entries that covers every byte *)
(* (cull_queue); and the counters that decide what fuzz_one() skips.       *)
(*                                                                         *)
(* Which entry the main loop hands to fuzz_one() is the subject of module  *)
(* SeedQueue; here it may be any.  A trace is the set of the bytes hit.    *)
(* The crash exploration mode (-C) and the dumb mode (-n) are left out.    *)
(***************************************************************************)
EXTENDS Integers, FiniteSets

CONSTANTS
  MaxEntries,   \* bound: entries the model may create
  NumSeeds,     \* bound: files in the input directory
  NumBytes,     \* MAP_SIZE
  MaxCost,      \* bound: costs (exec_us * len) are 1 .. MaxCost
  CalChances,   \* CAL_CHANCES
  SkipMinPaths, \* entries are only skipped for good in queues longer than this
  Flaky,        \* entries whose trace varies from run to run
  NULL

Entries == 0 .. MaxEntries - 1
Bytes   == 0 .. NumBytes - 1
Costs   == 1 .. MaxCost
Traces  == (SUBSET Bytes) \ {{}}

ASSUME ConstantsAssumption ==
  /\ MaxEntries \in Nat \ {0}
  /\ NumSeeds \in 1 .. MaxEntries
  /\ NumBytes \in Nat \ {0}
  /\ MaxCost \in Nat \ {0}
  /\ CalChances \in Nat \ {0}
  /\ SkipMinPaths \in Nat
  /\ Flaky \subseteq Entries
  /\ NULL \notin Nat
  /\ \A t \in SUBSET Bytes : t # NULL

VARIABLES
  pc,                 \* where the process is
  ret,                \* where update_bitmap_score() returns to
  i,                  \* its loop variable, and cull_queue()'s
  q,                  \* its argument
  trace_bits,         \* its input
  queued_paths,
  cal_failed,         \* q->cal_failed
  cost,               \* q->exec_us * q->len
  exec_trace,         \* the trace that q->exec_cksum is the checksum of
  trim_done,          \* entries whose flag is set, as are the sets below
  was_fuzzed,
  favored,
  fs_redundant,
  top_rated,
  tc_ref,
  trace_mini,
  score_changed,
  temp_v,             \* cull_queue(): bytes not covered yet
  queued_favored, pending_favored, pending_not_fuzzed,
  queue_cur

loopVars  == <<ret, i, q, trace_bits>>
entryVars == <<cal_failed, cost, exec_trace, trim_done>>
scoreVars == <<top_rated, tc_ref, trace_mini, score_changed>>
favVars   == <<favored, fs_redundant, temp_v, queued_favored>>
workVars  == <<was_fuzzed, pending_favored>>
vars == <<pc, loopVars, queued_paths, entryVars, scoreVars, favVars, workVars,
          pending_not_fuzzed, queue_cur>>

Queued == 0 .. queued_paths - 1

-----------------------------------------------------------------------------
(* update_bitmap_score(), one byte of the map at a time.                   *)

\* Call update_bitmap_score(e) with t in trace_bits[], then go on at label l.
call_update(e, t, l) ==
  /\ pc' = "update"
  /\ ret' = l
  /\ i' = 0
  /\ q' = e
  /\ trace_bits' = t

WinsByte(b) ==
  /\ b \in trace_bits
  /\ top_rated[b] # NULL => cost[q] <= cost[top_rated[b]]

\* The byte is not hit, or its winner is cheaper.
pass_byte ==
  /\ pc = "update" /\ i < NumBytes
  /\ ~WinsByte(i)
  /\ i' = i + 1
  /\ UNCHANGED <<pc, ret, q, trace_bits, queued_paths, entryVars, scoreVars,
                 favVars, workVars, pending_not_fuzzed, queue_cur>>

\* Mutant: the previous winner keeps its reference.
win_byte_keeps_reference ==
  /\ pc = "update" /\ i < NumBytes
  /\ WinsByte(i)
  /\ tc_ref' = [tc_ref EXCEPT ![q] = @ + 1]
  /\ trace_mini' = IF trace_mini[q] = NULL
                   THEN [trace_mini EXCEPT ![q] = trace_bits] ELSE trace_mini
  /\ top_rated' = [top_rated EXCEPT ![i] = q]
  /\ score_changed' = TRUE
  /\ i' = i + 1
  /\ UNCHANGED <<pc, ret, q, trace_bits, queued_paths, entryVars, favVars,
                 workVars, pending_not_fuzzed, queue_cur>>

\* Mutant: score_changed is only set if the byte had no winner before.
win_byte_no_signal ==
  /\ pc = "update" /\ i < NumBytes
  /\ WinsByte(i)
  /\ LET w       == top_rated[i]
         dropped == IF w = NULL THEN tc_ref ELSE [tc_ref EXCEPT ![w] = @ - 1]
         kept    == IF w # NULL /\ dropped[w] = 0
                    THEN [trace_mini EXCEPT ![w] = NULL] ELSE trace_mini
     IN /\ tc_ref' = [dropped EXCEPT ![q] = @ + 1]
        /\ trace_mini' = IF kept[q] = NULL
                         THEN [kept EXCEPT ![q] = trace_bits] ELSE kept
  /\ top_rated' = [top_rated EXCEPT ![i] = q]
  /\ score_changed' = (score_changed \/ top_rated[i] = NULL)
  /\ i' = i + 1
  /\ UNCHANGED <<pc, ret, q, trace_bits, queued_paths, entryVars, favVars,
                 workVars, pending_not_fuzzed, queue_cur>>

\* The previous winner, if any, loses a reference and, with the last one, its
\* trace; q gains a reference and keeps its trace.
win_byte ==
  /\ pc = "update" /\ i < NumBytes
  /\ WinsByte(i)
  /\ LET w       == top_rated[i]
         dropped == IF w = NULL THEN tc_ref ELSE [tc_ref EXCEPT ![w] = @ - 1]
         kept    == IF w # NULL /\ dropped[w] = 0
                    THEN [trace_mini EXCEPT ![w] = NULL] ELSE trace_mini
     IN /\ tc_ref' = [dropped EXCEPT ![q] = @ + 1]
        /\ trace_mini' = IF kept[q] = NULL
                         THEN [kept EXCEPT ![q] = trace_bits] ELSE kept
  /\ top_rated' = [top_rated EXCEPT ![i] = q]
  /\ score_changed' = TRUE
  /\ i' = i + 1
  /\ UNCHANGED <<pc, ret, q, trace_bits, queued_paths, entryVars, favVars,
                 workVars, pending_not_fuzzed, queue_cur>>

\* What the call worked on is dead once it returns.
end_update ==
  /\ pc = "update" /\ i = NumBytes
  /\ pc' = ret
  /\ i' = 0 /\ q' = 0 /\ trace_bits' = {}
  /\ UNCHANGED <<ret, queued_paths, entryVars, scoreVars, favVars, workVars,
                 pending_not_fuzzed, queue_cur>>

-----------------------------------------------------------------------------
(* Calibration.  first is the trace of the first run, t that of the last.  *)

SameTrace(e, first, t) == e \notin Flaky => t = first

calibration_succeeds(e, first, l) ==
  /\ \E t \in Traces, c \in Costs :
        /\ SameTrace(e, first, t)
        /\ cost' = [cost EXCEPT ![e] = c]
        /\ call_update(e, t, l)
  /\ cal_failed' = [cal_failed EXCEPT ![e] = 0]
  /\ exec_trace' = [exec_trace EXCEPT ![e] = first]

calibration_aborts(e, failures) ==
  /\ cal_failed' = [cal_failed EXCEPT ![e] = failures]
  /\ UNCHANGED <<cost, loopVars>>

-----------------------------------------------------------------------------
(* Start-up.                                                               *)

Init ==
  /\ pc = "read" /\ ret = "dry_run"
  /\ i = 0 /\ q = 0 /\ trace_bits = {}
  /\ queued_paths = 0
  /\ cal_failed = [e \in Entries |-> 0]
  /\ cost = [e \in Entries |-> 1]
  /\ exec_trace = [e \in Entries |-> NULL]
  /\ trim_done = {} /\ was_fuzzed = {} /\ favored = {} /\ fs_redundant = {}
  /\ top_rated = [b \in Bytes |-> NULL]
  /\ tc_ref = [e \in Entries |-> 0]
  /\ trace_mini = [e \in Entries |-> NULL]
  /\ score_changed = FALSE
  /\ temp_v = {}
  /\ queued_favored = 0 /\ pending_favored = 0 /\ pending_not_fuzzed = 0
  /\ queue_cur = NULL

add_to_queue ==
  /\ queued_paths < MaxEntries
  /\ queued_paths' = queued_paths + 1
  /\ pending_not_fuzzed' = pending_not_fuzzed + 1

read_testcase ==
  /\ pc = "read"
  /\ queued_paths < NumSeeds
  /\ add_to_queue
  /\ UNCHANGED <<pc, loopVars, entryVars, scoreVars, favVars, workVars, queue_cur>>

begin_dry_run ==
  /\ pc = "read"
  /\ queued_paths > 0
  /\ pc' = "dry_run"
  /\ queue_cur' = 0
  /\ UNCHANGED <<loopVars, queued_paths, entryVars, scoreVars, favVars, workVars,
                 pending_not_fuzzed>>

\* Seeds are in the list in the order of their numbers.  Those that time out or
\* crash are skipped (a session that they end is not followed any further).
dry_run_seed ==
  /\ pc = "dry_run"
  /\ queue_cur < queued_paths
  /\ \/ \E first \in Traces : calibration_succeeds(queue_cur, first, "dry_run")
     \/ /\ calibration_aborts(queue_cur, CalChances)
        /\ UNCHANGED <<pc, exec_trace>>
  /\ queue_cur' = queue_cur + 1
  /\ UNCHANGED <<queued_paths, trim_done, scoreVars, favVars, workVars,
                 pending_not_fuzzed>>

\* perform_dry_run() gives up if there is nothing left to work with.
end_dry_run ==
  /\ pc = "dry_run"
  /\ queue_cur = queued_paths
  /\ pc' = IF \A e \in Queued : cal_failed[e] = CalChances THEN "done" ELSE "main"
  /\ queue_cur' = NULL
  /\ UNCHANGED <<loopVars, queued_paths, entryVars, scoreVars, favVars, workVars,
                 pending_not_fuzzed>>

-----------------------------------------------------------------------------
(* cull_queue(), at the top of the main loop.                              *)

\* Mutant: the favored flags are not reset.
begin_cull_keeps_flags ==
  /\ pc = "main"
  /\ score_changed
  /\ pc' = "cull"
  /\ score_changed' = FALSE
  /\ temp_v' = Bytes
  /\ queued_favored' = 0 /\ pending_favored' = 0
  /\ i' = 0
  /\ UNCHANGED <<ret, q, trace_bits, queued_paths, entryVars, top_rated, tc_ref,
                 trace_mini, favored, fs_redundant, was_fuzzed,
                 pending_not_fuzzed, queue_cur>>

begin_cull ==
  /\ pc = "main"
  /\ score_changed
  /\ pc' = "cull"
  /\ score_changed' = FALSE
  /\ temp_v' = Bytes
  /\ queued_favored' = 0 /\ pending_favored' = 0
  /\ favored' = {}
  /\ i' = 0
  /\ UNCHANGED <<ret, q, trace_bits, queued_paths, entryVars, top_rated, tc_ref,
                 trace_mini, fs_redundant, was_fuzzed,
                 pending_not_fuzzed, queue_cur>>

cull_byte ==
  /\ pc = "cull" /\ i < NumBytes
  /\ i' = i + 1
  /\ LET w == top_rated[i]
     IN IF w # NULL /\ i \in temp_v
        THEN /\ temp_v' = temp_v \ trace_mini[w]
             /\ favored' = favored \cup {w}
             /\ queued_favored' = queued_favored + 1
             /\ pending_favored' = pending_favored + IF w \in was_fuzzed THEN 0 ELSE 1
        ELSE UNCHANGED <<temp_v, favored, queued_favored, pending_favored>>
  /\ UNCHANGED <<pc, ret, q, trace_bits, queued_paths, entryVars, scoreVars,
                 fs_redundant, was_fuzzed, pending_not_fuzzed, queue_cur>>

\* The other entries are marked redundant on disk.
end_cull ==
  /\ pc = "cull" /\ i = NumBytes
  /\ fs_redundant' = Queued \ favored
  /\ pc' = "pick"
  /\ i' = 0 /\ temp_v' = {}
  /\ UNCHANGED <<ret, q, trace_bits, queued_paths, entryVars, scoreVars, favored,
                 queued_favored, workVars, pending_not_fuzzed, queue_cur>>

skip_cull ==
  /\ pc = "main"
  /\ ~score_changed
  /\ pc' = "pick"
  /\ UNCHANGED <<loopVars, queued_paths, entryVars, scoreVars, favVars, workVars,
                 pending_not_fuzzed, queue_cur>>

-----------------------------------------------------------------------------
(* fuzz_one().                                                             *)

MaySkip(e) ==
  \/ pending_favored > 0 /\ (e \in was_fuzzed \/ e \notin favored)
  \/ pending_favored = 0 /\ e \notin favored /\ queued_paths > SkipMinPaths

pick ==
  /\ pc = "pick"
  /\ \E e \in Queued :
        /\ queue_cur' = e
        /\ \/ MaySkip(e) /\ pc' = "main"
           \/ pc' = IF cal_failed[e] > 0 THEN "calibrate" ELSE "trim"
  /\ UNCHANGED <<loopVars, queued_paths, entryVars, scoreVars, favVars, workVars,
                 pending_not_fuzzed>>

\* A repeated calibration resets exec_cksum, and so takes itself for the first
\* run: unless it hits something new, which the same trace cannot, its result is
\* FAULT_NOBITS and the entry is abandoned.  (The checksum that a failure leaves
\* behind is not used before the next reset.)
recalibrate ==
  /\ pc = "calibrate"
  /\ LET e == queue_cur
     IN \/ /\ cal_failed[e] >= CalChances
           /\ pc' = "abandon"
           /\ UNCHANGED <<cal_failed, cost, loopVars, exec_trace>>
        \/ /\ cal_failed[e] < CalChances
           /\ calibration_aborts(e, cal_failed[e] + 1)
           /\ pc' = "abandon"
           /\ UNCHANGED exec_trace
        \/ /\ cal_failed[e] < CalChances
           /\ \E first \in Traces :
                 /\ SameTrace(e, exec_trace[e], first)
                 /\ \/ calibration_succeeds(e, first, "abandon")
                    \/ e \in Flaky /\ calibration_succeeds(e, first, "trim")
  /\ UNCHANGED <<queued_paths, trim_done, scoreVars, favVars, workVars,
                 pending_not_fuzzed, queue_cur>>

\* Mutant: a trimmed entry does not compete again.
trim_case_no_update ==
  /\ pc = "trim"
  /\ trim_done' = trim_done \cup {queue_cur}
  /\ pc' = "fuzz"
  /\ \/ UNCHANGED cost
     \/ /\ queue_cur \notin trim_done
        /\ \E c \in 1 .. cost[queue_cur] : cost' = [cost EXCEPT ![queue_cur] = c]
  /\ UNCHANGED <<loopVars, queued_paths, cal_failed, exec_trace, scoreVars, favVars,
                 workVars, pending_not_fuzzed, queue_cur>>

\* trim_case(): the input gets shorter, and cheaper, without a change in its
\* checksum; the entry competes for the bytes of that trace again.
trim_case ==
  /\ pc = "trim"
  /\ trim_done' = trim_done \cup {queue_cur}
  /\ \/ /\ pc' = "fuzz"
        /\ UNCHANGED <<cost, loopVars>>
     \/ /\ queue_cur \notin trim_done
        /\ \E c \in 1 .. cost[queue_cur] : cost' = [cost EXCEPT ![queue_cur] = c]
        /\ call_update(queue_cur, exec_trace[queue_cur], "fuzz")
  /\ UNCHANGED <<queued_paths, cal_failed, exec_trace, scoreVars, favVars,
                 workVars, pending_not_fuzzed, queue_cur>>

\* save_if_interesting(), for a mutated input or one of another instance; with
\* AFL_IMPORT_FIRST also before the first entry is picked.
save_if_interesting ==
  /\ pc \in {"fuzz", "sync"} \/ (pc = "pick" /\ queue_cur = NULL)
  /\ add_to_queue
  /\ \E first \in Traces :
        \/ calibration_succeeds(queued_paths, first, pc)
        \/ /\ calibration_aborts(queued_paths, 1)
           /\ exec_trace' = [exec_trace EXCEPT ![queued_paths] = first]
           /\ UNCHANGED pc
  /\ UNCHANGED <<trim_done, scoreVars, favVars, workVars, queue_cur>>

\* The stages are cut short, or run through to the end.
finish_fuzz ==
  /\ pc = "fuzz"
  /\ pc' \in {"abandon", "finish"}
  /\ UNCHANGED <<loopVars, queued_paths, entryVars, scoreVars, favVars, was_fuzzed,
                 pending_favored, pending_not_fuzzed, queue_cur>>

abandon_entry ==
  /\ pc \in {"abandon", "finish"}
  /\ pc' = IF pc = "finish" THEN "sync" ELSE "main"
  /\ IF cal_failed[queue_cur] = 0 /\ queue_cur \notin was_fuzzed
     THEN /\ was_fuzzed' = was_fuzzed \cup {queue_cur}
          /\ pending_not_fuzzed' = pending_not_fuzzed - 1
          /\ pending_favored' = pending_favored - IF queue_cur \in favored THEN 1 ELSE 0
     ELSE UNCHANGED <<was_fuzzed, pending_not_fuzzed, pending_favored>>
  /\ UNCHANGED <<loopVars, queued_paths, entryVars, scoreVars, favVars,
                 queue_cur>>

end_sync ==
  /\ pc = "sync"
  /\ pc' = "main"
  /\ UNCHANGED <<loopVars, queued_paths, entryVars, scoreVars, favVars, workVars,
                 pending_not_fuzzed, queue_cur>>

finished == pc = "done" /\ UNCHANGED vars

Next ==
  \/ pass_byte \/ win_byte \/ end_update
  \/ read_testcase \/ begin_dry_run \/ dry_run_seed \/ end_dry_run
  \/ begin_cull \/ cull_byte \/ end_cull \/ skip_cull
  \/ pick \/ recalibrate \/ trim_case \/ save_if_interesting
  \/ finish_fuzz \/ abandon_entry \/ end_sync \/ finished

Spec == Init /\ [][Next]_vars

-----------------------------------------------------------------------------
(* Properties.                                                             *)

Labels == {"read", "dry_run", "main", "cull", "pick", "calibrate", "trim", "fuzz",
           "abandon", "finish", "sync", "update", "done"}

\* Every variable has its type; in particular the counters, unsigned in the
\* code, do not drop below zero.
TypeOK ==
  /\ pc \in Labels
  /\ ret \in {"dry_run", "abandon", "trim", "fuzz", "sync", "pick"}
  /\ i \in 0 .. NumBytes
  /\ q \in Entries
  /\ trace_bits \in SUBSET Bytes
  /\ queued_paths \in 0 .. MaxEntries
  /\ cal_failed \in [Entries -> 0 .. CalChances]
  /\ cost \in [Entries -> Costs]
  /\ exec_trace \in [Entries -> (SUBSET Bytes) \cup {NULL}]
  /\ trim_done \subseteq Entries /\ was_fuzzed \subseteq Entries
  /\ favored \subseteq Entries /\ fs_redundant \subseteq Entries
  /\ top_rated \in [Bytes -> Entries \cup {NULL}]
  /\ tc_ref \in [Entries -> Nat]
  /\ trace_mini \in [Entries -> (SUBSET Bytes) \cup {NULL}]
  /\ score_changed \in BOOLEAN
  /\ temp_v \subseteq Bytes
  /\ queued_favored \in Nat /\ pending_favored \in Nat /\ pending_not_fuzzed \in Nat
  /\ queue_cur \in 0 .. MaxEntries \cup {NULL}

\* The bytes that e is the winner of.
Won(e) == {b \in Bytes : top_rated[b] = e}

\* tc_ref counts the slots of top_rated[] that point to the entry, although
\* update_bitmap_score() can replace an entry by itself.
RefCountExact == \A e \in Entries : tc_ref[e] = Cardinality(Won(e))

\* An entry has a copy of its trace exactly while it is the winner of some byte:
\* cull_queue() never follows a trace_mini that was freed, and none leaks.
TraceKept == \A e \in Entries : trace_mini[e] # NULL <=> Won(e) # {}

\* Outside update_bitmap_score(), no entry with a stable trace hits a byte at a
\* lower cost than its winner, although trimming makes entries cheaper later on.
TopRatedIsCheapest ==
  pc # "update" =>
    \A e \in Queued \ Flaky : (cal_failed[e] = 0 /\ exec_trace[e] # NULL) =>
      \A b \in exec_trace[e] : /\ top_rated[b] # NULL
                               /\ cost[top_rated[b]] <= cost[e]

\* Unless a change of top_rated[] is pending, the favoured entries cover every
\* byte that any calibrated entry covers.
FavoredCover ==
  (~score_changed /\ pc # "cull") =>
    \A b \in Bytes : top_rated[b] # NULL =>
      \/ top_rated[b] \in favored
      \/ \E e \in favored : trace_mini[e] # NULL /\ b \in trace_mini[e]

\* pending_favored is not less than the number of favoured entries still to be
\* fuzzed, so that decrementing it for each of them never wraps around.
PendingNoUnderflow == pending_favored >= Cardinality(favored \ was_fuzzed)

\* pending_not_fuzzed counts the entries whose was_fuzzed flag is not set.
PendingNotFuzzedExact == pending_not_fuzzed = Cardinality(Queued \ was_fuzzed)

=============================================================================
