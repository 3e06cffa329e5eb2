----------------------------- MODULE SeedQueue -----------------------------
(***************************************************************************)
(* The seed queue of afl-fuzz and the loop that schedules it               *)
(* (DAFL/afl-fuzz.c): a linked list kept in descending order of the        *)
(* proximity score, the cursor `queue_cur', the per-cycle "handled" flags, *)
(* the shortcut array used to pick a splicing partner, and the running     *)
(* statistics of the proximity scores.                                     *)
(*                                                                         *)
(* A queue entry is its entry_id, 0 .. MaxEntries-1; the list is the       *)
(* sequence `queue'.  The coverage and the score that an execution of the  *)
(* target yields are nondeterministic.  The favoured set (top_rated and    *)
(* the pending_* counters) is the subject of module FavoredSet.            *)
(***************************************************************************)
EXTENDS Integers, Sequences, FiniteSets

CONSTANTS
  MaxEntries,    \* bound: entries the model may create (queued_paths)
  NumSeeds,      \* bound: files in the input directory
  Scores,        \* proximity scores an execution can yield
  U64_MAX,       \* larger than every score
  Step,          \* entries per shortcut (100 in the code)
  Slots,         \* length of shortcut_per_100 (1024 in the code)
  Wrap,          \* 2^w for the w-bit index arithmetic (2^32 in the code)
  CalChances,    \* CAL_CHANCES
  MaxCycle,      \* bound: queue_cycle is not counted any further
  Deterministic, \* the target's score depends on its input only
  SkipBadSeeds,  \* -t nn+ or AFL_SKIP_CRASHES: keep going without bad seeds
  SyncId,        \* -M / -S given
  ImportFirst,   \* AFL_IMPORT_FIRST
  Tiny,          \* entries whose file has length 1
  NULL

Entries == 0 .. MaxEntries - 1

ASSUME ConstantsAssumption ==
  /\ MaxEntries \in Nat \ {0}
  /\ NumSeeds \in 1 .. MaxEntries
  /\ Scores \subseteq Nat /\ Scores # {}
  /\ U64_MAX \in Nat /\ \A s \in Scores : s < U64_MAX
  /\ Step \in Nat \ {0} /\ Slots \in Nat \ {0} /\ Wrap \in Nat \ {0}
  /\ CalChances \in Nat \ {0}
  /\ MaxCycle \in Nat \ {0}
  /\ {Deterministic, SkipBadSeeds, SyncId, ImportFirst} \subseteq BOOLEAN
  /\ Tiny \subseteq Entries
  /\ NULL \notin Int

VARIABLES
  pc,               \* where the process is
  stop_soon,        \* Ctrl-C, SIGTERM, or a programmatic stop
  queue,            \* the linked list, head first
  rest,             \* entries a traversal of the list has not reached yet
  queued_paths,     \* number of entries created
  prox_score,       \* q->prox_score
  cal_failed,       \* q->cal_failed
  handled_in_cycle, \* entries whose flag is set
  first_unhandled,
  shortcut_per_100,
  queue_cur,
  queue_cycle,
  prev_queued,
  use_splicing,
  splicing_with,
  total_prox_score, avg_prox_score, min_prox_score, max_prox_score

listVars  == <<queue, shortcut_per_100, first_unhandled>>
statVars  == <<total_prox_score, avg_prox_score, min_prox_score, max_prox_score>>
calVars   == <<prox_score, cal_failed, statVars>>
cycleVars == <<queue_cycle, prev_queued, use_splicing>>
vars == <<pc, stop_soon, listVars, rest, queued_paths, calVars,
          handled_in_cycle, queue_cur, cycleVars, splicing_with>>

Elements(s) == {s[i] : i \in 1 .. Len(s)}

-----------------------------------------------------------------------------
(* Insertion into the sorted list.                                         *)

\* Mutant: the successor of the insertion point is not linked to the new entry.
InsertAt_unlinked(s, k, e) ==
  [i \in 1 .. Len(s) |-> IF i < k THEN s[i] ELSE IF i = k THEN e ELSE s[i - 1]]

\* The list s with e at position k.
InsertAt(s, k, e) ==
  [i \in 1 .. Len(s) + 1 |-> IF i < k THEN s[i] ELSE IF i = k THEN e ELSE s[i - 1]]

\* The traversal stops in front of the first entry with a lower score.
IsInsertPosition(s, score, e, k) ==
  /\ k <= Len(s) => score[s[k]] < score[e]
  /\ \A j \in 1 .. k - 1 : ~(score[s[j]] < score[e])

\* x is the first entry of s from position k on that is not handled yet.
IsFirstUnhandledFrom(s, k, handled, x) ==
  \/ /\ x = NULL
     /\ \A i \in k .. Len(s) : s[i] \in handled
  \/ \E i \in k .. Len(s) : /\ x = s[i]
                            /\ x \notin handled
                            /\ \A j \in k .. i - 1 : s[j] \in handled

Shortcuts(s, old) ==
  [n \in 0 .. Slots - 1 |-> IF n * Step < Len(s) THEN s[n * Step + 1] ELSE old[n]]

\* The first entry only becomes the head; first_unhandled is not touched.
insert_into_empty(e) ==
  /\ queue = <<>>
  /\ queue' = <<e>>
  /\ shortcut_per_100' = [shortcut_per_100 EXCEPT ![0] = e]
  /\ UNCHANGED first_unhandled

insert_into_list(e, score) ==
  /\ queue # <<>>
  /\ \E k \in 1 .. Len(queue) + 1 :
        /\ IsInsertPosition(queue, score, e, k)
        /\ queue' = InsertAt(queue, k, e)
  /\ first_unhandled' \in {x \in Entries \cup {NULL} :
                             IsFirstUnhandledFrom(queue', 1, handled_in_cycle, x)}
  /\ shortcut_per_100' = Shortcuts(queue', shortcut_per_100)

sorted_insert_to_queue(e, score) ==
  insert_into_empty(e) \/ insert_into_list(e, score)

\* The entry created is number queued_paths; its score is score[queued_paths].
add_to_queue(score) ==
  /\ queued_paths < MaxEntries
  /\ sorted_insert_to_queue(queued_paths, score)
  /\ queued_paths' = queued_paths + 1

-----------------------------------------------------------------------------
(* Calibration.  scores0 and n are prox_score and queued_paths as the      *)
(* calibration finds them.                                                 *)

\* Mutant: the maximum is only compared if the minimum did not change.
calibration_succeeds_else_if(e, s, scores0, n) ==
  /\ prox_score' = [scores0 EXCEPT ![e] = s]
  /\ cal_failed' = [cal_failed EXCEPT ![e] = 0]
  /\ total_prox_score' = total_prox_score + s
  /\ avg_prox_score' = (total_prox_score + s) \div n
  /\ min_prox_score' = IF min_prox_score > s THEN s ELSE min_prox_score
  /\ max_prox_score' = IF min_prox_score <= s /\ max_prox_score < s
                       THEN s ELSE max_prox_score

\* Mutant: the score added to the total is the one the entry was queued with.
calibration_succeeds_stale_total(e, s, scores0, n) ==
  /\ prox_score' = [scores0 EXCEPT ![e] = s]
  /\ cal_failed' = [cal_failed EXCEPT ![e] = 0]
  /\ total_prox_score' = total_prox_score + scores0[e]
  /\ avg_prox_score' = (total_prox_score + scores0[e]) \div n
  /\ min_prox_score' = IF min_prox_score > s THEN s ELSE min_prox_score
  /\ max_prox_score' = IF max_prox_score < s THEN s ELSE max_prox_score

calibration_succeeds(e, s, scores0, n) ==
  /\ prox_score' = [scores0 EXCEPT ![e] = s]
  /\ cal_failed' = [cal_failed EXCEPT ![e] = 0]
  /\ total_prox_score' = total_prox_score + s
  /\ avg_prox_score' = (total_prox_score + s) \div n
  /\ min_prox_score' = IF min_prox_score > s THEN s ELSE min_prox_score
  /\ max_prox_score' = IF max_prox_score < s THEN s ELSE max_prox_score

calibration_aborts(e, failures, scores0) ==
  /\ prox_score' = scores0
  /\ cal_failed' = [cal_failed EXCEPT ![e] = failures]
  /\ UNCHANGED statVars

\* Scores that a later execution of an input that scored p can yield.
Rescore(p) == IF Deterministic THEN {p} ELSE Scores

\* save_if_interesting() for an input with new coverage: the input is queued
\* under the score of its first execution, then calibrated in place.
save_if_interesting ==
  \E p \in Scores :
    LET e      == queued_paths
        scores == [prox_score EXCEPT ![e] = p]
    IN /\ add_to_queue(scores)
       /\ \/ \E s \in Rescore(p) : calibration_succeeds(e, s, scores, queued_paths + 1)
          \/ calibration_aborts(e, 1, scores)

-----------------------------------------------------------------------------
(* Start-up.                                                               *)

Init ==
  /\ pc = "read"
  /\ stop_soon = FALSE
  /\ queue = <<>>
  /\ rest = <<>>
  /\ queued_paths = 0
  /\ prox_score = [e \in Entries |-> 0]
  /\ cal_failed = [e \in Entries |-> 0]
  /\ handled_in_cycle = {}
  /\ first_unhandled = NULL
  /\ shortcut_per_100 = [n \in 0 .. Slots - 1 |-> NULL]
  /\ queue_cur = NULL
  /\ queue_cycle = 0
  /\ prev_queued = 0
  /\ use_splicing \in BOOLEAN
  /\ splicing_with = NULL
  /\ total_prox_score = 0
  /\ avg_prox_score = 0
  /\ min_prox_score = U64_MAX
  /\ max_prox_score = 0

\* read_testcases(): every input file is queued with score 0.
read_testcase ==
  /\ pc = "read"
  /\ queued_paths < NumSeeds
  /\ add_to_queue(prox_score)
  /\ UNCHANGED <<pc, stop_soon, rest, calVars, handled_in_cycle, queue_cur,
                 cycleVars, splicing_with>>

begin_dry_run ==
  /\ pc = "read"
  /\ queued_paths > 0
  /\ pc' = "dry_run"
  /\ rest' = queue
  /\ UNCHANGED <<stop_soon, listVars, queued_paths, calVars, handled_in_cycle,
                 queue_cur, cycleVars, splicing_with>>

\* perform_dry_run(), one seed.  A seed that times out or crashes either ends
\* the process or, if so configured, is skipped for good.
dry_run_seed ==
  /\ pc = "dry_run"
  /\ rest # <<>>
  /\ ~stop_soon
  /\ \/ /\ \E s \in Scores : calibration_succeeds(Head(rest), s, prox_score, queued_paths)
        /\ pc' = pc /\ rest' = Tail(rest)
     \/ /\ SkipBadSeeds
        /\ calibration_aborts(Head(rest), CalChances, prox_score)
        /\ pc' = pc /\ rest' = Tail(rest)
     \/ /\ calibration_aborts(Head(rest), 1, prox_score)
        /\ pc' = "done" /\ rest' = rest
  /\ UNCHANGED <<stop_soon, listVars, queued_paths, handled_in_cycle,
                 queue_cur, cycleVars, splicing_with>>

\* Ctrl-C ends the loop after a calibration, the one it interrupts included.
stop_dry_run ==
  /\ pc = "dry_run"
  /\ stop_soon
  /\ \/ rest # <<>> /\ calibration_aborts(Head(rest), 1, prox_score)
     \/ rest # queue /\ UNCHANGED calVars
  /\ pc' = "stopped_dry_run"
  /\ UNCHANGED <<stop_soon, listVars, rest, queued_paths, handled_in_cycle,
                 queue_cur, cycleVars, splicing_with>>

\* The end of perform_dry_run(): give up if every seed was skipped.
\* Otherwise sort_queue() detaches the list before it re-inserts every entry.
begin_sort ==
  /\ \/ pc = "dry_run" /\ rest = <<>>
     \/ pc = "stopped_dry_run"
  /\ LET giveUp == /\ pc = "dry_run"
                   /\ \A e \in Elements(queue) : cal_failed[e] = CalChances
     IN IF giveUp
        THEN pc' = "done" /\ UNCHANGED <<queue, rest, shortcut_per_100>>
        ELSE /\ pc' = "sort"
             /\ rest' = queue
             /\ queue' = <<>>
             /\ shortcut_per_100' = [n \in 0 .. Slots - 1 |-> NULL]
  /\ UNCHANGED <<stop_soon, first_unhandled, queued_paths, calVars,
                 handled_in_cycle, queue_cur, cycleVars, splicing_with>>

sort_entry ==
  /\ pc = "sort"
  /\ rest # <<>>
  /\ sorted_insert_to_queue(Head(rest), prox_score)
  /\ rest' = Tail(rest)
  /\ UNCHANGED <<pc, stop_soon, queued_paths, calVars, handled_in_cycle,
                 queue_cur, cycleVars, splicing_with>>

end_sort ==
  /\ pc = "sort"
  /\ rest = <<>>
  /\ pc' = IF stop_soon THEN "done" ELSE "loop"
  /\ UNCHANGED <<stop_soon, listVars, rest, queued_paths, calVars,
                 handled_in_cycle, queue_cur, cycleVars, splicing_with>>

-----------------------------------------------------------------------------
(* The main loop.                                                          *)

\* Mutant: the handled_in_cycle flags are not reset.
start_cycle_no_reset ==
  /\ pc = "loop"
  /\ queue_cur = NULL
  /\ queue_cycle' = IF queue_cycle < MaxCycle THEN queue_cycle + 1 ELSE queue_cycle
  /\ queue_cur' = Head(queue)
  /\ use_splicing' = (use_splicing \/ queued_paths = prev_queued)
  /\ prev_queued' = queued_paths
  /\ pc' = IF SyncId /\ ImportFirst /\ queue_cycle = 0 THEN "import" ELSE pc
  /\ UNCHANGED <<stop_soon, listVars, rest, queued_paths, calVars,
                 handled_in_cycle, splicing_with>>

start_cycle ==
  /\ pc = "loop"
  /\ queue_cur = NULL
  /\ queue_cycle' = IF queue_cycle < MaxCycle THEN queue_cycle + 1 ELSE queue_cycle
  /\ queue_cur' = Head(queue)
  /\ handled_in_cycle' = {}
  /\ use_splicing' = (use_splicing \/ queued_paths = prev_queued)
  /\ prev_queued' = queued_paths
  /\ pc' = IF SyncId /\ ImportFirst /\ queue_cycle = 0 THEN "import" ELSE pc
  /\ UNCHANGED <<stop_soon, listVars, rest, queued_paths, calVars, splicing_with>>

\* The entry counts as handled even if fuzz_one() skips it right away.
handle_entry ==
  /\ pc = "loop"
  /\ queue_cur # NULL
  /\ handled_in_cycle' = handled_in_cycle \cup {queue_cur}
  /\ \/ pc' = "advance"
     \/ pc' = IF cal_failed[queue_cur] > 0 THEN "calibrate" ELSE "fuzz"
  /\ UNCHANGED <<stop_soon, listVars, rest, queued_paths, calVars, queue_cur,
                 cycleVars, splicing_with>>

\* fuzz_one() on an entry whose calibration failed earlier: give up on it, or
\* calibrate it again where it is in the list.  A calibration that succeeds but
\* shows no new coverage (FAULT_NOBITS) abandons the entry, too.
recalibrate ==
  /\ pc = "calibrate"
  /\ LET e == queue_cur
     IN \/ /\ cal_failed[e] >= CalChances
           /\ UNCHANGED calVars
           /\ pc' = "advance"
        \/ /\ cal_failed[e] < CalChances
           /\ calibration_aborts(e, cal_failed[e] + 1, prox_score)
           /\ pc' = "advance"
        \/ /\ cal_failed[e] < CalChances
           /\ ~stop_soon
           /\ \E s \in Rescore(prox_score[e]) :
                 calibration_succeeds(e, s, prox_score, queued_paths)
           /\ pc' \in {"advance", "fuzz"}
  /\ UNCHANGED <<stop_soon, listVars, rest, queued_paths, handled_in_cycle,
                 queue_cur, cycleVars, splicing_with>>

\* A mutated input shows new coverage.
find_new ==
  /\ pc = "fuzz"
  /\ ~stop_soon
  /\ save_if_interesting
  /\ UNCHANGED <<pc, stop_soon, rest, handled_in_cycle, queue_cur, cycleVars,
                 splicing_with>>

\* Mutant: the part of idx that the slot stands for is not subtracted.
SpliceStart_not_reduced(idx) ==
  [slot |-> idx \div Step, hops |-> idx]

\* The slot and the number of hops with which the splicing stage looks for
\* list element number idx (from 0).
SpliceStart(idx) ==
  IF idx \div Step < Slots
  THEN [slot |-> idx \div Step, hops |-> idx - (idx \div Step) * Step]
  ELSE [slot |-> Slots - 1, hops |-> (idx - (idx \div Step) * Slots) % Wrap]

\* The position (from 1) that the walk from slot s arrives at; it is past the
\* end of the list if the walk runs off it.
SplicePosition(idx) ==
  LET start == SpliceStart(idx)
  IN (CHOOSE i \in 1 .. Len(queue) : queue[i] = shortcut_per_100[start.slot]) + start.hops

\* From there on, the current entry and one-byte files are passed over.
splice ==
  /\ pc = "fuzz"
  /\ ~stop_soon
  /\ use_splicing
  /\ queued_paths > 1
  /\ queue_cur \notin Tiny
  /\ \E idx \in 0 .. queued_paths - 1 : \E j \in SplicePosition(idx) .. Len(queue) :
        /\ queue[j] \notin Tiny \cup {queue_cur}
        /\ \A i \in SplicePosition(idx) .. j - 1 : queue[i] \in Tiny \cup {queue_cur}
        /\ splicing_with' = queue[j]
  /\ UNCHANGED <<pc, stop_soon, listVars, rest, queued_paths, calVars,
                 handled_in_cycle, queue_cur, cycleVars>>

\* fuzz_one() returns; main() may synchronise with other instances if it ran
\* to its end.
finish_fuzz ==
  /\ pc = "fuzz"
  /\ splicing_with' = NULL
  /\ \/ pc' = "advance"
     \/ SyncId /\ ~stop_soon /\ pc' = "sync"
  /\ UNCHANGED <<stop_soon, listVars, rest, queued_paths, calVars,
                 handled_in_cycle, queue_cur, cycleVars>>

\* sync_fuzzers(), at AFL_IMPORT_FIRST or after fuzz_one(): a test case of
\* another instance is interesting.
import_case ==
  /\ pc \in {"import", "sync"}
  /\ ~stop_soon
  /\ save_if_interesting
  /\ UNCHANGED <<pc, stop_soon, rest, handled_in_cycle, queue_cur, cycleVars,
                 splicing_with>>

end_import ==
  /\ pc \in {"import", "sync"}
  /\ pc' = IF pc = "import" THEN "loop" ELSE "advance"
  /\ UNCHANGED <<stop_soon, listVars, rest, queued_paths, calVars,
                 handled_in_cycle, queue_cur, cycleVars, splicing_with>>

\* Mutant: new entries are left to the walk through the list.
select_next_walk_only ==
  /\ \E c \in 1 .. Len(queue) :
        /\ queue[c] = queue_cur
        /\ queue_cur' \in {x \in Entries \cup {NULL} :
                             IsFirstUnhandledFrom(queue, c, handled_in_cycle, x)}
  /\ UNCHANGED first_unhandled

\* Mutant: first_unhandled is not cleared once it is used.
select_next_not_cleared ==
  IF first_unhandled # NULL
  THEN queue_cur' = first_unhandled /\ UNCHANGED first_unhandled
  ELSE select_next_walk_only

\* The next entry to handle.
select_next ==
  IF first_unhandled # NULL
  THEN queue_cur' = first_unhandled /\ first_unhandled' = NULL
  ELSE /\ \E c \in 1 .. Len(queue) :
             /\ queue[c] = queue_cur
             /\ queue_cur' \in {x \in Entries \cup {NULL} :
                                  IsFirstUnhandledFrom(queue, c, handled_in_cycle, x)}
       /\ UNCHANGED first_unhandled

advance ==
  /\ pc = "advance"
  /\ IF stop_soon
     THEN pc' = "done" /\ UNCHANGED <<queue_cur, first_unhandled>>
     ELSE pc' = "loop" /\ select_next
  /\ UNCHANGED <<stop_soon, queue, shortcut_per_100, rest, queued_paths, calVars,
                 handled_in_cycle, cycleVars, splicing_with>>

\* handle_stop_sig(), and the programmatic stops.
handle_stop_sig ==
  /\ pc # "done"
  /\ ~stop_soon
  /\ stop_soon' = TRUE
  /\ UNCHANGED <<pc, listVars, rest, queued_paths, calVars, handled_in_cycle,
                 queue_cur, cycleVars, splicing_with>>

finished == pc = "done" /\ UNCHANGED vars

Next ==
  \/ read_testcase \/ begin_dry_run \/ dry_run_seed \/ stop_dry_run
  \/ begin_sort \/ sort_entry \/ end_sort
  \/ start_cycle \/ handle_entry \/ recalibrate \/ find_new \/ splice
  \/ finish_fuzz \/ import_case \/ end_import \/ advance
  \/ handle_stop_sig \/ finished

\* The process keeps running; fuzz_one() and sync_fuzzers() run through
\* finitely many executions and return.
Fairness ==
  /\ WF_vars(read_testcase) /\ WF_vars(begin_dry_run)
  /\ WF_vars(dry_run_seed) /\ WF_vars(stop_dry_run)
  /\ WF_vars(begin_sort)
  /\ WF_vars(sort_entry) /\ WF_vars(end_sort)
  /\ WF_vars(start_cycle) /\ WF_vars(handle_entry) /\ WF_vars(recalibrate)
  /\ WF_vars(finish_fuzz) /\ WF_vars(end_import) /\ WF_vars(advance)

Spec == Init /\ [][Next]_vars

FairSpec == Spec /\ Fairness

-----------------------------------------------------------------------------
(* Properties.                                                             *)

LoopPhase == {"loop", "import", "calibrate", "fuzz", "sync", "advance"}

Labels == LoopPhase \cup {"read", "dry_run", "stopped_dry_run", "sort", "done"}

\* Every variable has its type; the list never holds an entry that was not
\* created by add_to_queue().
TypeOK ==
  /\ pc \in Labels
  /\ stop_soon \in BOOLEAN
  /\ queue \in Seq(Entries)
  /\ rest \in Seq(Entries)
  /\ queued_paths \in 0 .. MaxEntries
  /\ prox_score \in [Entries -> Nat]
  /\ cal_failed \in [Entries -> 0 .. CalChances]
  /\ handled_in_cycle \subseteq Entries
  /\ first_unhandled \in Entries \cup {NULL}
  /\ shortcut_per_100 \in [0 .. Slots - 1 -> Entries \cup {NULL}]
  /\ queue_cur \in Entries \cup {NULL}
  /\ queue_cycle \in 0 .. MaxCycle
  /\ prev_queued \in 0 .. MaxEntries
  /\ use_splicing \in BOOLEAN
  /\ splicing_with \in Entries \cup {NULL}
  /\ total_prox_score \in Nat /\ avg_prox_score \in Nat
  /\ min_prox_score \in Nat /\ max_prox_score \in Nat

\* No insertion and no re-sort loses, duplicates or invents an entry: the list,
\* together with what sort_queue() has not re-inserted yet, holds every entry
\* that was created exactly once.
NothingLost ==
  LET all == IF pc = "sort" THEN queue \o rest ELSE queue
  IN /\ Len(all) = queued_paths
     /\ Elements(all) = 0 .. queued_paths - 1

\* Wherever insertions put new entries, the place main() resumes from has only
\* handled entries in front of it: jumping to first_unhandled, or walking on
\* from queue_cur, passes over nothing.
BehindCursorHandled ==
  (pc \in LoopPhase /\ ~(pc = "loop" /\ queue_cur = NULL)) =>
    LET resume == IF first_unhandled # NULL THEN first_unhandled ELSE queue_cur
    IN \E c \in 1 .. Len(queue) :
          /\ queue[c] = resume
          /\ \A j \in 1 .. c - 1 : queue[j] \in handled_in_cycle

\* When main() starts the next cycle, the previous one handled every entry of
\* the list, those that were added in the course of it included.
CycleComplete ==
  (pc = "loop" /\ queue_cur = NULL /\ queue_cycle > 0) =>
    Elements(queue) \subseteq handled_in_cycle

\* Slot n of shortcut_per_100 is list element number n * 100, and no slot of an
\* earlier list survives a re-sort.
ShortcutsExact ==
  pc # "sort" =>
    \A n \in 0 .. Slots - 1 :
      shortcut_per_100[n] = IF n * Step < Len(queue) THEN queue[n * Step + 1] ELSE NULL

\* "Pick a random queue entry and find it": the splicing stage arrives at list
\* element number idx, whatever idx it draws.
SpliceLookupExact ==
  (pc = "fuzz" /\ use_splicing /\ queued_paths > 1) =>
    \A idx \in 0 .. queued_paths - 1 : SplicePosition(idx) = idx + 1

\* Directed scheduling: the entry main() is about to hand to fuzz_one() has the
\* best proximity score of all the entries not handled in this cycle.  (An
\* import at AFL_IMPORT_FIRST comes between the choice and its use.)
BestUnhandledFirst ==
  (pc = "loop" /\ queue_cur # NULL /\ queue_cur \notin handled_in_cycle /\ ~ImportFirst) =>
    \A e \in Elements(queue) \ handled_in_cycle : prox_score[e] <= prox_score[queue_cur]

\* "1st unhandled item in the queue": main() never picks an entry that was
\* handled in this cycle.
NoRepeatInCycle ==
  (pc = "loop" /\ queue_cur # NULL) => queue_cur \notin handled_in_cycle

\* The cursor left over by sort_queue() is used up in the first cycle: later
\* cycles handle every entry once.
NoRepeatAfterFirstCycle == queue_cycle > 1 => NoRepeatInCycle

\* The score calculate_factor() gets for the current entry, whose calibration
\* succeeded, is within the range of the statistics, and the average it divides
\* by never exceeds the best score.
FactorInRange ==
  pc = "fuzz" => /\ min_prox_score <= prox_score[queue_cur]
                 /\ prox_score[queue_cur] <= max_prox_score
                 /\ avg_prox_score <= max_prox_score

\* The entries whose score counts.
Calibrated == {e \in Elements(queue) : cal_failed[e] = 0}

\* One unit for every point an entry of C scores: as many as the sum of the scores.
ScoreUnits(C, score) == UNION {{e} \X (1 .. score[e]) : e \in C}

\* low and high are the least and the greatest score of the entries of C.
IsScoreRange(C, score, low, high) ==
  /\ \A e \in C : low <= score[e] /\ score[e] <= high
  /\ \E e \in C : score[e] = low
  /\ \E e \in C : score[e] = high

\* The running statistics of calibrate_case() are the sum, the minimum and the
\* maximum of the scores of the calibrated entries, although scores are updated
\* in place and calibrations fail and are repeated.
ScoreStatsExact ==
  pc \in LoopPhase =>
    /\ total_prox_score = Cardinality(ScoreUnits(Calibrated, prox_score))
    /\ Calibrated # {} =>
         IsScoreRange(Calibrated, prox_score, min_prox_score, max_prox_score)

\* No starvation: while the fuzzer runs, every entry of the list is handed to
\* fuzz_one() again and again, however many better ones arrive.
EveryEntryHandled ==
  \A e \in Entries :
    (pc \in LoopPhase /\ e < queued_paths) ~> (queue_cur = e \/ stop_soon)

=============================================================================
