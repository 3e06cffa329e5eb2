# A TLA+ model of DAFL's fuzzer

DAFL is a directed grey-box fuzzer: AFL whose seed queue is ordered by how close
an execution comes to a target, measured on a slice of the program's data-flow
graph that the static analyser Sparrow computes. This directory holds TLA+
models of the fuzzer (`src/DAFL`), the TLC configurations that check them on
small instances, and TLAPS proofs that hold for instances of every size.

## The system

| Component | State | Operations | What makes it correct |
|---|---|---|---|
| Seed queue and main loop (`afl-fuzz.c`) | linked list sorted by `prox_score`, `queue_cur`, `first_unhandled`, `handled_in_cycle` flags, `shortcut_per_100`, running score statistics | `add_to_queue`, `sorted_insert_to_queue`, `sort_queue`, `perform_dry_run`, `calibrate_case`, the loop of `main`, splicing, imports | nothing is lost or passed over in a cycle, the best unhandled entry comes first, nothing starves, a drawn index is found |
| Favoured entries (`afl-fuzz.c`) | `top_rated[]`, `tc_ref`, `trace_mini`, `favored`, `score_changed`, pending counters | `update_bitmap_score`, `cull_queue`, `trim_case`, `abandon_entry` | reference counts exact, no freed trace used, favoured entries cover all bytes, unsigned counters do not wrap |
| Running the target (`afl-fuzz.c`, `llvm_mode/afl-llvm-rt.o.c`, `afl-as.h`, `qemu_mode`) | two pipes, `child_pid`, timer, `child_timed_out`, the server's `child_stopped` and `was_killed`, the child, QEMU's code caches | `init_forkserver`, `run_target`, `handle_timeout`, `handle_stop_sig`, the servers' loops, `__afl_persistent_loop`, `afl_wait_tsl` | every call returns with the outcome of its own run, the maps are those of that run, no process leaks |
| Instrumentation (`afl-llvm-pass.so.cc`, `afl-as`, `qemu_mode`) | the DFG node map, locations and nodes of blocks, `prev_loc` | module pass, trampolines, `afl_maybe_log` | the maps hold the documented hit counts, every DFG node has its own word |
| Coverage and proximity (`afl-fuzz.c`) | `trace_bits`, `dfg_bits`, `virgin_*`, `fuzz_bitmap` | `classify_counts`, `has_new_bits`, `simplify_trace`, `compute_proximity_score`, `calibrate_case`, `save_if_interesting` | no coverage is lost or counted twice, faults are kept exactly if unique, scores are those of one execution |
| Mutation stages (`afl-fuzz.c`) | buffers, effector map, stage counters | `fuzz_one`, `could_be_*`, `choose_block_len`, `calculate_score` | no stage leaves out what no other one tries, buffers are sound, the call returns |
| Dictionaries (`afl-fuzz.c`) | `extras`, `a_extras`, `auto_changed`, files | `maybe_add_auto`, `save_auto`, `load_auto`, `load_extras` | the files are current, only rare tokens make way |
| Session directory (`afl-fuzz.c`) | `queue/`, `_resume/`, `.state/` | `save_if_interesting`, `trim_case`, `maybe_delete_out_dir`, `setup_dirs_fds`, `read_testcases`, `pivot_inputs`, `nuke_resume_dir` | a killed session comes back with its cases, their numbers and their marks |
| Synchronisation of instances | `.synced/<id>` counters | `sync_fuzzers` | every case of a peer is looked at once |
| `afl-tmin`, `afl-analyze`, `trim_case` | the input and a modified copy | the passes of `minimize`, `analyze`, `dump_hex` | what is written does what the input did and cannot be made smaller; the report is about the input |
| Sparrow, scripts, `smake`, preload libraries, status screen | | | not modelled, see the end |

The components interact by calls within one process (queue, favoured set, maps,
stages, dictionaries, session directory), over pipes, signals and shared memory
(afl-fuzz, server, child), and through files (resumed sessions and other
instances). The hard behaviours are: insertions into a list that is being walked,
in-place updates of the sort key, failed and repeated calibrations, flaky targets,
a timer that races with the end of a run, Ctrl-C at any point, a process that dies
between two file operations, values skipped because another stage is believed to
have tried them, and buffers that change their size and owner. They are listed with
their lines under `hazards` in `PROJECT.json`.

## Modules

| Module | Models | Extends |
|---|---|---|
| `SeedQueue` | the sorted queue and the scheduling loop | |
| `FavoredSet` | `top_rated[]`, culling and the pending counters | |
| `TargetRunner` | what `run_target` promises to the rest of afl-fuzz (abstract) | |
| `ForkServer` | afl-fuzz, the server, the child, timer and signals; implements `TargetRunner` | |
| `SessionResume` | the files of a session and the in-place resume | |
| `FuzzerSync` | an instance that imports the cases of another | `SessionResume`, which is the other one |
| `Words` | bytes and words of a scaled-down width | |
| `Dictionary` | user tokens and learnt tokens | `Words` |
| `DetStages` | the deterministic stages of `fuzz_one` | `Dictionary`, whose `maybe_add_auto` it calls |
| `FuzzOne` | one call of `fuzz_one`: score, deterministic stages, havoc, splicing | `DetStages` |
| `HitCounts` | the classes of hit counts | |
| `Tracing` | how a target is instrumented and what an execution leaves in the maps | |
| `CoverageMap` | what afl-fuzz makes of the maps | `Tracing`, `HitCounts` |
| `Minimize` | `afl-tmin`, `trim_case` and `afl-analyze` | `HitCounts` |
| `SeedQueueProofs`, `FavoredSetProofs`, `ForkServerProofs`, `DictionaryProofs`, `CoverageMapProofs`, `MinimizeProofs` | theorems about the module, with proofs | the module and `TLAPS` |
| `FuzzerSyncProofs` | theorems about `SessionResume`, then about `FuzzerSync` | `FuzzerSync` and `TLAPS` |
| `FuzzOneProofs` | theorems about `DetStages` and `FuzzOne` | `FuzzOne`, `DictionaryProofs` |
| `MC...` | values for the constants | |

Definitions named `<operation>_<what is wrong>` are mutants: plausible mistakes in
the operation that stands next to them, each of which makes TLC refute the property
that `PROJECT.json` pairs it with. No specification uses them.

### SeedQueue

A queue entry is its `entry_id`; the linked list is a sequence. `pc` says where
the process is: `read` (read_testcases), `dry_run` / `stopped_dry_run`
(perform_dry_run), `sort` (sort_queue), `loop` (main is about to use queue_cur),
`calibrate`, `fuzz` (fuzz_one), `import` / `sync` (sync_fuzzers), `advance` (main
chooses the next entry), `done`.

* `sorted_insert_to_queue` inserts in front of the first entry with a lower
  score, sets `first_unhandled` to the first entry of the new list that is not
  handled, and rebuilds the shortcuts; the special case of an empty list touches
  neither, as in the code.
* `save_if_interesting` queues an entry under the score of its first execution,
  then calibrates it in place. `Rescore` says what the second score may be: the
  same one if `Deterministic`, else any.
* Failed calibrations (timeouts, Ctrl-C in the middle) leave the statistics alone
  and count up `cal_failed`; a failing seed ends the process or, with
  `SkipBadSeeds`, gets `CalChances` failures at once.
* `recalibrate` is the part of `fuzz_one` that retries, at most `CalChances`
  times, and abandons the entry even if a retry succeeds without new coverage.
* `splice` draws an index and walks from a shortcut. `Step` and `Slots` stand for
  the 100 and 1024 of the code, and the arithmetic beyond the last slot is modulo
  `Wrap`.
* `handle_stop_sig` can set `stop_soon` at every step.

What the target does with an input is nondeterministic, and so are the
probabilities with which `fuzz_one` skips entries.

### FavoredSet

A trace is the set of bytes of the map it hits; a cost stands for
`exec_us * len`. `update_bitmap_score` and `cull_queue` are loops with one action
per byte, so that a self-replacement (`win_byte` of a byte the entry already
holds) and the state between two bytes are visible. `Flaky` entries may show a
different trace whenever they run: `trace_mini` then differs from the trace the
entry competes with. Which entry `fuzz_one` gets is left open, so that the result
does not depend on the scheduler. The dumb mode (-n) and the crash exploration
mode (-C) are left out, and so are stops, which only end the behaviour earlier.

### TargetRunner and ForkServer

`TargetRunner` is what the callers of `run_target` rely on: a call is one run of
the target, it returns the verdict on how that run ended, and it does return.
`ForkServer` is how the code does it, and `ImplementsRunner` is the refinement, with
the mapping in the `INSTANCE` called `Runner` at the end of the module.

Three processes, pipes and two signals. `fpc` walks through `init_forkserver` and
`run_target` one system call at a time; `spc` does the same for the loop of the
server. The `flavour` of a behaviour is one of the servers in the code: the LLVM
runtime, with or without the persistent loop, the 32-bit and the 64-bit payload of
`afl-as`, and QEMU, which additionally reads translation requests of its child
until the pipe is closed; or `direct`, in which afl-fuzz forks, executes and waits
itself (`AFL_NO_FORKSRV`). The child may run for ever, stop itself, exit or crash.
`handle_timeout` can fire whenever the timer runs, including the moments between the
last read and the disarming, and decides by `child_pid`; `handle_stop_sig` can fire
anywhere, and afl-fuzz itself can be killed. Pids are reused as soon as a zombie is
waited for. `maps` is what the shared memory holds, each hit with the run it is from
and whether it is from inside the persistent loop. Failing `fork()` calls, a
persistent target without a server, and the reasons printed for a server that does
not come up are left out.

### SessionResume

A file name is its number. The directories are records with the files, the
`deterministic_done` marks and the existence of `.state`, because `rename()` onto
an existing directory succeeds exactly if it is empty. Every system call that
matters is an action, and `crash` may happen between any two. The history
variables `found`, `det_done` and `lost` serve the properties only. A single
`write()` is atomic; `crashes/` and `hangs/`, which are renamed as a whole, are left
out. The model starts after the first import, since the user still has the original
seeds before it. `SkipDet` stands for -d and -S, under which no entry is ever marked.

### FuzzerSync

The composition of `SessionResume` with an importer. The importer's actions are
`open_queue` (opendir and reading the counter), `next_case` (one readdir),
`import_case` (open, fstat, execute), `end_scan` (write the counter) and
`stop_scan` (the early return at a stop, or the death of the importer). A step of
the exporting instance is `other_instance`: any action of `SessionResume`, plus what
it does to the directory the importer has open. `dirp` follows that directory when
it is renamed, while `import_case` looks a name up in whatever `queue/` is by then.
`steady` are the names that readdir must still return: those that were there all the
time. `quiet`, `excused` and `imported` are history. What an imported case does to
the importer's own queue is part of `SeedQueue` (`import_case` there).

### Dictionary

A token is a sequence of bytes. `maybe_add_auto` rejects runs of one byte,
interesting values and user tokens, counts a known token or takes in a new one,
evicting one of the lower half if the table is full, and sorts; `qsort` is not
stable, so every order that the comparison admits is possible (`Sorts`, chosen among
all `Rearrangements`). `save_auto` writes
the first `USE_AUTO_EXTRAS` tokens over the files of before; the process may die
anywhere, in the middle of `save_auto` too (`die_saving`: one file is empty then),
and the next one loads what it finds through the same `maybe_add_auto`. A line of a
dictionary file is reduced to the token it yields or the error it is.

### DetStages and FuzzOne

Bytes have `ByteBits` bits, and the interesting values and `ARITH_MAX` are scaled
with them, so that words of one, two and four bytes stay small but keep their byte
order, carries and signs. `turn` is one turn of the outer loop of a stage; what it
executes goes to the history variable `executed`. The effector map is built from the
checksums that `flip8` sees, which are a nondeterministic choice, as is every
checksum of `flip1`, from which `collect_token` isolates tokens. The havoc stage
abstracts contents away: the model keeps lengths, the capacity of `out_buf`, which
bytes an operation touches (`out_of_bounds`), and for every buffer how often it is
allocated (`heap`). The operator `^` of C on bytes is a constant operator `XOR`, which the
run makes the bitwise one, so that the module stays within reach of the prover;
`XorAssumption` says what the stages rely on (it is associative, undoes itself, and sets
a bit that was clear), and `XorWords` applies it byte by byte. Random numbers are nondeterministic within the range of `UR()`.
Any execution may abandon the entry. `calculate_score` and `calculate_factor` are
over exact ratios, so the effects of rounding are not covered. `DetAssumption` has
what the collection of tokens relies on (a token has more than one byte),
`HavocAssumption` that the bounds of the blocks are in order.

### Tracing and CoverageMap

`Tracing` has the three compilers: the LLVM pass with the DFG file and the selection
of functions, afl-as with its trampolines, QEMU with its range of instrumented code;
and the three instruction sequences that store a hit. The exclusive or of the code is a
constant operator `XOR` of which only what the instrumentation relies on is assumed
(`XorAssumption`); the run gives it the bitwise one. An execution is a path of blocks, each entered a number of times. `CoverageMap` first reads the DFG file
line by line and compiles the blocks, then executes inputs. An input is the set of
the outcomes it may have, so a flaky target has several. An execution is judged as
`common_fuzz_stuff` and `save_if_interesting` do it: queued and calibrated, saved as a
crash or a hang after the re-run with the generous timeout, or dropped; maps are
compared a machine word at a time. `write_bitmap` and `read_bitmap` carry the map to a
further session (-B). Left out: Ctrl-C during a calibration (in `SeedQueue`), and
`prev_loc` of a deferred fork server.

### Minimize

A job is a tool, a target and an input; `Outcome` says what a target does with any
input, `TraceOf` and `KindOf` are the parts of it that the tools look at. Signatures are the classified and masked traces that the tools compare.
`afl-tmin` is followed pass by pass and block by block (`normalize_block`,
`delete_block`, `minimize_symbol`, `minimize_character`), `trim_case` chunk by chunk,
`afl-analyze` byte by byte and then section by section. Each execution may be the
last (Ctrl-C).

## Runs

| Run | Result | What it shows |
|---|---|---|
| `seed_queue_directed` | pass | with a deterministic target the best unhandled entry is always next and no entry starves |
| `seed_queue_flaky` | pass | with arbitrary rescoring: nothing lost, cycles complete, splicing arrives where it should, statistics exact, repeats confined to the first cycle |
| `favored_set` | pass | reference counts, cheapest winners, cover, counters |
| `fork_server` | pass | all servers and none: refinement of `TargetRunner`, maps of this run only, one child, QEMU's translations mirrored |
| `session_resume` | pass | three kills at any point lose only cases that were being trimmed or were missing from a half-deleted `_resume/`; numbers and marks stay right; the resume completes |
| `session_resume_aborted` | violation | a half-deleted `_resume/` is preferred over the complete `queue/`, which is deleted |
| `fuzzer_sync` | pass | what the counter has passed was executed, unless the exporter changed files during that very scan; nothing is executed twice unless a scan was cut short |
| `fuzzer_sync_missed` | violation | a case that is being trimmed, created or moved when it is looked at is passed for good |
| `dictionary` | pass | files current, tokens new, only rare ones evicted, across processes |
| `fuzz_one` | pass | every deterministic variant tried or tried before, counters and tokens exact, buffers sound, the call returns |
| `coverage_map` | pass | traces, nodes, scores, virgin maps, novelty and unique faults, across builds and sessions |
| `minimize` | pass | outcomes kept, results 1-minimal, analysis exact, the tools end |

### Bounds

* Queue: two seeds and up to two finds with two scores are enough for ties, for
  insertions at the head, before, at and after the cursor, and at the end; `Step`
  and `Slots` are such that several slots are in use and the list reaches the
  last one. `MaxCycle = 2` separates the first cycle from the later ones, and
  `queue_cycle` saturates there instead of stopping. `CalChances` is 2 (3 in the
  code), which still has a first, a last and no further try.
* Favoured set: three entries, two bytes, two costs, and one flaky entry; the
  smallest map on which an entry can win one byte and lose another, and on which
  the flaky entry is counted twice.
* Fork server: two pids, so that a leak of one process shows; two blocks to translate
  through a pipe that holds one request, so that the child blocks; a persistent loop
  of three turns, so that there is a first, a middle and a last one. The number of
  runs is not bounded.
* Session: three cases of which two are seeds, three kills: one to start a resume,
  one inside it, one inside the resume after that.
* Synchronisation: one seed and two finds, so that two files can appear during one
  scan; one kill of the exporter and one stop of the importer, in any order. The
  marks of the deterministic stages are switched off (`SkipDet`), they do not touch
  the files.
* Dictionary: a table of four of which two are in use, five learnt tokens (one more
  than fit) over two processes, with tokens that differ in case and in length only.
* Stages: five-bit bytes and `ARITH_MAX = 4`; inputs of up to seven bytes, so that
  there are several words of each size, effector blocks of two bytes, and carries
  through whole words; two tweaks per execution and two finds.
* Coverage: three blocks in two files, a map of eight bytes in words of two, two
  locations, so that tuples collide and a word holds both new and known bytes; a
  counter that wraps around; DFG files with as many lines as the map has words, and
  one more; three executions and two sessions.
* Minimising: inputs of up to seven bytes on six targets that depend on length,
  order, counts or prefixes, among them ones that hang, crash without a trace, and
  need one symbol only as long as another is there.

### Fairness

* `SeedQueue!FairSpec`: weak fairness of the steps of the process, without `find_new`,
  `splice` and `import_case`: `fuzz_one` and `sync_fuzzers` execute a finite number of
  inputs and return, whatever they find; for `fuzz_one` this is `FuzzOneReturns`. The
  number of entries is bounded by the model, as it is bounded by memory in the code.
* `ForkServer!FairSpec`: afl-fuzz and the server are scheduled, and a running timer
  expires. Nothing is assumed of the child.
* `SessionResume!FairSpec`: the user starts the process again and it runs; kills are
  finite in number.
* `FuzzOne!Spec`, `Minimize!Spec`: a sequential program takes its next step; that an
  execution of the target returns is part of `ImplementsRunner`.

## Findings and known limits

Two runs refute what a comment or a document says of the code: `session_resume_aborted`
and `fuzzer_sync_missed` (see `findings` in `PROJECT.json`). The models also reproduce
the following, which the properties are careful not to rule out:

* `sort_queue` leaves `first_unhandled` at the head of the list, so that the first
  cycle hands the head to `fuzz_one` twice; hence `NoRepeatAfterFirstCycle`.
* Beyond the last of the 1024 shortcuts (102400 entries) the index computation of the
  splicing stage wraps around; hence the assumption of `SpliceCorrect`, and `Slots` in
  the run.
* A repeated calibration that succeeds returns `FAULT_NOBITS`, which `fuzz_one` takes
  for a failure: the entry is marked as fuzzed without having been fuzzed.
* Ctrl-C between the server's `fork()` and the moment afl-fuzz has read the pid leaves
  the new child running without a timer.
* A flip of two or four adjacent bits across a byte border is taken for tried by
  `could_be_bitflip`, which counts bits from the other end than `FLIP_BIT`; and with
  `AFL_NO_ARITH` the values that arithmetic would have produced are still skipped
  (`TakenForTried` in `DetStages`).
* The tokens of the last session are lost if the process dies between `pivot_inputs`,
  which removes `_resume/`, and the next `save_auto`.

## Proofs

All theorems hold for every value of the constants that satisfies the assumptions
stated in the modules (`ConstantsAssumption` and the like): numbers are natural, sets
of model values do not overlap, a word divides the map. They bound neither the number
of entries, cases, kills or processes nor the sizes of maps, tables and inputs. Two
theorems have a hypothesis of their own, named below. Every inductive invariant was
checked with TLC on the bounds above before it was proved.

`SeedQueueProofs`. The inductive invariant `IInv` is the conjunction of `TypeOK`;
`ListInv` (the list and the rest of a re-sort hold every entry once, and the part
already re-inserted is disjoint from the rest); `ShortcutInv` (slots are exact, also
for the partial list of `sort_queue`); `CursorInv` (where `queue_cur` and
`first_unhandled` may point in each phase); `BehindCursorHandled`; and
`CycleComplete`. The properties are not inductive by themselves: that everything in
front of the cursor is handled relies on `first_unhandled` being in the list, which
relies on no entry being lost. The central lemmas are about `InsertAt`: the elements
and the order of the list after an insertion. Three further invariants rest on `IInv`:
`RepeatInv` (from the second cycle on `first_unhandled` is what it says, and it is used
up when `main` hands an entry to `fuzz_one`), `OrderInv` (the list, and what
`sort_queue` has rebuilt of it, is sorted) and `StatsInv` (the extremes bound the scores
of the counted entries, and the sum is the number of their units: the pairs of an entry
and a number below its score, which is how a sum over a set is stated without a
recursion). The theorems are

* `TypeCorrect`, `ListCorrect` (`NothingLost`), `CycleCorrect`
  (`BehindCursorHandled`, `CycleComplete`), `ShortcutsCorrect`;
* `SpliceCorrect`: `SpliceLookupExact` under `MaxEntries <= Step * Slots`;
* `RepeatCorrect` (`NoRepeatAfterFirstCycle`), `FactorCorrect` (`FactorInRange`),
  `StatsCorrect` (`ScoreStatsExact`);
* `OrderCorrect`: `BestUnhandledFirst` under `Deterministic`. Otherwise a calibration
  changes a score in place and the list is not sorted any more.

`FavoredSetProofs`. `IInv` adds to `TypeOK`, `RefCountExact`, `TraceKept`,
`PendingNotFuzzedExact` and `PendingNoUnderflow` two parts: `CursorInv` (where
`queue_cur` points in each phase, also while `update_bitmap_score` runs on its behalf,
and whether that entry is calibrated there) and `EntryInv` (only queued entries are
marked as fuzzed, and a calibrated entry has a trace). The reference counts are
cardinalities, so that each replacement of a winner adds and removes one element of a
set, a self-replacement included. `CoverCorrect` needs a second invariant, `CullInv`:
in the course of `cull_queue` the bytes that were already passed, and those cleared
from `temp_v`, are covered by the favoured entries. `CheapestCorrect` needs
`WinnerInv` (winners have competed, and so has the entry `update_bitmap_score` is about,
with its trace) and `CheapestInv` (every entry that has competed is matched by the
winner of each of its bytes, in the course of `update_bitmap_score` of the bytes it has
passed). From these follow `TypeCorrect`,
`RefCountCorrect` (`RefCountExact`, `TraceKept`), `PendingCorrect`
(`PendingNotFuzzedExact`, `PendingNoUnderflow`), `CoverCorrect` (`FavoredCover`) and
`CheapestCorrect` (`TopRatedIsCheapest`).

`ForkServerProofs`. `ControlInv` relates the program counters of afl-fuzz, the server
and the child with the pipes, the flags and the timer: what each process believes of
the others (`ServerKnows`, `StopReported`), where the protocol stands (`Protocol`,
`Begun`), who may be dead (`Deaths`), when the timer may run (`TimerRuns`), and the
same for the direct mode. `Hits` says whose hits the shared memory may hold,
`Translations` that what QEMU's server has still to translate is in the pipe, and
`Timing` that a kill by the timer is one of this run and that afl-fuzz knows of it.
From `IInv`, their conjunction: `TypeCorrect`, `OneChildCorrect`, `TraceCorrect`
(`TraceOfThisRun`), `TranslationsCorrect` (`TranslationsMirrored`), and
`RunnerCorrect`: every step of `ForkServer` is a step of `TargetRunner` or a stutter.
The last one is the safety part of the refinement; that calls return is left to the run.

`FuzzerSyncProofs`, first part: `SessionResume`. `IInv` says for each stage of a resume what is in `queue/` and
`_resume/` (`QueueFiles`, `ResumeDir`, `ReadSoFar`), where the cases are that must not
get lost (`KeptInv`: in `_resume/` if that cannot be replaced, else in `queue/`), that
files hold saved cases only (`SavedInv`), that marks are deserved (`DetInv`) and that
numbers have no gaps (`NumberInv`). The properties only speak of a running session, so
none of them is inductive. Theorems: `TypeCorrect`, `CasesSurviveCorrect`,
`NumbersCorrect` (`NumbersKept`), `DetCorrect` (`DetDoneSound`).

Second part: `FuzzerSync`. `SyncInv` is `IInv` of the exporting instance and what the scan
knows of it: `ScanInv`, `ImportedInv`, `QuietInv` (as long as the directory was left
alone, what has not been returned is still to come), `CoveredInv` and `OnceInv`.
Theorems: `PassedCorrect` (`PassedMeansExecuted`) and `ExecutedOnceCorrect`, an action
property.

`DictionaryProofs`. `DictInv` has the types, `TablesInv` (both tables are sorted the
way their searches rely on) and `FilesInv` (no file is there before
the first save, and never more files than tokens in use). Theorems: `FilesCorrect` (`AutoFilesCurrent`) and the action
properties `NewTokensCorrect` and `EvictionCorrect`.

`CoverageMapProofs`. The lemmas come first: `HasNewBits` (word by word or all at once,
the comparison of two maps has the same result), `StoresAgree` (the code sequences of
the LLVM pass and of both trampolines do the same), and that executions yield maps of
bytes. Then a chain of invariants, each of which uses the ones before: `BuildInv`,
`NodesRead` and `NodesCompiled` (the progress of the compiler, and that blocks hold the
nodes of their keys); `MapInv` and `CalInv` (the virgin map and its file are what the
histories have left, and the first trace of a calibration was examined); `NoveltyInv`
(entries are marked as they deserve, the one in calibration except for what the
calibration has found but not recorded yet); `FaultInv` (what a log of simplified
traces leaves of a virgin map). Two further ones are about what an execution leaves.
`TraceInv` rests on an induction along the path of blocks (`MapsAfter`): after each
block the trace holds, modulo the size of a counter, the number of times the tuples of
each byte were taken, and a node's word says whether its block was entered. `ScoreInv` compares sums:
the units of `dfg_bits` are in bijection with those that the definition of proximity
counts, which needs that a node's word is its own (`NodesCompiled`) and that the score
of a node is the one of the last line with its key (`NodeSet`). Theorems: `NodesCorrect`
(`NodesInRange`), `VirginCorrect`, `NoveltyCorrect`, `FaultsCorrect`, `TracesCorrect`
(`TraceExact`), `ScoresCorrect` (`ProximityExact`).

`MinimizeProofs`. `ToolInv` (what the tools have in common), `TminInv` and `TrimInv`
(what the tool knows of the original, and that the input it holds, and what it has
written or would write, behaves like it), `MinimalInv` (which bytes the last pass has shown to be
needed; a block that repeats the one before it need not be tried, because leaving out
either gives the same input). The block sizes need lemmas on powers of two. For
`afl-analyze`, `BytesInv` says what is known of the bytes examined so far, and
`ReportInv` that the sections reported so far are those of the input. Theorems:
`OutcomeCorrect` (`OutcomeKept`), `MinimalCorrect` (`OneMinimal`) and `AnalysisCorrect`
(`AnalysisExact`).

`FuzzOneProofs`. The invariants are chained: `InputInv` and `LengthInv` (types, and how
the lengths of the buffers are related in each phase), `HeapInv` (which buffers are
allocated in each phase), `RestoredInv` (a stage finds the buffer as the input is,
although the stages of the dictionaries restore it only at the end of a turn),
`CountInv` (what a stage has counted, and what it has still to count on, add up),
`TokenInv` (the string being collected is the run of equal checksums that ends here,
and the runs that ended before it were passed on), `TriedInv` (which tokens were tried
at the positions done so far). The lemma behind the last one, `OverwritesCorrect`, is
about a loop that writes one token over the other: tokens are sorted by length, so a
token hides all of the ones before it. `ValuesInv` says that each turn a stage has
taken has run what it should: all values of a word that are worth it, and in the bit and
byte flips all but the words that touch no flagged block. At the end of the stages this
gives `AllRun`, and what remains is arithmetic: `Decided` holds of an input that has
been run, that changes no flagged block, or that `TakenForTried` names, and for every
value that a stage leaves out the input it would make is decided. `FlipDecided` is the
case of `could_be_bitflip()`: a difference it accepts is a walking bit, pair or nibble,
which may lie across two bytes, or one, two or four whole bytes. Where an addition to a word does not
carry into its upper half, the narrower stage has run the same value on that half;
`NearDecided` is the case of `could_be_arith()`, on either byte order, and
`InsertDecided` that of `could_be_interest()`. They rest on lemmas on the bytes of a
word, swapping, carries and borrows for any number of bits in a byte from four up.
Theorems: `BuffersCorrect` (`BuffersSound`), `CountsCorrect` (`StageCountsExact`),
`TokensCorrect` (`TokensExact`), `DetCorrect` (`DetComplete`), and `DictionaryComplete`,
its half that is about the dictionaries (`TokensTried`).

Only model-checked: the liveness properties `EveryEntryHandled`, `FuzzOneReturns`,
`MinimizeEnds`, `ResumeCompletes` and that of the refinement of `TargetRunner` (the
prover does not handle fairness).

## Plan

The models are complete as far as planned, and every safety property that a run checks
is proved. What is left is liveness, which the installed provers do not reach.

## Not modelled

* Status screen and statistics files: output only.
* `afl-showmap` and `afl-gotcpu`: one execution and its output; no state that a later
  step depends on.
* Where `afl-as` finds the places to instrument (`add_instrumentation` is text
  processing; the code it inserts is modelled), and the compiler wrappers.
* Floating-point rounding in the performance score.
* libdislocator and libtokencap, which the framework does not use.
* Sparrow: the abstract interpreter is out of reach of a model checker, and the slicer
  is an off-line computation whose result, the DFG file, is an input of `CoverageMap`.
* The experiment scripts and `smake`: pure I/O.
