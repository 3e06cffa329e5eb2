--------------------------- MODULE FavoredSetProofs ---------------------------
(***************************************************************************)
(* Proofs about FavoredSet, for every size of the map and of the queue and *)
(* every behaviour of the target: reference counts are exact, no freed     *)
(* trace is used, the unsigned counters of the pending entries never wrap  *)
(* around, the favoured entries are a cover, and the winners are cheapest. *)
(***************************************************************************)
EXTENDS FavoredSet, FiniteSetTheorems, TLAPS

\* The process is at label l or returns to it from update_bitmap_score().
At(l) == pc = l \/ (pc = "update" /\ ret = l)

\* Where the process is, queue_cur is an entry it may work on.
CursorInv ==
  /\ At("dry_run") => queue_cur \in 0 .. queued_paths
  /\ \A l \in {"calibrate", "trim", "fuzz", "abandon", "finish"} :
        At(l) => queue_cur \in Queued
  /\ At("trim") => cal_failed[queue_cur] = 0
  /\ pc = "calibrate" => cal_failed[queue_cur] > 0

\* Entries are fuzzed and favoured after they are queued; those calibrated have
\* a trace.
EntryInv ==
  /\ was_fuzzed \subseteq Queued
  /\ \A e \in Queued : (cal_failed[e] = 0 /\ exec_trace[e] = NULL) =>
        pc = "read" \/ (At("dry_run") /\ e >= queue_cur)

\* The inductive invariant.
IInv == /\ TypeOK /\ CursorInv /\ EntryInv
        /\ RefCountExact /\ TraceKept
        /\ PendingNotFuzzedExact /\ PendingNoUnderflow

-----------------------------------------------------------------------------
(* Finite sets.                                                            *)

\* Sets of bytes and of entries are finite.
LEMMA Finite ==
  /\ \A S \in SUBSET Bytes : IsFiniteSet(S) /\ Cardinality(S) \in Nat
  /\ \A S \in SUBSET Entries : IsFiniteSet(S) /\ Cardinality(S) \in Nat
<1>1. IsFiniteSet(Bytes) /\ IsFiniteSet(Entries)
  BY FS_Interval, ConstantsAssumption DEF Bytes, Entries
<1>2. QED
  BY <1>1, FS_Subset, FS_CardinalityType

\* What adding or removing one element does to the number of elements.
LEMMA AddRemove ==
  ASSUME NEW S, S \subseteq Bytes \/ S \subseteq Entries, NEW x
  PROVE  /\ x \in S => Cardinality(S \cup {x}) = Cardinality(S)
         /\ x \notin S => Cardinality(S \cup {x}) = Cardinality(S) + 1
         /\ x \in S => Cardinality(S \ {x}) = Cardinality(S) - 1
         /\ x \notin S => Cardinality(S \ {x}) = Cardinality(S)
         /\ Cardinality(S) = 0 <=> S = {}
         /\ Cardinality(S) \in Nat
BY Finite, FS_AddElement, FS_RemoveElement, FS_EmptySet

-----------------------------------------------------------------------------
(* The initial states.                                                     *)

LEMMA InitIInv == Init => IInv
<1> SUFFICES ASSUME Init PROVE IInv
  OBVIOUS
<1> USE ConstantsAssumption DEF Init
<1>1. TypeOK
  <2>1. 0 \in Entries /\ 1 \in Costs /\ {} \in SUBSET Bytes
    BY DEF Entries, Costs
  <2>2. /\ cal_failed \in [Entries -> 0 .. CalChances]
        /\ cost \in [Entries -> Costs]
        /\ exec_trace \in [Entries -> (SUBSET Bytes) \cup {NULL}]
        /\ top_rated \in [Bytes -> Entries \cup {NULL}]
        /\ tc_ref \in [Entries -> Nat]
        /\ trace_mini \in [Entries -> (SUBSET Bytes) \cup {NULL}]
    BY <2>1
  <2>3. i \in 0 .. NumBytes /\ queued_paths \in 0 .. MaxEntries
    OBVIOUS
  <2>4. QED
    BY <2>1, <2>2, <2>3 DEF TypeOK, Labels
<1>2. CursorInv /\ EntryInv
  BY DEF CursorInv, EntryInv, At, Queued
<1>3. \A e \in Entries : Won(e) = {}
  BY DEF Won, Entries
<1>4. RefCountExact /\ TraceKept
  BY <1>3, FS_EmptySet DEF RefCountExact, TraceKept
<1>5. PendingNotFuzzedExact /\ PendingNoUnderflow
  <2>1. Queued \ was_fuzzed = {} /\ favored \ was_fuzzed = {}
    BY DEF Queued
  <2>2. QED
    BY <2>1, FS_EmptySet DEF PendingNotFuzzedExact, PendingNoUnderflow
<1>6. QED
  BY <1>1, <1>2, <1>4, <1>5 DEF IInv

-----------------------------------------------------------------------------
(* update_bitmap_score().                                                  *)

\* A byte changes hands: it is taken away from every other entry and given to q.
LEMMA WonByWinning ==
  ASSUME TypeOK, win_byte
  PROVE  /\ i \in Bytes
         /\ \A e \in Entries : Won(e)' = IF e = q THEN Won(e) \cup {i} ELSE Won(e) \ {i}
BY ConstantsAssumption DEF TypeOK, win_byte, Won, Bytes

\* The reference counts follow the winners.
LEMMA WinKeepsRefCount ==
  ASSUME IInv, win_byte
  PROVE  RefCountExact' /\ tc_ref' \in [Entries -> Nat]
<1> DEFINE w == top_rated[i]
           dropped == IF w = NULL THEN tc_ref ELSE [tc_ref EXCEPT ![w] = @ - 1]
<1>1. /\ i \in Bytes /\ q \in Entries
      /\ w \in Entries \cup {NULL}
      /\ NULL \notin Entries
      /\ tc_ref \in [Entries -> Nat]
      /\ tc_ref' = [dropped EXCEPT ![q] = @ + 1]
  <2>1. i \in Bytes
    BY WonByWinning DEF IInv
  <2>2. NULL \notin Entries
    BY ConstantsAssumption DEF Entries
  <2>3. QED
    BY <2>1, <2>2 DEF IInv, TypeOK, win_byte
<1>2. \A e \in Entries : Won(e) \subseteq Bytes
  BY DEF Won
<1>3. \A e \in Entries : i \in Won(e) <=> w = e
  BY <1>1 DEF Won
<1>4. \A e \in Entries : tc_ref[e] = Cardinality(Won(e))
  BY DEF IInv, RefCountExact
<1>5. ASSUME NEW e \in Entries
      PROVE  tc_ref'[e] = Cardinality(Won(e)') /\ tc_ref'[e] \in Nat
  <2>1. Won(e)' = IF e = q THEN Won(e) \cup {i} ELSE Won(e) \ {i}
    BY WonByWinning DEF IInv
  <2>2. /\ Cardinality(Won(e) \cup {i}) = IF w = e THEN tc_ref[e] ELSE tc_ref[e] + 1
        /\ Cardinality(Won(e) \ {i}) = IF w = e THEN tc_ref[e] - 1 ELSE tc_ref[e]
        /\ w = e => tc_ref[e] > 0
    <3>1. /\ i \in Won(e) => Cardinality(Won(e) \cup {i}) = tc_ref[e]
          /\ i \notin Won(e) => Cardinality(Won(e) \cup {i}) = tc_ref[e] + 1
          /\ i \in Won(e) => Cardinality(Won(e) \ {i}) = tc_ref[e] - 1
          /\ i \notin Won(e) => Cardinality(Won(e) \ {i}) = tc_ref[e]
          /\ tc_ref[e] = 0 <=> Won(e) = {}
          /\ tc_ref[e] \in Nat
      <4>1. /\ i \in Won(e) => Cardinality(Won(e) \cup {i}) = Cardinality(Won(e))
            /\ i \notin Won(e) => Cardinality(Won(e) \cup {i}) = Cardinality(Won(e)) + 1
            /\ i \in Won(e) => Cardinality(Won(e) \ {i}) = Cardinality(Won(e)) - 1
            /\ i \notin Won(e) => Cardinality(Won(e) \ {i}) = Cardinality(Won(e))
            /\ Cardinality(Won(e)) = 0 <=> Won(e) = {}
            /\ Cardinality(Won(e)) \in Nat
        BY <1>2, AddRemove
      <4>2. QED
        BY <1>4, <4>1
    <3>2. w = e => Won(e) # {}
      BY <1>3
    <3>3. QED
      BY <1>3, <3>1, <3>2
  <2>3. tc_ref'[e] = IF e = q THEN dropped[e] + 1 ELSE dropped[e]
    BY <1>1
  <2>4. dropped[e] = IF w = e THEN tc_ref[e] - 1 ELSE tc_ref[e]
    BY <1>1
  <2>5. QED
    BY <1>1, <2>1, <2>2, <2>3, <2>4
<1>6. DOMAIN tc_ref' = Entries /\ tc_ref' = [e \in Entries |-> tc_ref'[e]]
  BY <1>1
<1>7. QED
  BY <1>5, <1>6 DEF RefCountExact

\* A winner has a trace, a loser of everything has none.
LEMMA WinKeepsTraces ==
  ASSUME IInv, win_byte
  PROVE  TraceKept' /\ trace_mini' \in [Entries -> (SUBSET Bytes) \cup {NULL}]
<1> DEFINE w == top_rated[i]
           dropped == IF w = NULL THEN tc_ref ELSE [tc_ref EXCEPT ![w] = @ - 1]
           kept == IF w # NULL /\ dropped[w] = 0
                   THEN [trace_mini EXCEPT ![w] = NULL] ELSE trace_mini
<1>1. /\ i \in Bytes /\ q \in Entries
      /\ w \in Entries \cup {NULL}
      /\ NULL \notin Entries
      /\ trace_bits \in SUBSET Bytes /\ trace_bits # NULL
      /\ tc_ref \in [Entries -> Nat]
      /\ trace_mini \in [Entries -> (SUBSET Bytes) \cup {NULL}]
      /\ trace_mini' = IF kept[q] = NULL THEN [kept EXCEPT ![q] = trace_bits] ELSE kept
  <2>1. i \in Bytes
    BY WonByWinning DEF IInv
  <2>2. NULL \notin Entries /\ \A t \in SUBSET Bytes : t # NULL
    BY ConstantsAssumption DEF Entries
  <2>3. QED
    BY <2>1, <2>2 DEF IInv, TypeOK, win_byte
<1>2. \A e \in Entries : /\ Won(e) \subseteq Bytes
                         /\ i \in Won(e) <=> w = e
                         /\ tc_ref[e] = Cardinality(Won(e))
                         /\ trace_mini[e] # NULL <=> Won(e) # {}
  BY <1>1 DEF Won, IInv, RefCountExact, TraceKept
<1>3. \A e \in Entries : Won(e)' = IF e = q THEN Won(e) \cup {i} ELSE Won(e) \ {i}
  BY WonByWinning DEF IInv
<1>4. kept \in [Entries -> (SUBSET Bytes) \cup {NULL}]
  BY <1>1
<1>5. \A e \in Entries : kept[e] = IF w = e /\ tc_ref[e] = 1 THEN NULL ELSE trace_mini[e]
  BY <1>1
<1>6. \A e \in Entries : trace_mini'[e] = IF e = q /\ kept[e] = NULL THEN trace_bits ELSE kept[e]
  BY <1>1, <1>4
<1>7. ASSUME NEW e \in Entries
      PROVE  trace_mini'[e] # NULL <=> Won(e)' # {}
  <2>1. CASE e = q
    BY <1>1, <1>3, <1>6, <2>1
  <2>2. CASE e # q /\ w = e
    <3>1. Won(e)' = Won(e) \ {i} /\ i \in Won(e)
      BY <1>2, <1>3, <2>2
    <3>2. tc_ref[e] = 1 <=> Won(e) \ {i} = {}
      <4>1. Won(e) \ {i} \subseteq Bytes
        BY <1>2
      <4>2. Cardinality(Won(e) \ {i}) = tc_ref[e] - 1
        <5>1. Cardinality(Won(e) \ {i}) = Cardinality(Won(e)) - 1
          BY <1>2, <3>1, AddRemove
        <5>2. QED
          BY <1>2, <5>1
      <4>3. Cardinality(Won(e) \ {i}) = 0 <=> Won(e) \ {i} = {}
        BY <4>1, AddRemove
      <4>4. QED
        BY <1>1, <4>2, <4>3
    <3>3. QED
      BY <1>2, <1>5, <1>6, <2>2, <3>1, <3>2
  <2>3. CASE e # q /\ w # e
    BY <1>2, <1>3, <1>5, <1>6, <2>3
  <2>4. QED
    BY <2>1, <2>2, <2>3
<1>8. QED
  BY <1>1, <1>4, <1>7 DEF TraceKept

-----------------------------------------------------------------------------
(* The inductive step, one conjunct of the invariant at a time.            *)

\* A trace is a set of bytes, never the null pointer.
LEMMA TracesAreSets ==
  /\ Traces \subseteq SUBSET Bytes
  /\ \A t \in Traces : t # NULL
BY ConstantsAssumption DEF Traces

\* What the actions that calibrate an entry may do with it.
LEMMA CalibrationTypes ==
  ASSUME TypeOK, NEW e \in Entries, NEW first \in Traces, NEW l,
         l \in {"dry_run", "abandon", "trim", "fuzz", "sync", "pick"},
         calibration_succeeds(e, first, l)
  PROVE  /\ pc' = "update" /\ ret' = l /\ i' = 0 /\ q' = e
         /\ trace_bits' \in SUBSET Bytes
         /\ cost' \in [Entries -> Costs]
         /\ cal_failed' \in [Entries -> 0 .. CalChances]
         /\ cal_failed' = [cal_failed EXCEPT ![e] = 0]
         /\ exec_trace' \in [Entries -> (SUBSET Bytes) \cup {NULL}]
         /\ exec_trace' = [exec_trace EXCEPT ![e] = first]
<1>1. PICK t \in Traces, c \in Costs : /\ cost' = [cost EXCEPT ![e] = c]
                                       /\ call_update(e, t, l)
  BY DEF calibration_succeeds
<1>2. 0 \in 0 .. CalChances
  BY ConstantsAssumption
<1>3. QED
  BY <1>1, <1>2, TracesAreSets DEF calibration_succeeds, call_update, TypeOK

\* Types are preserved.
LEMMA TypeStep ==
  ASSUME IInv, [Next]_vars
  PROVE  TypeOK'
<1> USE ConstantsAssumption DEF IInv
<1>1. CASE pass_byte
  BY <1>1 DEF TypeOK, pass_byte, entryVars, scoreVars, favVars, workVars
<1>2. CASE win_byte
  <2>1. tc_ref' \in [Entries -> Nat] /\ trace_mini' \in [Entries -> (SUBSET Bytes) \cup {NULL}]
    BY <1>2, WinKeepsRefCount, WinKeepsTraces
  <2>2. top_rated' \in [Bytes -> Entries \cup {NULL}]
    BY <1>2 DEF TypeOK, win_byte
  <2>3. QED
    BY <1>2, <2>1, <2>2 DEF TypeOK, win_byte, entryVars, favVars, workVars
<1>3. CASE end_update
  BY <1>3 DEF TypeOK, end_update, entryVars, scoreVars, favVars, workVars, Labels, Entries
<1>4. CASE read_testcase
  BY <1>4 DEF TypeOK, read_testcase, add_to_queue, loopVars, entryVars, scoreVars, favVars, workVars
<1>5. CASE begin_dry_run
  BY <1>5 DEF TypeOK, begin_dry_run, loopVars, entryVars, scoreVars, favVars, workVars, Labels
<1>6. CASE dry_run_seed
  <2>1. queue_cur \in Entries /\ queue_cur + 1 \in 0 .. MaxEntries
    BY <1>6 DEF CursorInv, At, TypeOK, dry_run_seed, Entries
  <2>2. CASE \E first \in Traces : calibration_succeeds(queue_cur, first, "dry_run")
    <3>1. PICK first \in Traces : calibration_succeeds(queue_cur, first, "dry_run")
      BY <2>2
    <3>2. QED
      BY <1>6, <2>1, <3>1, CalibrationTypes DEF TypeOK, dry_run_seed, scoreVars, favVars, workVars, Labels
  <2>3. CASE calibration_aborts(queue_cur, CalChances) /\ UNCHANGED <<pc, exec_trace>>
    <3>1. cal_failed' \in [Entries -> 0 .. CalChances]
      BY <2>1, <2>3 DEF TypeOK, calibration_aborts
    <3>2. QED
      BY <1>6, <2>1, <2>3, <3>1 DEF TypeOK, dry_run_seed, calibration_aborts, loopVars, scoreVars, favVars, workVars
  <2>4. QED
    BY <1>6, <2>2, <2>3 DEF dry_run_seed
<1>7. CASE end_dry_run
  BY <1>7 DEF TypeOK, end_dry_run, loopVars, entryVars, scoreVars, favVars, workVars, Labels
<1>8. CASE begin_cull
  <2>1. /\ pc' \in Labels /\ i' \in 0 .. NumBytes /\ temp_v' \subseteq Bytes
        /\ favored' \subseteq Entries
        /\ queued_favored' \in Nat /\ pending_favored' \in Nat
    BY <1>8 DEF begin_cull, Labels
  <2>2. score_changed' \in BOOLEAN
    BY <1>8 DEF begin_cull
  <2>3. QED
    BY <1>8, <2>1, <2>2 DEF TypeOK, begin_cull, entryVars
<1>9. CASE cull_byte
  <2>1. i \in Bytes /\ i + 1 \in 0 .. NumBytes
    BY <1>9 DEF TypeOK, cull_byte, Bytes
  <2>2. QED
    <3>1. /\ temp_v' \subseteq Bytes /\ favored' \subseteq Entries
      <4>1. CASE top_rated[i] # NULL /\ i \in temp_v
        <5>1. top_rated[i] \in Entries
          BY <2>1, <4>1 DEF TypeOK
        <5>2. temp_v' = temp_v \ trace_mini[top_rated[i]] /\ favored' = favored \cup {top_rated[i]}
          BY <1>9, <4>1 DEF cull_byte
        <5>3. QED
          BY <5>1, <5>2 DEF TypeOK
      <4>2. CASE ~(top_rated[i] # NULL /\ i \in temp_v)
        BY <1>9, <4>2 DEF TypeOK, cull_byte
      <4>3. QED
        BY <4>1, <4>2
    <3>2. queued_favored' \in Nat /\ pending_favored' \in Nat
      BY <1>9 DEF TypeOK, cull_byte
    <3>3. QED
      BY <1>9, <2>1, <3>1, <3>2 DEF TypeOK, cull_byte, entryVars, scoreVars
<1>10. CASE end_cull
  <2>1. Queued \ favored \subseteq Entries
    BY DEF TypeOK, Queued, Entries
  <2>2. QED
    BY <1>10, <2>1 DEF TypeOK, end_cull, entryVars, scoreVars, workVars, Labels
<1>11. CASE skip_cull
  BY <1>11 DEF TypeOK, skip_cull, loopVars, entryVars, scoreVars, favVars, workVars, Labels
<1>12. CASE pick
  BY <1>12 DEF TypeOK, pick, Queued, loopVars, entryVars, scoreVars, favVars, workVars, Labels
<1>13. CASE recalibrate
  <2>1. queue_cur \in Entries
    BY <1>13 DEF CursorInv, At, TypeOK, recalibrate, Entries, Queued
  <2>2. CASE \E first \in Traces : \E l \in {"abandon", "trim"} : calibration_succeeds(queue_cur, first, l)
    BY <1>13, <2>1, <2>2, CalibrationTypes DEF TypeOK, recalibrate, scoreVars, favVars, workVars, Labels
  <2>3. CASE /\ cal_failed[queue_cur] < CalChances
             /\ calibration_aborts(queue_cur, cal_failed[queue_cur] + 1)
             /\ pc' = "abandon"
             /\ UNCHANGED exec_trace
    BY <1>13, <2>1, <2>3 DEF TypeOK, recalibrate, calibration_aborts, loopVars, scoreVars, favVars, workVars, Labels
  <2>4. CASE pc' = "abandon" /\ UNCHANGED <<cal_failed, cost, loopVars, exec_trace>>
    BY <1>13, <2>4 DEF TypeOK, recalibrate, loopVars, scoreVars, favVars, workVars, Labels
  <2>5. QED
    BY <1>13, <2>2, <2>3, <2>4 DEF recalibrate
<1>14. CASE trim_case
  <2>1. /\ queue_cur \in Entries
        /\ exec_trace[queue_cur] \in SUBSET Bytes
    BY <1>14 DEF CursorInv, EntryInv, At, TypeOK, trim_case, Entries, Queued
  <2>2. \A c \in 1 .. cost[queue_cur] : c \in Costs
    BY <2>1 DEF TypeOK, Costs
  <2>3. QED
    <3>1. cost' \in [Entries -> Costs] /\ trim_done' \subseteq Entries
      BY <1>14, <2>1, <2>2 DEF TypeOK, trim_case
    <3>2. /\ pc' \in Labels /\ i' \in 0 .. NumBytes /\ q' \in Entries
          /\ ret' \in {"dry_run", "abandon", "trim", "fuzz", "sync", "pick"}
          /\ trace_bits' \in SUBSET Bytes
      BY <1>14, <2>1 DEF TypeOK, trim_case, call_update, loopVars, Labels
    <3>3. QED
      BY <1>14, <3>1, <3>2 DEF TypeOK, trim_case, scoreVars, favVars, workVars
<1>15. CASE save_if_interesting
  <2>1. /\ queued_paths \in Entries
        /\ queued_paths' \in 0 .. MaxEntries
        /\ pending_not_fuzzed' \in Nat
        /\ pc \in {"fuzz", "sync", "pick"}
    BY <1>15 DEF TypeOK, save_if_interesting, add_to_queue, Entries
  <2>2. CASE \E first \in Traces : calibration_succeeds(queued_paths, first, pc)
    BY <1>15, <2>1, <2>2, CalibrationTypes DEF TypeOK, save_if_interesting, scoreVars, favVars, workVars, Labels
  <2>3. CASE \E first \in Traces : /\ calibration_aborts(queued_paths, 1)
                                   /\ exec_trace' = [exec_trace EXCEPT ![queued_paths] = first]
                                   /\ UNCHANGED pc
    BY <1>15, <2>1, <2>3, TracesAreSets DEF TypeOK, save_if_interesting, calibration_aborts, loopVars, scoreVars, favVars, workVars
  <2>4. QED
    BY <1>15, <2>2, <2>3 DEF save_if_interesting
<1>16. CASE finish_fuzz
  <2>1. queue_cur \in Entries
    BY <1>16 DEF CursorInv, At, TypeOK, finish_fuzz, Entries, Queued
  <2>2. QED
    BY <1>16, <2>1 DEF TypeOK, finish_fuzz, loopVars, entryVars, scoreVars, favVars, Labels
<1>17. CASE abandon_entry
  <2>1. queue_cur \in Entries /\ queue_cur \in Queued
    BY <1>17 DEF CursorInv, At, TypeOK, abandon_entry, Entries, Queued
  <2>2. queue_cur \notin was_fuzzed => pending_not_fuzzed - 1 \in Nat
    <3>1. Queued \ was_fuzzed \subseteq Entries
      BY DEF TypeOK, Queued, Entries
    <3>2. Cardinality(Queued \ was_fuzzed) = 0 <=> Queued \ was_fuzzed = {}
      BY <3>1, AddRemove
    <3>3. QED
      BY <2>1, <3>2 DEF TypeOK, PendingNotFuzzedExact
  <2>3. queue_cur \notin was_fuzzed /\ queue_cur \in favored => pending_favored - 1 \in Nat
    <3>1. favored \ was_fuzzed \subseteq Entries
      BY DEF TypeOK
    <3>2. /\ Cardinality(favored \ was_fuzzed) \in Nat
          /\ Cardinality(favored \ was_fuzzed) = 0 <=> favored \ was_fuzzed = {}
      BY <3>1, AddRemove
    <3>3. QED
      BY <3>2 DEF TypeOK, PendingNoUnderflow
  <2>4. QED
    <3>1. pc' \in Labels /\ was_fuzzed' \subseteq Entries
      BY <1>17, <2>1 DEF TypeOK, abandon_entry, Labels
    <3>2. pending_not_fuzzed' \in Nat /\ pending_favored' \in Nat
      BY <1>17, <2>2, <2>3 DEF TypeOK, abandon_entry
    <3>3. QED
      BY <1>17, <3>1, <3>2 DEF TypeOK, abandon_entry, loopVars, entryVars, scoreVars, favVars
<1>18. CASE end_sync
  BY <1>18 DEF TypeOK, end_sync, loopVars, entryVars, scoreVars, favVars, workVars, Labels
<1>19. CASE UNCHANGED vars
  BY <1>19 DEF TypeOK, vars, loopVars, entryVars, scoreVars, favVars, workVars
<1>20. QED
  BY <1>1, <1>2, <1>3, <1>4, <1>5, <1>6, <1>7, <1>8, <1>9, <1>10, <1>11, <1>12, <1>13,
     <1>14, <1>15, <1>16, <1>17, <1>18, <1>19 DEF Next, finished

\* The process only works on queued entries, and on the right ones.
LEMMA CursorStep ==
  ASSUME IInv, [Next]_vars
  PROVE  CursorInv'
<1> USE ConstantsAssumption DEF IInv, CursorInv, At, Queued
<1>1. CASE pass_byte \/ win_byte \/ end_update
  <2>1. CASE pass_byte \/ win_byte
    BY <2>1 DEF pass_byte, win_byte, entryVars
  <2>2. CASE end_update
    <3>1. /\ pc = "update" /\ pc' = ret /\ ret' = ret
          /\ UNCHANGED <<queue_cur, queued_paths, cal_failed>>
      BY <2>2 DEF end_update, entryVars
    <3>2. ret \notin {"update", "calibrate"}
      BY DEF TypeOK
    <3>3. QED
      BY <3>1, <3>2
  <2>3. QED
    BY <1>1, <2>1, <2>2
<1>2. CASE read_testcase \/ begin_dry_run \/ end_dry_run
  <2>1. CASE read_testcase
    BY <2>1 DEF read_testcase
  <2>2. CASE begin_dry_run
    <3>1. pc' = "dry_run" /\ queue_cur' = 0 /\ queued_paths' = queued_paths
      BY <2>2 DEF begin_dry_run
    <3>2. QED
      BY <3>1 DEF TypeOK
  <2>3. CASE end_dry_run
    BY <2>3 DEF end_dry_run
  <2>4. QED
    BY <1>2, <2>1, <2>2, <2>3
<1>3. CASE dry_run_seed
  <2>1. queue_cur \in 0 .. queued_paths
    BY <1>3 DEF dry_run_seed
  <2>2. queue_cur' \in 0 .. queued_paths'
    BY <1>3, <2>1 DEF TypeOK, dry_run_seed
  <2>3. pc' = "dry_run" \/ (pc' = "update" /\ ret' = "dry_run")
    BY <1>3 DEF dry_run_seed, calibration_succeeds, call_update
  <2>4. QED
    BY <2>2, <2>3
<1>4. CASE begin_cull \/ cull_byte \/ end_cull \/ skip_cull
  BY <1>4 DEF begin_cull, cull_byte, end_cull, skip_cull, loopVars
<1>5. CASE pick
  <2>1. /\ queue_cur' \in 0 .. queued_paths' - 1
        /\ \/ pc' = "main"
           \/ pc' = IF cal_failed'[queue_cur'] > 0 THEN "calibrate" ELSE "trim"
    BY <1>5 DEF pick, entryVars
  <2>2. cal_failed'[queue_cur'] \in Nat
    BY <1>5, <2>1 DEF pick, TypeOK, entryVars, Entries
  <2>3. QED
    BY <2>1, <2>2
<1>6. CASE recalibrate
  <2>1. queue_cur' \in 0 .. queued_paths' - 1
    BY <1>6 DEF recalibrate
  <2>2. \/ pc' = "abandon"
        \/ pc' = "update" /\ ret' \in {"abandon", "trim"} /\ cal_failed' = [cal_failed EXCEPT ![queue_cur] = 0]
    BY <1>6 DEF recalibrate, calibration_succeeds, call_update
  <2>3. pc' = "update" => cal_failed'[queue_cur'] = 0
    BY <1>6, <2>1, <2>2 DEF recalibrate, TypeOK, Entries
  <2>4. QED
    BY <2>1, <2>2, <2>3
<1>7. CASE trim_case
  BY <1>7 DEF trim_case, call_update
<1>8. CASE save_if_interesting
  <2>1. /\ queue_cur' = queue_cur /\ queued_paths' = queued_paths + 1
        /\ \/ pc' = pc
           \/ pc' = "update" /\ ret' = pc
        /\ pc \in {"fuzz", "sync", "pick"}
    BY <1>8 DEF save_if_interesting, add_to_queue, calibration_succeeds, call_update
  <2>2. QED
    BY <2>1 DEF TypeOK
<1>9. CASE finish_fuzz \/ abandon_entry \/ end_sync
  BY <1>9 DEF finish_fuzz, abandon_entry, end_sync
<1>10. CASE UNCHANGED vars
  BY <1>10 DEF vars, loopVars, entryVars
<1>11. QED
  BY <1>1, <1>2, <1>3, <1>4, <1>5, <1>6, <1>7, <1>8, <1>9, <1>10 DEF Next, finished

\* Fuzzed entries are queued ones, and calibrated entries have a trace.
LEMMA EntryStep ==
  ASSUME IInv, [Next]_vars
  PROVE  EntryInv'
<1> USE ConstantsAssumption DEF IInv, EntryInv, At, Queued
<1>1. CASE pass_byte \/ win_byte \/ end_update
  BY <1>1 DEF pass_byte, win_byte, end_update, entryVars, workVars
<1>2. CASE read_testcase \/ begin_dry_run
  BY <1>2 DEF TypeOK, read_testcase, add_to_queue, begin_dry_run, entryVars, workVars
<1>3. CASE dry_run_seed
  <2>1. queue_cur \in Entries /\ queue_cur \in 0 .. queued_paths /\ queue_cur' = queue_cur + 1
    BY <1>3 DEF CursorInv, TypeOK, dry_run_seed, Entries
  <2>2. pc' = "dry_run" \/ (pc' = "update" /\ ret' = "dry_run")
    BY <1>3 DEF dry_run_seed, calibration_succeeds, call_update
  <2>3. ~(cal_failed'[queue_cur] = 0 /\ exec_trace'[queue_cur] = NULL)
    BY <1>3, <2>1, TracesAreSets DEF TypeOK, dry_run_seed, calibration_succeeds, calibration_aborts
  <2>4. \A e \in Entries : e # queue_cur => cal_failed'[e] = cal_failed[e] /\ exec_trace'[e] = exec_trace[e]
    BY <1>3, <2>1 DEF TypeOK, dry_run_seed, calibration_succeeds, calibration_aborts
  <2>5. UNCHANGED <<queued_paths, was_fuzzed>> /\ pc = "dry_run"
    BY <1>3 DEF dry_run_seed, workVars
  <2>6. QED
    BY <2>1, <2>2, <2>3, <2>4, <2>5 DEF TypeOK, Entries
<1>4. CASE end_dry_run
  BY <1>4 DEF TypeOK, end_dry_run, entryVars, workVars
<1>5. CASE begin_cull \/ cull_byte \/ end_cull \/ skip_cull \/ pick
  BY <1>5 DEF begin_cull, cull_byte, end_cull, skip_cull, pick, entryVars, workVars
<1>6. CASE recalibrate
  <2>1. queue_cur \in Entries /\ pc = "calibrate" /\ UNCHANGED <<queued_paths, was_fuzzed>>
    BY <1>6 DEF CursorInv, TypeOK, recalibrate, Entries, workVars
  <2>2. ~(cal_failed'[queue_cur] = 0 /\ exec_trace'[queue_cur] = NULL)
    BY <1>6, <2>1, TracesAreSets DEF TypeOK, CursorInv, recalibrate, calibration_succeeds, calibration_aborts
  <2>3. \A e \in Entries : e # queue_cur => cal_failed'[e] = cal_failed[e] /\ exec_trace'[e] = exec_trace[e]
    BY <1>6, <2>1 DEF TypeOK, recalibrate, calibration_succeeds, calibration_aborts
  <2>4. ASSUME NEW e \in Queued, cal_failed'[e] = 0, exec_trace'[e] = NULL
        PROVE  FALSE
    <3>1. e \in Entries /\ e # queue_cur
      BY <2>2, <2>4 DEF TypeOK, Entries
    <3>2. QED
      BY <2>1, <2>3, <2>4, <3>1
  <2>5. QED
    BY <2>1, <2>4
<1>7. CASE trim_case
  BY <1>7 DEF trim_case, workVars
<1>8. CASE save_if_interesting
  <2>1. /\ queued_paths \in Entries /\ queued_paths' = queued_paths + 1 /\ was_fuzzed' = was_fuzzed
        /\ pc \in {"fuzz", "sync", "pick"}
    BY <1>8 DEF TypeOK, save_if_interesting, add_to_queue, Entries, workVars
  <2>2. exec_trace'[queued_paths] # NULL
    BY <1>8, <2>1, TracesAreSets DEF TypeOK, save_if_interesting, calibration_succeeds
  <2>3. \A e \in Entries : e # queued_paths => cal_failed'[e] = cal_failed[e] /\ exec_trace'[e] = exec_trace[e]
    BY <1>8, <2>1 DEF TypeOK, save_if_interesting, calibration_succeeds, calibration_aborts
  <2>4. was_fuzzed' \subseteq 0 .. queued_paths' - 1
    BY <2>1 DEF TypeOK
  <2>5. ASSUME NEW e \in 0 .. queued_paths' - 1, cal_failed'[e] = 0, exec_trace'[e] = NULL
        PROVE  FALSE
    <3>1. e \in Entries /\ e # queued_paths /\ e \in Queued
      BY <2>1, <2>2, <2>5 DEF TypeOK, Entries
    <3>2. QED
      BY <2>1, <2>3, <2>5, <3>1
  <2>6. QED
    BY <2>4, <2>5
<1>9. CASE finish_fuzz \/ end_sync
  BY <1>9 DEF finish_fuzz, end_sync, entryVars, workVars
<1>10. CASE abandon_entry
  <2>1. queue_cur \in Queued
    BY <1>10 DEF CursorInv, abandon_entry
  <2>2. QED
    BY <1>10, <2>1 DEF abandon_entry, entryVars
<1>11. CASE UNCHANGED vars
  BY <1>11 DEF vars, loopVars, entryVars, workVars
<1>12. QED
  BY <1>1, <1>2, <1>3, <1>4, <1>5, <1>6, <1>7, <1>8, <1>9, <1>10, <1>11 DEF Next, finished

\* No action but win_byte touches the winners.
LEMMA WinnersStep ==
  ASSUME IInv, [Next]_vars
  PROVE  RefCountExact' /\ TraceKept'
<1>1. CASE win_byte
  BY <1>1, WinKeepsRefCount, WinKeepsTraces
<1>2. CASE UNCHANGED <<top_rated, tc_ref, trace_mini>>
  <2>1. \A e \in Entries : Won(e)' = Won(e)
    BY <1>2 DEF Won
  <2>2. QED
    BY <1>2, <2>1 DEF IInv, RefCountExact, TraceKept
<1>3. ~win_byte => UNCHANGED <<top_rated, tc_ref, trace_mini>>
  <2>1. CASE UNCHANGED scoreVars
    BY <2>1 DEF scoreVars
  <2>2. CASE begin_cull
    BY <2>2 DEF begin_cull
  <2>3. CASE UNCHANGED vars
    BY <2>3 DEF vars, scoreVars
  <2>4. QED
    BY <2>1, <2>2, <2>3
    DEF Next, pass_byte, end_update, read_testcase, begin_dry_run, dry_run_seed, end_dry_run,
        cull_byte, end_cull, skip_cull, pick, recalibrate, trim_case, save_if_interesting,
        finish_fuzz, abandon_entry, end_sync, finished
<1>4. QED
  BY <1>1, <1>2, <1>3

\* The counters of the pending entries.
LEMMA PendingStep ==
  ASSUME IInv, [Next]_vars
  PROVE  PendingNotFuzzedExact' /\ PendingNoUnderflow'
<1> USE DEF IInv, PendingNotFuzzedExact, PendingNoUnderflow
<1>1. /\ Queued \ was_fuzzed \subseteq Entries
      /\ favored \ was_fuzzed \subseteq Entries
      /\ pending_favored \in Nat /\ pending_not_fuzzed \in Nat
      /\ was_fuzzed \subseteq Queued
  BY ConstantsAssumption DEF TypeOK, EntryInv, Queued, Entries
<1>2. CASE read_testcase \/ save_if_interesting
  <2>1. /\ queued_paths' = queued_paths + 1 /\ queued_paths \in Nat
        /\ pending_not_fuzzed' = pending_not_fuzzed + 1
        /\ UNCHANGED <<was_fuzzed, favored, pending_favored>>
    BY <1>2 DEF read_testcase, save_if_interesting, add_to_queue, TypeOK, workVars, favVars
  <2>2. /\ (Queued \ was_fuzzed)' = (Queued \ was_fuzzed) \cup {queued_paths}
        /\ queued_paths \notin Queued \ was_fuzzed
    BY <1>1, <2>1 DEF Queued
  <2>3. Cardinality((Queued \ was_fuzzed) \cup {queued_paths}) = Cardinality(Queued \ was_fuzzed) + 1
    BY <1>1, <2>2, AddRemove
  <2>4. QED
    BY <2>1, <2>2, <2>3
<1>3. CASE begin_cull
  <2>1. /\ UNCHANGED <<pending_not_fuzzed, queued_paths, was_fuzzed>>
        /\ favored' = {} /\ pending_favored' = 0
    BY <1>3 DEF begin_cull
  <2>2. Cardinality({} \ was_fuzzed') = 0
    BY FS_EmptySet
  <2>3. QED
    BY <2>1, <2>2 DEF Queued
<1>4. CASE cull_byte
  <2>1. UNCHANGED <<pending_not_fuzzed, queued_paths, was_fuzzed>>
    BY <1>4 DEF cull_byte
  <2>2. CASE UNCHANGED <<favored, pending_favored>>
    BY <2>1, <2>2 DEF Queued
  <2>3. CASE /\ favored' = favored \cup {top_rated[i]}
             /\ pending_favored' = pending_favored + IF top_rated[i] \in was_fuzzed THEN 0 ELSE 1
    <3> DEFINE w == top_rated[i]
               P == favored \ was_fuzzed
    <3>1. Cardinality(P) \in Nat /\ Cardinality(P \cup {w}) \in {Cardinality(P), Cardinality(P) + 1}
      BY <1>1, AddRemove
    <3>2. (favored \ was_fuzzed)' = IF w \in was_fuzzed THEN P ELSE P \cup {w}
      BY <2>1, <2>3
    <3>3. pending_favored' >= Cardinality((favored \ was_fuzzed)')
      <4>1. CASE w \in was_fuzzed
        BY <1>1, <2>3, <3>2, <4>1
      <4>2. CASE w \notin was_fuzzed
        <5>1. pending_favored' = pending_favored + 1
          BY <2>3, <4>2
        <5>2. Cardinality((favored \ was_fuzzed)') = Cardinality(P \cup {w})
          BY <3>2, <4>2
        <5> HIDE DEF P, w
        <5>3. pending_favored >= Cardinality(P)
          BY DEF P
        <5>4. QED
          BY <1>1, <3>1, <5>1, <5>2, <5>3
      <4>3. QED
        BY <4>1, <4>2
    <3>4. QED
      BY <2>1, <3>3 DEF Queued
  <2>4. QED
    BY <1>4, <2>2, <2>3 DEF cull_byte
<1>5. CASE abandon_entry
  <2>1. queue_cur \in Queued /\ UNCHANGED <<queued_paths, favored>>
    BY <1>5 DEF CursorInv, At, abandon_entry, favVars
  <2>2. CASE UNCHANGED <<was_fuzzed, pending_not_fuzzed, pending_favored>>
    BY <2>1, <2>2 DEF Queued
  <2>3. CASE /\ queue_cur \notin was_fuzzed
             /\ was_fuzzed' = was_fuzzed \cup {queue_cur}
             /\ pending_not_fuzzed' = pending_not_fuzzed - 1
             /\ pending_favored' = pending_favored - IF queue_cur \in favored THEN 1 ELSE 0
    <3> DEFINE P == favored \ was_fuzzed
               N == Queued \ was_fuzzed
    <3>1. /\ (Queued \ was_fuzzed)' = N \ {queue_cur} /\ queue_cur \in N
          /\ (favored \ was_fuzzed)' = P \ {queue_cur} /\ (queue_cur \in P <=> queue_cur \in favored)
      BY <2>1, <2>3 DEF Queued
    <3>2. /\ Cardinality(N \ {queue_cur}) = Cardinality(N) - 1
          /\ Cardinality(P \ {queue_cur}) = Cardinality(P) - IF queue_cur \in P THEN 1 ELSE 0
          /\ Cardinality(P) \in Nat
      <4>1. P \subseteq Entries /\ N \subseteq Entries
        BY <1>1
      <4> HIDE DEF P, N
      <4>2. Cardinality(N \ {queue_cur}) = Cardinality(N) - 1
        BY <3>1, <4>1, AddRemove
      <4>3. /\ queue_cur \in P => Cardinality(P \ {queue_cur}) = Cardinality(P) - 1
            /\ queue_cur \notin P => Cardinality(P \ {queue_cur}) = Cardinality(P)
            /\ Cardinality(P) \in Nat
        BY <4>1, AddRemove
      <4>4. QED
        BY <4>2, <4>3
    <3>3. pending_not_fuzzed' = Cardinality((Queued \ was_fuzzed)')
      BY <2>3, <3>1, <3>2
    <3>4. pending_favored' >= Cardinality((favored \ was_fuzzed)')
      <4>1. Cardinality((favored \ was_fuzzed)') = Cardinality(P) - IF queue_cur \in favored THEN 1 ELSE 0
        BY <3>1, <3>2
      <4>2. pending_favored >= Cardinality(P)
        OBVIOUS
      <4> HIDE DEF P
      <4>3. QED
        BY <1>1, <2>3, <3>2, <4>1, <4>2
    <3>5. QED
      BY <3>3, <3>4
  <2>4. QED
    BY <1>5, <2>2, <2>3 DEF abandon_entry
<1>6. CASE UNCHANGED <<favored, was_fuzzed, pending_favored, pending_not_fuzzed, queued_paths>>
  BY <1>6 DEF Queued
<1>7. \/ UNCHANGED <<favored, was_fuzzed, pending_favored, pending_not_fuzzed, queued_paths>>
      \/ read_testcase \/ save_if_interesting \/ begin_cull \/ cull_byte \/ abandon_entry
  BY DEF Next, pass_byte, win_byte, end_update, begin_dry_run, dry_run_seed, end_dry_run,
         end_cull, skip_cull, pick, recalibrate, trim_case, finish_fuzz, end_sync, finished,
         favVars, workVars, vars
<1>8. QED
  BY <1>2, <1>3, <1>4, <1>5, <1>6, <1>7

-----------------------------------------------------------------------------
(* cull_queue() leaves a cover.                                            *)

\* Byte b, if it has a winner, is hit by a favoured entry.
Covered(b) ==
  top_rated[b] # NULL =>
    \/ top_rated[b] \in favored
    \/ \E e \in favored : trace_mini[e] # NULL /\ b \in trace_mini[e]

\* While cull_queue() runs, the bytes it has passed and the bytes it has cleared
\* in temp_v are covered.
CullInv ==
  pc = "cull" => /\ \A b \in Bytes : b < i => Covered(b)
                 /\ \A b \in Bytes \ temp_v : Covered(b)

\* A step of cull_queue() extends the cover.
LEMMA CoverGrows ==
  ASSUME TypeOK, TraceKept, CullInv, cull_byte
  PROVE  CullInv'
<1>1. /\ i \in Bytes /\ i' = i + 1 /\ i \in Int /\ pc = "cull"
      /\ UNCHANGED <<top_rated, trace_mini>>
  BY ConstantsAssumption DEF TypeOK, cull_byte, Bytes, scoreVars
<1>2. favored \subseteq favored'
  BY DEF cull_byte
<1>3. \A b \in Bytes : Covered(b) => Covered(b)'
  BY <1>1, <1>2 DEF Covered
<1>4. ASSUME NEW b \in Bytes \ temp_v' PROVE Covered(b)'
  <2>1. CASE b \notin temp_v
    BY <1>1, <1>3, <2>1 DEF CullInv
  <2>2. CASE b \in temp_v
    <3>1. /\ top_rated[i] # NULL
          /\ temp_v' = temp_v \ trace_mini[top_rated[i]]
          /\ favored' = favored \cup {top_rated[i]}
      BY <1>4, <2>2 DEF cull_byte
    <3>2. top_rated[i] \in Entries /\ i \in Won(top_rated[i])
      BY <1>1, <3>1 DEF TypeOK, Won
    <3>3. trace_mini[top_rated[i]] # NULL
      BY <3>2 DEF TraceKept
    <3>4. QED
      BY <1>1, <1>4, <2>2, <3>1, <3>3 DEF Covered
  <2>3. QED
    BY <2>1, <2>2
<1>5. ASSUME NEW b \in Bytes, b = i PROVE Covered(b)'
  <2>1. CASE i \notin temp_v
    BY <1>1, <1>3, <1>5, <2>1 DEF CullInv
  <2>2. CASE i \in temp_v
    BY <1>1, <1>5, <2>2 DEF Covered, cull_byte
  <2>3. QED
    BY <2>1, <2>2
<1>6. ASSUME NEW b \in Bytes, b < i' PROVE Covered(b)'
  <2>1. b < i \/ b = i
    BY <1>1, <1>6 DEF Bytes
  <2>2. QED
    BY <1>1, <1>3, <1>5, <1>6, <2>1 DEF CullInv
<1>7. QED
  BY <1>4, <1>6 DEF CullInv

\* The cover is built by cull_queue() and dated by a change of top_rated[] only.
LEMMA CoverStep ==
  ASSUME TypeOK, TraceKept, CullInv, FavoredCover, [Next]_vars
  PROVE  CullInv' /\ FavoredCover'
<1>1. CASE win_byte
  BY <1>1 DEF win_byte, CullInv, FavoredCover
<1>2. CASE begin_cull
  <2>1. pc' = "cull" /\ i' = 0 /\ temp_v' = Bytes
    BY <1>2 DEF begin_cull
  <2>2. QED
    BY <2>1, ConstantsAssumption DEF CullInv, FavoredCover, Bytes
<1>3. CASE cull_byte
  <2>1. pc' = "cull"
    BY <1>3 DEF cull_byte
  <2>2. QED
    BY <1>3, <2>1, CoverGrows DEF FavoredCover
<1>4. CASE end_cull
  <2>1. \A b \in Bytes : Covered(b)
    BY <1>4, ConstantsAssumption DEF end_cull, CullInv, Bytes
  <2>2. pc' = "pick" /\ UNCHANGED <<top_rated, trace_mini, favored>>
    BY <1>4 DEF end_cull, scoreVars
  <2>3. \A b \in Bytes : Covered(b)'
    BY <2>1, <2>2 DEF Covered
  <2>4. QED
    BY <2>2, <2>3 DEF CullInv, FavoredCover, Covered
<1>5. CASE /\ UNCHANGED <<top_rated, trace_mini, favored, score_changed>>
           /\ pc # "cull" /\ pc' # "cull"
  BY <1>5 DEF CullInv, FavoredCover
<1>6. CASE UNCHANGED vars
  BY <1>6 DEF vars, loopVars, scoreVars, favVars, CullInv, FavoredCover, Covered
<1>7. ASSUME Next, ~win_byte, ~begin_cull, ~cull_byte, ~end_cull, ~finished
      PROVE  /\ UNCHANGED <<top_rated, trace_mini, favored, score_changed>>
             /\ pc # "cull" /\ pc' # "cull"
  <2>1. UNCHANGED <<top_rated, trace_mini, favored, score_changed>>
    BY <1>7
    DEF Next, pass_byte, end_update, read_testcase, begin_dry_run, dry_run_seed,
        end_dry_run, skip_cull, pick, recalibrate, trim_case, save_if_interesting,
        finish_fuzz, abandon_entry, end_sync, scoreVars, favVars
  <2>2. CASE \/ pass_byte \/ read_testcase \/ begin_dry_run \/ end_dry_run
             \/ skip_cull \/ pick \/ finish_fuzz \/ abandon_entry \/ end_sync
    BY <2>1, <2>2 DEF pass_byte, read_testcase, begin_dry_run, end_dry_run, skip_cull, pick,
                finish_fuzz, abandon_entry, end_sync
  <2>3. CASE end_update
    BY <2>1, <2>3 DEF end_update, TypeOK
  <2>4. CASE dry_run_seed \/ recalibrate \/ trim_case \/ save_if_interesting
    BY <2>1, <2>4 DEF dry_run_seed, recalibrate, trim_case, save_if_interesting,
                calibration_succeeds, call_update
  <2>5. QED
    BY <1>7, <2>1, <2>2, <2>3, <2>4 DEF Next
<1>8. QED
  BY <1>1, <1>2, <1>3, <1>4, <1>5, <1>6, <1>7 DEF finished

-----------------------------------------------------------------------------
(* The theorems.                                                           *)

\* The invariant is inductive.
LEMMA NextIInv == IInv /\ [Next]_vars => IInv'
BY TypeStep, CursorStep, EntryStep, WinnersStep, PendingStep DEF IInv

\* Every state of afl-fuzz satisfies the invariant.
LEMMA AlwaysIInv == Spec => []IInv
BY InitIInv, NextIInv, PTL DEF Spec

\* Types: in particular no unsigned counter of fuzz_one() and cull_queue() is
\* ever decremented below zero, and no null trace is compared or copied.
THEOREM TypeCorrect == Spec => []TypeOK
<1>1. IInv => TypeOK
  BY DEF IInv
<1>2. QED
  BY <1>1, AlwaysIInv, PTL

\* tc_ref is exact, for every map size, queue and target: update_bitmap_score()
\* neither frees a trace in use nor keeps one for ever.
THEOREM RefCountCorrect == Spec => [](RefCountExact /\ TraceKept)
<1>1. IInv => RefCountExact /\ TraceKept
  BY DEF IInv
<1>2. QED
  BY <1>1, AlwaysIInv, PTL

\* The pending counters never fall behind the entries they count.
THEOREM PendingCorrect == Spec => [](PendingNotFuzzedExact /\ PendingNoUnderflow)
<1>1. IInv => PendingNotFuzzedExact /\ PendingNoUnderflow
  BY DEF IInv
<1>2. QED
  BY <1>1, AlwaysIInv, PTL

\* After cull_queue() the favoured entries cover every byte that has a winner,
\* whatever the target's traces are, until top_rated[] changes.
THEOREM CoverCorrect == Spec => []FavoredCover
<1>1. Init => CullInv /\ FavoredCover
  BY DEF Init, CullInv, FavoredCover
<1>2. IInv /\ CullInv /\ FavoredCover /\ [Next]_vars => CullInv' /\ FavoredCover'
  BY CoverStep DEF IInv
<1>3. QED
  BY <1>1, <1>2, AlwaysIInv, PTL DEF Spec

-----------------------------------------------------------------------------
(* The winners.                                                            *)

\* The entry took part in the competition for the bytes of its trace.
Competed(e) == e \in Queued /\ cal_failed[e] = 0 /\ exec_trace[e] # NULL

\* The winner of byte b is not more expensive than e.
Matched(e, b) == top_rated[b] # NULL /\ cost[top_rated[b]] <= cost[e]

\* Winners have competed, and so does the entry that update_bitmap_score() is about,
\* with its trace.
WinnerInv ==
  /\ \A b \in Bytes : top_rated[b] # NULL => Competed(top_rated[b])
  /\ pc = "update" => Competed(q) /\ (q \notin Flaky => trace_bits = exec_trace[q])
  /\ pc = "read" => \A e \in Entries : exec_trace[e] = NULL
  /\ At("dry_run") => \A e \in Entries : e >= queue_cur => exec_trace[e] = NULL

\* In the course of update_bitmap_score(), the bytes it has passed are settled.
CheapestInv ==
  \A e \in Entries \ Flaky : Competed(e) =>
    \A b \in exec_trace[e] : (pc = "update" /\ q = e => b < i) => Matched(e, b)

\* An entry that has not competed is calibrated: it competes for all of its bytes.
LEMMA NewCompetitor ==
  ASSUME IInv, WinnerInv, CheapestInv, pc # "update", NEW e \in Entries, ~Competed(e),
         NEW first \in Traces, NEW l, calibration_succeeds(e, first, l),
         top_rated' = top_rated, e \in Queued',
         \A x \in Entries \ {e} : x \in Queued' <=> x \in Queued
  PROVE  /\ \A b \in Bytes : top_rated'[b] # NULL => Competed(top_rated[b])'
         /\ pc' = "update" /\ Competed(q)' /\ (q' \notin Flaky => trace_bits' = exec_trace'[q'])
         /\ CheapestInv'
<1>1. /\ cal_failed \in [Entries -> 0 .. CalChances] /\ cost \in [Entries -> Costs]
      /\ exec_trace \in [Entries -> (SUBSET Bytes) \cup {NULL}]
      /\ top_rated \in [Bytes -> Entries \cup {NULL}]
  BY DEF IInv, TypeOK
<1>2. PICK t \in Traces, c \in Costs : /\ SameTrace(e, first, t)
                                       /\ cost' = [cost EXCEPT ![e] = c]
                                       /\ call_update(e, t, l)
  BY DEF calibration_succeeds
<1>3. /\ pc' = "update" /\ q' = e /\ i' = 0 /\ trace_bits' = t
      /\ cal_failed' = [cal_failed EXCEPT ![e] = 0]
      /\ exec_trace' = [exec_trace EXCEPT ![e] = first]
  BY <1>2 DEF calibration_succeeds, call_update
<1>4. /\ cal_failed'[e] = 0 /\ exec_trace'[e] = first /\ first # NULL /\ first \in SUBSET Bytes
  BY <1>1, <1>3, TracesAreSets
<1>5. ASSUME NEW x \in Entries \ {e}
      PROVE  /\ cal_failed'[x] = cal_failed[x] /\ exec_trace'[x] = exec_trace[x]
             /\ cost'[x] = cost[x] /\ (Competed(x)' <=> Competed(x))
  BY <1>1, <1>2, <1>3 DEF Competed
<1>6. \A b \in Bytes : top_rated[b] # NULL => top_rated[b] \in Entries \ {e}
  BY <1>1 DEF WinnerInv
<1>7. \A b \in Bytes : top_rated'[b] # NULL => Competed(top_rated[b])'
  <2> SUFFICES ASSUME NEW b \in Bytes, top_rated[b] # NULL PROVE Competed(top_rated[b])'
    OBVIOUS
  <2> DEFINE w == top_rated[b]
  <2>1. w \in Entries \ {e} /\ w' = w
    BY <1>6
  <2>2. Competed(w)
    BY DEF WinnerInv
  <2>3. w \in Queued' /\ cal_failed'[w] = 0 /\ exec_trace'[w] # NULL
    BY <1>5, <2>1, <2>2 DEF Competed
  <2>4. QED
    BY <2>1, <2>3 DEF Competed
<1>8. Competed(q)' /\ (q' \notin Flaky => trace_bits' = exec_trace'[q'])
  BY <1>2, <1>3, <1>4 DEF Competed, SameTrace
<1>9. CheapestInv'
  <2> SUFFICES ASSUME NEW x \in Entries \ Flaky, Competed(x)', NEW b \in exec_trace'[x],
                      q' = x => b < i'
               PROVE  Matched(x, b)'
    BY <1>3 DEF CheapestInv
  <2>1. CASE x = e
    <3>1. b \in Bytes /\ b < 0
      BY <1>3, <1>4, <2>1
    <3>2. QED
      BY <3>1, ConstantsAssumption DEF Bytes
  <2>2. CASE x # e
    <3>1. Competed(x) /\ exec_trace'[x] = exec_trace[x] /\ cost'[x] = cost[x]
      BY <1>5, <2>2
    <3>2. Matched(x, b)
      BY <3>1 DEF CheapestInv
    <3>3. b \in Bytes
      BY <1>1, <3>1 DEF Competed
    <3>4. cost'[top_rated[b]] = cost[top_rated[b]]
      BY <1>5, <1>6, <3>2, <3>3 DEF Matched
    <3>5. QED
      BY <3>1, <3>2, <3>4 DEF Matched
  <2>3. QED
    BY <2>1, <2>2
<1>10. QED
  BY <1>3, <1>7, <1>8, <1>9

\* A calibration fails: the entry has not competed, and still does not.
LEMMA NoCompetitor ==
  ASSUME IInv, WinnerInv, CheapestInv, pc # "update", pc' # "update", NEW e \in Entries,
         ~Competed(e), cal_failed'[e] > 0, UNCHANGED <<top_rated, cost>>,
         \A x \in Entries \ {e} : /\ x \in Queued' <=> x \in Queued
                                  /\ cal_failed'[x] = cal_failed[x]
                                  /\ exec_trace'[x] = exec_trace[x]
  PROVE  /\ \A b \in Bytes : top_rated'[b] # NULL => Competed(top_rated[b])'
         /\ CheapestInv'
<1>1. top_rated \in [Bytes -> Entries \cup {NULL}]
  BY DEF IInv, TypeOK
<1>2. \A b \in Bytes : top_rated[b] # NULL => top_rated[b] \in Entries \ {e}
  BY <1>1 DEF WinnerInv
<1>3. \A b \in Bytes : top_rated'[b] # NULL => Competed(top_rated[b])'
  <2> SUFFICES ASSUME NEW b \in Bytes, top_rated[b] # NULL PROVE Competed(top_rated[b])'
    OBVIOUS
  <2> DEFINE w == top_rated[b]
  <2>1. w \in Entries \ {e} /\ w' = w
    BY <1>2
  <2>2. Competed(w)
    BY DEF WinnerInv
  <2>3. w \in Queued' /\ cal_failed'[w] = 0 /\ exec_trace'[w] # NULL
    BY <2>1, <2>2 DEF Competed
  <2>4. QED
    BY <2>1, <2>3 DEF Competed
<1>4. CheapestInv'
  <2> SUFFICES ASSUME NEW x \in Entries \ Flaky, Competed(x)', NEW b \in exec_trace'[x]
               PROVE  Matched(x, b)'
    BY DEF CheapestInv
  <2>1. x # e
    BY DEF Competed
  <2>2. Competed(x) /\ exec_trace'[x] = exec_trace[x]
    BY <2>1 DEF Competed
  <2>3. QED
    BY <2>2 DEF CheapestInv, Matched
<1>5. QED
  BY <1>3, <1>4

\* update_bitmap_score() settles one byte.
LEMMA ByteSettled ==
  ASSUME IInv, WinnerInv, CheapestInv, pass_byte \/ win_byte
  PROVE  WinnerInv' /\ CheapestInv'
<1>1. /\ pc = "update" /\ pc' = "update" /\ i' = i + 1 /\ i \in Bytes /\ i \in Nat
      /\ UNCHANGED <<q, ret, trace_bits, queued_paths, cal_failed, cost, exec_trace, queue_cur>>
  BY ConstantsAssumption DEF IInv, TypeOK, pass_byte, win_byte, entryVars, Bytes
<1>2. /\ Competed(q) /\ (q \notin Flaky => trace_bits = exec_trace[q]) /\ q \in Entries
      /\ cost \in [Entries -> Costs] /\ top_rated \in [Bytes -> Entries \cup {NULL}]
      /\ exec_trace \in [Entries -> (SUBSET Bytes) \cup {NULL}]
      /\ NULL \notin Entries /\ \A c \in Costs : c \in Nat
  <2>1. Competed(q) /\ (q \notin Flaky => trace_bits = exec_trace[q])
    BY <1>1 DEF WinnerInv
  <2>2. /\ q \in Entries /\ cost \in [Entries -> Costs]
        /\ top_rated \in [Bytes -> Entries \cup {NULL}]
        /\ exec_trace \in [Entries -> (SUBSET Bytes) \cup {NULL}]
    BY DEF IInv, TypeOK
  <2>3. NULL \notin Entries /\ \A c \in Costs : c \in Nat
    BY ConstantsAssumption DEF Entries, Costs
  <2>4. QED
    BY <2>1, <2>2, <2>3
<1>3. \A x : Competed(x)' <=> Competed(x)
  BY <1>1 DEF Competed, Queued
<1>4. \/ pass_byte /\ top_rated' = top_rated /\ ~WinsByte(i)
      \/ win_byte /\ top_rated' = [top_rated EXCEPT ![i] = q] /\ WinsByte(i)
  BY DEF pass_byte, win_byte, scoreVars
<1>5. WinnerInv'
  <2>1. \A b \in Bytes : top_rated'[b] # NULL => Competed(top_rated'[b])
    BY <1>2, <1>4 DEF WinnerInv
  <2>2. ret = "dry_run" => \A e \in Entries : e >= queue_cur => exec_trace[e] = NULL
    BY <1>1 DEF WinnerInv, At
  <2>3. QED
    BY <1>1, <1>2, <1>3, <2>1, <2>2 DEF WinnerInv, At, Competed, Queued
<1>6. ASSUME NEW x \in Entries \ Flaky, Competed(x), NEW b \in exec_trace[x],
             q = x => b < i + 1
      PROVE  top_rated'[b] # NULL /\ cost[top_rated'[b]] <= cost[x]
  <2>1. b \in Bytes /\ b \in Nat
    BY <1>2, <1>6, ConstantsAssumption DEF Competed, Bytes
  <2>2. CASE q = x /\ b = i
    <3>1. b \in trace_bits
      BY <1>2, <1>6, <2>2
    <3>2. CASE win_byte /\ top_rated' = [top_rated EXCEPT ![i] = q]
      <4>1. top_rated'[b] = q
        BY <1>1, <1>2, <2>2, <3>2
      <4>2. cost[q] \in Nat
        BY <1>2
      <4>3. QED
        BY <1>2, <2>2, <4>1, <4>2
    <3>3. CASE top_rated' = top_rated /\ ~WinsByte(i)
      <4>1. top_rated[i] # NULL /\ ~(cost[q] <= cost[top_rated[i]])
        BY <2>2, <3>1, <3>3 DEF WinsByte
      <4>2. cost[q] \in Nat /\ cost[top_rated[i]] \in Nat
        BY <1>1, <1>2, <4>1
      <4>3. QED
        BY <2>2, <3>3, <4>1, <4>2
    <3>4. QED
      BY <1>4, <3>2, <3>3
  <2>3. CASE ~(q = x /\ b = i)
    <3>1. q = x => b < i
      BY <1>1, <1>6, <2>1, <2>3
    <3>2. Matched(x, b)
      BY <1>1, <1>6, <3>1 DEF CheapestInv
    <3>3. top_rated[b] # NULL /\ cost[top_rated[b]] <= cost[x] /\ top_rated[b] \in Entries
      BY <1>2, <2>1, <3>2 DEF Matched
    <3>4. CASE top_rated'[b] = top_rated[b]
      BY <3>3, <3>4
    <3>5. CASE top_rated'[b] # top_rated[b]
      <4>1. WinsByte(i) /\ b = i /\ top_rated'[b] = q
        BY <1>1, <1>2, <1>4, <2>1, <3>5
      <4>2. cost[q] <= cost[top_rated[b]]
        BY <3>3, <4>1 DEF WinsByte
      <4>3. cost[q] \in Nat /\ cost[top_rated[b]] \in Nat /\ cost[x] \in Nat
        BY <1>2, <3>3
      <4>4. QED
        BY <1>2, <3>3, <4>1, <4>2, <4>3
    <3>6. QED
      BY <3>4, <3>5
  <2>4. QED
    BY <2>2, <2>3
<1>7. CheapestInv'
  BY <1>1, <1>3, <1>6 DEF CheapestInv, Matched, Competed, Queued
<1>8. QED
  BY <1>5, <1>7

\* Nothing changes in the competition, and it was settled.
LEMMA Settled ==
  ASSUME WinnerInv, CheapestInv, pc' # "update",
         UNCHANGED <<queued_paths, cal_failed, cost, exec_trace, top_rated>>,
         pc = "update" => \A b \in exec_trace[q] : q \notin Flaky => b < i
  PROVE  /\ \A b \in Bytes : top_rated'[b] # NULL => Competed(top_rated[b])'
         /\ CheapestInv'
<1>1. \A x : Competed(x)' <=> Competed(x)
  BY DEF Competed, Queued
<1>2. \A b \in Bytes : top_rated'[b] # NULL => Competed(top_rated[b])'
  BY DEF WinnerInv, Competed, Queued
<1>3. \A x, b : Matched(x, b)' <=> Matched(x, b)
  BY DEF Matched
<1>4. ASSUME NEW x \in Entries \ Flaky, Competed(x), NEW b \in exec_trace[x]
      PROVE  Matched(x, b)
  BY <1>4 DEF CheapestInv
<1>5. CheapestInv'
  BY <1>1, <1>3, <1>4 DEF CheapestInv
<1>6. QED
  BY <1>2, <1>5

\* A trimmed entry is cheaper, and competes again.
LEMMA TrimmedCompetes ==
  ASSUME IInv, WinnerInv, CheapestInv, trim_case
  PROVE  WinnerInv' /\ CheapestInv'
<1>1. /\ pc = "trim" /\ queue_cur \in Queued /\ queue_cur \in Entries
      /\ UNCHANGED <<queued_paths, cal_failed, exec_trace, top_rated, queue_cur>>
      /\ cost \in [Entries -> Costs] /\ top_rated \in [Bytes -> Entries \cup {NULL}]
      /\ exec_trace \in [Entries -> (SUBSET Bytes) \cup {NULL}]
      /\ cal_failed[queue_cur] = 0
  <2>1. /\ cost \in [Entries -> Costs] /\ top_rated \in [Bytes -> Entries \cup {NULL}]
        /\ exec_trace \in [Entries -> (SUBSET Bytes) \cup {NULL}]
        /\ queued_paths \in 0 .. MaxEntries
    BY DEF IInv, TypeOK
  <2>2. /\ pc = "trim"
        /\ UNCHANGED <<queued_paths, cal_failed, exec_trace, top_rated, queue_cur>>
    BY DEF trim_case, scoreVars
  <2>3. queue_cur \in Queued /\ cal_failed[queue_cur] = 0
    BY <2>2 DEF IInv, CursorInv, At
  <2>4. queue_cur \in Entries
    BY <2>1, <2>3, ConstantsAssumption DEF Queued, Entries
  <2>5. QED
    BY <2>1, <2>2, <2>3, <2>4
<1>2. exec_trace[queue_cur] # NULL
  BY <1>1 DEF IInv, EntryInv, At
<1>3. Competed(queue_cur)
  BY <1>1, <1>2 DEF Competed
<1>4. CASE pc' = "fuzz" /\ cost' = cost
  BY <1>1, <1>4, Settled DEF WinnerInv, At
<1>5. CASE /\ \E c \in 1 .. cost[queue_cur] : cost' = [cost EXCEPT ![queue_cur] = c]
           /\ call_update(queue_cur, exec_trace[queue_cur], "fuzz")
  <2>1. PICK c \in 1 .. cost[queue_cur] : cost' = [cost EXCEPT ![queue_cur] = c]
    BY <1>5
  <2>2. /\ pc' = "update" /\ ret' = "fuzz" /\ i' = 0 /\ q' = queue_cur
        /\ trace_bits' = exec_trace[queue_cur]
    BY <1>5 DEF call_update
  <2>3. \A x : Competed(x)' <=> Competed(x)
    BY <1>1 DEF Competed, Queued
  <2>4. \A b \in Bytes : top_rated'[b] # NULL => Competed(top_rated[b])'
    BY <1>1 DEF WinnerInv, Competed, Queued
  <2>5. WinnerInv'
    BY <1>1, <1>3, <2>2, <2>4 DEF WinnerInv, Competed, Queued, At
  <2>6. ASSUME NEW w \in Entries
        PROVE  /\ cost'[w] <= cost[w] /\ cost'[w] \in Nat /\ cost[w] \in Nat
               /\ w # queue_cur => cost'[w] = cost[w]
    BY <1>1, <2>1 DEF Costs
  <2>7. ASSUME NEW x \in Entries \ Flaky, Competed(x), NEW b \in exec_trace[x],
               q' = x => b < i'
        PROVE  top_rated[b] # NULL /\ cost'[top_rated[b]] <= cost'[x]
    <3>1. b \in Bytes /\ b \in Nat
      BY <1>1, <2>7, ConstantsAssumption DEF Competed, Bytes
    <3>2. x # queue_cur
      BY <2>2, <2>7, <3>1
    <3>3. top_rated[b] # NULL /\ cost[top_rated[b]] <= cost[x] /\ top_rated[b] \in Entries
      BY <1>1, <2>7, <3>1 DEF CheapestInv, Matched
    <3>4. cost'[x] = cost[x] /\ cost[x] \in Nat
      BY <2>6, <3>2
    <3>5. QED
      BY <2>6, <3>3, <3>4
  <2>8. CheapestInv'
    BY <1>1, <2>2, <2>3, <2>7 DEF CheapestInv, Matched, Competed, Queued
  <2>9. QED
    BY <2>5, <2>8
<1>6. QED
  BY <1>4, <1>5 DEF trim_case

\* A seed is calibrated in the dry run.
LEMMA SeedCompetes ==
  ASSUME IInv, WinnerInv, CheapestInv, dry_run_seed
  PROVE  WinnerInv' /\ CheapestInv'
<1>1. /\ pc = "dry_run" /\ queue_cur \in Nat /\ queue_cur < queued_paths /\ queue_cur \in Entries
      /\ queue_cur' = queue_cur + 1 /\ UNCHANGED <<queued_paths, top_rated>>
      /\ cal_failed \in [Entries -> 0 .. CalChances]
      /\ exec_trace \in [Entries -> (SUBSET Bytes) \cup {NULL}]
  <2>1. /\ cal_failed \in [Entries -> 0 .. CalChances]
        /\ exec_trace \in [Entries -> (SUBSET Bytes) \cup {NULL}]
        /\ queued_paths \in 0 .. MaxEntries
    BY DEF IInv, TypeOK
  <2>2. /\ pc = "dry_run" /\ queue_cur < queued_paths
        /\ queue_cur' = queue_cur + 1 /\ UNCHANGED <<queued_paths, top_rated>>
    BY DEF dry_run_seed, scoreVars
  <2>3. queue_cur \in 0 .. queued_paths
    BY <2>2 DEF IInv, CursorInv, At
  <2>4. queue_cur \in Entries /\ queue_cur \in Nat
    BY <2>1, <2>2, <2>3, ConstantsAssumption DEF Entries
  <2>5. QED
    BY <2>1, <2>2, <2>4
<1>2. \A e \in Entries : e >= queue_cur => exec_trace[e] = NULL
  BY <1>1 DEF WinnerInv, At
<1>3. ~Competed(queue_cur) /\ queue_cur \in Queued' /\ Queued' = Queued
  <2>1. queued_paths \in Nat
    BY ConstantsAssumption DEF IInv, TypeOK
  <2>2. exec_trace[queue_cur] = NULL
    BY <1>1, <1>2
  <2>3. QED
    BY <1>1, <2>1, <2>2 DEF Competed, Queued
<1>4. CASE \E first \in Traces : calibration_succeeds(queue_cur, first, "dry_run")
  <2>1. PICK first \in Traces : calibration_succeeds(queue_cur, first, "dry_run")
    BY <1>4
  <2>2. /\ \A b \in Bytes : top_rated'[b] # NULL => Competed(top_rated[b])'
        /\ pc' = "update" /\ Competed(q)' /\ (q' \notin Flaky => trace_bits' = exec_trace'[q'])
        /\ CheapestInv'
    BY <1>1, <1>3, <2>1, NewCompetitor
  <2>3. exec_trace' = [exec_trace EXCEPT ![queue_cur] = first]
    BY <2>1 DEF calibration_succeeds
  <2>4. \A e \in Entries : e >= queue_cur' => exec_trace'[e] = NULL
    BY <1>1, <1>2, <2>3 DEF Entries
  <2>5. QED
    BY <2>2, <2>4 DEF WinnerInv
<1>5. CASE calibration_aborts(queue_cur, CalChances) /\ UNCHANGED <<pc, exec_trace>>
  <2>1. /\ cal_failed' = [cal_failed EXCEPT ![queue_cur] = CalChances]
        /\ cost' = cost /\ pc' = "dry_run" /\ exec_trace' = exec_trace
    BY <1>1, <1>5 DEF calibration_aborts
  <2>2. /\ cal_failed'[queue_cur] > 0
        /\ \A x \in Entries \ {queue_cur} : cal_failed'[x] = cal_failed[x]
    BY <1>1, <2>1, ConstantsAssumption
  <2>3. /\ \A b \in Bytes : top_rated'[b] # NULL => Competed(top_rated[b])'
        /\ CheapestInv'
    BY <1>1, <1>3, <2>1, <2>2, NoCompetitor
  <2>4. \A e \in Entries : e >= queue_cur' => exec_trace'[e] = NULL
    BY <1>1, <1>2, <2>1 DEF Entries
  <2>5. QED
    BY <2>1, <2>3, <2>4 DEF WinnerInv
<1>6. QED
  BY <1>4, <1>5 DEF dry_run_seed

\* An entry that could not be calibrated is tried again.
LEMMA RecalibratedCompetes ==
  ASSUME IInv, WinnerInv, CheapestInv, recalibrate
  PROVE  WinnerInv' /\ CheapestInv'
<1>1. /\ pc = "calibrate" /\ queue_cur \in Queued /\ queue_cur \in Entries
      /\ cal_failed[queue_cur] > 0
      /\ UNCHANGED <<queue_cur, queued_paths, top_rated>>
      /\ cal_failed \in [Entries -> 0 .. CalChances]
      /\ exec_trace \in [Entries -> (SUBSET Bytes) \cup {NULL}]
  <2>1. /\ cal_failed \in [Entries -> 0 .. CalChances]
        /\ exec_trace \in [Entries -> (SUBSET Bytes) \cup {NULL}]
        /\ queued_paths \in 0 .. MaxEntries
    BY DEF IInv, TypeOK
  <2>2. pc = "calibrate" /\ UNCHANGED <<queue_cur, queued_paths, top_rated>>
    BY DEF recalibrate, scoreVars
  <2>3. queue_cur \in Queued /\ cal_failed[queue_cur] > 0
    BY <2>2 DEF IInv, CursorInv, At
  <2>4. queue_cur \in Entries
    BY <2>1, <2>3, ConstantsAssumption DEF Queued, Entries
  <2>5. QED
    BY <2>1, <2>2, <2>3, <2>4
<1>2. ~Competed(queue_cur) /\ Queued' = Queued
  BY <1>1 DEF Competed, Queued
<1>3. CASE pc' = "abandon" /\ UNCHANGED <<cal_failed, cost, exec_trace>>
  BY <1>1, <1>3, Settled DEF WinnerInv, At
<1>4. CASE /\ calibration_aborts(queue_cur, cal_failed[queue_cur] + 1)
           /\ pc' = "abandon" /\ exec_trace' = exec_trace
  <2>1. cal_failed' = [cal_failed EXCEPT ![queue_cur] = cal_failed[queue_cur] + 1] /\ cost' = cost
    BY <1>4 DEF calibration_aborts
  <2>2. /\ cal_failed'[queue_cur] > 0
        /\ \A x \in Entries \ {queue_cur} : cal_failed'[x] = cal_failed[x]
    BY <1>1, <2>1
  <2>3. /\ \A b \in Bytes : top_rated'[b] # NULL => Competed(top_rated[b])'
        /\ CheapestInv'
    BY <1>1, <1>2, <1>4, <2>1, <2>2, NoCompetitor
  <2>4. QED
    BY <1>4, <2>3 DEF WinnerInv, At
<1>5. ASSUME NEW first \in Traces, NEW l \in {"abandon", "trim"},
             calibration_succeeds(queue_cur, first, l)
      PROVE  WinnerInv' /\ CheapestInv'
  <2>1. /\ \A b \in Bytes : top_rated'[b] # NULL => Competed(top_rated[b])'
        /\ pc' = "update" /\ Competed(q)' /\ (q' \notin Flaky => trace_bits' = exec_trace'[q'])
        /\ CheapestInv'
    BY <1>1, <1>2, <1>5, NewCompetitor
  <2>2. ret' # "dry_run"
    BY <1>5 DEF calibration_succeeds, call_update
  <2>3. QED
    BY <2>1, <2>2 DEF WinnerInv, At
<1>6. QED
  BY <1>3, <1>4, <1>5 DEF recalibrate

\* A new entry is calibrated.
LEMMA FoundCompetes ==
  ASSUME IInv, WinnerInv, CheapestInv, save_if_interesting
  PROVE  WinnerInv' /\ CheapestInv'
<1>1. /\ pc \in {"fuzz", "sync", "pick"} /\ queued_paths \in Entries /\ queued_paths \in Nat
      /\ queued_paths' = queued_paths + 1 /\ UNCHANGED <<queue_cur, top_rated>>
      /\ cal_failed \in [Entries -> 0 .. CalChances]
      /\ exec_trace \in [Entries -> (SUBSET Bytes) \cup {NULL}]
  <2>1. /\ cal_failed \in [Entries -> 0 .. CalChances]
        /\ exec_trace \in [Entries -> (SUBSET Bytes) \cup {NULL}]
        /\ queued_paths \in 0 .. MaxEntries
    BY DEF IInv, TypeOK
  <2>2. /\ pc \in {"fuzz", "sync", "pick"} /\ queued_paths < MaxEntries
        /\ queued_paths' = queued_paths + 1 /\ UNCHANGED <<queue_cur, top_rated>>
    BY DEF save_if_interesting, add_to_queue, scoreVars
  <2>3. queued_paths \in Entries /\ queued_paths \in Nat
    BY <2>1, <2>2, ConstantsAssumption DEF Entries
  <2>4. QED
    BY <2>1, <2>2, <2>3
<1>2. /\ ~Competed(queued_paths) /\ queued_paths \in Queued'
      /\ \A x \in Entries \ {queued_paths} : x \in Queued' <=> x \in Queued
  BY <1>1 DEF Competed, Queued, Entries
<1>3. ASSUME NEW first \in Traces, calibration_succeeds(queued_paths, first, pc)
      PROVE  WinnerInv' /\ CheapestInv'
  <2>1. /\ \A b \in Bytes : top_rated'[b] # NULL => Competed(top_rated[b])'
        /\ pc' = "update" /\ Competed(q)' /\ (q' \notin Flaky => trace_bits' = exec_trace'[q'])
        /\ CheapestInv'
    BY <1>1, <1>2, <1>3, NewCompetitor
  <2>2. ret' # "dry_run"
    BY <1>1, <1>3 DEF calibration_succeeds, call_update
  <2>3. QED
    BY <2>1, <2>2 DEF WinnerInv, At
<1>4. ASSUME NEW first \in Traces, calibration_aborts(queued_paths, 1),
             exec_trace' = [exec_trace EXCEPT ![queued_paths] = first], pc' = pc
      PROVE  WinnerInv' /\ CheapestInv'
  <2>1. cal_failed' = [cal_failed EXCEPT ![queued_paths] = 1] /\ cost' = cost
    BY <1>4 DEF calibration_aborts
  <2>2. /\ cal_failed'[queued_paths] > 0
        /\ \A x \in Entries \ {queued_paths} : /\ cal_failed'[x] = cal_failed[x]
                                              /\ exec_trace'[x] = exec_trace[x]
    BY <1>1, <1>4, <2>1
  <2>3. /\ \A b \in Bytes : top_rated'[b] # NULL => Competed(top_rated[b])'
        /\ CheapestInv'
    BY <1>1, <1>2, <1>4, <2>1, <2>2, NoCompetitor
  <2>4. QED
    BY <1>1, <1>4, <2>3 DEF WinnerInv, At
<1>5. QED
  BY <1>3, <1>4 DEF save_if_interesting

\* Every step keeps the winners cheapest.
LEMMA CheapestStep ==
  ASSUME IInv, WinnerInv, CheapestInv, [Next]_vars
  PROVE  WinnerInv' /\ CheapestInv'
<1>1. CASE pass_byte \/ win_byte
  BY <1>1, ByteSettled
<1>2. CASE end_update
  <2>1. /\ pc = "update" /\ i = NumBytes /\ pc' = ret /\ ret' = ret /\ ret # "update" /\ ret # "read"
        /\ UNCHANGED <<queued_paths, cal_failed, cost, exec_trace, top_rated, queue_cur>>
        /\ exec_trace \in [Entries -> (SUBSET Bytes) \cup {NULL}]
    BY <1>2 DEF end_update, IInv, TypeOK, entryVars, scoreVars
  <2>2. Competed(q) /\ q \in Entries
    BY <2>1 DEF WinnerInv, IInv, TypeOK
  <2>3. \A b \in exec_trace[q] : b < i
    BY <2>1, <2>2, ConstantsAssumption DEF Competed, Bytes
  <2>4. /\ \A b \in Bytes : top_rated'[b] # NULL => Competed(top_rated[b])'
        /\ CheapestInv'
    BY <2>1, <2>3, Settled
  <2>5. ret = "dry_run" => \A e \in Entries : e >= queue_cur => exec_trace[e] = NULL
    BY <2>1 DEF WinnerInv, At
  <2>6. QED
    BY <2>1, <2>4, <2>5 DEF WinnerInv, At
<1>3. CASE read_testcase
  <2>1. /\ pc = "read" /\ pc' = "read" /\ exec_trace' = exec_trace /\ top_rated' = top_rated
        /\ top_rated \in [Bytes -> Entries \cup {NULL}]
    BY <1>3 DEF read_testcase, IInv, TypeOK, entryVars, scoreVars
  <2>2. \A e \in Entries : exec_trace[e] = NULL
    BY <2>1 DEF WinnerInv
  <2>3. \A b \in Bytes : top_rated[b] = NULL
    BY <2>1, <2>2 DEF WinnerInv, Competed
  <2>4. QED
    BY <2>1, <2>2, <2>3 DEF WinnerInv, CheapestInv, Competed, At
<1>4. CASE dry_run_seed
  BY <1>4, SeedCompetes
<1>5. CASE recalibrate
  BY <1>5, RecalibratedCompetes
<1>6. CASE trim_case
  BY <1>6, TrimmedCompetes
<1>7. CASE save_if_interesting
  BY <1>7, FoundCompetes
<1>8. CASE \/ begin_dry_run \/ end_dry_run \/ begin_cull \/ cull_byte \/ end_cull \/ skip_cull
           \/ pick \/ finish_fuzz \/ abandon_entry \/ end_sync
  <2>1. /\ UNCHANGED <<queued_paths, cal_failed, cost, exec_trace, top_rated>>
        /\ pc # "update" /\ pc' # "update" /\ pc' # "read"
        /\ pc' = "dry_run" => pc = "read"
    BY <1>8 DEF begin_dry_run, end_dry_run, begin_cull, cull_byte, end_cull, skip_cull, pick,
                finish_fuzz, abandon_entry, end_sync, entryVars, scoreVars
  <2>2. /\ \A b \in Bytes : top_rated'[b] # NULL => Competed(top_rated[b])'
        /\ CheapestInv'
    BY <2>1, Settled
  <2>3. QED
    BY <2>1, <2>2 DEF WinnerInv, At
<1>9. CASE UNCHANGED vars
  <2>1. UNCHANGED <<pc, ret, i, q, trace_bits, queued_paths, cal_failed, cost, exec_trace, top_rated,
                    queue_cur>>
    BY <1>9 DEF vars, loopVars, entryVars, scoreVars
  <2>2. QED
    BY <2>1 DEF WinnerInv, CheapestInv, Competed, Matched, Queued, At
<1>10. QED
  BY <1>1, <1>2, <1>3, <1>4, <1>5, <1>6, <1>7, <1>8, <1>9 DEF Next, finished

\* The winners are the cheapest, for every map size, queue, order of calibrations
\* and trims, and target: no calibrated entry with a stable trace undercuts one.
THEOREM CheapestCorrect == Spec => []TopRatedIsCheapest
<1>1. Init => WinnerInv /\ CheapestInv
  BY DEF Init, WinnerInv, CheapestInv, Competed, At
<1>2. IInv /\ WinnerInv /\ CheapestInv /\ [Next]_vars => WinnerInv' /\ CheapestInv'
  BY CheapestStep
<1>3. IInv /\ CheapestInv => TopRatedIsCheapest
  <2>1. IInv => \A e \in Queued : e \in Entries
    BY ConstantsAssumption DEF IInv, TypeOK, Queued, Entries
  <2>2. QED
    BY <2>1 DEF CheapestInv, TopRatedIsCheapest, Competed, Matched
<1>4. QED
  BY <1>1, <1>2, <1>3, AlwaysIInv, PTL DEF Spec

=============================================================================
