--------------------------- MODULE SeedQueueProofs ---------------------------
(***************************************************************************)
(* Proofs about SeedQueue, for every number of entries, every score and    *)
(* every behaviour of the target: the list neither loses nor duplicates an *)
(* entry, the shortcuts are exact, no cycle of the main loop passes over   *)
(* an entry, wherever insertions move the cursor, the best entry comes     *)
(* first, and the statistics of the scores are exact.                      *)
(***************************************************************************)
EXTENDS SeedQueue, SequenceTheorems, FiniteSetTheorems, TLAPS

\* No entry is in the list twice.
Distinct(s) == \A i, j \in 1 .. Len(s) : s[i] = s[j] => i = j

\* Entries that sort_queue() has detached and not re-inserted yet.
Detached == IF pc = "sort" THEN rest ELSE <<>>

\* The list and the detached entries partition the entries created.
ListInv ==
  /\ Distinct(queue) /\ Distinct(Detached)
  /\ Elements(queue) \cap Elements(Detached) = {}
  /\ Elements(queue) \cup Elements(Detached) = 0 .. queued_paths - 1
  /\ Len(queue) + Len(Detached) = queued_paths

\* The shortcuts are exact, even in the course of a re-sort.
ShortcutInv ==
  \A n \in 0 .. Slots - 1 :
    shortcut_per_100[n] = IF n * Step < Len(queue) THEN queue[n * Step + 1] ELSE NULL

StartPhase == {"read", "dry_run", "stopped_dry_run", "sort"}

\* Where queue_cur and first_unhandled may point.  Up to the first cycle nothing
\* is handled, and first_unhandled is the head of a list of two or more; when a
\* cycle ends it is used up.
CursorInv ==
  /\ pc \in StartPhase => handled_in_cycle = {} /\ queue_cur = NULL /\ queue_cycle = 0
  /\ pc \in StartPhase \ {"sort"} =>
       first_unhandled = IF Len(queue) >= 2 THEN queue[1] ELSE NULL
  /\ pc = "sort" => /\ Len(queue) >= 2 => first_unhandled = queue[1]
                    /\ queued_paths <= 1 => first_unhandled = NULL
  /\ pc # "read" => queued_paths > 0
  /\ pc \in LoopPhase \ {"loop"} => queue_cur # NULL
  /\ pc \in LoopPhase => queue_cur \in Elements(queue) \cup {NULL}
  /\ (pc = "loop" /\ queue_cur = NULL) => first_unhandled \in {NULL, queue[1]}

\* The inductive invariant.
IInv == /\ TypeOK /\ ListInv /\ ShortcutInv /\ CursorInv
        /\ BehindCursorHandled /\ CycleComplete

-----------------------------------------------------------------------------
(* Lists.                                                                  *)

\* Insertion at any position adds the entry and keeps everything else.
LEMMA InsertAtProperties ==
  ASSUME NEW S, NEW s \in Seq(S), NEW k \in 1 .. Len(s) + 1, NEW e \in S
  PROVE  /\ InsertAt(s, k, e) \in Seq(S)
         /\ Len(InsertAt(s, k, e)) = Len(s) + 1
         /\ Elements(InsertAt(s, k, e)) = Elements(s) \cup {e}
         /\ (Distinct(s) /\ e \notin Elements(s)) => Distinct(InsertAt(s, k, e))
<1> DEFINE t == InsertAt(s, k, e)
<1>1. Len(s) \in Nat /\ \A i \in 1 .. Len(s) : s[i] \in S
  BY LenProperties, ElementOfSeq
<1>2. t \in [1 .. Len(s) + 1 -> S]
  BY <1>1 DEF InsertAt
<1>3. t \in Seq(S) /\ Len(t) = Len(s) + 1
  BY <1>1, <1>2, SeqDef, LenProperties
<1>4. \A i \in 1 .. Len(s) + 1 : t[i] = IF i < k THEN s[i] ELSE IF i = k THEN e ELSE s[i - 1]
  BY DEF InsertAt
<1> HIDE DEF t
<1>5. Elements(t) = Elements(s) \cup {e}
  <2>1. \A i \in 1 .. Len(t) : t[i] \in Elements(s) \cup {e}
    BY <1>1, <1>3, <1>4 DEF Elements
  <2>2. t[k] = e
    BY <1>1, <1>4
  <2>3. \A i \in 1 .. Len(s) : s[i] = IF i < k THEN t[i] ELSE t[i + 1]
    BY <1>1, <1>4
  <2>4. QED
    BY <1>1, <1>3, <2>1, <2>2, <2>3 DEF Elements
<1>6. ASSUME Distinct(s), e \notin Elements(s) PROVE Distinct(t)
  <2>1. \A i \in 1 .. Len(s) : s[i] # e
    BY <1>6 DEF Elements
  <2>2. ASSUME NEW i \in 1 .. Len(t), NEW j \in 1 .. Len(t), t[i] = t[j] PROVE i = j
    <3>1. CASE i = k \/ j = k
      <4>1. ASSUME NEW m \in 1 .. Len(t), m # k PROVE t[m] # e
        <5>1. CASE m < k
          <6>1. m \in 1 .. Len(s) /\ t[m] = s[m]
            BY <1>1, <1>3, <1>4, <5>1
          <6>2. QED
            BY <2>1, <6>1
        <5>2. CASE m > k
          <6>1. m - 1 \in 1 .. Len(s) /\ t[m] = s[m - 1]
            BY <1>1, <1>3, <1>4, <5>2
          <6>2. QED
            BY <2>1, <6>1
        <5>3. QED
          BY <1>3, <4>1, <5>1, <5>2
      <4>2. k \in 1 .. Len(t) /\ t[k] = e
        BY <1>1, <1>3, <1>4
      <4>3. QED
        BY <2>2, <3>1, <4>1, <4>2
    <3>2. CASE i # k /\ j # k
      <4> DEFINE u == IF i < k THEN i ELSE i - 1
                 v == IF j < k THEN j ELSE j - 1
      <4>1. u \in 1 .. Len(s) /\ v \in 1 .. Len(s)
        BY <1>1, <1>3, <3>2
      <4>2. s[u] = s[v]
        BY <1>1, <1>3, <1>4, <2>2, <3>2
      <4>3. u = v
        BY <1>6, <4>1, <4>2 DEF Distinct
      <4>4. QED
        BY <1>1, <3>2, <4>3
    <3>3. QED
      BY <3>1, <3>2
  <2>3. QED
    BY <2>2 DEF Distinct
<1>7. QED
  BY <1>3, <1>5, <1>6 DEF t

\* What detaching the head of a list does.
LEMMA TailProperties ==
  ASSUME NEW S, NEW s \in Seq(S), s # <<>>, Distinct(s)
  PROVE  /\ Head(s) \in S /\ Tail(s) \in Seq(S) /\ Len(Tail(s)) = Len(s) - 1
         /\ Head(s) \notin Elements(Tail(s))
         /\ Elements(s) = Elements(Tail(s)) \cup {Head(s)}
         /\ Distinct(Tail(s))
<1>1. /\ Len(s) \in Nat \ {0} /\ Head(s) = s[1] /\ Tail(s) \in Seq(S)
      /\ Len(Tail(s)) = Len(s) - 1
      /\ \A i \in 1 .. Len(s) - 1 : Tail(s)[i] = s[i + 1]
      /\ \A i \in 1 .. Len(s) : s[i] \in S
  BY EmptySeq, LenProperties, ElementOfSeq
<1>2. Elements(s) = Elements(Tail(s)) \cup {Head(s)}
  <2>1. \A i \in 1 .. Len(s) : s[i] \in Elements(Tail(s)) \cup {Head(s)}
    BY <1>1 DEF Elements
  <2>2. \A i \in 1 .. Len(Tail(s)) : Tail(s)[i] \in Elements(s)
    BY <1>1 DEF Elements
  <2>3. QED
    BY <1>1, <2>1, <2>2 DEF Elements
<1>3. Head(s) \notin Elements(Tail(s)) /\ Distinct(Tail(s))
  BY <1>1 DEF Elements, Distinct
<1>4. QED
  BY <1>1, <1>2, <1>3

\* The slot that the splicing stage starts from, and the rest of the index.
LEMMA Division ==
  ASSUME NEW a \in Nat, NEW b \in Nat \ {0}
  PROVE  /\ a \div b \in Nat /\ (a \div b) * b \in Nat
         /\ (a \div b) * b <= a /\ a - (a \div b) * b < b
OBVIOUS

\* Only slot 0 lies within a list of one entry.
LEMMA Slot ==
  ASSUME NEW n \in Nat, NEW b \in Nat \ {0}
  PROVE  n * b \in Nat /\ (n * b < 1 <=> n = 0)
OBVIOUS

\* What sorted_insert_to_queue() does to the list, the shortcuts and the cursor.
LEMMA SortedInsert ==
  ASSUME TypeOK, Distinct(queue), ShortcutInv,
         NEW e \in Entries, e \notin Elements(queue), NEW score,
         sorted_insert_to_queue(e, score)
  PROVE  /\ queue' \in Seq(Entries)
         /\ Len(queue') = Len(queue) + 1
         /\ Elements(queue') = Elements(queue) \cup {e}
         /\ Distinct(queue')
         /\ shortcut_per_100' \in [0 .. Slots - 1 -> Entries \cup {NULL}]
         /\ ShortcutInv'
         /\ first_unhandled' \in Entries \cup {NULL}
         /\ queue = <<>> => first_unhandled' = first_unhandled
         /\ queue # <<>> => IsFirstUnhandledFrom(queue', 1, handled_in_cycle, first_unhandled')
<1>1. /\ queue \in Seq(Entries) /\ Len(queue) \in Nat
      /\ shortcut_per_100 \in [0 .. Slots - 1 -> Entries \cup {NULL}]
      /\ Slots \in Nat \ {0} /\ Step \in Nat \ {0}
  BY ConstantsAssumption, LenProperties DEF TypeOK
<1>2. CASE insert_into_empty(e)
  <2>1. /\ queue = <<>> /\ queue' = <<e>> /\ first_unhandled' = first_unhandled
        /\ shortcut_per_100' = [shortcut_per_100 EXCEPT ![0] = e]
    BY <1>2 DEF insert_into_empty
  <2>2. /\ queue' \in Seq(Entries) /\ Len(queue) = 0 /\ Len(queue') = 1 /\ queue'[1] = e
    BY <2>1
  <2>3. Elements(queue) = {} /\ Elements(queue') = {e} /\ Distinct(queue')
    BY <2>2 DEF Elements, Distinct
  <2>4. shortcut_per_100' \in [0 .. Slots - 1 -> Entries \cup {NULL}]
    BY <1>1, <2>1
  <2>5. ASSUME NEW n \in 0 .. Slots - 1
        PROVE  shortcut_per_100'[n] = IF n * Step < Len(queue') THEN queue'[n * Step + 1] ELSE NULL
    <3>1. n * Step \in Nat /\ (n * Step < 1 <=> n = 0)
      BY <1>1, Slot
    <3>2. shortcut_per_100[n] = NULL
      BY <2>2, <3>1 DEF ShortcutInv
    <3>3. CASE n = 0
      <4>1. 0 * Step = 0
        BY <1>1
      <4>2. QED
        BY <1>1, <2>1, <2>2, <3>3, <4>1
    <3>4. CASE n # 0
      BY <1>1, <2>1, <2>2, <3>1, <3>2, <3>4
    <3>5. QED
      BY <3>3, <3>4
  <2>6. Len(queue') = Len(queue) + 1 /\ Elements(queue') = Elements(queue) \cup {e}
    BY <2>2, <2>3
  <2>7. ShortcutInv'
    BY <2>5 DEF ShortcutInv
  <2>8. first_unhandled' \in Entries \cup {NULL}
    BY <2>1 DEF TypeOK
  <2>9. QED
    BY <2>1, <2>2, <2>3, <2>4, <2>6, <2>7, <2>8
<1>3. CASE insert_into_list(e, score)
  <2>1. PICK k \in 1 .. Len(queue) + 1 : queue' = InsertAt(queue, k, e)
    BY <1>3 DEF insert_into_list
  <2>2. /\ queue' \in Seq(Entries)
        /\ Len(queue') = Len(queue) + 1
        /\ Elements(queue') = Elements(queue) \cup {e}
        /\ Distinct(queue')
    BY <1>1, <2>1, InsertAtProperties
  <2>3. /\ queue # <<>>
        /\ first_unhandled' \in Entries \cup {NULL}
        /\ IsFirstUnhandledFrom(queue', 1, handled_in_cycle, first_unhandled')
        /\ shortcut_per_100' = Shortcuts(queue', shortcut_per_100)
    BY <1>3 DEF insert_into_list
  <2>4. ASSUME NEW n \in 0 .. Slots - 1
        PROVE  /\ shortcut_per_100'[n] = IF n * Step < Len(queue') THEN queue'[n * Step + 1] ELSE NULL
               /\ shortcut_per_100'[n] \in Entries \cup {NULL}
    <3>1. n * Step \in Nat
      BY <1>1, Slot
    <3>2. shortcut_per_100'[n] = IF n * Step < Len(queue') THEN queue'[n * Step + 1] ELSE shortcut_per_100[n]
      BY <2>3 DEF Shortcuts
    <3>3. n * Step >= Len(queue') => shortcut_per_100[n] = NULL
      BY <1>1, <2>2, <3>1 DEF ShortcutInv
    <3>4. n * Step < Len(queue') => queue'[n * Step + 1] \in Entries
      <4>1. SUFFICES ASSUME n * Step < Len(queue') PROVE queue'[n * Step + 1] \in Entries
        OBVIOUS
      <4>2. n * Step + 1 \in 1 .. Len(queue')
        BY <1>1, <2>2, <3>1, <4>1
      <4>3. QED
        BY <2>2, <4>2, ElementOfSeq
    <3>5. QED
      BY <1>1, <2>2, <3>1, <3>2, <3>3, <3>4
  <2>5. DOMAIN shortcut_per_100' = 0 .. Slots - 1 /\ shortcut_per_100' = [n \in 0 .. Slots - 1 |-> shortcut_per_100'[n]]
    BY <2>3 DEF Shortcuts
  <2>6. QED
    BY <2>2, <2>3, <2>4, <2>5 DEF ShortcutInv
<1>4. QED
  BY <1>2, <1>3 DEF sorted_insert_to_queue

\* Outside sort_queue(), the list holds every entry.
LEMMA WholeList ==
  ASSUME TypeOK, ListInv, pc # "sort"
  PROVE  /\ queue \in Seq(Entries) /\ Len(queue) = queued_paths /\ queued_paths \in Nat
         /\ Elements(queue) = 0 .. queued_paths - 1
<1>1. Elements(<<>>) = {} /\ Len(<<>>) = 0 /\ Detached = <<>>
  BY DEF Elements, Detached
<1>2. /\ Elements(queue) \cup Elements(<<>>) = 0 .. queued_paths - 1
      /\ Len(queue) + Len(<<>>) = queued_paths
  BY <1>1 DEF ListInv
<1>3. queue \in Seq(Entries) /\ Len(queue) \in Nat
  BY LenProperties DEF TypeOK
<1>4. Len(queue) = queued_paths
  BY <1>1, <1>2, <1>3
<1>5. Elements(queue) = 0 .. queued_paths - 1
  BY <1>1, <1>2
<1>6. QED
  BY <1>3, <1>4, <1>5

-----------------------------------------------------------------------------
(* The four actions that insert.                                           *)

\* A new entry is inserted.
LEMMA AddEntry ==
  ASSUME IInv, pc # "sort", NEW score, add_to_queue(score)
  PROVE  /\ queued_paths \in Entries /\ queued_paths' = queued_paths + 1
         /\ queued_paths' \in 0 .. MaxEntries
         /\ queue' \in Seq(Entries)
         /\ Len(queue') = Len(queue) + 1
         /\ Elements(queue') = Elements(queue) \cup {queued_paths}
         /\ Distinct(queue')
         /\ shortcut_per_100' \in [0 .. Slots - 1 -> Entries \cup {NULL}]
         /\ ShortcutInv'
         /\ first_unhandled' \in Entries \cup {NULL}
         /\ queue = <<>> => first_unhandled' = first_unhandled
         /\ queue # <<>> => IsFirstUnhandledFrom(queue', 1, handled_in_cycle, first_unhandled')
         /\ Len(queue) = queued_paths /\ Elements(queue) = 0 .. queued_paths - 1
<1>1. /\ queued_paths \in Entries /\ queued_paths' = queued_paths + 1
      /\ queued_paths \in Nat /\ queued_paths' \in 0 .. MaxEntries
      /\ sorted_insert_to_queue(queued_paths, score)
  BY ConstantsAssumption DEF IInv, TypeOK, add_to_queue, Entries
<1>3. Len(queue) = queued_paths /\ Elements(queue) = 0 .. queued_paths - 1
  BY WholeList DEF IInv
<1>4. queued_paths \notin Elements(queue)
  BY <1>1, <1>3
<1>5. TypeOK /\ Distinct(queue) /\ ShortcutInv
  BY DEF IInv, ListInv
<1>6. QED
  BY <1>1, <1>3, <1>4, <1>5, SortedInsert

\* sort_queue() re-inserts an entry.
LEMMA ReinsertEntry ==
  ASSUME IInv, sort_entry
  PROVE  /\ queue' \in Seq(Entries) /\ rest' \in Seq(Entries)
         /\ Len(queue') = Len(queue) + 1
         /\ shortcut_per_100' \in [0 .. Slots - 1 -> Entries \cup {NULL}]
         /\ first_unhandled' \in Entries \cup {NULL}
         /\ queue = <<>> => first_unhandled' = first_unhandled
         /\ queue # <<>> => IsFirstUnhandledFrom(queue', 1, handled_in_cycle, first_unhandled')
         /\ ListInv' /\ ShortcutInv'
<1>1. /\ pc = "sort" /\ rest # <<>> /\ rest' = Tail(rest) /\ pc' = pc
      /\ sorted_insert_to_queue(Head(rest), prox_score)
      /\ queued_paths' = queued_paths
  BY DEF sort_entry
<1>2. TypeOK /\ Distinct(queue) /\ ShortcutInv /\ rest \in Seq(Entries) /\ queue \in Seq(Entries)
  BY DEF IInv, ListInv, TypeOK
<1>3. Detached = rest /\ Detached' = rest'
  BY <1>1 DEF Detached
<1>4. /\ Distinct(rest) /\ Elements(queue) \cap Elements(rest) = {}
      /\ Elements(queue) \cup Elements(rest) = 0 .. queued_paths - 1
      /\ Len(queue) + Len(rest) = queued_paths
  BY <1>3 DEF IInv, ListInv
<1>5. /\ Head(rest) \in Entries /\ Tail(rest) \in Seq(Entries) /\ Len(Tail(rest)) = Len(rest) - 1
      /\ Head(rest) \notin Elements(Tail(rest))
      /\ Elements(rest) = Elements(Tail(rest)) \cup {Head(rest)}
      /\ Distinct(Tail(rest))
  BY <1>1, <1>2, <1>4, TailProperties
<1>6. Head(rest) \notin Elements(queue)
  BY <1>4, <1>5
<1>7. /\ queue' \in Seq(Entries)
      /\ Len(queue') = Len(queue) + 1
      /\ Elements(queue') = Elements(queue) \cup {Head(rest)}
      /\ Distinct(queue')
      /\ shortcut_per_100' \in [0 .. Slots - 1 -> Entries \cup {NULL}]
      /\ ShortcutInv'
      /\ first_unhandled' \in Entries \cup {NULL}
      /\ queue = <<>> => first_unhandled' = first_unhandled
      /\ queue # <<>> => IsFirstUnhandledFrom(queue', 1, handled_in_cycle, first_unhandled')
  BY <1>1, <1>2, <1>5, <1>6, SortedInsert
<1>8. ListInv'
  <2>1. Len(queue) \in Nat /\ Len(rest) \in Nat
    BY <1>2, LenProperties
  <2>2. Len(queue') + Len(Tail(rest)) = queued_paths
    BY <1>4, <1>5, <1>7, <2>1
  <2>3. /\ Elements(queue') \cap Elements(Tail(rest)) = {}
        /\ Elements(queue') \cup Elements(Tail(rest)) = 0 .. queued_paths - 1
    BY <1>4, <1>5, <1>7
  <2>4. QED
    BY <1>1, <1>3, <1>5, <1>7, <2>2, <2>3 DEF ListInv
<1>9. QED
  BY <1>1, <1>5, <1>7, <1>8

\* The types of what a calibration writes.
LEMMA CalibrationTypes ==
  ASSUME TypeOK, NEW e \in Entries, NEW scores0 \in [Entries -> Nat], NEW n \in Nat \ {0},
         \/ \E s \in Nat : calibration_succeeds(e, s, scores0, n)
         \/ \E f \in 0 .. CalChances : calibration_aborts(e, f, scores0)
  PROVE  /\ prox_score' \in [Entries -> Nat]
         /\ cal_failed' \in [Entries -> 0 .. CalChances]
         /\ total_prox_score' \in Nat /\ avg_prox_score' \in Nat
         /\ min_prox_score' \in Nat /\ max_prox_score' \in Nat
<1>1. 0 \in 0 .. CalChances
  BY ConstantsAssumption
<1>2. ASSUME NEW s \in Nat, calibration_succeeds(e, s, scores0, n)
      PROVE  /\ prox_score' \in [Entries -> Nat]
             /\ cal_failed' \in [Entries -> 0 .. CalChances]
             /\ total_prox_score' \in Nat /\ avg_prox_score' \in Nat
             /\ min_prox_score' \in Nat /\ max_prox_score' \in Nat
  <2>1. /\ prox_score' \in [Entries -> Nat]
        /\ cal_failed' \in [Entries -> 0 .. CalChances]
    BY <1>1, <1>2 DEF calibration_succeeds, TypeOK
  <2>2. total_prox_score' \in Nat /\ min_prox_score' \in Nat /\ max_prox_score' \in Nat
    BY <1>2 DEF calibration_succeeds, TypeOK
  <2>3. total_prox_score + s \in Nat /\ avg_prox_score' = (total_prox_score + s) \div n
    BY <1>2 DEF calibration_succeeds, TypeOK
  <2>4. avg_prox_score' \in Nat
    BY <2>3, Division
  <2>5. QED
    BY <2>1, <2>2, <2>4
<1>3. ASSUME NEW f \in 0 .. CalChances, calibration_aborts(e, f, scores0)
      PROVE  /\ prox_score' \in [Entries -> Nat]
             /\ cal_failed' \in [Entries -> 0 .. CalChances]
             /\ total_prox_score' \in Nat /\ avg_prox_score' \in Nat
             /\ min_prox_score' \in Nat /\ max_prox_score' \in Nat
  BY <1>3 DEF calibration_aborts, TypeOK, statVars
<1>4. QED
  BY <1>2, <1>3

\* A find or an import inserts one entry and calibrates it.
LEMMA SaveInteresting ==
  ASSUME IInv, pc # "sort", save_if_interesting
  PROVE  /\ \E score : add_to_queue(score)
         /\ prox_score' \in [Entries -> Nat]
         /\ cal_failed' \in [Entries -> 0 .. CalChances]
         /\ total_prox_score' \in Nat /\ avg_prox_score' \in Nat
         /\ min_prox_score' \in Nat /\ max_prox_score' \in Nat
<1> DEFINE scores(p) == [prox_score EXCEPT ![queued_paths] = p]
<1>1. PICK p \in Scores :
        /\ add_to_queue(scores(p))
        /\ \/ \E s \in Rescore(p) : calibration_succeeds(queued_paths, s, scores(p), queued_paths + 1)
           \/ calibration_aborts(queued_paths, 1, scores(p))
  BY DEF save_if_interesting
<1>2. queued_paths \in Entries /\ queued_paths + 1 \in Nat \ {0}
  BY <1>1, ConstantsAssumption DEF IInv, TypeOK, add_to_queue, Entries
<1>3. p \in Nat /\ Rescore(p) \subseteq Nat /\ 1 \in 0 .. CalChances
  BY ConstantsAssumption DEF Rescore
<1>4. scores(p) \in [Entries -> Nat] /\ TypeOK
  BY <1>2, <1>3 DEF IInv, TypeOK
<1>5. \/ \E s \in Nat : calibration_succeeds(queued_paths, s, scores(p), queued_paths + 1)
      \/ \E f \in 0 .. CalChances : calibration_aborts(queued_paths, f, scores(p))
  BY <1>1, <1>3
<1> HIDE DEF scores
<1>6. QED
  BY <1>1, <1>2, <1>4, <1>5, CalibrationTypes

-----------------------------------------------------------------------------
(* The splicing stage.                                                     *)

\* The slot that the splicing stage looks up is in use.
LEMMA SpliceSlot ==
  ASSUME TypeOK, ListInv, ShortcutInv, pc # "sort", NEW idx \in 0 .. queued_paths - 1
  PROVE  LET slot == SpliceStart(idx).slot
         IN /\ slot \in 0 .. Slots - 1
            /\ slot * Step + 1 \in 1 .. Len(queue)
            /\ shortcut_per_100[slot] = queue[slot * Step + 1]
            /\ SpliceStart(idx).hops \in Nat
<1>1. /\ Step \in Nat \ {0} /\ Slots \in Nat \ {0} /\ Wrap \in Nat \ {0} /\ idx \in Nat
      /\ idx < Len(queue) /\ Len(queue) \in Nat
  BY ConstantsAssumption, WholeList
<1>2. /\ idx \div Step \in Nat /\ (idx \div Step) * Step \in Nat
      /\ (idx \div Step) * Step <= idx
  BY <1>1, Division
<1>3. ASSUME NEW slot \in 0 .. Slots - 1, slot <= idx \div Step
      PROVE  /\ slot * Step + 1 \in 1 .. Len(queue)
             /\ shortcut_per_100[slot] = queue[slot * Step + 1]
  <2>1. slot * Step \in Nat /\ slot * Step <= (idx \div Step) * Step
    BY <1>1, <1>2, <1>3
  <2>2. slot * Step < Len(queue)
    BY <1>1, <1>2, <2>1
  <2>3. QED
    BY <1>1, <2>1, <2>2 DEF ShortcutInv
<1>4. CASE idx \div Step < Slots
  <2>1. SpliceStart(idx) = [slot |-> idx \div Step, hops |-> idx - (idx \div Step) * Step]
    BY <1>4 DEF SpliceStart
  <2>2. idx - (idx \div Step) * Step \in Nat /\ idx \div Step \in 0 .. Slots - 1
    BY <1>1, <1>2, <1>4
  <2>3. QED
    BY <1>2, <1>3, <2>1, <2>2
<1>5. CASE ~(idx \div Step < Slots)
  <2>1. SpliceStart(idx) = [slot |-> Slots - 1, hops |-> (idx - (idx \div Step) * Slots) % Wrap]
    BY <1>5 DEF SpliceStart
  <2>2. Slots - 1 \in 0 .. Slots - 1 /\ Slots - 1 <= idx \div Step
    BY <1>1, <1>2, <1>5
  <2>3. idx - (idx \div Step) * Slots \in Int
    BY <1>1, <1>2
  <2>4. (idx - (idx \div Step) * Slots) % Wrap \in Nat
    BY <1>1, <2>3
  <2>5. QED
    BY <1>3, <2>1, <2>2, <2>4
<1>6. QED
  BY <1>4, <1>5

\* The walk starts at the entry that the slot holds, the only one of its kind.
LEMMA SpliceWalk ==
  ASSUME TypeOK, ListInv, ShortcutInv, pc # "sort", NEW idx \in 0 .. queued_paths - 1
  PROVE  SplicePosition(idx) = SpliceStart(idx).slot * Step + 1 + SpliceStart(idx).hops
<1> DEFINE slot == SpliceStart(idx).slot
           at == CHOOSE i \in 1 .. Len(queue) : queue[i] = shortcut_per_100[slot]
<1>1. slot * Step + 1 \in 1 .. Len(queue) /\ shortcut_per_100[slot] = queue[slot * Step + 1]
  BY SpliceSlot
<1> HIDE DEF slot
<1>2. at \in 1 .. Len(queue) /\ queue[at] = shortcut_per_100[slot]
  BY <1>1
<1> HIDE DEF at
<1>3. at = slot * Step + 1
  BY <1>1, <1>2 DEF ListInv, Distinct
<1>4. QED
  BY <1>3 DEF SplicePosition, at, slot

\* As long as there is a slot for every entry, the splicing stage finds the entry
\* it draws.
LEMMA SpliceExact ==
  ASSUME TypeOK, ListInv, ShortcutInv, pc # "sort", MaxEntries <= Step * Slots,
         NEW idx \in 0 .. queued_paths - 1
  PROVE  SplicePosition(idx) = idx + 1
<1>1. /\ Step \in Nat \ {0} /\ Slots \in Nat \ {0} /\ idx \in Nat /\ MaxEntries \in Nat
      /\ queued_paths \in 0 .. MaxEntries
  BY ConstantsAssumption DEF TypeOK
<1>2. /\ idx \div Step \in Nat /\ (idx \div Step) * Step \in Nat
      /\ (idx \div Step) * Step <= idx
  BY <1>1, Division
<1>3. idx < Step * Slots
  BY <1>1
<1>4. idx \div Step < Slots
  BY <1>1, <1>2, <1>3
<1>5. SpliceStart(idx) = [slot |-> idx \div Step, hops |-> idx - (idx \div Step) * Step]
  BY <1>4 DEF SpliceStart
<1>6. SplicePosition(idx) = (idx \div Step) * Step + 1 + (idx - (idx \div Step) * Step)
  BY <1>5, SpliceWalk
<1>7. QED
  BY <1>1, <1>2, <1>6

-----------------------------------------------------------------------------
(* The initial states, and the inductive step one conjunct at a time.      *)

LEMMA InitIInv == Init => IInv
<1> SUFFICES ASSUME Init PROVE IInv
  OBVIOUS
<1>1. TypeOK
  <2>1. <<>> \in Seq(Entries) /\ 0 \in 0 .. CalChances /\ 0 \in 0 .. MaxEntries /\ 0 \in 0 .. MaxCycle
    BY ConstantsAssumption
  <2>2. /\ prox_score \in [Entries -> Nat] /\ cal_failed \in [Entries -> 0 .. CalChances]
        /\ shortcut_per_100 \in [0 .. Slots - 1 -> Entries \cup {NULL}]
    BY <2>1 DEF Init
  <2>3. stop_soon \in BOOLEAN /\ use_splicing \in BOOLEAN
    BY DEF Init
  <2>4. QED
    BY <2>1, <2>2, <2>3, ConstantsAssumption DEF Init, TypeOK, Labels
<1>2. Len(queue) = 0 /\ Len(Detached) = 0
  BY DEF Init, Detached
<1>3. ListInv /\ ShortcutInv
  <2>1. queue = <<>> /\ Detached = <<>> /\ queued_paths = 0 /\ \A n \in 0 .. Slots - 1 : shortcut_per_100[n] = NULL
    BY DEF Init, Detached
  <2>2. Elements(queue) = {} /\ Elements(Detached) = {} /\ Distinct(queue) /\ Distinct(Detached)
    BY <1>2 DEF Elements, Distinct
  <2>3. ListInv
    BY <1>2, <2>1, <2>2 DEF ListInv
  <2>4. \A n \in 0 .. Slots - 1 : n * Step \in Nat
    BY ConstantsAssumption
  <2>5. ShortcutInv
    BY <1>2, <2>1, <2>4 DEF ShortcutInv
  <2>6. QED
    BY <2>3, <2>5
<1>4. CursorInv /\ BehindCursorHandled /\ CycleComplete
  BY <1>2 DEF Init, CursorInv, BehindCursorHandled, CycleComplete, StartPhase, LoopPhase
<1>5. QED
  BY <1>1, <1>3, <1>4 DEF IInv

\* Types are preserved.
LEMMA TypeStep ==
  ASSUME IInv, [Next]_vars
  PROVE  TypeOK'
<1> USE ConstantsAssumption DEF Labels, LoopPhase
<1>0. TypeOK
  BY DEF IInv
<1>1. CASE read_testcase
  <2>1. pc # "sort" /\ add_to_queue(prox_score)
    BY <1>1 DEF read_testcase
  <2>2. QED
    BY <1>0, <1>1, <2>1, AddEntry DEF TypeOK, read_testcase, calVars, statVars, cycleVars
<1>2. CASE begin_dry_run
  BY <1>0, <1>2 DEF TypeOK, begin_dry_run, listVars, calVars, statVars, cycleVars
<1>3. CASE dry_run_seed
  <2>1. /\ Head(rest) \in Entries /\ Tail(rest) \in Seq(Entries)
        /\ queued_paths \in Nat \ {0} /\ prox_score \in [Entries -> Nat]
    <3>1. rest \in Seq(Entries) /\ rest # <<>> /\ prox_score \in [Entries -> Nat]
      BY <1>0, <1>3 DEF TypeOK, dry_run_seed
    <3>2. queued_paths \in Nat \ {0}
      BY <1>3 DEF IInv, TypeOK, CursorInv, dry_run_seed
    <3>3. QED
      BY <3>1, <3>2, HeadTailProperties
  <2>2. \/ \E s \in Nat : calibration_succeeds(Head(rest), s, prox_score, queued_paths)
        \/ \E f \in 0 .. CalChances : calibration_aborts(Head(rest), f, prox_score)
    <3>1. 1 \in 0 .. CalChances /\ CalChances \in 0 .. CalChances /\ Scores \subseteq Nat
      OBVIOUS
    <3>2. QED
      BY <1>3, <3>1 DEF dry_run_seed
  <2>3. /\ prox_score' \in [Entries -> Nat]
        /\ cal_failed' \in [Entries -> 0 .. CalChances]
        /\ total_prox_score' \in Nat /\ avg_prox_score' \in Nat
        /\ min_prox_score' \in Nat /\ max_prox_score' \in Nat
    BY <1>0, <2>1, <2>2, CalibrationTypes
  <2>4. pc' \in Labels /\ rest' \in Seq(Entries)
    BY <1>0, <1>3, <2>1 DEF TypeOK, dry_run_seed
  <2>5. QED
    BY <1>0, <1>3, <2>3, <2>4 DEF TypeOK, dry_run_seed, listVars, cycleVars
<1>4. CASE stop_dry_run
  <2>1. /\ prox_score' \in [Entries -> Nat]
        /\ cal_failed' \in [Entries -> 0 .. CalChances]
        /\ total_prox_score' \in Nat /\ avg_prox_score' \in Nat
        /\ min_prox_score' \in Nat /\ max_prox_score' \in Nat
    <3>1. CASE UNCHANGED calVars
      BY <1>0, <3>1 DEF TypeOK, calVars, statVars
    <3>2. CASE rest # <<>> /\ calibration_aborts(Head(rest), 1, prox_score)
      <4>1. Head(rest) \in Entries /\ prox_score \in [Entries -> Nat] /\ 1 \in 0 .. CalChances
        BY <1>0, <3>2, HeadTailProperties DEF TypeOK
      <4>2. QED
        BY <1>0, <3>2, <4>1, CalibrationTypes
    <3>3. QED
      BY <1>4, <3>1, <3>2 DEF stop_dry_run
  <2>2. QED
    BY <1>0, <1>4, <2>1 DEF TypeOK, stop_dry_run, listVars, cycleVars
<1>5. CASE begin_sort
  <2>1. <<>> \in Seq(Entries) /\ [n \in 0 .. Slots - 1 |-> NULL] \in [0 .. Slots - 1 -> Entries \cup {NULL}]
    OBVIOUS
  <2>2. /\ pc' \in Labels /\ rest' \in Seq(Entries) /\ queue' \in Seq(Entries)
        /\ shortcut_per_100' \in [0 .. Slots - 1 -> Entries \cup {NULL}]
    BY <1>0, <1>5, <2>1 DEF TypeOK, begin_sort
  <2>3. QED
    BY <1>0, <1>5, <2>2 DEF TypeOK, begin_sort, calVars, statVars, cycleVars
<1>6. CASE sort_entry
  BY <1>0, <1>6, ReinsertEntry DEF TypeOK, sort_entry, calVars, statVars, cycleVars
<1>7. CASE end_sort
  BY <1>0, <1>7 DEF TypeOK, end_sort, listVars, calVars, statVars, cycleVars
<1>8. CASE start_cycle
  <2>1. queue_cur' \in Entries
    <3>1. /\ queue_cur' = Head(queue) /\ queue \in Seq(Entries) /\ Len(queue) > 0
      BY <1>0, <1>8, WholeList DEF start_cycle, IInv, CursorInv, TypeOK
    <3>2. QED
      BY <3>1, EmptySeq, HeadTailProperties
  <2>2. /\ pc' \in Labels /\ queue_cycle' \in 0 .. MaxCycle /\ prev_queued' \in 0 .. MaxEntries
        /\ handled_in_cycle' \subseteq Entries
    BY <1>0, <1>8 DEF TypeOK, start_cycle
  <2>3. use_splicing' \in BOOLEAN
    BY <1>0, <1>8 DEF TypeOK, start_cycle
  <2>4. QED
    BY <1>0, <1>8, <2>1, <2>2, <2>3 DEF TypeOK, start_cycle, listVars, calVars, statVars
<1>9. CASE handle_entry
  BY <1>0, <1>9 DEF TypeOK, handle_entry, listVars, calVars, statVars, cycleVars
<1>10. CASE recalibrate
  <2>1. /\ queue_cur \in Entries /\ queued_paths \in Nat \ {0} /\ prox_score \in [Entries -> Nat]
    BY <1>10 DEF IInv, TypeOK, CursorInv, recalibrate
  <2>2. \/ UNCHANGED calVars
        \/ \E s \in Nat : calibration_succeeds(queue_cur, s, prox_score, queued_paths)
        \/ \E f \in 0 .. CalChances : calibration_aborts(queue_cur, f, prox_score)
    <3>1. Rescore(prox_score[queue_cur]) \subseteq Nat
      BY <2>1 DEF Rescore
    <3>2. cal_failed[queue_cur] < CalChances => cal_failed[queue_cur] + 1 \in 0 .. CalChances
      BY <1>0, <2>1 DEF TypeOK
    <3>3. QED
      BY <1>10, <3>1, <3>2 DEF recalibrate
  <2>3. /\ prox_score' \in [Entries -> Nat]
        /\ cal_failed' \in [Entries -> 0 .. CalChances]
        /\ total_prox_score' \in Nat /\ avg_prox_score' \in Nat
        /\ min_prox_score' \in Nat /\ max_prox_score' \in Nat
    <3>1. CASE UNCHANGED calVars
      BY <1>0, <3>1 DEF TypeOK, calVars, statVars
    <3>2. QED
      BY <1>0, <2>1, <2>2, <3>1, CalibrationTypes
  <2>4. pc' \in Labels
    BY <1>10 DEF recalibrate
  <2>5. QED
    BY <1>0, <1>10, <2>3, <2>4 DEF TypeOK, recalibrate, listVars, cycleVars
<1>11. CASE find_new \/ import_case
  <2>1. /\ pc # "sort" /\ save_if_interesting
        /\ UNCHANGED <<pc, stop_soon, rest, handled_in_cycle, queue_cur, cycleVars, splicing_with>>
    BY <1>11 DEF find_new, import_case
  <2>2. PICK score : add_to_queue(score)
    BY <2>1, SaveInteresting
  <2>3. QED
    BY <1>0, <2>1, <2>2, SaveInteresting, AddEntry DEF TypeOK, cycleVars
<1>12. CASE splice
  <2>1. splicing_with' \in Entries
    <3>1. /\ pc # "sort" /\ queue \in Seq(Entries)
          /\ \E idx \in 0 .. queued_paths - 1 : \E j \in SplicePosition(idx) .. Len(queue) : splicing_with' = queue[j]
      BY <1>0, <1>12 DEF splice, TypeOK
    <3>2. PICK idx \in 0 .. queued_paths - 1 : \E j \in SplicePosition(idx) .. Len(queue) : splicing_with' = queue[j]
      BY <3>1
    <3>3. SpliceStart(idx).slot * Step + 1 \in 1 .. Len(queue) /\ SpliceStart(idx).hops \in Nat
      BY <1>0, <3>1, SpliceSlot DEF IInv
    <3>4. SplicePosition(idx) \in Nat \ {0}
      BY <1>0, <3>1, <3>3, SpliceWalk DEF IInv
    <3>5. QED
      BY <3>1, <3>2, <3>4, ElementOfSeq, LenProperties
  <2>2. QED
    BY <1>0, <1>12, <2>1 DEF TypeOK, splice, listVars, calVars, statVars, cycleVars
<1>13. CASE finish_fuzz \/ end_import
  BY <1>0, <1>13 DEF TypeOK, finish_fuzz, end_import, listVars, calVars, statVars, cycleVars
<1>14. CASE advance
  <2>1. queue_cur' \in Entries \cup {NULL} /\ first_unhandled' \in Entries \cup {NULL} /\ pc' \in Labels
    BY <1>0, <1>14 DEF TypeOK, advance, select_next
  <2>2. QED
    BY <1>0, <1>14, <2>1 DEF TypeOK, advance, calVars, statVars, cycleVars
<1>15. CASE handle_stop_sig
  BY <1>0, <1>15 DEF TypeOK, handle_stop_sig, listVars, calVars, statVars, cycleVars
<1>16. CASE UNCHANGED vars
  BY <1>0, <1>16 DEF TypeOK, vars, listVars, calVars, statVars, cycleVars
<1>17. QED
  BY <1>1, <1>2, <1>3, <1>4, <1>5, <1>6, <1>7, <1>8, <1>9, <1>10, <1>11, <1>12, <1>13,
     <1>14, <1>15, <1>16 DEF Next, finished

\* The list keeps every entry, and the shortcuts point into it.
LEMMA ListStep ==
  ASSUME IInv, [Next]_vars
  PROVE  ListInv' /\ ShortcutInv'
<1>0. TypeOK /\ ListInv /\ ShortcutInv
  BY DEF IInv
<1>1. ASSUME pc # "sort", pc' # "sort", NEW score, add_to_queue(score)
      PROVE  ListInv' /\ ShortcutInv'
  <2>1. /\ queued_paths' = queued_paths + 1 /\ queued_paths \in Entries
        /\ Len(queue') = Len(queue) + 1
        /\ Elements(queue') = Elements(queue) \cup {queued_paths}
        /\ Distinct(queue')
        /\ ShortcutInv'
        /\ Len(queue) = queued_paths /\ Elements(queue) = 0 .. queued_paths - 1
    BY <1>1, AddEntry
  <2>2. Detached' = <<>> /\ Len(<<>>) = 0 /\ Elements(<<>>) = {} /\ Distinct(<<>>)
    BY <1>1 DEF Detached, Elements, Distinct
  <2>3. /\ Len(queue') = queued_paths' /\ Elements(queue') = 0 .. queued_paths' - 1
        /\ queued_paths' \in Nat
    BY <2>1, ConstantsAssumption DEF Entries
  <2>4. Len(queue') + Len(<<>>) = queued_paths'
    <3>1. \A m \in Nat : m + 0 = m
      OBVIOUS
    <3>2. Len(queue') = queued_paths' /\ queued_paths' \in Nat
      BY <2>3
    <3>3. Len(queue') + 0 = queued_paths'
      BY <3>1, <3>2, Zenon
    <3>4. QED
      BY <2>2, <3>3
  <2>5. Elements(queue') \cup {} = 0 .. queued_paths' - 1 /\ Elements(queue') \cap {} = {}
    BY <2>3
  <2>6. ListInv'
    BY <2>1, <2>2, <2>4, <2>5 DEF ListInv
  <2>7. QED
    BY <2>1, <2>6
<1>2. CASE read_testcase
  BY <1>1, <1>2 DEF read_testcase
<1>3. CASE find_new \/ import_case
  <2>1. pc # "sort" /\ pc' = pc /\ save_if_interesting
    BY <1>3 DEF find_new, import_case
  <2>2. QED
    BY <1>1, <2>1, SaveInteresting
<1>4. CASE sort_entry
  BY <1>4, ReinsertEntry
<1>5. CASE UNCHANGED <<queue, queued_paths, shortcut_per_100>> /\ Detached' = Detached
  BY <1>0, <1>5 DEF ListInv, ShortcutInv
<1>6. CASE begin_sort
  <2>1. CASE pc' = "done" /\ UNCHANGED <<queue, rest, shortcut_per_100>>
    <3>1. UNCHANGED queued_paths /\ Detached' = Detached
      BY <1>6, <2>1 DEF begin_sort, Detached
    <3>2. QED
      BY <1>5, <2>1, <3>1
  <2>2. CASE /\ pc' = "sort" /\ rest' = queue /\ queue' = <<>>
             /\ shortcut_per_100' = [n \in 0 .. Slots - 1 |-> NULL]
    <3>1. /\ Detached' = queue /\ queued_paths' = queued_paths /\ pc # "sort"
      BY <1>6, <2>2 DEF begin_sort, Detached
    <3>2. /\ Len(queue) = queued_paths /\ Elements(queue) = 0 .. queued_paths - 1
          /\ Distinct(queue) /\ queued_paths \in Nat
      BY <1>0, <3>1, WholeList DEF ListInv
    <3>3. Len(queue') = 0 /\ Elements(queue') = {} /\ Distinct(queue')
      BY <2>2 DEF Elements, Distinct
    <3>4. /\ 0 + Len(queue) = queued_paths
          /\ {} \cup Elements(queue) = 0 .. queued_paths - 1 /\ {} \cap Elements(queue) = {}
      BY <3>2
    <3>5. ListInv'
      BY <3>1, <3>2, <3>3, <3>4 DEF ListInv
    <3>6. ShortcutInv'
      <4>1. \A n \in 0 .. Slots - 1 : n * Step \in Nat
        BY ConstantsAssumption
      <4>2. QED
        BY <2>2, <3>3, <4>1 DEF ShortcutInv
    <3>7. QED
      BY <3>5, <3>6
  <2>3. QED
    BY <1>6, <2>1, <2>2 DEF begin_sort
<1>7. CASE end_sort
  <2>1. Detached = <<>> /\ Detached' = <<>> /\ UNCHANGED <<queue, queued_paths, shortcut_per_100>>
    BY <1>7 DEF end_sort, Detached, listVars
  <2>2. QED
    BY <1>5, <2>1
<1>8. CASE /\ UNCHANGED <<queue, queued_paths, shortcut_per_100>>
           /\ pc # "sort" /\ pc' # "sort"
  BY <1>5, <1>8 DEF Detached
<1>9. CASE UNCHANGED vars \/ handle_stop_sig
  BY <1>5, <1>9 DEF vars, listVars, handle_stop_sig, Detached
<1>10. ASSUME \/ begin_dry_run \/ dry_run_seed \/ stop_dry_run \/ start_cycle \/ handle_entry
              \/ recalibrate \/ splice \/ finish_fuzz \/ end_import \/ advance
       PROVE  /\ UNCHANGED <<queue, queued_paths, shortcut_per_100>>
              /\ pc # "sort" /\ pc' # "sort"
  BY <1>10 DEF begin_dry_run, dry_run_seed, stop_dry_run, start_cycle, handle_entry,
               recalibrate, splice, finish_fuzz, end_import, advance, listVars
<1>11. QED
  BY <1>2, <1>3, <1>4, <1>6, <1>7, <1>8, <1>9, <1>10 DEF Next, finished

\* When nothing is handled, the first unhandled entry is the head.
LEMMA FirstIsHead ==
  ASSUME NEW s \in Seq(Entries), Len(s) > 0, NEW x, IsFirstUnhandledFrom(s, 1, {}, x)
  PROVE  x = s[1]
BY LenProperties DEF IsFirstUnhandledFrom

\* The cursors.
LEMMA CursorStep ==
  ASSUME IInv, [Next]_vars
  PROVE  CursorInv'
<1> USE DEF StartPhase, LoopPhase
<1>0. TypeOK /\ CursorInv /\ queue \in Seq(Entries) /\ Len(queue) \in Nat /\ queued_paths \in Nat
  BY LenProperties DEF IInv, TypeOK
<1>1. CASE read_testcase
  <2>1. /\ pc = "read" /\ pc' = "read" /\ add_to_queue(prox_score)
        /\ UNCHANGED <<handled_in_cycle, queue_cur, queue_cycle>>
    BY <1>1 DEF read_testcase, cycleVars
  <2>2. /\ queue' \in Seq(Entries) /\ Len(queue') = Len(queue) + 1
        /\ queue = <<>> => first_unhandled' = first_unhandled
        /\ queue # <<>> => IsFirstUnhandledFrom(queue', 1, handled_in_cycle, first_unhandled')
    BY <2>1, AddEntry
  <2>3. handled_in_cycle = {} /\ first_unhandled = IF Len(queue) >= 2 THEN queue[1] ELSE NULL
    BY <1>0, <2>1 DEF CursorInv
  <2>4. queue = <<>> <=> Len(queue) = 0
    BY <1>0, EmptySeq
  <2>5. first_unhandled' = IF Len(queue') >= 2 THEN queue'[1] ELSE NULL
    BY <1>0, <2>2, <2>3, <2>4, FirstIsHead
  <2>6. QED
    BY <1>0, <2>1, <2>5 DEF CursorInv
<1>2. CASE begin_dry_run
  BY <1>0, <1>2 DEF CursorInv, begin_dry_run, listVars, cycleVars
<1>3. CASE dry_run_seed
  BY <1>0, <1>3 DEF CursorInv, dry_run_seed, listVars, cycleVars
<1>4. CASE stop_dry_run
  BY <1>0, <1>4 DEF CursorInv, stop_dry_run, listVars, cycleVars
<1>5. CASE begin_sort
  <2>1. pc # "sort"
    BY <1>5 DEF begin_sort
  <2>2. Len(queue) = queued_paths
    BY <1>0, <2>1, WholeList DEF IInv
  <2>3. pc' = "sort" => Len(queue') = 0
    BY <1>5 DEF begin_sort
  <2>4. QED
    BY <1>0, <1>5, <2>2, <2>3 DEF CursorInv, begin_sort, cycleVars
<1>6. CASE sort_entry
  <2>1. /\ pc = "sort" /\ pc' = "sort"
        /\ UNCHANGED <<handled_in_cycle, queue_cur, queue_cycle, queued_paths>>
    BY <1>6 DEF sort_entry, cycleVars
  <2>2. /\ queue' \in Seq(Entries) /\ Len(queue') = Len(queue) + 1
        /\ queue = <<>> => first_unhandled' = first_unhandled
        /\ queue # <<>> => IsFirstUnhandledFrom(queue', 1, handled_in_cycle, first_unhandled')
        /\ ListInv'
    BY <1>6, ReinsertEntry
  <2>3. handled_in_cycle = {} /\ (queued_paths <= 1 => first_unhandled = NULL)
    BY <1>0, <2>1 DEF CursorInv
  <2>4. queue = <<>> <=> Len(queue) = 0
    BY <1>0, EmptySeq
  <2>5. Len(queue') >= 2 => first_unhandled' = queue'[1]
    BY <1>0, <2>2, <2>3, <2>4, FirstIsHead
  <2>6. queued_paths <= 1 => Len(queue) = 0
    <3>1. rest \in Seq(Entries) /\ rest # <<>> /\ Detached = rest
      BY <1>0, <1>6 DEF TypeOK, sort_entry, Detached
    <3>2. Len(rest) \in Nat \ {0}
      BY <3>1, EmptySeq
    <3>3. QED
      BY <1>0, <3>1, <3>2 DEF IInv, ListInv
  <2>7. QED
    BY <1>0, <2>1, <2>2, <2>3, <2>4, <2>5, <2>6 DEF CursorInv
<1>7. CASE end_sort
  <2>1. Detached = <<>> /\ Len(<<>>) = 0 /\ pc = "sort"
    BY <1>7 DEF end_sort, Detached
  <2>2. Len(queue) = queued_paths
    BY <1>0, <2>1 DEF IInv, ListInv
  <2>3. first_unhandled \in {NULL, queue[1]}
    BY <1>0, <2>1, <2>2 DEF CursorInv
  <2>4. QED
    BY <1>0, <1>7, <2>3 DEF CursorInv, end_sort, listVars, cycleVars
<1>8. CASE start_cycle
  <2>1. /\ queue_cur' = Head(queue) /\ UNCHANGED <<queue, queued_paths>> /\ pc' \in {"loop", "import"}
        /\ pc = "loop"
    BY <1>8 DEF start_cycle, listVars
  <2>2. Len(queue) > 0
    BY <1>0, <2>1, WholeList DEF IInv, CursorInv
  <2>3. Head(queue) = queue[1] /\ queue[1] \in Elements(queue) /\ queue[1] \in Entries
    BY <1>0, <2>2, ElementOfSeq DEF Elements
  <2>4. NULL \notin Entries
    BY ConstantsAssumption DEF Entries
  <2>5. QED
    BY <1>0, <2>1, <2>3, <2>4 DEF CursorInv
<1>9. CASE handle_entry
  BY <1>0, <1>9 DEF CursorInv, handle_entry, listVars
<1>10. CASE recalibrate \/ splice \/ finish_fuzz
  BY <1>0, <1>10 DEF CursorInv, recalibrate, splice, finish_fuzz, listVars
<1>11. CASE find_new \/ import_case
  <2>1. /\ pc \in {"fuzz", "import", "sync"} /\ pc' = pc /\ queue_cur' = queue_cur
        /\ save_if_interesting
    BY <1>11 DEF find_new, import_case
  <2>2. PICK score : add_to_queue(score)
    BY <2>1, SaveInteresting
  <2>3. queued_paths' = queued_paths + 1 /\ Elements(queue) \subseteq Elements(queue')
    BY <2>1, <2>2, AddEntry
  <2>4. QED
    BY <1>0, <2>1, <2>3 DEF CursorInv
<1>12. CASE end_import
  BY <1>0, <1>12 DEF CursorInv, end_import, listVars
<1>13. CASE advance
  <2>1. /\ pc = "advance" /\ pc' \in {"done", "loop"} /\ UNCHANGED <<queue, queued_paths>>
    BY <1>13 DEF advance
  <2>2. CASE pc' = "done"
    BY <1>0, <2>1, <2>2 DEF CursorInv
  <2>3. CASE pc' = "loop"
    <3>1. select_next
      BY <1>13, <2>3 DEF advance
    <3>2. CASE first_unhandled # NULL
      <4>1. queue_cur' = first_unhandled /\ first_unhandled' = NULL
        BY <3>1, <3>2 DEF select_next
      <4>2. \E c \in 1 .. Len(queue) : queue[c] = first_unhandled
        BY <2>1, <3>2 DEF IInv, BehindCursorHandled
      <4>3. QED
        BY <1>0, <2>1, <2>3, <3>2, <4>1, <4>2 DEF CursorInv, Elements
    <3>3. CASE first_unhandled = NULL
      <4>1. PICK c \in 1 .. Len(queue) : IsFirstUnhandledFrom(queue, c, handled_in_cycle, queue_cur')
        BY <3>1, <3>3 DEF select_next
      <4>2. queue_cur' \in Elements(queue) \cup {NULL}
        BY <1>0, <4>1 DEF IsFirstUnhandledFrom, Elements
      <4>3. first_unhandled' = NULL
        BY <3>1, <3>3 DEF select_next
      <4>4. QED
        BY <1>0, <2>1, <2>3, <4>2, <4>3 DEF CursorInv
    <3>4. QED
      BY <3>2, <3>3
  <2>4. QED
    BY <2>1, <2>2, <2>3
<1>14. CASE handle_stop_sig \/ UNCHANGED vars
  BY <1>0, <1>14 DEF CursorInv, handle_stop_sig, vars, listVars, cycleVars
<1>15. QED
  BY <1>1, <1>2, <1>3, <1>4, <1>5, <1>6, <1>7, <1>8, <1>9, <1>10, <1>11, <1>12, <1>13,
     <1>14 DEF Next, finished

\* The place to resume from, and the end of a cycle.
LEMMA CycleStep ==
  ASSUME IInv, [Next]_vars
  PROVE  BehindCursorHandled' /\ CycleComplete'
<1> USE DEF LoopPhase
<1>0. /\ TypeOK /\ CursorInv /\ BehindCursorHandled /\ CycleComplete
      /\ queue \in Seq(Entries) /\ Len(queue) \in Nat /\ NULL \notin Entries
  BY LenProperties, ConstantsAssumption DEF IInv, TypeOK, Entries
<1>1. CASE pc' \notin LoopPhase
  BY <1>1 DEF BehindCursorHandled, CycleComplete
<1>2. CASE end_sort
  <2>1. UNCHANGED <<queue_cur, queue_cycle>> /\ pc = "sort" /\ pc' \in {"loop", "done"}
    BY <1>2 DEF end_sort, cycleVars
  <2>2. QED
    BY <1>0, <2>1 DEF CursorInv, StartPhase, BehindCursorHandled, CycleComplete
<1>3. CASE start_cycle
  <2>1. /\ queue_cur' = Head(queue) /\ UNCHANGED <<queue, first_unhandled>> /\ pc' \in {"loop", "import"}
        /\ pc = "loop" /\ queue_cur = NULL
    BY <1>3 DEF start_cycle, listVars
  <2>2. Len(queue) > 0
    BY <1>0, <2>1, WholeList DEF IInv, CursorInv
  <2>3. Head(queue) = queue[1] /\ queue[1] \in Entries
    BY <1>0, <2>2, ElementOfSeq
  <2>4. first_unhandled \in {NULL, queue[1]}
    BY <1>0, <2>1 DEF CursorInv
  <2>5. 1 \in 1 .. Len(queue) /\ 1 .. 1 - 1 = {}
    BY <1>0, <2>2
  <2>6. QED
    BY <1>0, <2>1, <2>3, <2>4, <2>5 DEF BehindCursorHandled, CycleComplete
<1>4. CASE handle_entry
  <2>1. /\ pc = "loop" /\ queue_cur # NULL /\ pc' \in {"advance", "calibrate", "fuzz"}
        /\ handled_in_cycle \subseteq handled_in_cycle'
        /\ UNCHANGED <<queue, first_unhandled, queue_cur>>
    BY <1>4 DEF handle_entry, listVars
  <2>2. QED
    BY <1>0, <2>1 DEF BehindCursorHandled, CycleComplete
<1>5. CASE recalibrate \/ splice \/ finish_fuzz \/ end_import
  <2>1. /\ pc \in LoopPhase \ {"loop"} /\ queue_cur # NULL /\ pc' \in LoopPhase
        /\ UNCHANGED <<queue, first_unhandled, queue_cur, handled_in_cycle>>
    BY <1>0, <1>5 DEF CursorInv, recalibrate, splice, finish_fuzz, end_import, listVars
  <2>2. QED
    BY <1>0, <2>1 DEF BehindCursorHandled, CycleComplete
<1>6. CASE find_new \/ import_case
  <2>1. /\ pc \in {"fuzz", "import", "sync"} /\ pc' = pc /\ UNCHANGED <<queue_cur, handled_in_cycle>>
        /\ save_if_interesting
    BY <1>6 DEF find_new, import_case
  <2>2. PICK score : add_to_queue(score)
    BY <2>1, SaveInteresting
  <2>3. queue_cur \in Elements(queue) /\ queue # <<>> /\ queue_cur # NULL
    <3>1. queue_cur \in Elements(queue) /\ queue_cur # NULL
      BY <1>0, <2>1 DEF CursorInv
    <3>2. QED
      BY <3>1 DEF Elements
  <2>4. /\ queue' \in Seq(Entries) /\ Elements(queue) \subseteq Elements(queue')
        /\ IsFirstUnhandledFrom(queue', 1, handled_in_cycle, first_unhandled')
    BY <2>1, <2>2, <2>3, AddEntry
  <2>5. Len(queue') \in Nat /\ \A i \in 1 .. Len(queue') : queue'[i] \in Entries
    BY <2>4, LenProperties, ElementOfSeq
  <2>6. CASE first_unhandled' = NULL
    <3>1. \A i \in 1 .. Len(queue') : queue'[i] \in handled_in_cycle
      BY <1>0, <2>4, <2>5, <2>6 DEF IsFirstUnhandledFrom
    <3>2. PICK c \in 1 .. Len(queue') : queue'[c] = queue_cur
      BY <2>3, <2>4 DEF Elements
    <3>3. \A j \in 1 .. c - 1 : j \in 1 .. Len(queue')
      BY <2>5
    <3>4. QED
      BY <2>1, <2>6, <3>1, <3>2, <3>3 DEF BehindCursorHandled, CycleComplete
  <2>7. CASE first_unhandled' # NULL
    <3>1. PICK c \in 1 .. Len(queue') : /\ first_unhandled' = queue'[c]
                                        /\ \A j \in 1 .. c - 1 : queue'[j] \in handled_in_cycle
      BY <2>4, <2>7 DEF IsFirstUnhandledFrom
    <3>2. QED
      BY <2>1, <2>7, <3>1 DEF BehindCursorHandled, CycleComplete
  <2>8. QED
    BY <2>6, <2>7
<1>7. CASE advance /\ pc' = "loop"
  <2>1. /\ pc = "advance" /\ select_next /\ UNCHANGED <<queue, handled_in_cycle>>
        /\ queue_cur # NULL
    BY <1>0, <1>7 DEF advance, CursorInv
  <2>2. PICK c0 \in 1 .. Len(queue) :
          /\ queue[c0] = IF first_unhandled # NULL THEN first_unhandled ELSE queue_cur
          /\ \A j \in 1 .. c0 - 1 : queue[j] \in handled_in_cycle
    BY <1>0, <2>1 DEF BehindCursorHandled
  <2>3. CASE first_unhandled # NULL
    <3>1. queue_cur' = first_unhandled /\ first_unhandled' = NULL
      BY <2>1, <2>3 DEF select_next
    <3>2. QED
      BY <1>7, <2>1, <2>2, <2>3, <3>1 DEF BehindCursorHandled, CycleComplete
  <2>4. CASE first_unhandled = NULL
    <3>1. PICK c \in 1 .. Len(queue) :
            /\ queue[c] = queue_cur
            /\ IsFirstUnhandledFrom(queue, c, handled_in_cycle, queue_cur')
      BY <2>1, <2>4 DEF select_next
    <3>2. c = c0
      BY <2>2, <2>4, <3>1 DEF IInv, ListInv, Distinct
    <3>3. \A j \in 1 .. c - 1 : queue[j] \in handled_in_cycle
      BY <2>2, <3>2
    <3>4. first_unhandled' = NULL
      BY <2>1, <2>4 DEF select_next
    <3>5. \A i \in 1 .. Len(queue) : queue[i] # NULL
      BY <1>0, ElementOfSeq
    <3>6. CASE queue_cur' = NULL
      <4>1. \A i \in c .. Len(queue) : queue[i] \in handled_in_cycle
        BY <3>1, <3>5, <3>6 DEF IsFirstUnhandledFrom
      <4>2. \A i \in 1 .. Len(queue) : queue[i] \in handled_in_cycle
        BY <1>0, <3>3, <4>1
      <4>3. QED
        BY <1>7, <2>1, <3>6, <4>2 DEF BehindCursorHandled, CycleComplete, Elements
    <3>7. CASE queue_cur' # NULL
      <4>1. PICK i \in c .. Len(queue) : /\ queue_cur' = queue[i]
                                         /\ \A j \in c .. i - 1 : queue[j] \in handled_in_cycle
        BY <3>1, <3>7 DEF IsFirstUnhandledFrom
      <4>2. i \in 1 .. Len(queue) /\ \A j \in 1 .. i - 1 : queue[j] \in handled_in_cycle
        BY <1>0, <3>3, <4>1
      <4>3. QED
        BY <1>7, <2>1, <3>4, <3>7, <4>1, <4>2 DEF BehindCursorHandled, CycleComplete
    <3>8. QED
      BY <3>6, <3>7
  <2>5. QED
    BY <2>3, <2>4
<1>8. CASE handle_stop_sig \/ UNCHANGED vars
  <2>1. UNCHANGED <<pc, queue, first_unhandled, queue_cur, handled_in_cycle, queue_cycle>>
    BY <1>8 DEF handle_stop_sig, vars, listVars, cycleVars
  <2>2. QED
    BY <1>0, <2>1 DEF BehindCursorHandled, CycleComplete, Elements
<1>9. ASSUME \/ read_testcase \/ begin_dry_run \/ dry_run_seed \/ stop_dry_run \/ begin_sort
             \/ sort_entry \/ (advance /\ pc' # "loop")
      PROVE  pc' \notin LoopPhase
  BY <1>9 DEF read_testcase, begin_dry_run, dry_run_seed, stop_dry_run, begin_sort, sort_entry, advance
<1>10. QED
  BY <1>1, <1>2, <1>3, <1>4, <1>5, <1>6, <1>7, <1>8, <1>9 DEF Next, finished

-----------------------------------------------------------------------------
(* The theorems.                                                           *)

\* The invariant is inductive.
LEMMA NextIInv == IInv /\ [Next]_vars => IInv'
BY TypeStep, ListStep, CursorStep, CycleStep DEF IInv

\* Every state of the main loop satisfies the invariant.
LEMMA AlwaysIInv == Spec => []IInv
BY InitIInv, NextIInv, PTL DEF Spec

\* Types are respected: the list only holds entries that add_to_queue() created,
\* cal_failed never exceeds CAL_CHANCES, and the splicing stage never starts its
\* walk from an empty shortcut.
THEOREM TypeCorrect == Spec => []TypeOK
<1>1. IInv => TypeOK
  BY DEF IInv
<1>2. QED
  BY <1>1, AlwaysIInv, PTL

\* sorted_insert_to_queue() and sort_queue() lose, duplicate and invent nothing.
THEOREM ListCorrect == Spec => []NothingLost
<1>1. IInv => NothingLost
  <2> SUFFICES ASSUME IInv PROVE NothingLost
    OBVIOUS
  <2>1. CASE pc # "sort"
    BY <2>1, WholeList DEF IInv, NothingLost
  <2>2. CASE pc = "sort"
    <3>1. /\ queue \in Seq(Entries) /\ rest \in Seq(Entries) /\ Detached = rest
      BY <2>2 DEF IInv, TypeOK, Detached
    <3>2. /\ Len(queue) \in Nat /\ Len(rest) \in Nat
          /\ Len(queue \o rest) = Len(queue) + Len(rest)
          /\ \A i \in 1 .. Len(queue) + Len(rest) :
               (queue \o rest)[i] = IF i <= Len(queue) THEN queue[i] ELSE rest[i - Len(queue)]
      BY <3>1, LenProperties, ConcatProperties
    <3>3. Elements(queue \o rest) \subseteq Elements(queue) \cup Elements(rest)
      BY <3>2 DEF Elements
    <3>4. Elements(queue) \subseteq Elements(queue \o rest)
      BY <3>2 DEF Elements
    <3>5. Elements(rest) \subseteq Elements(queue \o rest)
      <4>1. SUFFICES ASSUME NEW j \in 1 .. Len(rest) PROVE rest[j] \in Elements(queue \o rest)
        BY DEF Elements
      <4>2. j + Len(queue) \in 1 .. Len(queue \o rest) /\ (queue \o rest)[j + Len(queue)] = rest[j]
        BY <3>2
      <4>3. QED
        BY <4>2 DEF Elements
    <3>6. QED
      BY <2>2, <3>1, <3>2, <3>3, <3>4, <3>5 DEF IInv, ListInv, NothingLost
  <2>3. QED
    BY <2>1, <2>2
<1>2. QED
  BY <1>1, AlwaysIInv, PTL

\* No cycle of main() passes over an entry, wherever and whenever new entries are
\* inserted: the place to resume from has only handled entries in front of it,
\* and a cycle ends when everything is handled.
THEOREM CycleCorrect == Spec => [](BehindCursorHandled /\ CycleComplete)
<1>1. IInv => BehindCursorHandled /\ CycleComplete
  BY DEF IInv
<1>2. QED
  BY <1>1, AlwaysIInv, PTL

\* The shortcuts are exact.
THEOREM ShortcutsCorrect == Spec => []ShortcutsExact
<1>1. IInv => ShortcutsExact
  BY DEF IInv, ShortcutInv, ShortcutsExact
<1>2. QED
  BY <1>1, AlwaysIInv, PTL

\* The splicing stage finds every entry it draws if the slots suffice for the
\* queue (up to 102400 entries).  In longer queues the index of the shortcut wraps
\* around and the walk starts from the wrong entry.
THEOREM SpliceCorrect == MaxEntries <= Step * Slots => (Spec => []SpliceLookupExact)
<1>1. MaxEntries <= Step * Slots => (IInv => SpliceLookupExact)
  BY SpliceExact DEF IInv, SpliceLookupExact
<1>2. ASSUME MaxEntries <= Step * Slots PROVE Spec => []SpliceLookupExact
  <2>1. IInv => SpliceLookupExact
    BY <1>1, <1>2
  <2>2. QED
    BY <2>1, AlwaysIInv, PTL
<1>3. QED
  BY <1>2

-----------------------------------------------------------------------------
(* Handling an entry once in a cycle.                                      *)

\* From the second cycle on, first_unhandled is what it says, and it is used up when
\* main() hands an entry to fuzz_one().
RepeatInv ==
  /\ pc = "import" => queue_cycle <= 1
  /\ (pc = "loop" /\ queue_cur = NULL /\ queue_cycle > 0) => first_unhandled = NULL
  /\ (pc \in LoopPhase /\ queue_cycle > 1) =>
       first_unhandled = NULL \/ first_unhandled \notin handled_in_cycle
  /\ (pc = "loop" /\ queue_cur # NULL /\ queue_cycle > 1) =>
       queue_cur \notin handled_in_cycle /\ first_unhandled = NULL

LEMMA RepeatStep ==
  ASSUME IInv, RepeatInv, [Next]_vars
  PROVE  RepeatInv'
<1> USE DEF LoopPhase
<1>0. /\ TypeOK /\ CursorInv /\ NULL \notin Entries /\ MaxCycle \in Nat \ {0}
      /\ queue_cycle \in Nat /\ queue \in Seq(Entries)
  BY ConstantsAssumption DEF IInv, TypeOK, Entries
<1>1. CASE pc' \notin LoopPhase
  BY <1>1 DEF RepeatInv
<1>2. CASE end_sort
  <2>1. UNCHANGED <<queue_cur, queue_cycle>> /\ pc = "sort" /\ pc' \in {"loop", "done"}
    BY <1>2 DEF end_sort, cycleVars
  <2>2. QED
    BY <1>0, <2>1 DEF CursorInv, StartPhase, RepeatInv
<1>3. CASE start_cycle
  <2>1. /\ queue_cur' = Head(queue) /\ UNCHANGED <<queue, first_unhandled>>
        /\ pc = "loop" /\ queue_cur = NULL /\ handled_in_cycle' = {}
        /\ queue_cycle' = IF queue_cycle < MaxCycle THEN queue_cycle + 1 ELSE queue_cycle
        /\ pc' \in {"loop", "import"} /\ (pc' = "import" => queue_cycle = 0)
    BY <1>3 DEF start_cycle, listVars
  <2>2. Len(queue) > 0
    BY <1>0, <2>1, WholeList DEF IInv, CursorInv
  <2>3. Head(queue) # NULL
    BY <1>0, <2>2, ElementOfSeq
  <2>4. queue_cycle' > 1 => queue_cycle > 0
    BY <1>0, <2>1
  <2>5. pc' = "import" => queue_cycle' <= 1
    BY <1>0, <2>1
  <2>6. QED
    BY <2>1, <2>3, <2>4, <2>5 DEF RepeatInv
<1>4. CASE handle_entry
  <2>1. /\ pc = "loop" /\ queue_cur # NULL /\ pc' \in {"advance", "calibrate", "fuzz"}
        /\ UNCHANGED <<first_unhandled, queue_cycle>>
    BY <1>4 DEF handle_entry, listVars, cycleVars
  <2>2. QED
    BY <2>1 DEF RepeatInv
<1>5. CASE recalibrate \/ splice \/ finish_fuzz
  <2>1. /\ pc \in LoopPhase /\ pc' \in LoopPhase \ {"loop", "import"}
        /\ UNCHANGED <<first_unhandled, handled_in_cycle, queue_cycle>>
    BY <1>5 DEF recalibrate, splice, finish_fuzz, listVars, cycleVars
  <2>2. QED
    BY <2>1 DEF RepeatInv
<1>6. CASE find_new \/ import_case
  <2>1. /\ pc \in {"fuzz", "import", "sync"} /\ pc' = pc /\ save_if_interesting
        /\ UNCHANGED <<queue_cur, handled_in_cycle, queue_cycle>>
    BY <1>6 DEF find_new, import_case, cycleVars
  <2>2. PICK score : add_to_queue(score)
    BY <2>1, SaveInteresting
  <2>3. queue # <<>>
    BY <1>0, <2>1 DEF CursorInv, Elements
  <2>4. IsFirstUnhandledFrom(queue', 1, handled_in_cycle, first_unhandled')
    BY <2>1, <2>2, <2>3, AddEntry
  <2>5. first_unhandled' = NULL \/ first_unhandled' \notin handled_in_cycle'
    BY <2>1, <2>4 DEF IsFirstUnhandledFrom
  <2>6. QED
    BY <2>1, <2>5 DEF RepeatInv
<1>7. CASE end_import
  <2>1. /\ pc \in {"import", "sync"} /\ pc' = IF pc = "import" THEN "loop" ELSE "advance"
        /\ UNCHANGED <<first_unhandled, handled_in_cycle, queue_cycle, queue_cur>>
    BY <1>7 DEF end_import, listVars, cycleVars
  <2>2. queue_cur # NULL
    BY <1>0, <2>1 DEF CursorInv
  <2>3. pc = "import" => ~(queue_cycle > 1)
    BY <1>0 DEF RepeatInv
  <2>4. QED
    BY <2>1, <2>2, <2>3 DEF RepeatInv
<1>8. CASE advance /\ pc' = "loop"
  <2>1. /\ pc = "advance" /\ select_next /\ UNCHANGED <<handled_in_cycle, queue_cycle>>
    BY <1>8 DEF advance, cycleVars
  <2>2. CASE first_unhandled # NULL
    <3>1. queue_cur' = first_unhandled /\ first_unhandled' = NULL
      BY <2>1, <2>2 DEF select_next
    <3>2. QED
      BY <1>8, <2>1, <2>2, <3>1 DEF RepeatInv
  <2>3. CASE first_unhandled = NULL
    <3>1. PICK c \in 1 .. Len(queue) :
            IsFirstUnhandledFrom(queue, c, handled_in_cycle, queue_cur')
      BY <2>1, <2>3 DEF select_next
    <3>2. first_unhandled' = NULL
      BY <2>1, <2>3 DEF select_next
    <3>3. queue_cur' # NULL => queue_cur' \notin handled_in_cycle
      BY <3>1 DEF IsFirstUnhandledFrom
    <3>4. QED
      BY <1>8, <2>1, <3>2, <3>3 DEF RepeatInv
  <2>4. QED
    BY <2>2, <2>3
<1>9. CASE handle_stop_sig \/ UNCHANGED vars
  <2>1. UNCHANGED <<pc, first_unhandled, queue_cur, handled_in_cycle, queue_cycle>>
    BY <1>9 DEF handle_stop_sig, vars, listVars, cycleVars
  <2>2. QED
    BY <2>1 DEF RepeatInv
<1>10. ASSUME \/ read_testcase \/ begin_dry_run \/ dry_run_seed \/ stop_dry_run \/ begin_sort
              \/ sort_entry \/ (advance /\ pc' # "loop")
       PROVE  pc' \notin LoopPhase
  BY <1>10 DEF read_testcase, begin_dry_run, dry_run_seed, stop_dry_run, begin_sort,
     sort_entry, advance
<1>11. QED
  BY <1>1, <1>2, <1>3, <1>4, <1>5, <1>6, <1>7, <1>8, <1>9, <1>10 DEF Next, finished

\* The cursor that sort_queue() leaves behind is used up in the first cycle: from the
\* second one on, main() hands no entry to fuzz_one() twice in a cycle, however often
\* an insertion sets first_unhandled anew.
THEOREM RepeatCorrect == Spec => []NoRepeatAfterFirstCycle
<1>1. Init => RepeatInv
  BY DEF Init, RepeatInv, LoopPhase
<1>2. IInv /\ RepeatInv /\ [Next]_vars => RepeatInv'
  BY RepeatStep
<1>3. RepeatInv => NoRepeatAfterFirstCycle
  BY DEF RepeatInv, NoRepeatAfterFirstCycle, NoRepeatInCycle
<1>4. QED
  BY <1>1, <1>2, <1>3, AlwaysIInv, PTL DEF Spec

-----------------------------------------------------------------------------
(* The order of the list.                                                  *)

Descending(s, score) ==
  \A i, j \in 1 .. Len(s) : i < j => score[s[j]] <= score[s[i]]

\* Once sort_queue() has begun, the list is in order; and what main() is about to
\* hand to fuzz_one() is what it resumes from.
OrderInv ==
  /\ pc \in LoopPhase \cup {"sort"} => Descending(queue, prox_score)
  /\ pc = "import" => ImportFirst
  /\ (pc = "loop" /\ queue_cur # NULL /\ ~ImportFirst) => first_unhandled \in {NULL, queue_cur}

\* An insertion in front of the first lower score keeps the order.
LEMMA InsertDescending ==
  ASSUME NEW s \in Seq(Entries), NEW score \in [Entries -> Nat], NEW e \in Entries,
         NEW k \in 1 .. Len(s) + 1, Descending(s, score), IsInsertPosition(s, score, e, k)
  PROVE  Descending(InsertAt(s, k, e), score)
<1> DEFINE t == InsertAt(s, k, e)
<1>1. Len(s) \in Nat /\ \A i \in 1 .. Len(s) : s[i] \in Entries /\ score[s[i]] \in Nat
  BY LenProperties, ElementOfSeq
<1>2. /\ Len(t) = Len(s) + 1 /\ score[e] \in Nat
      /\ \A i \in 1 .. Len(s) + 1 : t[i] = IF i < k THEN s[i] ELSE IF i = k THEN e ELSE s[i - 1]
  BY <1>1, InsertAtProperties DEF InsertAt
<1>3. \A i \in 1 .. k - 1 : score[e] <= score[s[i]]
  BY <1>1 DEF IsInsertPosition
<1>4. \A i \in k .. Len(s) : score[s[i]] <= score[e]
  <2> SUFFICES ASSUME NEW i \in k .. Len(s) PROVE score[s[i]] <= score[e]
    OBVIOUS
  <2>1. k \in 1 .. Len(s) /\ score[s[k]] < score[e]
    BY <1>1 DEF IsInsertPosition
  <2>2. score[s[i]] <= score[s[k]]
    BY <1>1, <2>1 DEF Descending
  <2>3. QED
    BY <1>1, <1>2, <2>1, <2>2
<1> HIDE DEF t
<1>5. ASSUME NEW i \in 1 .. Len(s) + 1, NEW j \in 1 .. Len(s) + 1, i < j
      PROVE  score[t[j]] <= score[t[i]]
  <2>1. CASE j < k
    <3>1. t[i] = s[i] /\ t[j] = s[j] /\ i \in 1 .. Len(s) /\ j \in 1 .. Len(s)
      BY <1>1, <1>2, <1>5, <2>1
    <3>2. QED
      BY <1>5, <3>1 DEF Descending
  <2>2. CASE j = k
    <3>1. t[i] = s[i] /\ t[j] = e /\ i \in 1 .. k - 1
      BY <1>1, <1>2, <1>5, <2>2
    <3>2. QED
      BY <1>3, <3>1
  <2>3. CASE j > k
    <3>1. t[j] = s[j - 1] /\ j - 1 \in k .. Len(s) /\ j - 1 \in 1 .. Len(s)
      BY <1>1, <1>2, <2>3
    <3>2. CASE i < k
      <4>1. t[i] = s[i] /\ i \in 1 .. k - 1 /\ i \in 1 .. Len(s)
        BY <1>1, <1>2, <3>1, <3>2
      <4>2. score[s[j - 1]] <= score[e] /\ score[e] <= score[s[i]]
        BY <1>3, <1>4, <3>1, <4>1
      <4>3. score[s[j - 1]] \in Nat /\ score[s[i]] \in Nat
        BY <1>1, <3>1, <4>1
      <4>4. QED
        BY <1>2, <3>1, <4>1, <4>2, <4>3
    <3>3. CASE i = k
      <4>1. t[i] = e
        BY <1>2, <3>3
      <4>2. QED
        BY <1>4, <3>1, <4>1
    <3>4. CASE i > k
      <4>1. t[i] = s[i - 1] /\ i - 1 \in 1 .. Len(s) /\ i - 1 < j - 1
        BY <1>1, <1>2, <1>5, <3>4
      <4>2. QED
        BY <3>1, <4>1 DEF Descending
    <3>5. QED
      BY <3>2, <3>3, <3>4
  <2>4. QED
    BY <2>1, <2>2, <2>3
<1>6. QED
  BY <1>2, <1>5 DEF Descending, t

LEMMA SortedInsertDescending ==
  ASSUME queue \in Seq(Entries), NEW score \in [Entries -> Nat], NEW e \in Entries,
         Descending(queue, score), sorted_insert_to_queue(e, score)
  PROVE  Descending(queue', score)
<1>1. CASE insert_into_empty(e)
  <2>1. queue' = <<e>>
    BY <1>1 DEF insert_into_empty
  <2>2. Len(queue') = 1
    BY <2>1
  <2>3. QED
    BY <2>2 DEF Descending
<1>2. CASE insert_into_list(e, score)
  BY <1>2, InsertDescending DEF insert_into_list
<1>3. QED
  BY <1>1, <1>2 DEF sorted_insert_to_queue

\* An entry is queued under the score it is calibrated to.
LEMMA SaveDescending ==
  ASSUME IInv, Deterministic, pc \in LoopPhase, Descending(queue, prox_score), save_if_interesting
  PROVE  Descending(queue', prox_score')
<1> DEFINE scores(p) == [prox_score EXCEPT ![queued_paths] = p]
<1>1. PICK p \in Scores :
        /\ add_to_queue(scores(p))
        /\ \/ \E s \in Rescore(p) : calibration_succeeds(queued_paths, s, scores(p), queued_paths + 1)
           \/ calibration_aborts(queued_paths, 1, scores(p))
  BY DEF save_if_interesting
<1>2. /\ queued_paths \in Entries /\ queue \in Seq(Entries) /\ prox_score \in [Entries -> Nat]
      /\ p \in Nat /\ scores(p) \in [Entries -> Nat] /\ scores(p)[queued_paths] = p
  BY <1>1, ConstantsAssumption DEF IInv, TypeOK, add_to_queue, Entries
<1>3. queued_paths \notin Elements(queue) /\ Len(queue) \in Nat
  BY <1>2, WholeList DEF IInv, LoopPhase
<1>4. \A i \in 1 .. Len(queue) : scores(p)[queue[i]] = prox_score[queue[i]]
  <2>1. \A i \in 1 .. Len(queue) : queue[i] \in Entries /\ queue[i] # queued_paths
    BY <1>2, <1>3, ElementOfSeq DEF Elements
  <2>2. QED
    BY <1>2, <2>1
<1>5. prox_score' = scores(p)
  <2> DEFINE f == scores(p)
  <2>1. \A s \in Rescore(p) : s = p
    BY DEF Rescore
  <2>2. f = [f EXCEPT ![queued_paths] = p]
    BY <1>2
  <2>3. prox_score' = f \/ prox_score' = [f EXCEPT ![queued_paths] = p]
    BY <1>1, <2>1 DEF calibration_succeeds, calibration_aborts
  <2>4. QED
    BY <2>2, <2>3
<1>6. Descending(queue, scores(p))
  BY <1>4 DEF Descending
<1> HIDE DEF scores
<1>7. QED
  BY <1>1, <1>2, <1>5, <1>6, SortedInsertDescending DEF add_to_queue

LEMMA OrderStep ==
  ASSUME IInv, Deterministic, OrderInv, [Next]_vars
  PROVE  OrderInv'
<1> USE DEF LoopPhase
<1>0. /\ TypeOK /\ CursorInv /\ NULL \notin Entries /\ queue \in Seq(Entries)
      /\ prox_score \in [Entries -> Nat]
  BY ConstantsAssumption DEF IInv, TypeOK, Entries
<1>1. CASE pc' \notin LoopPhase \cup {"sort"}
  BY <1>1 DEF OrderInv
<1>2. CASE begin_sort /\ pc' = "sort"
  <2>1. queue' = <<>>
    BY <1>2 DEF begin_sort
  <2>2. Len(queue') = 0
    BY <2>1
  <2>3. QED
    BY <1>2, <2>2 DEF OrderInv, Descending
<1>3. CASE sort_entry
  <2>1. /\ pc = "sort" /\ pc' = "sort" /\ rest # <<>> /\ sorted_insert_to_queue(Head(rest), prox_score)
        /\ prox_score' = prox_score
    BY <1>3 DEF sort_entry, calVars
  <2>2. Head(rest) \in Entries
    BY <1>0, <2>1, HeadTailProperties DEF TypeOK
  <2>3. Descending(queue', prox_score)
    BY <1>0, <2>1, <2>2, SortedInsertDescending DEF OrderInv
  <2>4. QED
    BY <2>1, <2>3 DEF OrderInv
<1>4. CASE end_sort /\ pc' = "loop"
  <2>1. UNCHANGED <<queue_cur, queue, prox_score>> /\ pc = "sort"
    BY <1>4 DEF end_sort, listVars, calVars
  <2>2. queue_cur = NULL
    BY <1>0, <2>1 DEF CursorInv, StartPhase
  <2>3. QED
    BY <1>4, <2>1, <2>2 DEF OrderInv
<1>5. CASE start_cycle
  <2>1. /\ queue_cur' = Head(queue) /\ UNCHANGED <<queue, first_unhandled, prox_score>>
        /\ pc = "loop" /\ queue_cur = NULL
        /\ pc' \in {"loop", "import"} /\ (pc' = "import" => ImportFirst)
    BY <1>5 DEF start_cycle, listVars, calVars
  <2>2. Len(queue) > 0
    BY <1>0, <2>1, WholeList DEF IInv, CursorInv
  <2>3. Head(queue) = queue[1]
    BY <1>0, <2>2
  <2>4. first_unhandled \in {NULL, queue[1]}
    BY <1>0, <2>1 DEF CursorInv
  <2>5. QED
    BY <2>1, <2>3, <2>4 DEF OrderInv
<1>6. CASE handle_entry \/ splice \/ finish_fuzz
  <2>1. /\ pc \in LoopPhase /\ pc' \in LoopPhase \ {"loop", "import"}
        /\ UNCHANGED <<queue, prox_score>>
    BY <1>6 DEF handle_entry, splice, finish_fuzz, listVars, calVars
  <2>2. QED
    BY <2>1 DEF OrderInv
<1>7. CASE recalibrate
  <2>1. pc = "calibrate" /\ pc' \in {"advance", "fuzz"} /\ UNCHANGED queue
    BY <1>7 DEF recalibrate, listVars
  <2>2. queue_cur \in Entries
    BY <1>0, <2>1 DEF TypeOK, CursorInv
  <2>3. prox_score' = prox_score
    <3>1. prox_score = [prox_score EXCEPT ![queue_cur] = prox_score[queue_cur]]
      BY <1>0
    <3>2. \A s \in Rescore(prox_score[queue_cur]) : s = prox_score[queue_cur]
      BY DEF Rescore
    <3>3. \/ prox_score' = prox_score
          \/ \E s \in Rescore(prox_score[queue_cur]) :
                prox_score' = [prox_score EXCEPT ![queue_cur] = s]
      BY <1>7 DEF recalibrate, calibration_succeeds, calibration_aborts, calVars
    <3>4. QED
      BY <3>1, <3>2, <3>3
  <2>4. QED
    BY <2>1, <2>3 DEF OrderInv
<1>8. CASE find_new \/ import_case
  <2>1. pc \in {"fuzz", "import", "sync"} /\ pc' = pc /\ save_if_interesting
    BY <1>8 DEF find_new, import_case
  <2>2. Descending(queue', prox_score')
    BY <2>1, SaveDescending DEF OrderInv
  <2>3. QED
    BY <2>1, <2>2 DEF OrderInv
<1>9. CASE end_import
  <2>1. /\ pc \in {"import", "sync"} /\ pc' = IF pc = "import" THEN "loop" ELSE "advance"
        /\ UNCHANGED <<queue, prox_score>>
    BY <1>9 DEF end_import, listVars, calVars
  <2>2. QED
    BY <2>1 DEF OrderInv
<1>10. CASE advance /\ pc' = "loop"
  <2>1. /\ pc = "advance" /\ select_next /\ UNCHANGED <<queue, prox_score>>
    BY <1>10 DEF advance, calVars
  <2>2. first_unhandled' = NULL
    BY <2>1 DEF select_next
  <2>3. QED
    BY <1>10, <2>1, <2>2 DEF OrderInv
<1>11. CASE handle_stop_sig \/ UNCHANGED vars
  <2>1. UNCHANGED <<pc, queue, prox_score, first_unhandled, queue_cur>>
    BY <1>11 DEF handle_stop_sig, vars, listVars, calVars
  <2>2. QED
    BY <2>1 DEF OrderInv
<1>12. ASSUME \/ read_testcase \/ begin_dry_run \/ dry_run_seed \/ stop_dry_run
              \/ (begin_sort /\ pc' # "sort") \/ (end_sort /\ pc' # "loop")
              \/ (advance /\ pc' # "loop")
       PROVE  pc' \notin LoopPhase \cup {"sort"}
  BY <1>12 DEF read_testcase, begin_dry_run, dry_run_seed, stop_dry_run, begin_sort,
     end_sort, advance
<1>13. QED
  BY <1>1, <1>2, <1>3, <1>4, <1>5, <1>6, <1>7, <1>8, <1>9, <1>10, <1>11, <1>12
     DEF Next, finished

\* The choice of main() is the best: what it hands to fuzz_one() has the highest score
\* of all the entries that are not handled yet in this cycle, if a score depends on the
\* input only.
THEOREM OrderCorrect == Deterministic => (Spec => []BestUnhandledFirst)
<1> SUFFICES ASSUME Deterministic PROVE Spec => []BestUnhandledFirst
  OBVIOUS
<1>1. Init => OrderInv
  BY DEF Init, OrderInv, LoopPhase
<1>2. IInv /\ OrderInv /\ [Next]_vars => OrderInv'
  BY OrderStep
<1>3. IInv /\ OrderInv => BestUnhandledFirst
  <2> SUFFICES ASSUME IInv, OrderInv, pc = "loop", queue_cur # NULL,
                      queue_cur \notin handled_in_cycle, ~ImportFirst,
                      NEW e \in Elements(queue) \ handled_in_cycle
               PROVE  prox_score[e] <= prox_score[queue_cur]
    BY DEF BestUnhandledFirst
  <2>1. PICK c \in 1 .. Len(queue) : /\ queue[c] = queue_cur
                                     /\ \A j \in 1 .. c - 1 : queue[j] \in handled_in_cycle
    BY DEF IInv, BehindCursorHandled, OrderInv, LoopPhase
  <2>2. PICK k \in 1 .. Len(queue) : queue[k] = e
    BY DEF Elements
  <2>3. c = k \/ c < k
    BY <2>1, <2>2
  <2>4. Descending(queue, prox_score) /\ prox_score \in [Entries -> Nat] /\ queue \in Seq(Entries)
    BY DEF OrderInv, LoopPhase, IInv, TypeOK
  <2>5. prox_score[e] \in Nat
    BY <2>2, <2>4, ElementOfSeq
  <2>6. QED
    BY <2>1, <2>2, <2>3, <2>4, <2>5 DEF Descending
<1>4. QED
  BY <1>1, <1>2, <1>3, AlwaysIInv, PTL DEF Spec

-----------------------------------------------------------------------------
(* The statistics of the scores.                                           *)

\* The entries that the dry run has not reached yet.
Pending == IF pc = "read" THEN Entries ELSE IF pc = "dry_run" THEN Elements(rest) ELSE {}

\* The entries whose score is part of the statistics.
Counted == {e \in 0 .. queued_paths - 1 : e \notin Pending /\ cal_failed[e] = 0}

\* What the statistics say of the set C of entries that were added to them.
Covers(C, score, low, high, total) ==
  /\ \A e \in C : low <= score[e] /\ score[e] <= high
  /\ total <= high * Cardinality(C)
  /\ IsFiniteSet(ScoreUnits(C, score)) /\ total = Cardinality(ScoreUnits(C, score))
  /\ IF C = {} THEN low = U64_MAX /\ high = 0 ELSE IsScoreRange(C, score, low, high)

\* The statistics are exact, unless a dry run was stopped.
InStats == pc \in LoopPhase \cup {"read", "dry_run"} \/ (pc = "sort" /\ ~stop_soon)

\* The statistics are about the counted entries, each of which was added once, unless
\* a dry run was stopped: then the fuzzer ends after the sort.
StatsInv ==
  /\ InStats => Covers(Counted, prox_score, min_prox_score, max_prox_score, total_prox_score)
  /\ avg_prox_score <= max_prox_score
  /\ pc = "dry_run" => Distinct(rest) /\ Elements(rest) \subseteq 0 .. queued_paths - 1
  /\ pc = "stopped_dry_run" => stop_soon
  /\ pc = "calibrate" => cal_failed[queue_cur] > 0
  /\ pc = "fuzz" => cal_failed[queue_cur] = 0

\* Every score is below U64_MAX, the minimum the statistics start with.
ScoresBelow == prox_score \in [Entries -> 0 .. U64_MAX - 1]

LEMMA ScoresBelowStep ==
  ASSUME IInv, ScoresBelow, [Next]_vars
  PROVE  ScoresBelow'
<1>1. /\ U64_MAX \in Nat /\ Scores \subseteq 0 .. U64_MAX - 1
      /\ prox_score \in [Entries -> 0 .. U64_MAX - 1]
  BY ConstantsAssumption DEF ScoresBelow
<1>2. ASSUME NEW e, NEW s \in 0 .. U64_MAX - 1, NEW f \in [Entries -> 0 .. U64_MAX - 1]
      PROVE  [f EXCEPT ![e] = s] \in [Entries -> 0 .. U64_MAX - 1]
  BY <1>2
<1>3. ASSUME NEW e, NEW s \in 0 .. U64_MAX - 1, NEW f \in [Entries -> 0 .. U64_MAX - 1], NEW n,
             calibration_succeeds(e, s, f, n)
      PROVE  ScoresBelow'
  BY <1>2, <1>3 DEF calibration_succeeds, ScoresBelow
<1>4. ASSUME NEW e, NEW k, NEW f \in [Entries -> 0 .. U64_MAX - 1], calibration_aborts(e, k, f)
      PROVE  ScoresBelow'
  BY <1>4 DEF calibration_aborts, ScoresBelow
<1>5. ASSUME prox_score' = prox_score PROVE ScoresBelow'
  BY <1>1, <1>5 DEF ScoresBelow
<1>6. CASE dry_run_seed
  BY <1>1, <1>3, <1>4, <1>6 DEF dry_run_seed
<1>7. CASE stop_dry_run
  BY <1>1, <1>4, <1>5, <1>7 DEF stop_dry_run, calVars
<1>8. CASE recalibrate
  <2>1. queue_cur \in Entries \cup {NULL} /\ (pc = "calibrate" => queue_cur \in Entries)
    BY WholeList DEF IInv, TypeOK, CursorInv, LoopPhase
  <2>2. pc = "calibrate"
    BY <1>8 DEF recalibrate
  <2>3. Rescore(prox_score[queue_cur]) \subseteq 0 .. U64_MAX - 1
    BY <1>1, <2>1, <2>2 DEF Rescore
  <2>4. QED
    BY <1>1, <1>3, <1>4, <1>5, <1>8, <2>3 DEF recalibrate, calVars
<1>9. CASE find_new \/ import_case
  <2>1. save_if_interesting
    BY <1>9 DEF find_new, import_case
  <2>2. PICK p \in Scores :
          LET f == [prox_score EXCEPT ![queued_paths] = p]
          IN  \/ \E s \in Rescore(p) : calibration_succeeds(queued_paths, s, f, queued_paths + 1)
              \/ calibration_aborts(queued_paths, 1, f)
    BY <2>1 DEF save_if_interesting
  <2>3. /\ [prox_score EXCEPT ![queued_paths] = p] \in [Entries -> 0 .. U64_MAX - 1]
        /\ Rescore(p) \subseteq 0 .. U64_MAX - 1
    BY <1>1, <1>2 DEF Rescore
  <2>4. QED
    BY <1>3, <1>4, <2>2, <2>3
<1>10. CASE \/ read_testcase \/ begin_dry_run \/ begin_sort \/ sort_entry \/ end_sort
            \/ start_cycle \/ handle_entry \/ splice \/ finish_fuzz \/ end_import
            \/ advance \/ handle_stop_sig \/ finished \/ UNCHANGED vars
  <2>1. prox_score' = prox_score
    BY <1>10 DEF read_testcase, begin_dry_run, begin_sort, sort_entry, end_sort, start_cycle,
       handle_entry, splice, finish_fuzz, end_import, advance, handle_stop_sig, finished, vars,
       calVars
  <2>2. QED
    BY <1>5, <2>1
<1>11. QED
  BY <1>6, <1>7, <1>8, <1>9, <1>10 DEF Next

\* A set of entries is scored by the units of its members.
LEMMA UnitsAgree ==
  ASSUME NEW C, NEW f, NEW g, \A x \in C : f[x] = g[x]
  PROVE  ScoreUnits(C, f) = ScoreUnits(C, g)
BY DEF ScoreUnits

\* One more entry adds its score to the sum.
LEMMA UnitsGrow ==
  ASSUME NEW C, NEW e, e \notin C, NEW f, NEW g, \A x \in C : g[x] = f[x],
         NEW s \in Nat, g[e] = s, IsFiniteSet(ScoreUnits(C, f)),
         NEW total, total = Cardinality(ScoreUnits(C, f))
  PROVE  /\ IsFiniteSet(ScoreUnits(C \cup {e}, g))
         /\ Cardinality(ScoreUnits(C \cup {e}, g)) = total + s
<1> DEFINE U == ScoreUnits(C, f)
           V == {e} \X (1 .. s)
<1>1. ScoreUnits(C \cup {e}, g) = U \cup V
  BY DEF ScoreUnits
<1>2. U \cap V = {}
  BY DEF ScoreUnits
<1>3. IsFiniteSet(V) /\ Cardinality(V) = s
  <2>1. IsFiniteSet(1 .. s) /\ Cardinality(1 .. s) = s
    <3>1. 1 \in Int /\ s \in Int /\ (IF 1 > s THEN 0 ELSE s - 1 + 1) = s
      OBVIOUS
    <3>2. QED
      BY <3>1, FS_Interval
  <2>2. IsFiniteSet({e}) /\ Cardinality({e}) = 1
    BY FS_Singleton
  <2>3. IsFiniteSet(V) /\ Cardinality(V) = Cardinality({e}) * Cardinality(1 .. s)
    BY Zenon, <2>1, <2>2, FS_Product
  <2>4. QED
    BY <2>1, <2>2, <2>3
<1>4. /\ IsFiniteSet(U \cup V) /\ Cardinality({}) = 0
      /\ Cardinality(U \cup V) = Cardinality(U) + Cardinality(V) - Cardinality(U \cap V)
  BY <1>3, FS_Union, FS_EmptySet
<1>5. Cardinality(U) \in Nat
  BY FS_CardinalityType
<1>6. Cardinality(U \cap V) = 0
  BY <1>2, <1>4
<1>7. Cardinality(U \cup V) = total + s
  BY <1>3, <1>4, <1>5, <1>6
<1>8. QED
  BY Zenon, <1>1, <1>4, <1>7

LEMMA Monotone ==
  ASSUME NEW a \in Nat, NEW b \in Nat, NEW c \in Nat, a <= b
  PROVE  a * c <= b * c /\ c * a <= c * b
OBVIOUS

LEMMA Product ==
  ASSUME NEW a \in Nat, NEW b \in Nat
  PROVE  a * b \in Nat
OBVIOUS

LEMMA QuotientBound ==
  ASSUME NEW a \in Nat, NEW n \in Nat \ {0}, NEW m \in Nat, a <= m * n
  PROVE  a \div n <= m
<1>1. PICK q \in Nat : q = a \div n /\ q * n <= a
  BY Division
<1>2. SUFFICES ASSUME q >= m + 1 PROVE FALSE
  BY <1>1
<1>3. (m + 1) * n <= q * n
  BY <1>1, <1>2, Monotone
<1>4. (m + 1) * n = m * n + n /\ m * n \in Nat /\ q * n \in Nat
  OBVIOUS
<1>5. QED
  BY <1>1, <1>3, <1>4

\* A successful calibration adds an entry that was not counted.
LEMMA CountOne ==
  ASSUME TypeOK, NEW C, NEW e \in Entries, e \notin C, NEW n \in Nat \ {0},
         C \cup {e} \subseteq 0 .. n - 1, NEW s \in 0 .. U64_MAX - 1, NEW scores0 \in [Entries -> Nat],
         C \subseteq Entries, avg_prox_score <= max_prox_score,
         Covers(C, scores0, min_prox_score, max_prox_score, total_prox_score),
         calibration_succeeds(e, s, scores0, n)
  PROVE  /\ Covers(C \cup {e}, prox_score', min_prox_score', max_prox_score', total_prox_score')
         /\ avg_prox_score' <= max_prox_score'
<1>1. /\ total_prox_score \in Nat /\ min_prox_score \in Nat /\ max_prox_score \in Nat
      /\ s \in Nat /\ s < U64_MAX /\ U64_MAX \in Nat
      /\ total_prox_score' = total_prox_score + s
      /\ avg_prox_score' = (total_prox_score + s) \div n
      /\ min_prox_score' = IF min_prox_score > s THEN s ELSE min_prox_score
      /\ max_prox_score' = IF max_prox_score < s THEN s ELSE max_prox_score
      /\ prox_score' = [scores0 EXCEPT ![e] = s]
  BY ConstantsAssumption DEF TypeOK, calibration_succeeds
<1>2. /\ min_prox_score' \in Nat /\ max_prox_score' \in Nat
      /\ min_prox_score' <= min_prox_score /\ min_prox_score' <= s
      /\ max_prox_score <= max_prox_score' /\ s <= max_prox_score'
  BY <1>1
<1>3. ASSUME NEW x \in C \cup {e}
      PROVE  min_prox_score' <= prox_score'[x] /\ prox_score'[x] <= max_prox_score'
  <2>1. CASE x = e
    <3>1. prox_score'[x] = s
      BY <1>1, <2>1
    <3>2. QED
      BY <1>2, <3>1
  <2>2. CASE x # e
    <3>1. x \in C /\ x \in Entries
      BY <1>3, <2>2
    <3>2. prox_score'[x] = scores0[x] /\ scores0[x] \in Nat
      BY <1>1, <2>2, <3>1
    <3>3. min_prox_score <= scores0[x] /\ scores0[x] <= max_prox_score
      BY <3>1 DEF Covers
    <3>4. QED
      BY <1>1, <1>2, <3>2, <3>3
  <2>3. QED
    BY <2>1, <2>2
<1>4. IsFiniteSet(0 .. n - 1) /\ Cardinality(0 .. n - 1) = n
  <2>1. 0 \in Int /\ n - 1 \in Int /\ (n - 1) - 0 + 1 = n /\ ~(0 > n - 1)
    OBVIOUS
  <2>2. QED
    BY <2>1, FS_Interval
<1>5. IsFiniteSet(C) /\ IsFiniteSet(C \cup {e})
  BY <1>4, FS_Subset
<1>6. Cardinality(C \cup {e}) = Cardinality(C) + 1 /\ Cardinality(C) \in Nat
  BY <1>5, FS_AddElement, FS_CardinalityType
<1>7. Cardinality(C \cup {e}) <= n
  BY <1>4, FS_Subset
<1> DEFINE c == Cardinality(C)
           m == max_prox_score'
<1>8. total_prox_score <= max_prox_score * c /\ max_prox_score * c <= m * c
  <2>1. total_prox_score <= max_prox_score * c
    BY DEF Covers
  <2>2. QED
    BY <1>1, <1>2, <1>6, <2>1, Monotone
<1>9. total_prox_score + s <= m * (c + 1)
  <2>1. /\ max_prox_score * c \in Nat /\ m * c \in Nat /\ m * (c + 1) = m * c + m
    BY <1>1, <1>2, <1>6
  <2>2. QED
    BY <1>1, <1>2, <1>8, <2>1
<1>10. c + 1 \in Nat /\ m * (c + 1) <= m * n
  BY <1>2, <1>6, <1>7, Monotone
<1>11. total_prox_score + s <= m * n
  <2>1. m * (c + 1) \in Nat /\ m * n \in Nat
    BY <1>2, <1>10, Product
  <2>2. QED
    BY <1>1, <1>9, <1>10, <2>1
<1>12. avg_prox_score' <= m
  <2>1. total_prox_score + s \in Nat
    BY <1>1
  <2>2. QED
    BY <1>1, <1>2, <1>11, <2>1, QuotientBound
<1>13. /\ IsFiniteSet(ScoreUnits(C \cup {e}, prox_score'))
       /\ Cardinality(ScoreUnits(C \cup {e}, prox_score')) = total_prox_score + s
  <2>1. IsFiniteSet(ScoreUnits(C, scores0)) /\ Cardinality(ScoreUnits(C, scores0)) = total_prox_score
    BY DEF Covers
  <2>2. prox_score'[e] = s /\ \A x \in C : prox_score'[x] = scores0[x]
    BY <1>1
  <2>3. s \in Nat
    BY <1>1
  <2>4. QED
    BY <2>1, <2>2, <2>3, UnitsGrow
<1>14. IsScoreRange(C \cup {e}, prox_score', min_prox_score', max_prox_score')
  <2>1. prox_score'[e] = s /\ \A x \in C : prox_score'[x] = scores0[x]
    BY <1>1
  <2>2. CASE C = {}
    <3>1. min_prox_score = U64_MAX /\ max_prox_score = 0
      BY <2>2 DEF Covers
    <3>2. min_prox_score' = s /\ max_prox_score' = s
      BY <1>1, <3>1
    <3>3. QED
      BY <1>3, <2>1, <3>2 DEF IsScoreRange
  <2>3. CASE C # {}
    <3>1. PICK lo \in C : scores0[lo] = min_prox_score
      BY <2>3 DEF Covers, IsScoreRange
    <3>2. PICK hi \in C : scores0[hi] = max_prox_score
      BY <2>3 DEF Covers, IsScoreRange
    <3>3. \E x \in C \cup {e} : prox_score'[x] = min_prox_score'
      BY <1>1, <2>1, <3>1
    <3>4. \E x \in C \cup {e} : prox_score'[x] = max_prox_score'
      BY <1>1, <2>1, <3>2
    <3>5. QED
      BY <1>3, <3>3, <3>4 DEF IsScoreRange
  <2>4. QED
    BY <2>2, <2>3
<1>15. QED
  BY <1>1, <1>3, <1>6, <1>9, <1>12, <1>13, <1>14 DEF Covers

\* The statistics are not touched, and neither are the entries they are about.
LEMMA StatsKept ==
  ASSUME StatsInv, InStats, Counted' = Counted, UNCHANGED statVars,
         \A x \in Counted : prox_score'[x] = prox_score[x]
  PROVE  /\ Covers(Counted, prox_score, min_prox_score, max_prox_score, total_prox_score)'
         /\ avg_prox_score' <= max_prox_score'
<1>1. UNCHANGED <<total_prox_score, avg_prox_score, min_prox_score, max_prox_score>>
  BY DEF statVars
<1>2. /\ Covers(Counted, prox_score, min_prox_score, max_prox_score, total_prox_score)
      /\ avg_prox_score <= max_prox_score
  BY DEF StatsInv
<1>3. ScoreUnits(Counted, prox_score') = ScoreUnits(Counted, prox_score)
  BY UnitsAgree
<1>4. Covers(Counted', prox_score', min_prox_score', max_prox_score', total_prox_score')
  BY <1>1, <1>2, <1>3 DEF Covers, IsScoreRange
<1>5. QED
  BY <1>1, <1>2, <1>4 DEF Covers, IsScoreRange

\* A calibration in the loop or in the dry run, of an entry that is not counted.
LEMMA StatsGrow ==
  ASSUME IInv, StatsInv, InStats, NEW e \in Entries, e \notin Counted, NEW n \in Nat \ {0},
         NEW s \in 0 .. U64_MAX - 1, NEW scores0 \in [Entries -> Nat], Counted' = Counted \cup {e},
         Counted' \subseteq 0 .. n - 1, \A x \in Counted : scores0[x] = prox_score[x],
         calibration_succeeds(e, s, scores0, n)
  PROVE  /\ Covers(Counted, prox_score, min_prox_score, max_prox_score, total_prox_score)'
         /\ avg_prox_score' <= max_prox_score'
<1>1. TypeOK /\ Counted \subseteq Entries
  <2>1. TypeOK /\ queued_paths \in 0 .. MaxEntries /\ MaxEntries \in Nat
    BY ConstantsAssumption DEF IInv, TypeOK
  <2>2. Counted \subseteq 0 .. queued_paths - 1
    BY DEF Counted
  <2>3. QED
    BY <2>1, <2>2 DEF Entries
<1>2. avg_prox_score <= max_prox_score
  BY DEF StatsInv
<1>3. Covers(Counted, scores0, min_prox_score, max_prox_score, total_prox_score)
  <2>1. Covers(Counted, prox_score, min_prox_score, max_prox_score, total_prox_score)
    BY DEF StatsInv
  <2>2. ScoreUnits(Counted, scores0) = ScoreUnits(Counted, prox_score)
    BY UnitsAgree
  <2>3. QED
    BY <2>1, <2>2 DEF Covers, IsScoreRange
<1>4. /\ Covers(Counted \cup {e}, prox_score', min_prox_score', max_prox_score', total_prox_score')
      /\ avg_prox_score' <= max_prox_score'
  BY <1>1, <1>2, <1>3, CountOne
<1>5. Covers(Counted', prox_score', min_prox_score', max_prox_score', total_prox_score')
  BY <1>4
<1>6. QED
  BY <1>4, <1>5 DEF Covers

LEMMA StatsStep ==
  ASSUME IInv, ScoresBelow, StatsInv, [Next]_vars
  PROVE  StatsInv'
<1> USE DEF LoopPhase
<1>0. /\ TypeOK /\ CursorInv /\ ListInv /\ NULL \notin Entries /\ queue \in Seq(Entries)
      /\ rest \in Seq(Entries) /\ queued_paths \in 0 .. MaxEntries /\ MaxEntries \in Nat
      /\ prox_score \in [Entries -> Nat] /\ cal_failed \in [Entries -> 0 .. CalChances]
      /\ CalChances \in Nat \ {0} /\ 0 .. queued_paths - 1 \subseteq Entries
  BY ConstantsAssumption DEF IInv, TypeOK, Entries
<1>1. ASSUME InStats' => Covers(Counted, prox_score, min_prox_score, max_prox_score,
                                total_prox_score)',
             avg_prox_score' <= max_prox_score',
             pc' \notin {"dry_run", "stopped_dry_run", "calibrate", "fuzz"}
      PROVE  StatsInv'
  BY <1>1 DEF StatsInv, InStats, Covers
<1>2. CASE read_testcase
  <2>1. pc = "read" /\ pc' = "read" /\ UNCHANGED <<statVars, prox_score>> /\ add_to_queue(prox_score)
    BY <1>2 DEF read_testcase, calVars
  <2>2. queued_paths' \in 0 .. MaxEntries
    BY <2>1, AddEntry
  <2>3. Counted = {} /\ Counted' = {}
    BY <1>0, <2>1, <2>2 DEF Counted, Pending, Entries
  <2>4. QED
    BY <1>1, <2>1, <2>3, StatsKept DEF InStats
<1>3. CASE begin_dry_run
  <2>1. /\ pc = "read" /\ pc' = "dry_run" /\ UNCHANGED <<statVars, prox_score, queued_paths>>
        /\ rest' = queue
    BY <1>3 DEF begin_dry_run, calVars
  <2>2. Elements(queue) = 0 .. queued_paths - 1 /\ Distinct(queue)
    BY <1>0, <2>1, WholeList DEF ListInv
  <2>3. Counted = {} /\ Counted' = {}
    BY <1>0, <2>1, <2>2 DEF Counted, Pending
  <2>4. /\ Covers(Counted, prox_score, min_prox_score, max_prox_score, total_prox_score)'
        /\ avg_prox_score' <= max_prox_score'
    BY <2>1, <2>3, StatsKept DEF InStats
  <2>5. QED
    BY <2>1, <2>2, <2>4 DEF StatsInv, Covers
<1>4. CASE dry_run_seed
  <2>1. pc = "dry_run" /\ rest # <<>> /\ UNCHANGED <<queued_paths, queue_cur>>
    BY <1>4 DEF dry_run_seed
  <2>2. Distinct(rest) /\ Elements(rest) \subseteq 0 .. queued_paths - 1
    BY <2>1 DEF StatsInv
  <2> DEFINE e == Head(rest)
  <2>3. /\ e \in Entries /\ e \notin Elements(Tail(rest)) /\ Distinct(Tail(rest))
        /\ Elements(rest) = Elements(Tail(rest)) \cup {e}
    BY <1>0, <2>1, <2>2, TailProperties
  <2> HIDE DEF e
  <2>4. e \in 0 .. queued_paths - 1 /\ e \notin Counted /\ queued_paths \in Nat \ {0}
    BY <1>0, <2>1, <2>2, <2>3 DEF Counted, Pending
  <2>5. ASSUME pc' = "dry_run", rest' = Tail(rest), NEW s \in Scores,
               calibration_succeeds(e, s, prox_score, queued_paths)
        PROVE  StatsInv'
    <3>1. cal_failed' = [cal_failed EXCEPT ![e] = 0]
      BY <2>5 DEF calibration_succeeds
    <3>2. Counted' = Counted \cup {e}
      BY <1>0, <2>1, <2>3, <2>4, <2>5, <3>1 DEF Counted, Pending
    <3>3. Counted' \subseteq 0 .. queued_paths - 1
      BY <2>1 DEF Counted
    <3>4. s \in 0 .. U64_MAX - 1
      BY ConstantsAssumption
    <3>5. /\ Covers(Counted, prox_score, min_prox_score, max_prox_score, total_prox_score)'
          /\ avg_prox_score' <= max_prox_score'
      BY <1>0, <2>1, <2>3, <2>4, <2>5, <3>2, <3>3, <3>4, StatsGrow DEF InStats
    <3>6. QED
      BY <2>1, <2>2, <2>3, <2>5, <3>5 DEF StatsInv, Covers
  <2>6. ASSUME pc' = "dry_run", rest' = Tail(rest), calibration_aborts(e, CalChances, prox_score)
        PROVE  StatsInv'
    <3>1. /\ cal_failed' = [cal_failed EXCEPT ![e] = CalChances] /\ prox_score' = prox_score
          /\ UNCHANGED statVars
      BY <2>6 DEF calibration_aborts
    <3>2. Counted' = Counted
      BY <1>0, <2>1, <2>3, <2>4, <2>6, <3>1 DEF Counted, Pending
    <3>3. /\ Covers(Counted, prox_score, min_prox_score, max_prox_score, total_prox_score)'
          /\ avg_prox_score' <= max_prox_score'
      BY <2>1, <3>1, <3>2, StatsKept DEF InStats
    <3>4. QED
      BY <2>1, <2>2, <2>3, <2>6, <3>3 DEF StatsInv, Covers
  <2>7. ASSUME pc' = "done", calibration_aborts(e, 1, prox_score)
        PROVE  StatsInv'
    BY <2>7 DEF StatsInv, InStats, calibration_aborts, statVars
  <2>8. QED
    BY <1>4, <2>1, <2>5, <2>6, <2>7 DEF dry_run_seed, e
<1>5. CASE stop_dry_run
  BY <1>5 DEF stop_dry_run, StatsInv, InStats, calVars, statVars, calibration_aborts
<1>6. CASE begin_sort
  <2>1. /\ UNCHANGED <<stop_soon, queued_paths, cal_failed, prox_score, statVars>>
        /\ pc' \in {"done", "sort"}
        /\ (pc = "dry_run" /\ rest = <<>>) \/ pc = "stopped_dry_run"
    BY <1>6 DEF begin_sort, calVars
  <2>2. avg_prox_score' <= max_prox_score'
    BY <2>1 DEF StatsInv, statVars
  <2>3. CASE pc = "dry_run" /\ rest = <<>>
    <3>1. Elements(rest) = {}
      BY <2>3 DEF Elements
    <3>2. Counted' = Counted
      BY <2>1, <2>3, <3>1 DEF Counted, Pending
    <3>3. QED
      BY <1>1, <2>1, <2>3, <3>2, StatsKept DEF InStats
  <2>4. CASE pc = "stopped_dry_run"
    <3>1. ~InStats'
      BY <2>1, <2>4 DEF InStats, StatsInv
    <3>2. QED
      BY <1>1, <2>1, <2>2, <3>1
  <2>5. QED
    BY <2>1, <2>3, <2>4
<1>7. CASE sort_entry
  <2>1. /\ UNCHANGED <<stop_soon, queued_paths, cal_failed, prox_score, statVars>>
        /\ pc' = "sort" /\ pc = "sort"
    BY <1>7 DEF sort_entry, calVars
  <2>2. Counted' = Counted
    BY <2>1 DEF Counted, Pending
  <2>3. avg_prox_score' <= max_prox_score'
    BY <2>1 DEF StatsInv, statVars
  <2>4. InStats' => InStats
    BY <2>1 DEF InStats
  <2>5. QED
    BY <1>1, <2>1, <2>2, <2>3, <2>4, StatsKept
<1>8. CASE end_sort
  <2>1. /\ UNCHANGED <<stop_soon, queued_paths, cal_failed, prox_score, statVars>>
        /\ pc' = (IF stop_soon THEN "done" ELSE "loop") /\ pc = "sort"
    BY <1>8 DEF end_sort, calVars
  <2>2. Counted' = Counted
    BY <2>1 DEF Counted, Pending
  <2>3. avg_prox_score' <= max_prox_score'
    BY <2>1 DEF StatsInv, statVars
  <2>4. InStats' => InStats
    BY <2>1 DEF InStats
  <2>5. QED
    BY <1>1, <2>1, <2>2, <2>3, <2>4, StatsKept
<1>9. ASSUME pc \in LoopPhase, pc' \in LoopPhase \cup {"done"},
             UNCHANGED <<queued_paths, cal_failed, prox_score, statVars>>,
             pc' = "calibrate" => cal_failed[queue_cur'] > 0,
             pc' = "fuzz" => cal_failed[queue_cur'] = 0
      PROVE  StatsInv'
  <2>1. Counted' = Counted
    BY <1>9 DEF Counted, Pending
  <2>2. /\ Covers(Counted, prox_score, min_prox_score, max_prox_score, total_prox_score)'
        /\ avg_prox_score' <= max_prox_score'
    BY <1>9, <2>1, StatsKept DEF InStats
  <2>3. QED
    BY <1>9, <2>2 DEF StatsInv, Covers
<1>10. CASE start_cycle
  BY <1>9, <1>10 DEF start_cycle, calVars
<1>11. CASE handle_entry
  <2>1. queue_cur \in Entries
    BY <1>0, <1>11 DEF handle_entry, TypeOK
  <2>2. cal_failed[queue_cur] = 0 \/ cal_failed[queue_cur] > 0
    BY <1>0, <2>1
  <2>3. QED
    BY <1>9, <1>11, <2>2 DEF handle_entry, calVars
<1>12. CASE splice
  BY <1>9, <1>12 DEF splice, calVars, StatsInv
<1>13. CASE finish_fuzz \/ end_import \/ advance
  BY <1>9, <1>13 DEF finish_fuzz, end_import, advance, calVars
<1>14. CASE recalibrate
  <2>1. pc = "calibrate" /\ UNCHANGED <<queued_paths, queue_cur>> /\ pc' \in {"advance", "fuzz"}
    BY <1>14 DEF recalibrate
  <2>2. cal_failed[queue_cur] > 0 /\ queue_cur \in Elements(queue)
    BY <1>0, <2>1 DEF StatsInv, CursorInv
  <2>3. /\ queue_cur \in 0 .. queued_paths - 1 /\ queue_cur \in Entries /\ queue_cur \notin Counted
        /\ queued_paths \in Nat \ {0}
    BY <1>0, <2>1, <2>2, WholeList DEF Counted
  <2>4. CASE UNCHANGED calVars /\ pc' = "advance"
    BY <1>9, <2>1, <2>4 DEF calVars
  <2>5. CASE calibration_aborts(queue_cur, cal_failed[queue_cur] + 1, prox_score) /\ pc' = "advance"
    <3>1. /\ cal_failed' = [cal_failed EXCEPT ![queue_cur] = cal_failed[queue_cur] + 1]
          /\ prox_score' = prox_score /\ UNCHANGED statVars
      BY <2>5 DEF calibration_aborts
    <3>2. cal_failed[queue_cur] \in Nat /\ cal_failed'[queue_cur] = cal_failed[queue_cur] + 1
      BY <1>0, <2>3, <3>1
    <3>3. Counted' = Counted
      BY <1>0, <2>1, <2>3, <2>5, <3>1, <3>2 DEF Counted, Pending
    <3>4. QED
      BY <1>1, <2>1, <2>5, <3>1, <3>3, StatsKept DEF InStats
  <2>6. ASSUME NEW s \in Rescore(prox_score[queue_cur]),
               calibration_succeeds(queue_cur, s, prox_score, queued_paths)
        PROVE  StatsInv'
    <3>1. cal_failed' = [cal_failed EXCEPT ![queue_cur] = 0] /\ cal_failed'[queue_cur] = 0
      BY <1>0, <2>3, <2>6 DEF calibration_succeeds
    <3>2. Counted' = Counted \cup {queue_cur}
      BY <1>0, <2>1, <2>3, <3>1 DEF Counted, Pending
    <3>3. Counted' \subseteq 0 .. queued_paths - 1
      BY <2>1 DEF Counted
    <3>4. s \in 0 .. U64_MAX - 1
      BY <1>0, <2>3, ConstantsAssumption DEF Rescore, ScoresBelow
    <3>5. /\ Covers(Counted, prox_score, min_prox_score, max_prox_score, total_prox_score)'
          /\ avg_prox_score' <= max_prox_score'
      BY <1>0, <2>1, <2>3, <2>6, <3>2, <3>3, <3>4, StatsGrow DEF InStats
    <3>6. QED
      BY <2>1, <3>1, <3>5 DEF StatsInv, Covers
  <2>7. QED
    BY <1>14, <2>4, <2>5, <2>6 DEF recalibrate
<1>15. CASE find_new \/ import_case
  <2>1. pc \in {"fuzz", "import", "sync"} /\ pc' = pc /\ save_if_interesting /\ queue_cur' = queue_cur
    BY <1>15 DEF find_new, import_case
  <2> DEFINE e == queued_paths
             scores(p) == [prox_score EXCEPT ![e] = p]
  <2>2. PICK p \in Scores :
          /\ add_to_queue(scores(p))
          /\ \/ \E s \in Rescore(p) : calibration_succeeds(e, s, scores(p), e + 1)
             \/ calibration_aborts(e, 1, scores(p))
    BY <2>1 DEF save_if_interesting
  <2>3. /\ e \in Entries /\ e \in Nat /\ e \notin Counted /\ queued_paths' = e + 1
        /\ Elements(queue) = 0 .. e - 1
    BY <1>0, <2>1, <2>2, AddEntry DEF Counted
  <2>4. /\ p \in Nat /\ scores(p) \in [Entries -> Nat]
        /\ \A x \in Counted : scores(p)[x] = prox_score[x]
    BY <1>0, <2>3, ConstantsAssumption DEF Counted
  <2>5. queue_cur \in 0 .. e - 1 /\ queue_cur # e /\ queue_cur \in Entries
    <3>1. queue_cur \in Elements(queue)
      BY <1>0, <2>1 DEF CursorInv
    <3>2. QED
      BY <1>0, <2>3, <3>1
  <2> HIDE DEF scores
  <2>6. ASSUME NEW s \in Rescore(p), calibration_succeeds(e, s, scores(p), e + 1)
        PROVE  StatsInv'
    <3>1. cal_failed' = [cal_failed EXCEPT ![e] = 0]
      BY <2>6 DEF calibration_succeeds
    <3>2. cal_failed'[e] = 0 /\ cal_failed'[queue_cur] = cal_failed[queue_cur]
      BY <1>0, <2>3, <2>5, <3>1
    <3>3. Counted' = Counted \cup {e}
      BY <1>0, <2>1, <2>3, <3>1 DEF Counted, Pending
    <3>4. Counted' \subseteq 0 .. (e + 1) - 1
      BY <2>3 DEF Counted
    <3>5. s \in 0 .. U64_MAX - 1 /\ e + 1 \in Nat \ {0}
      BY <2>3, <2>4, ConstantsAssumption DEF Rescore
    <3>6. /\ Covers(Counted, prox_score, min_prox_score, max_prox_score, total_prox_score)'
          /\ avg_prox_score' <= max_prox_score'
      BY <1>0, <2>1, <2>3, <2>4, <2>6, <3>3, <3>4, <3>5, StatsGrow DEF InStats
    <3>7. QED
      BY <2>1, <3>2, <3>6 DEF StatsInv, Covers
  <2>7. ASSUME calibration_aborts(e, 1, scores(p)) PROVE StatsInv'
    <3>1. cal_failed' = [cal_failed EXCEPT ![e] = 1] /\ prox_score' = scores(p) /\ UNCHANGED statVars
      BY <2>7 DEF calibration_aborts
    <3>2. cal_failed'[e] = 1 /\ cal_failed'[queue_cur] = cal_failed[queue_cur]
      BY <1>0, <2>3, <2>5, <3>1
    <3>3. Counted' = Counted
      BY <1>0, <2>1, <2>3, <3>1 DEF Counted, Pending
    <3>4. /\ Covers(Counted, prox_score, min_prox_score, max_prox_score, total_prox_score)'
          /\ avg_prox_score' <= max_prox_score'
      BY <2>1, <2>4, <3>1, <3>3, StatsKept DEF InStats
    <3>5. QED
      BY <2>1, <3>2, <3>4 DEF StatsInv, Covers
  <2>8. QED
    BY <2>2, <2>6, <2>7
<1>16. CASE handle_stop_sig \/ UNCHANGED vars
  <2>1. /\ UNCHANGED <<pc, rest, queued_paths, cal_failed, prox_score, statVars, queue_cur>>
        /\ stop_soon \in BOOLEAN /\ (stop_soon => stop_soon')
    BY <1>0, <1>16 DEF handle_stop_sig, vars, calVars, TypeOK
  <2>2. Counted' = Counted
    BY <2>1 DEF Counted, Pending
  <2>3. InStats' => InStats
    BY <2>1 DEF InStats
  <2>4. InStats' => Covers(Counted, prox_score, min_prox_score, max_prox_score, total_prox_score)'
    BY <2>1, <2>2, <2>3, StatsKept
  <2>5. QED
    BY <2>1, <2>4 DEF StatsInv, statVars
<1>17. QED
  BY <1>2, <1>3, <1>4, <1>5, <1>6, <1>7, <1>8, <1>10, <1>11, <1>12, <1>13, <1>14, <1>15,
     <1>16 DEF Next, finished

LEMMA AlwaysStats == Spec => []StatsInv
<1>1. Init => StatsInv
  <2> SUFFICES ASSUME Init PROVE StatsInv
    OBVIOUS
  <2>1. Counted = {}
    BY DEF Init, Counted
  <2>2. Cardinality({}) = 0 /\ IsFiniteSet({})
    BY FS_EmptySet
  <2>3. ScoreUnits({}, prox_score) = {}
    BY DEF ScoreUnits
  <2>4. Covers(Counted, prox_score, min_prox_score, max_prox_score, total_prox_score)
    <3>1. /\ min_prox_score = U64_MAX /\ max_prox_score = 0 /\ total_prox_score = 0
          /\ ScoreUnits(Counted, prox_score) = {} /\ Cardinality(Counted) = 0
      BY <2>1, <2>2, <2>3 DEF Init
    <3>2. total_prox_score <= max_prox_score * Cardinality(Counted)
      BY <3>1
    <3>3. QED
      BY <2>1, <2>2, <3>1, <3>2 DEF Covers
  <2>5. QED
    BY <2>4 DEF Init, StatsInv
<1>2. Init => ScoresBelow
  <2>1. PICK s \in Scores : s \in Nat /\ s < U64_MAX
    BY ConstantsAssumption
  <2>2. 0 \in 0 .. U64_MAX - 1
    BY <2>1, ConstantsAssumption
  <2>3. QED
    BY <2>2 DEF Init, ScoresBelow
<1>3. IInv /\ ScoresBelow /\ [Next]_vars => ScoresBelow'
  BY ScoresBelowStep
<1>4. IInv /\ ScoresBelow /\ StatsInv /\ [Next]_vars => StatsInv'
  BY StatsStep
<1>5. QED
  BY <1>1, <1>2, <1>3, <1>4, AlwaysIInv, PTL DEF Spec

\* The score from which calculate_factor() takes the energy of an entry is within the
\* range of the statistics, and the average it divides by is at most the best score,
\* whatever calibrations failed, were repeated or yielded another score.
THEOREM FactorCorrect == Spec => []FactorInRange
<1>1. IInv /\ StatsInv => FactorInRange
  <2> SUFFICES ASSUME IInv, StatsInv, pc = "fuzz" PROVE FactorInRange
    BY DEF FactorInRange
  <2>1. queue_cur \in 0 .. queued_paths - 1
    BY WholeList DEF IInv, CursorInv, LoopPhase
  <2>2. queue_cur \in Counted
    BY <2>1 DEF Counted, Pending, StatsInv
  <2>3. QED
    BY <2>2 DEF StatsInv, InStats, Covers, FactorInRange, LoopPhase
<1>2. QED
  BY <1>1, AlwaysIInv, AlwaysStats, PTL

\* In the loop, total_prox_score is the sum and min_prox_score and max_prox_score are the
\* extremes of the scores of the calibrated entries, however many calibrations failed
\* and were repeated: each entry was added once, with the score it has now.
THEOREM StatsCorrect == Spec => []ScoreStatsExact
<1>1. IInv /\ StatsInv => ScoreStatsExact
  <2> SUFFICES ASSUME IInv, StatsInv, pc \in LoopPhase PROVE ScoreStatsExact
    BY DEF ScoreStatsExact
  <2>1. Elements(queue) = 0 .. queued_paths - 1
    BY WholeList DEF IInv, LoopPhase
  <2>2. Calibrated = Counted
    BY <2>1 DEF Calibrated, Counted, Pending, LoopPhase
  <2>3. Covers(Counted, prox_score, min_prox_score, max_prox_score, total_prox_score)
    BY DEF StatsInv, InStats
  <2>4. QED
    BY <2>2, <2>3 DEF ScoreStatsExact, Covers
<1>2. QED
  BY <1>1, AlwaysIInv, AlwaysStats, PTL

=============================================================================
