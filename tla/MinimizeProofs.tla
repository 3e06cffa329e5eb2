--------------------------- MODULE MinimizeProofs ---------------------------
(***************************************************************************)
(* Proofs about Minimize, for every target and every input: what afl-tmin  *)
(* and trim_case() make of an input still does what the original does, no  *)
(* byte can be left out of a result of afl-tmin, and afl-analyze reports   *)
(* what each byte of its input does.                                       *)
(***************************************************************************)
EXTENDS Minimize, FiniteSetTheorems, SequenceTheorems, WellFoundedInduction, TLAPS

-----------------------------------------------------------------------------
(* Powers of two.                                                          *)

\* A set of natural numbers has a least element.
LEMMA Least ==
  ASSUME NEW T, T \subseteq Nat, T # {}
  PROVE  \E x \in T : \A y \in T : x <= y
<1> DEFINE R == OpToRel(<, Nat)
<1>1. IsWellFoundedOn(R, Nat)
  BY NatLessThanWellFounded
<1>2. \A x, y \in Nat : y < x => <<y, x>> \in R
  BY DEF OpToRel
<1> HIDE DEF R
<1>3. PICK x \in T : \A y \in T : ~(<<y, x>> \in R)
  BY <1>1, WFMin
<1>4. ASSUME NEW y \in T PROVE x <= y
  <2>1. x \in Nat /\ y \in Nat
    OBVIOUS
  <2>2. ~(y < x)
    BY <1>2, <1>3, <2>1
  <2>3. QED
    BY <2>1, <2>2
<1>5. QED
  BY <1>4

\* Induction, over a set.
LEMMA NatSet ==
  ASSUME NEW S, 0 \in S, \A n \in Nat : n \in S => n + 1 \in S
  PROVE  Nat \subseteq S
<1> SUFFICES ASSUME Nat \ S # {} PROVE FALSE
  OBVIOUS
<1>1. PICK x \in Nat \ S : \A y \in Nat \ S : x <= y
  <2>1. Nat \ S \subseteq Nat
    OBVIOUS
  <2>2. QED
    BY <2>1, Least
<1>2. x - 1 \in Nat /\ x - 1 < x
  OBVIOUS
<1>3. QED
  BY <1>1, <1>2

\* One more exponent doubles the power: a set with one more element has twice as many
\* subsets.
LEMMA Doubling ==
  ASSUME NEW n \in Nat
  PROVE  2 ^ (n + 1) = 2 * 2 ^ n
<1> DEFINE A == SUBSET (1 .. n)
           f == [T \in A |-> T \cup {n + 1}]
           B == {T \cup {n + 1} : T \in A}
<1>1. /\ IsFiniteSet(1 .. n) /\ Cardinality(1 .. n) = n
      /\ IsFiniteSet(1 .. n + 1) /\ Cardinality(1 .. n + 1) = n + 1
  BY FS_Interval
<1>2. IsFiniteSet(A) /\ Cardinality(A) = 2 ^ n
  BY <1>1, FS_SUBSET
<1>3. Cardinality(SUBSET (1 .. n + 1)) = 2 ^ (n + 1)
  BY <1>1, FS_SUBSET
<1>4. f \in Bijection(A, B)
  <2>1. \A T \in A : n + 1 \notin T
    OBVIOUS
  <2>2. \A T, U \in A : f[T] = f[U] => T = U
    <3> SUFFICES ASSUME NEW T \in A, NEW U \in A, T \cup {n + 1} = U \cup {n + 1}
                 PROVE  T = U
      OBVIOUS
    <3>1. n + 1 \notin T /\ n + 1 \notin U
      BY <2>1
    <3>2. QED
      BY <3>1
  <2>3. f \in [A -> B] /\ \A U \in B : \E T \in A : f[T] = U
    OBVIOUS
  <2>4. DOMAIN f = A
    OBVIOUS
  <2> HIDE DEF f, A, B
  <2>5. QED
    BY <2>2, <2>3, <2>4 DEF Bijection, Injection, Surjection, IsInjective
<1>5. IsFiniteSet(B) /\ Cardinality(B) = Cardinality(A)
  BY <1>2, <1>4, FS_Bijection DEF ExistsBijection
<1>6. SUBSET (1 .. n + 1) = A \cup B
  <2>1. ASSUME NEW U \in SUBSET (1 .. n + 1) PROVE U \in A \cup B
    <3>1. CASE n + 1 \in U
      <4>1. U \ {n + 1} \in A /\ U = (U \ {n + 1}) \cup {n + 1}
        BY <3>1
      <4>2. QED
        BY <4>1
    <3>2. CASE n + 1 \notin U
      BY <3>2
    <3>3. QED
      BY <3>1, <3>2
  <2>2. \A T \in A : T \cup {n + 1} \in SUBSET (1 .. n + 1)
    OBVIOUS
  <2>3. B \subseteq SUBSET (1 .. n + 1)
    BY <2>2, Zenon
  <2>4. A \subseteq SUBSET (1 .. n + 1)
    OBVIOUS
  <2> HIDE DEF A, B
  <2>5. QED
    BY <2>1, <2>3, <2>4
<1>7. A \cap B = {}
  OBVIOUS
<1>8. Cardinality({}) = 0
  BY FS_EmptySet
<1>9. Cardinality(A \cup B) = Cardinality(A) + Cardinality(B) - Cardinality(A \cap B)
  BY <1>2, <1>5, FS_Union
<1>10. Cardinality(A) \in Nat
  BY <1>2, FS_CardinalityType
<1> HIDE DEF A, B
<1>11. Cardinality(A \cap B) = 0
  BY <1>7, <1>8
<1>12. Cardinality(A \cup B) = 2 * Cardinality(A)
  BY <1>5, <1>9, <1>10, <1>11
<1>13. QED
  BY <1>2, <1>3, <1>6, <1>12

\* Powers grow faster than their exponents.
LEMMA Power ==
  ASSUME NEW n \in Nat
  PROVE  2 ^ n \in Nat /\ 2 ^ n > n
<1> DEFINE S == {k \in Nat : 2 ^ k \in Nat /\ 2 ^ k > k}
<1>1. 0 \in S
  OBVIOUS
<1>2. \A k \in Nat : k \in S => k + 1 \in S
  BY Doubling
<1>3. QED
  BY <1>1, <1>2, NatSet

\* next_p2() returns the first power that is not smaller.
LEMMA NextPower ==
  ASSUME NEW v \in Nat
  PROVE  next_p2(v) \in Nat /\ next_p2(v) >= 1 /\ next_p2(v) >= v
<1> DEFINE T == {k \in Nat : 2 ^ k >= v}
<1>1. v \in T
  BY Power
<1>2. PICK k \in T : \A j \in T : k <= j
  <2>1. T \subseteq Nat /\ T # {}
    BY <1>1
  <2> HIDE DEF T
  <2>2. QED
    BY <2>1, Least
<1>3. k \in 0 .. v
  BY <1>1, <1>2
<1>4. CASE k = 0
  <2>1. 2 ^ k = 1
    BY <1>4
  <2>2. \E p \in {2 ^ m : m \in 0 .. v} : p >= v /\ (p = 1 \/ p \div 2 < v)
    BY <1>2, <1>3, <2>1
  <2>3. PICK m \in 0 .. v : next_p2(v) = 2 ^ m /\ next_p2(v) >= v
    BY <2>2 DEF next_p2
  <2>4. QED
    BY <2>3, Power
<1>5. CASE k # 0
  <2>1. k - 1 \in Nat /\ k - 1 \notin T
    BY <1>2, <1>5
  <2>2. 2 ^ (k - 1) < v /\ 2 ^ (k - 1) \in Nat
    BY <2>1, Power
  <2>3. 2 ^ k = 2 * 2 ^ (k - 1)
    <3>1. (k - 1) + 1 = k
      OBVIOUS
    <3>2. QED
      BY <2>1, <3>1, Doubling
  <2>4. (2 ^ k) \div 2 = 2 ^ (k - 1)
    BY <2>2, <2>3
  <2>5. \E p \in {2 ^ m : m \in 0 .. v} : p >= v /\ (p = 1 \/ p \div 2 < v)
    BY <1>2, <1>3, <2>2, <2>4
  <2>6. PICK m \in 0 .. v : next_p2(v) = 2 ^ m /\ next_p2(v) >= v
    BY <2>5 DEF next_p2
  <2>7. QED
    BY <2>6, Power
<1>6. QED
  BY <1>4, <1>5


-----------------------------------------------------------------------------
(* The inductive invariant.                                                *)

\* An input that does what the one of the job does.
Like(j, s) ==
  /\ KindOf(j, s) = KindOf(j, j.data)
  /\ (KindOf(j, s) = "crash" /\ ~j.exact_mode) \/ TraceOf(j, s) = TraceOf(j, j.data)

\* The target still does what it does on the original in every stage of these.
Stages == {"normalize", "delete", "alphabet", "characters", "finalize", "done"}

\* What a tool does is its own.
ToolInv ==
  /\ job \in Jobs
  /\ job.tool = "tmin" => pc \in Stages \cup {"dry_run", "aborted", "fatal"}
  /\ job.tool = "trim" => pc \in {"trim", "trimming", "write", "done", "aborted"}
  /\ job.tool = "analyze" => pc \in {"dry_run", "fatal", "analyze", "dump", "done", "aborted"}
  /\ job.tool # "analyze" =>
       in_data \in Seq(Symbols) /\ pos \in Nat /\ block \in Nat
  /\ {prev_del, changed_any} \subseteq BOOLEAN

\* What afl-tmin knows of the original, and what it has made of it.
TminInv ==
  job.tool = "tmin" =>
    /\ pc = "dry_run" => in_data = job.data
    /\ pc \in Stages => /\ KindOf(job, job.data) # "hang"
                        /\ crash_mode = (KindOf(job, job.data) = "crash")
                        /\ orig_cksum = TraceOf(job, job.data)
                        /\ Like(job, in_data)
    /\ pc = "characters" => tmp_buf = in_data
    /\ pc = "done" => out_file = in_data
    /\ pc = "aborted" => Like(job, out_file)

\* The trimmer never gets at the first block.
TrimInv ==
  job.tool = "trim" =>
    /\ out_file # <<>> /\ TraceOf(job, out_file) = TraceOf(job, job.data)
    /\ pc = "trim" => in_data = job.data
    /\ pc \in {"trimming", "write"} => /\ in_data # <<>>
                                       /\ TraceOf(job, in_data) = orig_cksum
                                       /\ orig_cksum = TraceOf(job, job.data)
    /\ pc = "trimming" => pos >= 1 /\ block >= 1 /\ len_p2 \in Nat

\* No byte can be left out of the input, as far as blocks of one byte were tried in
\* a pass that has not changed anything.
Needed(p) == ~Like(job, Without(in_data, p, 1))
MinimalInv ==
  job.tool = "tmin" =>
    /\ pc = "delete" => /\ block >= 1
                        /\ pos = 0 => prev_del
                        /\ block = 1 /\ ~changed_any =>
                             /\ pos > 0 => ~prev_del
                             /\ \A p \in Nat : p < pos /\ p < in_len => Needed(p)
    /\ pc \in {"alphabet", "characters", "finalize", "done"} /\ ~changed_any =>
         \A p \in Nat : p < in_len => Needed(p)
    /\ pc \in {"finalize", "done"} => ~changed_any

IInv == ToolInv /\ TminInv /\ TrimInv /\ MinimalInv

-----------------------------------------------------------------------------
(* The operators.                                                          *)

LEMMA Divided ==
  ASSUME NEW a \in Nat, NEW b \in Nat \ {0}
  PROVE  a \div b \in Nat
  OBVIOUS

LEMMA LargerType ==
  ASSUME NEW a \in Nat, NEW b \in Nat
  PROVE  Larger(a, b) \in Nat /\ Larger(a, b) >= a /\ Larger(a, b) >= b
  BY DEF Larger

LEMMA WithoutSeq ==
  ASSUME NEW S, NEW s \in Seq(S), NEW p \in Nat, NEW n \in Nat, p < Len(s)
  PROVE  /\ Without(s, p, n) \in Seq(S)
         /\ p >= 1 => Without(s, p, n) # <<>>
<1> DEFINE a == SubSeq(s, 1, p)
           b == SubSeq(s, p + n + 1, Len(s))
<1>1. a \in Seq(S) /\ Len(a) = p
  OBVIOUS
<1>2. b \in Seq(S) /\ Len(b) \in Nat
  OBVIOUS
<1>3. Without(s, p, n) = a \o b
  BY DEF Without
<1> HIDE DEF a, b
<1>4. a \o b \in Seq(S) /\ Len(a \o b) = Len(a) + Len(b)
  BY <1>1, <1>2, ConcatProperties
<1>5. p >= 1 => Len(a \o b) # 0
  BY <1>1, <1>2, <1>4
<1>6. QED
  BY <1>3, <1>4, <1>5

\* Of two equal bytes in a row it does not matter which is left out.
LEMMA SameByte ==
  ASSUME NEW S, NEW s \in Seq(S), NEW p \in Nat, p >= 1, p < Len(s), s[p] = s[p + 1]
  PROVE  Without(s, p, 1) = Without(s, p - 1, 1)
<1> DEFINE a == SubSeq(s, 1, p)
           b == SubSeq(s, p + 2, Len(s))
           c == SubSeq(s, 1, p - 1)
           d == SubSeq(s, p + 1, Len(s))
<1>1. a \in Seq(S) /\ Len(a) = p /\ \A k \in 1 .. p : a[k] = s[k]
  OBVIOUS
<1>2. b \in Seq(S) /\ Len(b) = Len(s) - p - 1 /\ \A k \in 1 .. Len(b) : b[k] = s[p + 1 + k]
  OBVIOUS
<1>3. c \in Seq(S) /\ Len(c) = p - 1 /\ \A k \in 1 .. p - 1 : c[k] = s[k]
  OBVIOUS
<1>4. d \in Seq(S) /\ Len(d) = Len(s) - p /\ \A k \in 1 .. Len(d) : d[k] = s[p + k]
  OBVIOUS
<1>5. Without(s, p, 1) = a \o b /\ Without(s, p - 1, 1) = c \o d
  <2>1. p + 1 + 1 = p + 2 /\ (p - 1) + 1 + 1 = p + 1
    OBVIOUS
  <2>2. QED
    BY <2>1 DEF Without
<1> HIDE DEF a, b, c, d
<1>6. /\ a \o b \in Seq(S) /\ Len(a \o b) = Len(s) - 1
      /\ c \o d \in Seq(S) /\ Len(c \o d) = Len(s) - 1
  <2>1. a \o b \in Seq(S) /\ Len(a \o b) = Len(a) + Len(b)
    BY <1>1, <1>2, ConcatProperties
  <2>2. c \o d \in Seq(S) /\ Len(c \o d) = Len(c) + Len(d)
    BY <1>3, <1>4, ConcatProperties
  <2>3. QED
    BY <1>1, <1>2, <1>3, <1>4, <2>1, <2>2
<1>7. ASSUME NEW k \in 1 .. Len(s) - 1 PROVE (a \o b)[k] = (c \o d)[k]
  <2>1. CASE k < p
    BY <1>1, <1>2, <1>3, <1>4, <2>1
  <2>2. CASE k = p
    <3>1. (a \o b)[k] = s[p]
      BY <1>1, <1>2, <2>2
    <3>2. (c \o d)[k] = d[1]
      BY <1>3, <1>4, <2>2
    <3>3. QED
      BY <1>4, <3>1, <3>2
  <2>3. CASE k > p
    <3>1. (a \o b)[k] = b[k - p] /\ k - p \in 1 .. Len(b)
      BY <1>1, <1>2, <2>3
    <3>2. (c \o d)[k] = d[k - p + 1] /\ k - p + 1 \in 1 .. Len(d)
      BY <1>3, <1>4, <2>3
    <3>3. b[k - p] = s[k + 1] /\ d[k - p + 1] = s[k + 1]
      BY <1>2, <1>4, <3>1, <3>2
    <3>4. QED
      BY <3>1, <3>2, <3>3
  <2>4. k < p \/ k = p \/ k > p
    OBVIOUS
  <2>5. QED
    BY <2>1, <2>2, <2>3, <2>4
<1>8. \A k \in 1 .. Len(a \o b) : (a \o b)[k] = (c \o d)[k]
  BY <1>6, <1>7
<1>9. a \o b = c \o d
  BY <1>6, <1>8, SeqEqual
<1>10. QED
  BY <1>5, <1>9

LEMMA ZeroedSeq ==
  ASSUME NEW s \in Seq(Symbols), NEW p, NEW n
  PROVE  Zeroed(s, p, n) \in Seq(Symbols)
  BY MinimizeAssumption DEF Zeroed

\* What afl-tmin keeps is what does the same as the original.
LEMMA AcceptedLike ==
  ASSUME TminInv, job.tool = "tmin", pc \in Stages, NEW s
  PROVE  Accepted(s) <=> Like(job, s)
  BY DEF TminInv, Accepted, Like, Kind, Signature, KindOf

-----------------------------------------------------------------------------
(* Steps.                                                                  *)

\* The actions of the tools.
TminNext ==
  \/ dry_run \/ normalize_block \/ next_pass \/ delete_block \/ next_del_blksize
  \/ minimize_symbol \/ start_characters \/ minimize_character \/ finalize_all \/ stop_soon
TrimNext ==
  trim_case \/ trim_block \/ next_remove_len \/ write_trimmed \/ abort_trimming
AnalyzeNext ==
  start_analysis \/ analyze_byte \/ end_analysis \/ dump_hex \/ end_dump \/ stop_analysis

LEMMA ToolsDiffer ==
  ASSUME ToolInv, Next
  PROVE  /\ job.tool \in {"tmin", "trim", "analyze"}
         /\ job.tool = "tmin" <=> TminNext
         /\ job.tool = "trim" <=> TrimNext
         /\ job.tool = "analyze" <=> AnalyzeNext
<1>1. job.tool \in {"tmin", "trim", "analyze"}
  BY MinimizeAssumption DEF ToolInv, JobOK
<1>2. TminNext => job.tool = "tmin"
  BY <1>1 DEF ToolInv, Stages, TminNext, dry_run, normalize_block, next_pass, delete_block,
     next_del_blksize, minimize_symbol, start_characters, minimize_character, finalize_all,
     stop_soon
<1>3. TrimNext => job.tool = "trim"
  BY <1>1 DEF ToolInv, Stages, TrimNext, trim_case, trim_block, next_remove_len,
     write_trimmed, abort_trimming
<1>4. AnalyzeNext => job.tool = "analyze"
  BY <1>1 DEF ToolInv, Stages, AnalyzeNext, start_analysis, analyze_byte, end_analysis,
     dump_hex, end_dump, stop_analysis
<1>5. TminNext \/ TrimNext \/ AnalyzeNext
  BY DEF Next, TminNext, TrimNext, AnalyzeNext
<1>6. QED
  BY <1>1, <1>2, <1>3, <1>4, <1>5

LEMMA JobKept ==
  ASSUME Next
  PROVE  job' = job
  BY DEF Next, dry_run, normalize_block, next_pass, delete_block, next_del_blksize,
     minimize_symbol, start_characters, minimize_character, finalize_all, stop_soon, trim_case,
     trim_block, next_remove_len, write_trimmed, abort_trimming, start_analysis, analyze_byte,
     end_analysis, dump_hex, end_dump, stop_analysis

\* The steps keep the input a sequence of symbols and the offsets natural numbers.
LEMMA ToolStep ==
  ASSUME ToolInv, Next
  PROVE  ToolInv'
<1>1. CASE job.tool = "tmin"
  <2> USE <1>1
  <2>1. TminNext /\ job' = job /\ ~TrimNext /\ ~AnalyzeNext
    BY ToolsDiffer, JobKept
  <2>2. /\ in_data \in Seq(Symbols) /\ pos \in Nat /\ block \in Nat /\ in_len \in Nat
        /\ prev_del \in BOOLEAN /\ changed_any \in BOOLEAN /\ job \in Jobs
    BY DEF ToolInv, in_len
  <2>3. SUFFICES /\ pc' \in Stages \cup {"dry_run", "aborted", "fatal"}
                 /\ in_data' \in Seq(Symbols) /\ pos' \in Nat /\ block' \in Nat
                 /\ prev_del' \in BOOLEAN /\ changed_any' \in BOOLEAN
    BY <2>1, <2>2 DEF ToolInv
  <2>4. CASE dry_run
    <3>1. next_p2(in_len \div TMIN_SET_STEPS) \in Nat
      BY <2>2, MinimizeAssumption, NextPower, Divided
    <3>2. block' \in Nat
      BY <2>4, <3>1, MinimizeAssumption, LargerType DEF dry_run
    <3>3. QED
      BY <2>2, <2>4, <3>2 DEF dry_run, Stages
  <2>5. CASE normalize_block
    <3>1. in_data' \in Seq(Symbols)
      BY <2>2, <2>5, ZeroedSeq DEF normalize_block
    <3>2. QED
      BY <2>2, <2>5, <3>1 DEF normalize_block, Stages, tminVars
  <2>6. CASE next_pass
    <3>1. next_p2(in_len \div TRIM_START_STEPS) \in Nat
      BY <2>2, MinimizeAssumption, NextPower, Divided
    <3>2. QED
      BY <2>2, <2>6, <3>1 DEF next_pass, Stages
  <2>7. CASE delete_block
    <3>1. Without(in_data, pos, block) \in Seq(Symbols)
      BY <2>2, <2>7, WithoutSeq DEF delete_block, in_len
    <3>2. in_data' \in Seq(Symbols) /\ pos' \in Nat
      BY <2>2, <2>7, <3>1 DEF delete_block
    <3>3. prev_del' \in BOOLEAN /\ changed_any' \in BOOLEAN
      BY <2>2, <2>7, Zenon DEF delete_block
    <3>4. QED
      BY <2>2, <2>7, <3>2, <3>3 DEF delete_block, Stages
  <2>8. CASE next_del_blksize
    <3>1. block \div 2 \in Nat
      BY <2>2
    <3>2. /\ pos' \in {0, pos} /\ block' \in {block, block \div 2}
          /\ prev_del' \in {TRUE, prev_del} /\ changed_any' = changed_any
          /\ in_data' = in_data
      BY <2>8 DEF next_del_blksize
    <3>3. pc' \in {"delete", "alphabet", "finalize"}
      BY <2>8 DEF next_del_blksize
    <3>4. prev_del' \in BOOLEAN /\ changed_any' \in BOOLEAN
      BY <2>2, <3>2, Zenon
    <3>5. in_data' \in Seq(Symbols) /\ pos' \in Nat /\ block' \in Nat
      BY <2>2, <3>1, <3>2
    <3>6. QED
      BY <3>3, <3>4, <3>5, Zenon DEF Stages
  <2>9. CASE minimize_symbol
    <3> DEFINE zeroed == [k \in DOMAIN in_data |->
                            IF in_data[k] = Min(alpha_map) THEN 0 ELSE in_data[k]]
    <3>1. zeroed \in Seq(Symbols)
      BY <2>2, MinimizeAssumption
    <3>2. in_data' = zeroed \/ in_data' = in_data
      BY <2>9 DEF minimize_symbol
    <3>3. changed_any' \in BOOLEAN
      BY <2>2, <2>9, Zenon DEF minimize_symbol
    <3>4. QED
      BY <2>2, <2>9, <3>1, <3>2, <3>3 DEF minimize_symbol, Stages
  <2>10. CASE start_characters
    BY <2>2, <2>10 DEF start_characters, Stages
  <2>11. CASE minimize_character
    <3>1. in_data' \in Seq(Symbols)
      BY <2>2, <2>11, ZeroedSeq DEF minimize_character
    <3>2. changed_any' \in BOOLEAN
      BY <2>2, <2>11, Zenon DEF minimize_character
    <3>3. QED
      BY <2>2, <2>11, <3>1, <3>2 DEF minimize_character, Stages
  <2>12. CASE finalize_all
    BY <2>2, <2>12 DEF finalize_all, Stages, tminVars
  <2>13. CASE stop_soon
    BY <2>2, <2>13 DEF stop_soon, tminVars
  <2>14. QED
    BY <2>1, <2>4, <2>5, <2>6, <2>7, <2>8, <2>9, <2>10, <2>11, <2>12, <2>13 DEF TminNext
<1>2. CASE job.tool = "trim"
  <2> USE <1>2
  <2>1. TrimNext /\ job' = job
    BY ToolsDiffer, JobKept
  <2>2. /\ in_data \in Seq(Symbols) /\ pos \in Nat /\ block \in Nat /\ in_len \in Nat
        /\ prev_del \in BOOLEAN /\ changed_any \in BOOLEAN /\ job \in Jobs
    BY DEF ToolInv, in_len
  <2>3. prev_del' = prev_del /\ changed_any' = changed_any
    BY <2>1 DEF TrimNext, trim_case, trim_block, next_remove_len, write_trimmed, abort_trimming,
       tminVars
  <2>4. SUFFICES /\ pc' \in {"trim", "trimming", "write", "done", "aborted"}
                 /\ in_data' \in Seq(Symbols) /\ pos' \in Nat /\ block' \in Nat
    BY <2>1, <2>2, <2>3 DEF ToolInv
  <2>5. CASE trim_case
    <3>1. len_p2' \in Nat
      BY <2>2, <2>5, NextPower DEF trim_case
    <3>2. block' \in Nat
      BY <2>5, <3>1, Divided, LargerType, MinimizeAssumption DEF trim_case
    <3>3. QED
      BY <2>2, <2>5, <3>2 DEF trim_case
  <2>6. CASE trim_block
    <3> DEFINE n == Lesser(block, in_len - pos)
    <3>1. n \in Nat
      BY <2>2, <2>6 DEF Lesser, trim_block
    <3>2. Without(in_data, pos, n) \in Seq(Symbols)
      BY <2>2, <2>6, <3>1, WithoutSeq DEF trim_block, in_len
    <3>3. in_data' \in {in_data, Without(in_data, pos, n)} /\ pos' \in {pos, pos + block}
      BY <2>6 DEF trim_block
    <3> HIDE DEF n
    <3>4. QED
      BY <2>2, <2>6, <3>2, <3>3 DEF trim_block
  <2>7. CASE next_remove_len
    BY <2>2, <2>7 DEF next_remove_len
  <2>8. CASE write_trimmed
    BY <2>2, <2>8 DEF write_trimmed
  <2>9. CASE abort_trimming
    BY <2>2, <2>9 DEF abort_trimming
  <2>10. QED
    BY <2>1, <2>5, <2>6, <2>7, <2>8, <2>9 DEF TrimNext
<1>3. CASE job.tool = "analyze"
  <2> USE <1>3
  <2>1. AnalyzeNext /\ job' = job
    BY ToolsDiffer, JobKept
  <2>2. /\ pc \in {"dry_run", "fatal", "analyze", "dump", "done", "aborted"} /\ job \in Jobs
        /\ prev_del \in BOOLEAN /\ changed_any \in BOOLEAN
    BY DEF ToolInv
  <2>3. prev_del' = prev_del /\ changed_any' = changed_any
    BY <2>1 DEF AnalyzeNext, start_analysis, analyze_byte, end_analysis, dump_hex, end_dump,
       stop_analysis, tminVars
  <2>4. pc' \in {"dry_run", "fatal", "analyze", "dump", "done", "aborted"}
    BY <2>1, <2>2 DEF AnalyzeNext, start_analysis, analyze_byte, end_analysis, dump_hex,
       end_dump, stop_analysis
  <2>5. QED
    BY <2>1, <2>2, <2>3, <2>4 DEF ToolInv
<1>4. QED
  BY <1>1, <1>2, <1>3, ToolsDiffer

\* Whatever afl-tmin puts in place of the input does what the original does.
LEMMA TminStep ==
  ASSUME ToolInv, TminInv, Next
  PROVE  TminInv'
<1> SUFFICES ASSUME job'.tool = "tmin" PROVE TminInv'
  BY DEF TminInv
<1>1. job.tool = "tmin" /\ job' = job /\ TminNext
  BY ToolsDiffer, JobKept
<1> DEFINE Known == /\ KindOf(job, job.data) # "hang"
                    /\ crash_mode = (KindOf(job, job.data) = "crash")
                    /\ orig_cksum = TraceOf(job, job.data)
<1>2. pc \in Stages => Known /\ Like(job, in_data)
  BY <1>1 DEF TminInv
<1>3. pc \in Stages => \A s : Accepted(s) <=> Like(job, s)
  BY <1>1, AcceptedLike
<1>4. Like(job, job.data)
  BY DEF Like
<1> DEFINE Kept == crash_mode' = crash_mode /\ orig_cksum' = orig_cksum
<1>5. ASSUME pc \in Stages, Kept, pc' \in Stages \ {"characters", "done"}, Like(job, in_data')
      PROVE  TminInv'
  BY <1>1, <1>2, <1>5 DEF TminInv, Stages
<1>6. CASE dry_run
  <2>1. in_data = job.data /\ in_data' = in_data
    BY <1>1, <1>6 DEF dry_run, TminInv
  <2>2. /\ pc' \in {"fatal", "normalize"}
        /\ crash_mode' = (KindOf(job, job.data) = "crash")
        /\ orig_cksum' = TraceOf(job, job.data)
        /\ pc' = "normalize" => KindOf(job, job.data) # "hang"
    BY <1>6, <2>1 DEF dry_run, Kind, Signature
  <2>3. QED
    BY <1>1, <1>4, <2>1, <2>2 DEF TminInv, Stages
<1>7. CASE normalize_block
  <2>1. pc \in Stages \ {"characters", "done"} /\ pc' = pc /\ Kept
    BY <1>7 DEF normalize_block, Stages, tminVars
  <2>2. Like(job, in_data')
    BY <1>2, <1>3, <1>7, <2>1 DEF normalize_block
  <2>3. QED
    BY <1>5, <2>1, <2>2
<1>8. CASE next_pass
  BY <1>2, <1>5, <1>8 DEF next_pass, Stages
<1>9. CASE delete_block
  <2>1. pc \in Stages \ {"characters", "done"} /\ pc' = pc /\ Kept
    BY <1>9 DEF delete_block, Stages
  <2>2. Like(job, in_data')
    BY <1>2, <1>3, <1>9, <2>1 DEF delete_block
  <2>3. QED
    BY <1>5, <2>1, <2>2
<1>10. CASE next_del_blksize
  <2>1. pc \in Stages /\ pc' \in Stages \ {"characters", "done"} /\ Kept /\ in_data' = in_data
    BY <1>10 DEF next_del_blksize, Stages
  <2>2. QED
    BY <1>2, <1>5, <2>1
<1>11. CASE minimize_symbol
  <2>1. pc \in Stages \ {"characters", "done"} /\ pc' = pc /\ Kept
    BY <1>11 DEF minimize_symbol, Stages
  <2>2. Like(job, in_data')
    BY <1>2, <1>3, <1>11, <2>1 DEF minimize_symbol
  <2>3. QED
    BY <1>5, <2>1, <2>2
<1>12. CASE start_characters
  <2>1. pc \in Stages /\ pc' = "characters" /\ Kept /\ in_data' = in_data /\ tmp_buf' = in_data
    BY <1>12 DEF start_characters, Stages
  <2>2. QED
    BY <1>1, <1>2, <2>1 DEF TminInv, Stages
<1>13. CASE minimize_character
  <2>1. pc \in Stages /\ pc = "characters" /\ pc' = "characters" /\ Kept
    BY <1>13 DEF minimize_character, Stages
  <2>2. tmp_buf = in_data
    BY <1>1, <2>1 DEF TminInv
  <2>3. tmp_buf' = in_data' /\ Like(job, in_data')
    BY <1>2, <1>3, <1>13, <2>1, <2>2 DEF minimize_character
  <2>4. QED
    BY <1>1, <1>2, <2>1, <2>3 DEF TminInv, Stages
<1>14. CASE finalize_all
  <2>1. pc \in Stages /\ pc' = "done" /\ Kept /\ in_data' = in_data /\ out_file' = in_data
    BY <1>14 DEF finalize_all, Stages, tminVars
  <2>2. QED
    BY <1>1, <1>2, <2>1 DEF TminInv, Stages
<1>15. CASE stop_soon
  <2>1. pc \in Stages \cup {"dry_run"} /\ pc' = "aborted" /\ out_file' = in_data
    BY <1>15 DEF stop_soon, Stages
  <2>2. Like(job, in_data)
    BY <1>1, <1>2, <1>4, <2>1 DEF TminInv
  <2>3. QED
    BY <1>1, <2>1, <2>2 DEF TminInv, Stages
<1>16. QED
  BY <1>1, <1>6, <1>7, <1>8, <1>9, <1>10, <1>11, <1>12, <1>13, <1>14, <1>15 DEF TminNext

\* The trimmer removes blocks after the first one, and only without an effect on the
\* trace; the file is the original or what is left at the end.
LEMMA TrimStep ==
  ASSUME ToolInv, TrimInv, Next
  PROVE  TrimInv'
<1> SUFFICES ASSUME job'.tool = "trim" PROVE TrimInv'
  BY DEF TrimInv
<1>1. job.tool = "trim" /\ job' = job /\ TrimNext
  BY ToolsDiffer, JobKept
<1>2. in_data \in Seq(Symbols) /\ pos \in Nat /\ block \in Nat /\ in_len = Len(in_data)
  BY <1>1 DEF ToolInv, in_len
<1> DEFINE Sound(s) == s # <<>> /\ TraceOf(job, s) = TraceOf(job, job.data)
<1>3. Sound(out_file)
  BY <1>1 DEF TrimInv
<1>4. pc \in {"trimming", "write"} =>
        Sound(in_data) /\ orig_cksum = TraceOf(job, job.data)
  BY <1>1 DEF TrimInv
<1>5. CASE trim_case
  <2>1. in_data = job.data /\ in_data # <<>>
    BY <1>1, <1>5, MinimizeAssumption DEF trim_case, TrimInv, ToolInv, JobOK
  <2>2. len_p2' \in Nat
    BY <1>2, <1>5, NextPower DEF trim_case
  <2>3. block' \in Nat /\ block' >= 1 /\ pos' = block'
    <3>1. len_p2' \div TRIM_START_STEPS \in Nat /\ TRIM_MIN_BYTES \in Nat \ {0}
      BY <2>2, Divided, MinimizeAssumption
    <3>2. QED
      BY <1>5, <3>1, LargerType DEF trim_case
  <2>4. /\ pc' \in {"done", "write", "trimming"} /\ in_data' = in_data /\ out_file' = out_file
        /\ orig_cksum' = TraceOf(job, in_data)
    BY <1>5 DEF trim_case, Signature
  <2>5. QED
    BY <1>1, <1>3, <2>1, <2>2, <2>3, <2>4 DEF TrimInv
<1>6. CASE trim_block
  <2>1. /\ pc = "trimming" /\ pc' = "trimming" /\ orig_cksum' = orig_cksum /\ block' = block
        /\ out_file' = out_file
    BY <1>6 DEF trim_block
  <2>2. pos >= 1 /\ block >= 1 /\ len_p2 \in Nat
    BY <1>1, <2>1 DEF TrimInv
  <2> DEFINE n == Lesser(block, in_len - pos)
             shorter == Without(in_data, pos, n)
  <2>3. shorter \in Seq(Symbols) /\ shorter # <<>>
    <3>1. n \in Nat
      BY <1>2, <1>6 DEF Lesser, trim_block
    <3> HIDE DEF n
    <3>2. QED
      BY <1>2, <1>6, <2>2, <3>1, WithoutSeq DEF trim_block
  <2>4. \/ /\ in_data' = shorter /\ TraceOf(job, shorter) = orig_cksum /\ pos' = pos
           /\ len_p2' = next_p2(Len(shorter))
        \/ in_data' = in_data /\ pos' = pos + block /\ len_p2' = len_p2
    BY <1>6 DEF trim_block, Signature
  <2> HIDE DEF shorter
  <2>5. Sound(in_data') /\ len_p2' \in Nat /\ pos' >= 1
    <3>1. next_p2(Len(shorter)) \in Nat
      <4>1. Len(shorter) \in Nat
        BY <2>3
      <4>2. QED
        BY <4>1, NextPower
    <3>2. Sound(in_data')
      BY <1>4, <2>1, <2>3, <2>4
    <3>3. QED
      BY <1>2, <2>2, <2>4, <3>1, <3>2
  <2>6. QED
    BY <1>1, <1>3, <1>4, <2>1, <2>2, <2>5 DEF TrimInv
<1>7. CASE next_remove_len
  <2>1. /\ pc = "trimming" /\ pc' \in {"trimming", "write"} /\ orig_cksum' = orig_cksum
        /\ in_data' = in_data /\ out_file' = out_file /\ len_p2' = len_p2 /\ pos' = block'
    BY <1>7 DEF next_remove_len, trimVars
  <2>2. pos >= 1 /\ block >= 1 /\ len_p2 \in Nat
    BY <1>1, <2>1 DEF TrimInv
  <2>3. SmallestStep(len_p2) \in Nat /\ SmallestStep(len_p2) >= 1
    <3> DEFINE a == len_p2 \div TRIM_END_STEPS
    <3>1. a \in Nat /\ TRIM_MIN_BYTES \in Nat \ {0}
      BY <2>2, Divided, MinimizeAssumption
    <3>2. SmallestStep(len_p2) = Larger(a, TRIM_MIN_BYTES)
      BY DEF SmallestStep
    <3> HIDE DEF a
    <3>3. QED
      BY <3>1, <3>2, LargerType
  <2>4. block' \in Nat
    BY <1>2, <1>7 DEF next_remove_len
  <2>5. pc' = "trimming" => block' >= 1
    BY <1>7, <2>1, <2>3, <2>4 DEF next_remove_len
  <2>6. QED
    BY <1>1, <1>3, <1>4, <2>1, <2>2, <2>5 DEF TrimInv
<1>8. CASE write_trimmed
  <2>1. pc = "write" /\ pc' = "done" /\ out_file' \in {in_data, out_file}
    BY <1>8 DEF write_trimmed
  <2>2. QED
    BY <1>1, <1>3, <1>4, <2>1 DEF TrimInv
<1>9. CASE abort_trimming
  BY <1>1, <1>3, <1>9 DEF abort_trimming, TrimInv
<1>10. QED
  BY <1>1, <1>5, <1>6, <1>7, <1>8, <1>9 DEF TrimNext

\* Blocks of one byte that are skipped need not be tried, and a pass that has not
\* changed the input has tried all the others.
LEMMA MinimalStep ==
  ASSUME ToolInv, TminInv, MinimalInv, Next
  PROVE  MinimalInv'
<1> SUFFICES ASSUME job'.tool = "tmin" PROVE MinimalInv'
  BY DEF MinimalInv
<1>1. job.tool = "tmin" /\ job' = job /\ TminNext
  BY ToolsDiffer, JobKept
<1>2. /\ in_data \in Seq(Symbols) /\ pos \in Nat /\ block \in Nat
      /\ in_len = Len(in_data) /\ in_len \in Nat
  BY <1>1 DEF ToolInv, in_len
<1> DEFINE Minimal == \A p \in Nat : p < in_len => Needed(p)
           Same == in_data' = in_data /\ changed_any' = changed_any
<1>3. in_data' = in_data => in_len' = in_len /\ \A p \in Nat : Needed(p)' = Needed(p)
  BY <1>1 DEF Needed, in_len, Without
<1>4. ASSUME pc' \in {"alphabet", "characters", "finalize", "done"}, ~changed_any' => Minimal',
             pc' \in {"finalize", "done"} => ~changed_any'
      PROVE  MinimalInv'
  BY <1>1, <1>4 DEF MinimalInv
<1>5. CASE dry_run
  BY <1>5 DEF dry_run, MinimalInv
<1>6. CASE normalize_block
  BY <1>6 DEF normalize_block, MinimalInv
<1>7. CASE next_pass
  <2>1. next_p2(in_len \div TRIM_START_STEPS) >= 1
    BY <1>2, MinimizeAssumption, NextPower, Divided
  <2>2. pc' = "delete" /\ block' >= 1 /\ pos' = 0 /\ prev_del'
    BY <1>7, <2>1 DEF next_pass
  <2>3. QED
    BY <2>2 DEF MinimalInv
<1>8. CASE delete_block
  <2>1. pc = "delete" /\ pc' = "delete" /\ block' = block /\ pos < in_len
    BY <1>8 DEF delete_block
  <2>2. block >= 1 /\ (pos = 0 => prev_del)
    BY <1>1, <2>1 DEF MinimalInv
  <2> DEFINE no_op == /\ ~prev_del /\ Larger(in_len - pos - block, 0) > 0
                      /\ SubSeq(in_data, pos - block + 1, pos)
                           = SubSeq(in_data, pos + 1, pos + block)
             res == ~no_op /\ Accepted(Without(in_data, pos, block))
  <2>3. /\ in_data' = IF res THEN Without(in_data, pos, block) ELSE in_data
        /\ pos' = IF res THEN pos ELSE pos + block
        /\ prev_del' = res /\ changed_any' = (changed_any \/ res)
    BY <1>8, Zenon DEF delete_block
  <2>4. pos' = 0 => prev_del'
    <3> HIDE DEF res
    <3>1. CASE res
      BY <2>3, <3>1
    <3>2. CASE ~res
      <4>1. pos' = pos + block
        BY <2>3, <3>2
      <4>2. QED
        BY <1>2, <2>2, <4>1
    <3>3. QED
      BY <3>1, <3>2
  <2>5. ASSUME block = 1, ~changed_any'
        PROVE  ~prev_del' /\ \A p \in Nat : p < pos' /\ p < in_len' => Needed(p)'
    <3>1. ~res /\ ~changed_any
      BY <2>3, <2>5
    <3>2. in_data' = in_data /\ pos' = pos + 1 /\ ~prev_del'
      BY <2>3, <2>5, <3>1
    <3>3. \A p \in Nat : p < pos /\ p < in_len => Needed(p)
      BY <1>1, <2>1, <2>5, <3>1 DEF MinimalInv
    <3>4. Needed(pos)
      <4>1. CASE no_op
        <5>1. pos >= 1
          BY <1>2, <2>2, <4>1
        <5>2. SubSeq(in_data, pos, pos) = SubSeq(in_data, pos + 1, pos + 1)
          BY <1>2, <2>5, <4>1
        <5>3. in_data[pos] = in_data[pos + 1]
          <6>1. SubSeq(in_data, pos, pos)[1] = in_data[pos]
            BY <1>2, <2>1, <5>1
          <6>2. SubSeq(in_data, pos + 1, pos + 1)[1] = in_data[pos + 1]
            BY <1>2, <2>1, <5>1
          <6>3. QED
            BY <5>2, <6>1, <6>2
        <5>4. Without(in_data, pos, 1) = Without(in_data, pos - 1, 1)
          BY <1>2, <2>1, <5>1, <5>3, SameByte
        <5>5. Needed(pos - 1)
          BY <1>2, <2>1, <3>3, <5>1
        <5>6. QED
          BY <5>4, <5>5 DEF Needed
      <4>2. CASE ~no_op
        <5>1. ~Accepted(Without(in_data, pos, 1))
          BY <2>5, <3>1, <4>2
        <5>2. pc \in Stages
          BY <2>1 DEF Stages
        <5>3. QED
          BY <1>1, <5>1, <5>2, AcceptedLike DEF Needed
      <4>3. QED
        BY <4>1, <4>2
    <3>5. \A p \in Nat : p < pos + 1 => p < pos \/ p = pos
      BY <1>2
    <3>6. QED
      BY <1>3, <3>2, <3>3, <3>4, <3>5
  <2>6. QED
    BY <1>1, <2>1, <2>2, <2>4, <2>5 DEF MinimalInv
<1>9. CASE next_del_blksize
  <2>1. pc = "delete" /\ pos >= in_len /\ Same
    BY <1>9 DEF next_del_blksize
  <2>2. block >= 1
    BY <1>1, <2>1 DEF MinimalInv
  <2>3. CASE block > 1 /\ in_len >= 1
    <3>1. pc' = "delete" /\ block' = block \div 2 /\ pos' = 0 /\ prev_del'
      BY <1>9, <2>1, <2>3 DEF next_del_blksize
    <3>2. block' >= 1
      BY <1>2, <2>3, <3>1
    <3>3. QED
      BY <3>1, <3>2 DEF MinimalInv
  <2>4. CASE ~(block > 1 /\ in_len >= 1)
    <3>1. pc' \in {"finalize", "alphabet"} /\ (pc' = "finalize" => ~changed_any)
      BY <1>9, <2>4 DEF next_del_blksize
    <3>2. ~changed_any => Minimal
      <4>1. CASE block = 1
        BY <1>1, <1>2, <2>1, <4>1 DEF MinimalInv
      <4>2. CASE in_len = 0
        BY <4>2
      <4>3. QED
        BY <1>2, <2>2, <2>4, <4>1, <4>2
    <3>3. QED
      BY <1>3, <1>4, <2>1, <3>1, <3>2
  <2>5. QED
    BY <2>3, <2>4
<1>10. CASE minimize_symbol
  <2>1. pc = "alphabet" /\ pc' = "alphabet"
    BY <1>10 DEF minimize_symbol
  <2>2. ~changed_any' => ~changed_any /\ in_data' = in_data
    BY <1>10 DEF minimize_symbol
  <2>3. ~changed_any => Minimal
    BY <1>1, <2>1 DEF MinimalInv
  <2>4. QED
    BY <1>3, <1>4, <2>1, <2>2, <2>3
<1>11. CASE start_characters
  <2>1. pc = "alphabet" /\ pc' = "characters" /\ Same
    BY <1>11 DEF start_characters
  <2>2. ~changed_any => Minimal
    BY <1>1, <2>1 DEF MinimalInv
  <2>3. QED
    BY <1>3, <1>4, <2>1, <2>2
<1>12. CASE minimize_character
  <2>1. pc = "characters" /\ pc' = "characters"
    BY <1>12 DEF minimize_character
  <2>2. ~changed_any' => ~changed_any /\ in_data' = in_data
    BY <1>12 DEF minimize_character
  <2>3. ~changed_any => Minimal
    BY <1>1, <2>1 DEF MinimalInv
  <2>4. QED
    BY <1>3, <1>4, <2>1, <2>2, <2>3
<1>13. CASE finalize_all
  <2>1. pc \in {"finalize", "characters"} /\ pc' = "done" /\ Same /\ ~changed_any
    BY <1>1, <1>13 DEF finalize_all, tminVars, MinimalInv
  <2>2. ~changed_any => Minimal
    BY <1>1, <2>1 DEF MinimalInv
  <2>3. QED
    BY <1>3, <1>4, <2>1, <2>2
<1>14. CASE stop_soon
  BY <1>14 DEF stop_soon, MinimalInv
<1>15. QED
  BY <1>1, <1>5, <1>6, <1>7, <1>8, <1>9, <1>10, <1>11, <1>12, <1>13, <1>14 DEF TminNext

-----------------------------------------------------------------------------
(* The theorems.                                                           *)

LEMMA InitInv ==
  ASSUME Init
  PROVE  IInv
<1>1. job \in Jobs /\ JobOK(job) /\ in_data = job.data
  BY MinimizeAssumption DEF Init
<1>2. ToolInv
  BY <1>1 DEF Init, ToolInv, JobOK
<1>3. TminInv
  BY <1>1 DEF Init, TminInv, Stages
<1>4. TrimInv
  BY <1>1 DEF Init, TrimInv, JobOK
<1>5. MinimalInv
  BY <1>1 DEF Init, MinimalInv
<1>6. QED
  BY <1>2, <1>3, <1>4, <1>5 DEF IInv

LEMMA StutterInv ==
  ASSUME IInv, UNCHANGED vars
  PROVE  IInv'
  BY DEF IInv, vars, ToolInv, TminInv, TrimInv, MinimalInv, Needed, in_len, Without

LEMMA Invariance == Spec => []IInv
<1>1. Init => IInv
  BY InitInv
<1>2. IInv /\ [Next]_vars => IInv'
  BY ToolStep, TminStep, TrimStep, MinimalStep, StutterInv DEF IInv
<1>3. QED
  BY <1>1, <1>2, PTL DEF Spec

\* Whatever afl-tmin may write at any moment, told to stop or done, ends like the
\* original and, unless only the crash counts, has its trace; the file of a trimmed
\* queue entry keeps its trace and is not empty.
THEOREM OutcomeCorrect == Spec => []OutcomeKept
<1>1. IInv => OutcomeKept
  <2> SUFFICES ASSUME IInv PROVE OutcomeKept
    OBVIOUS
  <2>1. \A s : LikeOriginal(s) <=> Like(job, s)
    BY DEF LikeOriginal, Like, Kind, Signature
  <2>2. ASSUME job.tool = "tmin" PROVE pc \in Stages \cup {"dry_run", "aborted", "fatal"}
    BY <2>2 DEF IInv, ToolInv
  <2>3. QED
    BY <2>1, <2>2 DEF IInv, TminInv, TrimInv, OutcomeKept, Signature, Stages
<1>2. QED
  BY <1>1, Invariance, PTL

\* When afl-tmin is done, no byte of the result can be left out, although it skips
\* the blocks that look like one that could not be left out.
THEOREM MinimalCorrect == Spec => []OneMinimal
<1>1. IInv => OneMinimal
  <2> SUFFICES ASSUME IInv, job.tool = "tmin", pc = "done",
                      NEW p \in 0 .. Len(out_file) - 1
               PROVE  ~LikeOriginal(Without(out_file, p, 1))
    BY DEF OneMinimal
  <2>1. out_file = in_data /\ ~changed_any /\ \A q \in Nat : q < in_len => Needed(q)
    BY DEF IInv, TminInv, MinimalInv
  <2>2. p \in Nat /\ p < in_len
    BY <2>1 DEF in_len, IInv, ToolInv
  <2>3. ~Like(job, Without(out_file, p, 1))
    BY <2>1, <2>2 DEF Needed
  <2>4. QED
    BY <2>3 DEF LikeOriginal, Like, Kind, Signature
<1>2. QED
  BY <1>1, Invariance, PTL

-----------------------------------------------------------------------------
(* afl-analyze.                                                            *)

\* What the four changes of the byte at k lead to, for the input of job j.
SumsOf(j, k) ==
  LET Sum(s) == IF KindOf(j, s) = "hang" THEN <<0>>
                ELSE <<KindOf(j, s) = "crash", TraceOf(j, s)>>
  IN  [c \in 1 .. 4 |-> Sum([j.data EXCEPT ![k] = Changes(j.data[k])[c]])]

\* None of the changes at k leads to what it leads to at the byte before.
Splits(j, k) == \A c \in 1 .. 4 : SumsOf(j, k - 1)[c] # SumsOf(j, k)[c]
StartsOf(j) == {k \in 1 .. Len(j.data) : k > 1 => Splits(j, k)}

\* The bytes that were classified, and where their top bit changes.
BytesInv ==
  job.tool = "analyze" =>
    /\ in_data = job.data /\ pos \in 0 .. Len(job.data)
    /\ pc = "dry_run" => pos = 0 /\ b_data = <<>> /\ seq_byte = 0 /\ report = <<>>
    /\ pc \in {"analyze", "dump", "done"} =>
         /\ orig_cksum = Checksum(job.data)
         /\ b_data \in Seq([resp : 0 .. 3, seq : {0, 1}]) /\ seq_byte \in {0, 1}
         /\ \A k \in 1 .. Len(b_data) : b_data[k].resp = Response(SumsOf(job, k))
         /\ \A k \in 2 .. Len(b_data) : b_data[k].seq # b_data[k - 1].seq <=> Splits(job, k)
    /\ pc = "analyze" => /\ Len(b_data) = pos /\ report = <<>>
                         /\ pos > 0 => /\ prev_cksums = SumsOf(job, pos)
                                       /\ b_data[pos].seq = seq_byte
    /\ pc \in {"dump", "done"} => Len(b_data) = Len(job.data)

\* The class of a section is the highest of its bytes, or a finer one of those with
\* a fixed response.
TypeOfSection(type, S) ==
  /\ type = RESP_NONE <=> \A k \in S : b_data[k].resp = RESP_NONE
  /\ type <= RESP_MINOR <=> \A k \in S : b_data[k].resp <= RESP_MINOR
  /\ type >= RESP_FIXED <=> \E k \in S : b_data[k].resp = RESP_FIXED

\* What was printed so far is divided as the input is.
ReportInv ==
  job.tool = "analyze" /\ pc \in {"dump", "done"} =>
    /\ report \in Seq([first : Nat \ {0}, last : Nat \ {0}, type : 0 .. 6])
    /\ {report[j].first : j \in 1 .. Len(report)} = StartsOf(job) \cap (1 .. pos)
    /\ report = <<>> => pos = 0
    /\ pos < Len(job.data) => pos + 1 \in StartsOf(job)
    /\ \A j \in 1 .. Len(report) :
         /\ report[j].last = IF j < Len(report) THEN report[j + 1].first - 1 ELSE pos
         /\ report[j].last <= pos
         /\ TypeOfSection(report[j].type, report[j].first .. report[j].last)
    /\ pc = "done" => pos = Len(job.data)
\* What the operations on a byte come to: each change is one of the original, and the
\* last one is undone.
LEMMA ChangesMade ==
  ASSUME NEW b \in 0 .. 255
  PROVE  /\ Changes(b) = <<255 - b, IF b % 2 = 0 THEN b + 1 ELSE b - 1,
                           (b + 240) % 256, (b + 16) % 256>>
         /\ (Changes(b)[4] - 16) % 256 = b
<1> DEFINE x == IF b % 2 = 0 THEN b + 1 ELSE b - 1
<1>1. XorFF(b) = 255 - b /\ Xor01(b) = x /\ x \in 0 .. 255
  BY DEF XorFF, Xor01
<1>2. XorFF(Xor01(255 - b)) = x
  BY DEF XorFF, Xor01
<1>3. Xor01(x) = b
  BY DEF Xor01
<1>4. (b - 16) % 256 = (b + 240) % 256 /\ (((b + 240) % 256) + 32) % 256 = (b + 16) % 256
  OBVIOUS
<1>5. (((b + 16) % 256) - 16) % 256 = b
  OBVIOUS
<1>6. Changes(b) = <<255 - b, x, (b + 240) % 256, (b + 16) % 256>>
  BY <1>1, <1>2, <1>3, <1>4 DEF Changes
<1>7. QED
  BY <1>5, <1>6

\* The definitions that the property uses.
LEMMA SumsAgree ==
  ASSUME job \in Jobs
  PROVE  /\ \A k \in 1 .. Len(job.data) : SumsAt(k) = SumsOf(job, k)
         /\ Starts = StartsOf(job)
<1>1. /\ job.data \in Seq(Symbols) /\ Len(job.data) \in Nat
      /\ \A k \in 1 .. Len(job.data) : job.data[k] \in 0 .. 255
  <2>1. job.data \in Seq(Symbols) /\ Symbols \subseteq 0 .. 255
    BY MinimizeAssumption DEF JobOK
  <2>2. QED
    BY <2>1, ElementOfSeq, LenProperties
<1>2. ASSUME NEW k \in 1 .. Len(job.data) PROVE SumsAt(k) = SumsOf(job, k)
  <2>1. job.data[k] \in 0 .. 255
    BY <1>1
  <2> DEFINE b == job.data[k]
             new == <<255 - b, IF b % 2 = 0 THEN b + 1 ELSE b - 1,
                      (b + 240) % 256, (b + 16) % 256>>
  <2>2. Changes(b) = new
    BY <2>1, ChangesMade
  <2>3. SumsOf(job, k) = [c \in 1 .. 4 |-> Checksum([job.data EXCEPT ![k] = new[c]])]
    BY <2>2 DEF SumsOf, Checksum, Kind, Signature
  <2>4. QED
    BY <2>3 DEF SumsAt
<1>3. Starts = StartsOf(job)
  <2>1. DOMAIN job.data = 1 .. Len(job.data) /\ Len(job.data) \in Nat
    BY <1>1
  <2>2. ASSUME NEW k \in 1 .. Len(job.data), k > 1
        PROVE  SumsAt(k) = SumsOf(job, k) /\ SumsAt(k - 1) = SumsOf(job, k - 1)
    BY <1>2, <2>1, <2>2
  <2>3. QED
    BY <2>1, <2>2 DEF Starts, StartsOf, Splits
<1>4. QED
  BY <1>2, <1>3

LEMMA FourFinite ==
  ASSUME NEW a, NEW b, NEW c, NEW d
  PROVE  IsFiniteSet({a, b, c, d})
<1>1. IsFiniteSet({a}) /\ IsFiniteSet({a} \cup {b})
  BY FS_Singleton, FS_AddElement
<1>2. IsFiniteSet({a} \cup {b} \cup {c})
  BY <1>1, FS_AddElement
<1>3. IsFiniteSet({a} \cup {b} \cup {c} \cup {d})
  BY <1>2, FS_AddElement
<1>4. {a} \cup {b} \cup {c} \cup {d} = {a, b, c, d}
  OBVIOUS
<1>5. QED
  BY <1>3, <1>4

\* The class of a byte says which of its changes have left the behaviour alone.
LEMMA ResponseMeaning ==
  ASSUME NEW sums, DOMAIN sums = 1 .. 4
  PROVE  /\ Response(sums) \in 0 .. 3
         /\ Response(sums) = RESP_NONE <=> Range(sums) = {orig_cksum}
         /\ Response(sums) <= RESP_MINOR <=> orig_cksum \in Range(sums)
         /\ Response(sums) = RESP_FIXED <=> /\ Cardinality(Range(sums)) = 1
                                           /\ Range(sums) # {orig_cksum}
<1> DEFINE orig == {k \in 1 .. 4 : sums[k] = orig_cksum}
<1>1. Range(sums) = {sums[k] : k \in 1 .. 4}
  BY DEF Range
<1>2. /\ orig = 1 .. 4 <=> Range(sums) = {orig_cksum}
      /\ orig # {} <=> orig_cksum \in Range(sums)
  BY <1>1
<1>3. ASSUME orig # {}, Cardinality(Range(sums)) = 1 PROVE Range(sums) = {orig_cksum}
  <2>1. orig_cksum \in Range(sums)
    BY <1>2, <1>3
  <2>2. IsFiniteSet(Range(sums))
    <3>1. Range(sums) = {sums[1], sums[2], sums[3], sums[4]}
      BY <1>1
    <3>2. IsFiniteSet({sums[1], sums[2], sums[3], sums[4]})
      BY FourFinite
    <3>3. QED
      BY <3>1, <3>2, Zenon
  <2>3. \E m : Range(sums) = {m}
    BY <1>3, <2>2, FS_Singleton
  <2>4. QED
    BY <2>1, <2>3
<1>4. Response(sums) = CASE orig = 1 .. 4 -> RESP_NONE
                         [] orig # 1 .. 4 /\ orig # {} -> RESP_MINOR
                         [] orig = {} /\ Cardinality(Range(sums)) = 1 -> RESP_FIXED
                         [] orig = {} /\ Cardinality(Range(sums)) # 1 -> RESP_VARIABLE
  BY DEF Response
<1>5. orig = 1 .. 4 => orig # {}
  OBVIOUS
<1> HIDE DEF orig
<1>6. QED
  BY <1>2, <1>3, <1>4, <1>5 DEF RESP_NONE, RESP_MINOR, RESP_FIXED, RESP_VARIABLE

LEMMA SumsOfType ==
  ASSUME NEW j, NEW k
  PROVE  DOMAIN SumsOf(j, k) = 1 .. 4
  BY DEF SumsOf

\* One byte after the other is classified, and changed back.
LEMMA BytesStep ==
  ASSUME ToolInv, BytesInv, Next
  PROVE  BytesInv'
<1> SUFFICES ASSUME job.tool = "analyze" PROVE BytesInv'
  BY JobKept DEF BytesInv
<1> DEFINE n == Len(job.data)
           Resp == [resp : 0 .. 3, seq : {0, 1}]
           Classified(b) ==
             /\ b \in Seq(Resp)
             /\ \A k \in 1 .. Len(b) : b[k].resp = Response(SumsOf(job, k))
             /\ \A k \in 2 .. Len(b) : b[k].seq # b[k - 1].seq <=> Splits(job, k)
<1>0. AnalyzeNext /\ job' = job
  BY ToolsDiffer, JobKept
<1>1. /\ in_data = job.data /\ pos \in 0 .. n /\ n \in Nat /\ in_data \in Seq(Symbols)
      /\ \A k \in 1 .. n : job.data[k] \in 0 .. 255
  <2>1. job.data \in Seq(Symbols) /\ Symbols \subseteq 0 .. 255
    BY MinimizeAssumption DEF ToolInv, JobOK
  <2>2. QED
    BY <2>1, ElementOfSeq, LenProperties DEF BytesInv
<1>3. CASE start_analysis
  <2>1. /\ pc = "dry_run" /\ pc' \in {"fatal", "analyze"} /\ orig_cksum' = Checksum(in_data)
        /\ UNCHANGED <<in_data, pos, b_data, seq_byte, report>>
    BY <1>3 DEF start_analysis, analyzeVars
  <2>2. pos = 0 /\ b_data = <<>> /\ seq_byte = 0 /\ report = <<>>
    BY <2>1 DEF BytesInv
  <2>3. orig_cksum' = Checksum(job.data)'
    BY <1>0, <1>1, <2>1 DEF Checksum, Kind, Signature
  <2>4. QED
    BY <1>0, <1>1, <2>1, <2>2, <2>3 DEF BytesInv
<1>4. ASSUME UNCHANGED <<in_data, orig_cksum, b_data, seq_byte>>
      PROVE  /\ Classified(b_data)' <=> Classified(b_data)
             /\ (orig_cksum = Checksum(job.data))' <=> orig_cksum = Checksum(job.data)
  BY <1>0, <1>4 DEF Checksum, Kind, Signature, Response
<1>5. CASE analyze_byte
  <2> DEFINE changes == Changes(in_data[pos + 1])
             sums == [k \in 1 .. 4 |-> Checksum([in_data EXCEPT ![pos + 1] = changes[k]])]
             new == [resp |-> Response(sums), seq |-> seq_byte']
  <2>1. /\ pc = "analyze" /\ pc' = "analyze" /\ pos < in_len
        /\ seq_byte' = IF \A k \in 1 .. 4 : prev_cksums[k] # sums[k]
                       THEN 1 - seq_byte ELSE seq_byte
        /\ b_data' = Append(b_data, new) /\ prev_cksums' = sums
        /\ in_data' = [in_data EXCEPT ![pos + 1] = (changes[4] - 16) % 256]
        /\ pos' = pos + 1 /\ UNCHANGED <<orig_cksum, report>>
    BY <1>5 DEF analyze_byte
  <2>2. pos + 1 \in 1 .. n /\ in_data[pos + 1] \in 0 .. 255
    BY <1>1, <2>1 DEF in_len
  <2>3. sums = SumsOf(job, pos + 1)
    BY <1>1 DEF SumsOf, Checksum, Kind, Signature
  <2>4. in_data' = job.data
    <3>1. (changes[4] - 16) % 256 = in_data[pos + 1]
      BY <2>2, ChangesMade
    <3>2. in_data \in [1 .. n -> Symbols]
      BY <1>1, LenProperties
    <3>3. QED
      BY <1>1, <2>1, <2>2, <3>1, <3>2
  <2>5. /\ Classified(b_data) /\ seq_byte \in {0, 1} /\ orig_cksum = Checksum(job.data)
        /\ Len(b_data) = pos /\ report = <<>>
        /\ pos > 0 => prev_cksums = SumsOf(job, pos) /\ b_data[pos].seq = seq_byte
    BY <2>1 DEF BytesInv
  <2> HIDE DEF sums, changes
  <2>6. seq_byte' \in {0, 1} /\ (pos > 0 => (seq_byte' # seq_byte <=> Splits(job, pos + 1)))
    BY <1>1, <2>1, <2>3, <2>5 DEF Splits
  <2>7. new \in Resp
    BY <2>3, <2>6, SumsOfType, ResponseMeaning
  <2>8. /\ b_data' \in Seq(Resp) /\ Len(b_data') = pos + 1 /\ b_data'[pos + 1] = new
        /\ \A k \in 1 .. pos : b_data'[k] = b_data[k]
    BY <1>1, <2>1, <2>5, <2>7, AppendProperties
  <2>9. ASSUME NEW k \in 1 .. pos + 1 PROVE b_data'[k].resp = Response(SumsOf(job, k))
    BY <1>1, <2>3, <2>5, <2>8
  <2>10. ASSUME NEW k \in 2 .. pos + 1
         PROVE  b_data'[k].seq # b_data'[k - 1].seq <=> Splits(job, k)
    <3>1. CASE k <= pos
      BY <1>1, <2>5, <2>8, <3>1
    <3>2. CASE k = pos + 1
      BY <1>1, <2>5, <2>6, <2>8, <3>2
    <3>3. QED
      BY <1>1, <3>1, <3>2
  <2>11. Classified(b_data')
    BY <2>8, <2>9, <2>10
  <2>12. \A s : Response(s)' = Response(s)
    BY <2>1 DEF Response
  <2>13. (orig_cksum = Checksum(job.data))'
    BY <1>0, <2>1, <2>5 DEF Checksum, Kind, Signature
  <2>14. prev_cksums' = SumsOf(job, pos + 1) /\ b_data'[pos + 1].seq = seq_byte'
    BY <2>1, <2>3, <2>8
  <2>15. QED
    BY <1>0, <1>1, <2>1, <2>2, <2>4, <2>5, <2>6, <2>8, <2>11, <2>12, <2>13, <2>14 DEF BytesInv
<1>6. CASE end_analysis
  <2>1. /\ pc = "analyze" /\ pos >= in_len /\ pc' = "dump" /\ pos' = 0
        /\ UNCHANGED <<in_data, orig_cksum, b_data, seq_byte>>
    BY <1>6 DEF end_analysis, analyzeVars
  <2>2. Len(b_data) = n
    BY <1>1, <2>1 DEF BytesInv, in_len
  <2>3. QED
    BY <1>0, <1>1, <1>4, <2>1, <2>2 DEF BytesInv
<1>7. CASE dump_hex
  <2> DEFINE others == {k \in pos + 1 .. in_len : b_data[k].seq # b_data[pos + 1].seq}
             last == IF others = {} THEN in_len ELSE Min(others) - 1
  <2>1. /\ pc = "dump" /\ pc' = "dump" /\ pos < in_len /\ pos' = last
        /\ UNCHANGED <<in_data, orig_cksum, b_data, seq_byte>>
    BY <1>7 DEF dump_hex
  <2>2. last \in 0 .. n
    <3>1. CASE others = {}
      BY <1>1, <3>1 DEF in_len
    <3>2. CASE others # {}
      <4>1. others \subseteq Nat
        BY <1>1 DEF in_len
      <4>2. Min(others) \in others
        BY <3>2, <4>1, Least DEF Min
      <4>3. QED
        BY <1>1, <3>2, <4>2 DEF in_len
    <3>3. QED
      BY <3>1, <3>2
  <2>3. QED
    BY <1>0, <1>1, <1>4, <2>1, <2>2 DEF BytesInv
<1>8. CASE end_dump
  <2>1. pc = "dump" /\ pc' = "done" /\ UNCHANGED <<in_data, orig_cksum, b_data, seq_byte, pos>>
    BY <1>8 DEF end_dump, analyzeVars
  <2>2. QED
    BY <1>0, <1>1, <1>4, <2>1 DEF BytesInv
<1>9. CASE stop_analysis
  <2>1. pc' = "aborted" /\ UNCHANGED <<in_data, pos>>
    BY <1>9 DEF stop_analysis, analyzeVars
  <2>2. QED
    BY <1>0, <1>1, <2>1 DEF BytesInv
<1>10. QED
  BY <1>0, <1>3, <1>5, <1>6, <1>7, <1>8, <1>9 DEF AnalyzeNext

\* The greatest of some classes of bytes.
LEMMA MaxOfClasses ==
  ASSUME NEW S, S \subseteq 0 .. 3, S # {}
  PROVE  Max(S) \in S /\ \A y \in S : y <= Max(S)
<1>1. \E x \in S : \A y \in S : x >= y
  <2>1. CASE 3 \in S
    BY <2>1
  <2>2. CASE 3 \notin S /\ 2 \in S
    BY <2>2
  <2>3. CASE 3 \notin S /\ 2 \notin S /\ 1 \in S
    BY <2>3
  <2>4. CASE 3 \notin S /\ 2 \notin S /\ 1 \notin S
    <3>1. \A y \in S : y = 0
      BY <2>4
    <3>2. PICK x : x \in S
      OBVIOUS
    <3>3. QED
      BY <3>1, <3>2
  <2>5. QED
    BY <2>1, <2>2, <2>3, <2>4
<1>2. QED
  BY <1>1 DEF Max

LEMMA FixedKindType ==
  ASSUME NEW s, Len(s) \in Nat
  PROVE  FixedKind(s) \in 3 .. 6
<1>1. MAX_AUTO_EXTRA \in Nat
  BY MinimizeAssumption
<1>2. QED
  BY <1>1 DEF FixedKind, RESP_LEN, RESP_CKSUM, RESP_FIXED, RESP_SUSPECT

\* A section ends before the first byte whose top bit differs: where the next one starts.
LEMMA SectionEnd ==
  ASSUME ToolInv, BytesInv, job.tool = "analyze", pc = "dump", pos < in_len,
         pos + 1 \in StartsOf(job)
  PROVE  LET others == {k \in pos + 1 .. in_len : b_data[k].seq # b_data[pos + 1].seq}
             last   == IF others = {} THEN in_len ELSE Min(others) - 1
         IN  /\ last \in pos + 1 .. in_len
             /\ StartsOf(job) \cap (1 .. last) = (StartsOf(job) \cap (1 .. pos)) \cup {pos + 1}
             /\ last < in_len => last + 1 \in StartsOf(job)
<1> DEFINE others == {k \in pos + 1 .. in_len : b_data[k].seq # b_data[pos + 1].seq}
           last == IF others = {} THEN in_len ELSE Min(others) - 1
<1>1. /\ pos \in Nat /\ in_len \in Nat /\ in_len = Len(job.data) /\ Len(b_data) = in_len
      /\ \A k \in 2 .. in_len : b_data[k].seq # b_data[k - 1].seq <=> Splits(job, k)
  <2>1. in_data = job.data /\ in_data \in Seq(Symbols)
    BY MinimizeAssumption DEF ToolInv, JobOK, BytesInv
  <2>2. in_len = Len(job.data) /\ in_len \in Nat
    BY <2>1, LenProperties DEF in_len
  <2>3. pos \in 0 .. Len(job.data) /\ Len(b_data) = Len(job.data)
    BY DEF BytesInv
  <2>4. \A k \in 2 .. Len(b_data) : b_data[k].seq # b_data[k - 1].seq <=> Splits(job, k)
    BY Zenon DEF BytesInv
  <2>5. QED
    BY <2>2, <2>3, <2>4
<1>2. /\ last \in pos + 1 .. in_len
      /\ \A k \in pos + 1 .. last : b_data[k].seq = b_data[pos + 1].seq
      /\ last < in_len => b_data[last + 1].seq # b_data[pos + 1].seq
  <2>1. CASE others = {}
    BY <1>1, <2>1
  <2>2. CASE others # {}
    <3>1. others \subseteq Nat
      BY <1>1
    <3>2. Min(others) \in others /\ \A y \in others : Min(others) <= y
      BY <2>2, <3>1, Least DEF Min
    <3>3. last = Min(others) - 1 /\ Min(others) \in pos + 2 .. in_len
      BY <1>1, <2>2, <3>2
    <3>4. ASSUME NEW k \in pos + 1 .. last PROVE b_data[k].seq = b_data[pos + 1].seq
      BY <1>1, <3>2, <3>3
    <3>5. last + 1 = Min(others) /\ last \in pos + 1 .. in_len
      BY <1>1, <3>3
    <3>6. QED
      BY <3>2, <3>4, <3>5
  <2>3. QED
    BY <2>1, <2>2
<1> HIDE DEF last
<1>3. ASSUME NEW k \in pos + 2 .. last PROVE k \notin StartsOf(job)
  <2>1. b_data[k].seq = b_data[k - 1].seq
    BY <1>1, <1>2
  <2>2. ~Splits(job, k)
    BY <1>1, <1>2, <2>1
  <2>3. QED
    BY <1>1, <2>2 DEF StartsOf
<1>4. ASSUME last < in_len PROVE last + 1 \in StartsOf(job)
  <2>1. last + 1 \in 2 .. in_len /\ b_data[last].seq = b_data[pos + 1].seq
    BY <1>1, <1>2, <1>4
  <2>2. b_data[last + 1].seq # b_data[(last + 1) - 1].seq
    <3>1. (last + 1) - 1 = last
      BY <1>1, <1>2
    <3>2. QED
      BY <1>2, <1>4, <2>1, <3>1
  <2>3. Splits(job, last + 1)
    BY <1>1, <2>1, <2>2
  <2>4. QED
    BY <1>1, <2>1, <2>3 DEF StartsOf
<1>5. StartsOf(job) \cap (1 .. last) = (StartsOf(job) \cap (1 .. pos)) \cup {pos + 1}
  BY <1>1, <1>2, <1>3
<1>6. QED
  BY <1>2, <1>4, <1>5 DEF last

LEMMA ReportStep ==
  ASSUME ToolInv, BytesInv, ReportInv, Next
  PROVE  ReportInv'
<1> SUFFICES ASSUME job.tool = "analyze", pc' \in {"dump", "done"} PROVE ReportInv'
  BY JobKept DEF ReportInv
<1> DEFINE n == Len(job.data)
           Section == [first : Nat \ {0}, last : Nat \ {0}, type : 0 .. 6]
<1>0. AnalyzeNext /\ job' = job
  BY ToolsDiffer, JobKept
<1>1. in_data = job.data /\ pos \in 0 .. n /\ n \in Nat /\ in_len = n
  <2>1. job.data \in Seq(Symbols)
    BY MinimizeAssumption DEF ToolInv, JobOK
  <2>2. QED
    BY <2>1, LenProperties DEF BytesInv, in_len
<1>2. CASE end_analysis
  <2>1. pc = "analyze" /\ pc' = "dump" /\ pos' = 0 /\ UNCHANGED report
    BY <1>2 DEF end_analysis, analyzeVars
  <2>2. report = <<>>
    BY <2>1 DEF BytesInv
  <2>3. n > 0
    BY <1>1, MinimizeAssumption DEF ToolInv, JobOK
  <2>4. 1 \in StartsOf(job)
    BY <1>1, <2>3 DEF StartsOf
  <2>5. QED
    BY <1>0, <2>1, <2>2, <2>3, <2>4 DEF ReportInv
<1>3. CASE end_dump
  <2>1. pc = "dump" /\ pos >= in_len /\ pc' = "done" /\ UNCHANGED <<pos, report, b_data>>
    BY <1>3 DEF end_dump, analyzeVars
  <2>2. pos = n
    BY <1>1, <2>1
  <2>3. QED
    BY <1>0, <2>1, <2>2 DEF ReportInv, TypeOfSection
<1>4. CASE dump_hex
  <2> DEFINE others == {k \in pos + 1 .. in_len : b_data[k].seq # b_data[pos + 1].seq}
             last == IF others = {} THEN in_len ELSE Min(others) - 1
             rtype == Max({b_data[k].resp : k \in pos + 1 .. last})
             type == IF rtype # RESP_FIXED THEN rtype
                     ELSE FixedKind(SubSeq(in_data, pos + 1, last))
             new == [first |-> pos + 1, last |-> last, type |-> type]
  <2>1. /\ pc = "dump" /\ pc' = "dump" /\ pos < in_len /\ UNCHANGED b_data
        /\ report' = Append(report, new) /\ pos' = last
    BY <1>4 DEF dump_hex
  <2>2. /\ report \in Seq(Section) /\ pos + 1 \in StartsOf(job)
        /\ {report[j].first : j \in 1 .. Len(report)} = StartsOf(job) \cap (1 .. pos)
        /\ report = <<>> => pos = 0
        /\ \A j \in 1 .. Len(report) :
             /\ report[j].last = IF j < Len(report) THEN report[j + 1].first - 1 ELSE pos
             /\ report[j].last <= pos
             /\ TypeOfSection(report[j].type, report[j].first .. report[j].last)
    BY <1>1, <2>1 DEF ReportInv
  <2>3. /\ last \in pos + 1 .. n
        /\ StartsOf(job) \cap (1 .. last) = (StartsOf(job) \cap (1 .. pos)) \cup {pos + 1}
        /\ last < n => last + 1 \in StartsOf(job)
    BY <1>1, <2>1, <2>2, SectionEnd
  <2> HIDE DEF last
  <2>4. \A k \in pos + 1 .. last : b_data[k].resp \in 0 .. 3
    <3>1. b_data \in Seq([resp : 0 .. 3, seq : {0, 1}]) /\ Len(b_data) = n
      BY <2>1 DEF BytesInv
    <3>2. \A k \in 1 .. n : b_data[k] \in [resp : 0 .. 3, seq : {0, 1}]
      BY <3>1, ElementOfSeq
    <3>3. QED
      BY <1>1, <2>3, <3>2
  <2>5. /\ rtype \in {b_data[k].resp : k \in pos + 1 .. last}
        /\ \A k \in pos + 1 .. last : b_data[k].resp <= rtype
    <3> DEFINE S == {b_data[k].resp : k \in pos + 1 .. last}
    <3>1. S \subseteq 0 .. 3 /\ S # {}
      BY <1>1, <2>3, <2>4
    <3>2. Max(S) \in S /\ \A y \in S : y <= Max(S)
      BY <3>1, MaxOfClasses
    <3>3. QED
      BY <3>2
  <2> HIDE DEF rtype
  <2>6. type \in 0 .. 6 /\ TypeOfSection(type, pos + 1 .. last)
    <3>1. Len(SubSeq(in_data, pos + 1, last)) \in Nat
      <4>1. in_data \in Seq(Symbols)
        BY <1>1, MinimizeAssumption DEF ToolInv, JobOK
      <4>2. QED
        BY <1>1, <2>3, <4>1, SubSeqProperties, LenProperties
    <3>2. FixedKind(SubSeq(in_data, pos + 1, last)) \in 3 .. 6
      BY <3>1, FixedKindType
    <3>3. QED
      BY <2>4, <2>5, <3>2 DEF TypeOfSection, RESP_NONE, RESP_MINOR, RESP_FIXED
  <2> HIDE DEF type
  <2>7. new \in Section
    BY <1>1, <2>3, <2>6
  <2>8. /\ report' \in Seq(Section) /\ Len(report') = Len(report) + 1 /\ Len(report) \in Nat
        /\ report'[Len(report) + 1] = new
        /\ \A j \in 1 .. Len(report) : report'[j] = report[j]
    BY <2>1, <2>2, <2>7, AppendProperties, LenProperties
  <2>9. {report'[j].first : j \in 1 .. Len(report')} = StartsOf(job) \cap (1 .. last)
    <3>1. {report'[j].first : j \in 1 .. Len(report')}
            = {report[j].first : j \in 1 .. Len(report)} \cup {pos + 1}
      <4>1. 1 .. Len(report') = 1 .. Len(report) \cup {Len(report) + 1}
        BY <2>8
      <4>2. {report'[j].first : j \in 1 .. Len(report')}
              = {report'[j].first : j \in 1 .. Len(report)} \cup {report'[Len(report) + 1].first}
        BY <4>1
      <4>3. report'[Len(report) + 1].first = pos + 1
        BY <2>8
      <4>4. {report'[j].first : j \in 1 .. Len(report)}
              = {report[j].first : j \in 1 .. Len(report)}
        BY <2>8
      <4>5. QED
        BY <4>2, <4>3, <4>4
    <3>2. QED
      BY <2>2, <2>3, <3>1
  <2>10. ASSUME NEW j \in 1 .. Len(report')
         PROVE  /\ report'[j].last = IF j < Len(report') THEN report'[j + 1].first - 1
                                     ELSE last
                /\ report'[j].last <= last
                /\ TypeOfSection(report'[j].type, report'[j].first .. report'[j].last)
    <3>1. CASE j = Len(report) + 1
      BY <1>1, <2>3, <2>6, <2>8, <3>1
    <3>2. CASE j < Len(report)
      <4>1. j \in 1 .. Len(report) /\ j + 1 \in 1 .. Len(report) /\ j < Len(report')
        BY <2>8, <3>2
      <4>2. report'[j] = report[j] /\ report'[j + 1] = report[j + 1]
        BY <2>8, <4>1
      <4>3. report[j] \in Section /\ report[j].last <= pos
        BY <2>2, <4>1, ElementOfSeq
      <4>4. report[j].last <= last
        BY <1>1, <2>3, <4>3
      <4>5. QED
        BY <2>2, <4>1, <4>2, <4>4
    <3>3. CASE j = Len(report)
      <4>1. j \in 1 .. Len(report) /\ j < Len(report') /\ ~(j < Len(report))
        BY <2>8, <3>3
      <4>2. report'[j] = report[j] /\ report'[j + 1].first = pos + 1
        BY <2>8, <3>3, <4>1
      <4>3. report[j].last = pos
        BY <2>2, <4>1
      <4>4. QED
        BY <1>1, <2>2, <2>3, <4>1, <4>2, <4>3
    <3>4. QED
      BY <2>8, <3>1, <3>2, <3>3
  <2>11. report' # <<>>
    BY <2>8
  <2>12. \A t, S : TypeOfSection(t, S)' <=> TypeOfSection(t, S)
    BY <2>1 DEF TypeOfSection
  <2>13. QED
    BY <1>0, <2>1, <2>3, <2>8, <2>9, <2>10, <2>11, <2>12 DEF ReportInv
<1>5. QED
  BY <1>0, <1>2, <1>3, <1>4 DEF AnalyzeNext, start_analysis, analyze_byte, stop_analysis

LEMMA AnalyzeInvariance == Spec => [](ToolInv /\ BytesInv /\ ReportInv)
<1>1. Init => BytesInv /\ ReportInv
  <2> SUFFICES ASSUME Init PROVE BytesInv /\ ReportInv
    OBVIOUS
  <2>1. job.data \in Seq(Symbols)
    BY MinimizeAssumption DEF Init, JobOK
  <2>2. Len(job.data) \in Nat
    BY <2>1, LenProperties
  <2>3. QED
    BY <2>2 DEF Init, BytesInv, ReportInv
<1>2. ToolInv /\ BytesInv /\ ReportInv /\ [Next]_vars => (BytesInv /\ ReportInv)'
  <2>1. ASSUME ToolInv, BytesInv, ReportInv, UNCHANGED vars PROVE BytesInv' /\ ReportInv'
    <3>1. /\ UNCHANGED <<job, pc, in_data, pos, b_data, seq_byte, report, orig_cksum,
                         prev_cksums>>
      BY <2>1 DEF vars, analyzeVars
    <3>2. BytesInv'
      BY <2>1, <3>1 DEF BytesInv, Checksum, Kind, Signature, Response
    <3>3. ReportInv'
      BY <2>1, <3>1 DEF ReportInv, TypeOfSection
    <3>4. QED
      BY <3>2, <3>3
  <2>2. QED
    BY <2>1, BytesStep, ReportStep
<1>3. Spec => []ToolInv
  <2>1. IInv => ToolInv
    BY DEF IInv
  <2>2. QED
    BY <2>1, Invariance, PTL
<1>4. QED
  BY <1>1, <1>2, <1>3, PTL DEF Spec

\* afl-analyze has put every byte back when it reports; the sections it prints start
\* exactly where all four changes of a byte lead to something else than those of the
\* byte before, they cover the input, and the class of each is that of its bytes.
THEOREM AnalysisCorrect == Spec => []AnalysisExact
<1>1. ToolInv /\ BytesInv /\ ReportInv => AnalysisExact
  <2> SUFFICES ASSUME ToolInv, BytesInv, ReportInv, job.tool = "analyze", pc = "done"
               PROVE  AnalysisExact
    BY DEF AnalysisExact
  <2> DEFINE n == Len(job.data)
  <2>1. /\ in_data = job.data /\ n \in Nat /\ orig_cksum = Checksum(job.data)
        /\ Len(b_data) = n /\ pos = n
        /\ \A k \in 1 .. n : b_data[k].resp = Response(SumsOf(job, k))
    <3>1. job.data \in Seq(Symbols)
      BY MinimizeAssumption DEF ToolInv, JobOK
    <3>2. QED
      BY <3>1, LenProperties DEF BytesInv, ReportInv
  <2>2. ASSUME NEW k \in 1 .. n
        PROVE  /\ b_data[k].resp = RESP_NONE <=> NoEffect(k)
               /\ b_data[k].resp <= RESP_MINOR <=> Harmless(k)
               /\ b_data[k].resp = RESP_FIXED <=> OneEffect(k)
    <3>1. b_data[k].resp = Response(SumsAt(k)) /\ DOMAIN SumsAt(k) = 1 .. 4
      BY <2>1, SumsAgree, SumsOfType DEF ToolInv
    <3> DEFINE sums == SumsAt(k)
    <3> HIDE DEF sums
    <3>2. /\ Response(sums) = RESP_NONE <=> Range(sums) = {orig_cksum}
          /\ Response(sums) <= RESP_MINOR <=> orig_cksum \in Range(sums)
          /\ Response(sums) = RESP_FIXED <=> /\ Cardinality(Range(sums)) = 1
                                            /\ Range(sums) # {orig_cksum}
      BY <3>1, ResponseMeaning DEF sums
    <3>3. QED
      BY <2>1, <3>1, <3>2 DEF NoEffect, Harmless, OneEffect, sums
  <2>3. /\ report \in Seq([first : Nat \ {0}, last : Nat \ {0}, type : 0 .. 6])
        /\ {report[j].first : j \in 1 .. Len(report)} = StartsOf(job) \cap (1 .. n)
        /\ \A j \in 1 .. Len(report) :
             /\ report[j].last = IF j < Len(report) THEN report[j + 1].first - 1 ELSE n
             /\ report[j].last <= n
             /\ TypeOfSection(report[j].type, report[j].first .. report[j].last)
    BY <2>1 DEF ReportInv
  <2>4. DOMAIN report = 1 .. Len(report)
    BY <2>3
  <2>5. {report[j].first : j \in DOMAIN report} = Starts
    <3>1. StartsOf(job) \cap (1 .. n) = StartsOf(job)
      BY DEF StartsOf
    <3>2. QED
      BY <2>3, <2>4, <3>1, SumsAgree DEF ToolInv
  <2>6. ASSUME NEW j \in DOMAIN report
        PROVE  LET section == report[j].first .. report[j].last
               IN  /\ report[j].type = RESP_NONE <=> \A k \in section : NoEffect(k)
                   /\ report[j].type <= RESP_MINOR <=> \A k \in section : Harmless(k)
                   /\ report[j].type >= RESP_FIXED <=> \E k \in section : OneEffect(k)
    <3> DEFINE section == report[j].first .. report[j].last
    <3>1. section \subseteq 1 .. n
      <4>1. /\ report[j] \in [first : Nat \ {0}, last : Nat \ {0}, type : 0 .. 6]
            /\ report[j].last <= n
        BY <2>3, <2>4, ElementOfSeq
      <4>2. QED
        BY <2>1, <4>1
    <3>2. TypeOfSection(report[j].type, section)
      BY <2>3, <2>4
    <3> HIDE DEF section
    <3>3. /\ report[j].type = RESP_NONE <=> \A k \in section : NoEffect(k)
          /\ report[j].type <= RESP_MINOR <=> \A k \in section : Harmless(k)
          /\ report[j].type >= RESP_FIXED <=> \E k \in section : OneEffect(k)
      BY <2>2, <3>1, <3>2 DEF TypeOfSection
    <3>4. QED
      BY <3>3 DEF section
  <2>7. QED
    BY <2>1, <2>3, <2>4, <2>5, <2>6 DEF AnalysisExact
<1>2. QED
  BY <1>1, AnalyzeInvariance, PTL

=============================================================================
