-------------------------- MODULE DictionaryProofs --------------------------
(***************************************************************************)
(* Proofs about Dictionary, for tables of any size, every dictionary of    *)
(* the user, every sequence of tokens and however often the process dies:  *)
(* only new tokens are taken in, only rare ones are evicted, and the files *)
(* are those of the table unless auto_changed is set.                      *)
(***************************************************************************)
EXTENDS Dictionary, FiniteSetTheorems, SequenceTheorems, WellFoundedInduction, TLAPS

\* What the tables and the files hold.
AutoExtra == [data : Seq(Byte), hit_cnt : Nat]

\* Types, and the sizes of the tables.
DictTypes ==
  /\ phase \in {"load_auto", "load_extras", "run", "fatal", "dead"}
  /\ extras \in Seq(Seq(Byte)) /\ Len(extras) <= MaxExtras
  /\ a_extras \in Seq(AutoExtra) /\ Len(a_extras) <= MAX_AUTO_EXTRAS
  /\ auto_changed \in BOOLEAN
  /\ auto_files \in Seq(Seq(Byte)) /\ resume_files \in Seq(Seq(Byte))
  /\ loaded \in Nat

\* The orders that the searches and the eviction rely on.
TablesInv ==
  /\ phase = "load_auto" => extras = <<>>
  /\ phase = "run" => ByLength(extras)
  /\ phase = "dead" => extras = <<>> /\ a_extras = <<>>
  /\ ByUseThenLength(a_extras)

\* No file is there before the first save, and there are never more files than
\* tokens in use, as the table does not shrink while the process lives.
FilesInv ==
  /\ phase \in {"load_auto", "load_extras"} =>
        auto_files = <<>> /\ (~auto_changed => a_extras = <<>>)
  /\ phase = "run" => Len(auto_files) <= Used(a_extras)
  /\ AutoFilesCurrent

\* The inductive invariant.
DictInv == DictTypes /\ TablesInv /\ FilesInv

-----------------------------------------------------------------------------
(* Least elements, and the results of a sort.                              *)

\* The least element of a set of natural numbers.
LEMMA MinIsLeast ==
  ASSUME NEW T, T \subseteq Nat, T # {}
  PROVE  Min(T) \in T /\ \A y \in T : Min(T) <= y
<1> DEFINE R == OpToRel(<, Nat)
<1>1. IsWellFoundedOn(R, Nat)
  BY NatLessThanWellFounded
<1>2. \A x, y \in Nat : y < x => <<y, x>> \in R
  BY DEF OpToRel
<1> HIDE DEF R
<1>3. PICK x \in T : \A y \in T : ~(<<y, x>> \in R)
  BY <1>1, WFMin
<1>4. ASSUME NEW y \in T PROVE x <= y
  <2>1. x \in Nat /\ y \in Nat /\ ~(y < x)
    BY <1>2, <1>3
  <2>2. QED
    BY <2>1
<1>5. QED
  BY <1>4 DEF Min

\* The greater of two numbers.
LEMMA MaxOfTwo ==
  ASSUME NEW a \in Nat, NEW b \in Nat
  PROVE  Max({a, b}) = IF a <= b THEN b ELSE a
<1> DEFINE m == IF a <= b THEN b ELSE a
<1>1. m \in {a, b} /\ \A y \in {a, b} : m >= y
  OBVIOUS
<1>2. \A x \in {a, b} : (\A y \in {a, b} : x >= y) => x = m
  OBVIOUS
<1> HIDE DEF m
<1>3. Max({a, b}) \in {a, b} /\ \A y \in {a, b} : Max({a, b}) >= y
  BY <1>1 DEF Max
<1>4. Max({a, b}) = m
  BY <1>2, <1>3
<1>5. QED
  BY <1>4 DEF m

\* qsort() neither loses an element nor makes one up.
LEMMA Rearranged ==
  ASSUME NEW S, NEW s \in Seq(S), Len(s) <= Max({MAX_AUTO_EXTRAS, MaxExtras}),
         NEW t \in Rearrangements(s)
  PROVE  /\ t \in Seq(S) /\ Len(t) = Len(s)
         /\ \A k \in 1 .. Len(t) : \E m \in 1 .. Len(s) : t[k] = s[m]
         /\ \A m \in 1 .. Len(s) : \E k \in 1 .. Len(t) : t[k] = s[m]
<1> DEFINE n == Len(s)
           D == 1 .. n
<1>1. n \in Nat /\ \A k \in D : s[k] \in S
  BY LenProperties, ElementOfSeq
<1>2. Max({MAX_AUTO_EXTRAS, MaxExtras}) \in Nat
  BY MaxOfTwo, DictionaryAssumption
<1> PICK p \in Orders[n] : t = [k \in D |-> s[p[k]]]
  BY DEF Rearrangements
<1>3. p \in SetToSeqs(D)
  BY <1>1, <1>2 DEF Orders
<1>4. IsFiniteSet(D) /\ Cardinality(D) = n
  <2>1. IsFiniteSet(1 .. n) /\ Cardinality(1 .. n) = IF 1 > n THEN 0 ELSE n - 1 + 1
    BY <1>1, FS_Interval
  <2> HIDE DEF n
  <2>2. QED
    BY <1>1, <2>1
<1>5. p \in [D -> D] /\ \A k, m \in D : k # m => p[k] # p[m]
  BY <1>3, <1>4 DEF SetToSeqs
<1>6. p \in Injection(D, D)
  BY <1>5 DEF Injection, IsInjective
<1>7. p \in Surjection(D, D)
  BY <1>4, <1>6, FS_Injection
<1>8. \A m \in D : \E k \in D : p[k] = m
  BY <1>7 DEF Surjection
<1>9. t \in [D -> S]
  BY <1>1, <1>5
<1>10. t \in Seq(S) /\ Len(t) = n
  BY <1>1, <1>9, SeqDef, LenProperties
<1>11. QED
  BY <1>1, <1>5, <1>8, <1>10

\* The two sorts at sort_a_extras.
LEMMA TableSorted ==
  ASSUME NEW s \in Seq(AutoExtra), Len(s) <= Max({MAX_AUTO_EXTRAS, MaxExtras}),
         NEW t \in Sorts(s, ByUseThenLength)
  PROVE  /\ t \in Seq(AutoExtra) /\ Len(t) = Len(s)
         /\ Tokens(t) = Tokens(s) /\ ByUseThenLength(t)
<1>1. ByUseThenLength(t)
  BY DEF Sorts
<1>2. t \in Rearrangements(s)
  BY DEF Sorts
<1>3. /\ t \in Seq(AutoExtra) /\ Len(t) = Len(s)
      /\ \A k \in 1 .. Len(t) : \E m \in 1 .. Len(s) : t[k] = s[m]
      /\ \A m \in 1 .. Len(s) : \E k \in 1 .. Len(t) : t[k] = s[m]
  BY <1>2, Rearranged
<1>4. Tokens(t) = Tokens(s)
  <2>1. ASSUME NEW k \in 1 .. Len(t) PROVE t[k].data \in Tokens(s)
    BY <1>3 DEF Tokens
  <2>2. ASSUME NEW k \in 1 .. Len(s) PROVE s[k].data \in Tokens(t)
    <3>1. PICK m \in 1 .. Len(t) : t[m] = s[k]
      BY <1>3
    <3>2. QED
      BY <3>1 DEF Tokens
  <2>3. QED
    BY <2>1, <2>2 DEF Tokens
<1>5. QED
  BY <1>1, <1>3, <1>4

\* The sort of load_extras().
LEMMA ExtrasSorted ==
  ASSUME NEW s \in Seq(Seq(Byte)), Len(s) <= Max({MAX_AUTO_EXTRAS, MaxExtras}),
         NEW t \in Sorts(s, ByLength)
  PROVE  t \in Seq(Seq(Byte)) /\ Len(t) = Len(s) /\ ByLength(t)
<1>1. ByLength(t)
  BY DEF Sorts
<1>2. t \in Rearrangements(s)
  BY DEF Sorts
<1>3. QED
  BY <1>1, <1>2, Rearranged

-----------------------------------------------------------------------------
(* The searches of maybe_add_auto().                                       *)

\* In a table ordered by length, the search finds every match.
LEMMA SearchComplete ==
  ASSUME extras \in Seq(Seq(Byte)), ByLength(extras), NEW mem \in Seq(Byte),
         NEW k \in 1 .. Len(extras), SameToken(extras[k], mem)
  PROVE  MatchesExtra(mem)
<1> DEFINE from == {j \in 1 .. Len(extras) : Len(extras[j]) >= Len(mem)}
<1>1. Len(extras) \in Nat /\ Len(mem) \in Nat /\ \A j \in 1 .. Len(extras) : Len(extras[j]) \in Nat
  BY LenProperties, ElementOfSeq
<1>2. Len(extras[k]) = Len(mem)
  BY DEF SameToken
<1>3. k \in from /\ from \subseteq Nat
  BY <1>1, <1>2
<1>4. Min(from) \in from /\ Min(from) <= k
  BY <1>3, MinIsLeast
<1>5. ASSUME NEW m \in Min(from) .. k PROVE Len(extras[m]) = Len(mem)
  <2>1. Min(from) \in Nat /\ Min(from) \in 1 .. Len(extras) /\ Len(extras[Min(from)]) >= Len(mem)
    BY <1>3, <1>4
  <2> HIDE DEF from
  <2>2. m \in 1 .. Len(extras) /\ Min(from) <= m /\ m <= k /\ m \in Nat
    BY <1>1, <2>1
  <2>3. Len(extras[m]) <= Len(extras[k])
    BY <1>1, <2>2 DEF ByLength
  <2>4. Len(extras[Min(from)]) <= Len(extras[m])
    BY <1>1, <2>1, <2>2 DEF ByLength
  <2>5. QED
    BY <1>1, <1>2, <2>1, <2>2, <2>3, <2>4
<1>6. QED
  BY <1>3, <1>5 DEF MatchesExtra

\* The table before it is sorted: what it gains and what it loses.
LEMMA InsertedTokens ==
  ASSUME DictTypes, NEW mem \in Seq(Byte), NEW t \in Inserted(mem)
  PROVE  /\ t \in Seq(AutoExtra) /\ Len(a_extras) <= Len(t) /\ Len(t) <= MAX_AUTO_EXTRAS
         /\ \A k \in 1 .. Len(t) : t[k].data \in Tokens(a_extras) \/
                                   (t[k].data = mem /\ Matching(mem) = {})
         /\ \A k \in 1 .. Len(a_extras) : a_extras[k].data \in Tokens(t) \/
                (Len(a_extras) = MAX_AUTO_EXTRAS /\ k \in Evictable)
<1> DEFINE n == Len(a_extras)
<1>1. /\ a_extras \in Seq(AutoExtra) /\ n \in Nat /\ n <= MAX_AUTO_EXTRAS
      /\ \A k \in 1 .. n : a_extras[k] \in AutoExtra
      /\ MAX_AUTO_EXTRAS \in Nat
  BY LenProperties, ElementOfSeq, DictionaryAssumption DEF DictTypes
<1>2. Fresh(mem) \in AutoExtra /\ Fresh(mem).data = mem
  BY DEF Fresh, AutoExtra
<1>3. CASE Matching(mem) # {}
  <2> DEFINE j == Min(Matching(mem))
  <2>1. t = [a_extras EXCEPT ![j].hit_cnt = @ + 1]
    BY <1>3 DEF Inserted
  <2>2. Matching(mem) \subseteq 1 .. n /\ 1 .. n \subseteq Nat
    BY <1>1 DEF Matching
  <2>3. j \in 1 .. n
    BY <1>3, <2>2, MinIsLeast
  <2> HIDE DEF j
  <2>4. DOMAIN a_extras = 1 .. n
    BY <1>1, LenProperties
  <2>5. ASSUME NEW k \in 1 .. n
        PROVE  t[k] \in AutoExtra /\ t[k].data = a_extras[k].data
    <3> DEFINE e == a_extras[k]
    <3>1. e \in AutoExtra /\ e.hit_cnt + 1 \in Nat /\ e.data \in Seq(Byte)
      BY <1>1 DEF AutoExtra
    <3>2. t[k] = IF k = j THEN [e EXCEPT !.hit_cnt = @ + 1] ELSE e
      BY <2>1, <2>4
    <3> HIDE DEF e
    <3>3. /\ [e EXCEPT !.hit_cnt = @ + 1] \in AutoExtra
          /\ [e EXCEPT !.hit_cnt = @ + 1].data = e.data
      BY <3>1 DEF AutoExtra
    <3>4. QED
      BY <3>1, <3>2, <3>3 DEF e
  <2>6. t \in [1 .. n -> AutoExtra]
    BY <2>1, <2>4, <2>5
  <2>7. t \in Seq(AutoExtra) /\ Len(t) = n
    BY <1>1, <2>6, SeqDef, LenProperties
  <2>8. QED
    BY <1>1, <2>5, <2>7 DEF Tokens
<1>4. CASE Matching(mem) = {} /\ n < MAX_AUTO_EXTRAS
  <2>1. t = Append(a_extras, Fresh(mem))
    BY <1>4 DEF Inserted
  <2>2. /\ t \in Seq(AutoExtra) /\ Len(t) = n + 1 /\ t[n + 1] = Fresh(mem)
        /\ \A k \in 1 .. n : t[k] = a_extras[k]
    BY <1>1, <1>2, <2>1, AppendProperties
  <2>3. QED
    BY <1>1, <1>2, <1>4, <2>2 DEF Tokens
<1>5. CASE Matching(mem) = {} /\ n = MAX_AUTO_EXTRAS
  <2>1. PICK j \in Evictable : t = [a_extras EXCEPT ![j] = Fresh(mem)]
    BY <1>1, <1>5 DEF Inserted
  <2>2. DOMAIN a_extras = 1 .. n
    BY <1>1, LenProperties
  <2>3. t \in [1 .. n -> AutoExtra] /\ \A k \in 1 .. n : t[k] = IF k = j THEN Fresh(mem) ELSE a_extras[k]
    BY <1>1, <1>2, <2>1, <2>2
  <2>4. t \in Seq(AutoExtra) /\ Len(t) = n
    BY <1>1, <2>3, SeqDef, LenProperties
  <2>5. QED
    BY <1>1, <1>2, <1>5, <2>3, <2>4 DEF Tokens
<1>6. QED
  BY <1>1, <1>3, <1>4, <1>5

\* maybe_add_auto(), as a whole.
LEMMA LearnedTokens ==
  ASSUME DictTypes, TablesInv, NEW mem \in Seq(Byte), maybe_add_auto(mem)
  PROVE  /\ a_extras' \in Seq(AutoExtra) /\ auto_changed' \in BOOLEAN
         /\ Len(a_extras') <= MAX_AUTO_EXTRAS /\ Len(a_extras) <= Len(a_extras')
         /\ ByUseThenLength(a_extras')
         /\ auto_changed' = TRUE \/ UNCHANGED <<a_extras, auto_changed>>
         /\ \A new \in Tokens(a_extras') \ Tokens(a_extras) :
               new = mem /\ Matching(mem) = {} /\ ~MatchesExtra(mem)
         /\ \A k \in 1 .. Len(a_extras) : a_extras[k].data \notin Tokens(a_extras') =>
               Len(a_extras) = MAX_AUTO_EXTRAS /\ k \in Evictable
<1>1. CASE UNCHANGED <<a_extras, auto_changed>>
  <2>1. Len(a_extras) \in Nat
    BY LenProperties DEF DictTypes
  <2>2. QED
    BY <1>1, <2>1 DEF DictTypes, TablesInv, Tokens
<1>2. CASE /\ auto_changed' = TRUE /\ ~MatchesExtra(mem)
           /\ \E t \in Inserted(mem) : a_extras' \in Sorts(t, ByUseThenLength)
  <2>1. PICK t \in Inserted(mem) : a_extras' \in Sorts(t, ByUseThenLength)
    BY <1>2
  <2>2. /\ t \in Seq(AutoExtra) /\ Len(a_extras) <= Len(t) /\ Len(t) <= MAX_AUTO_EXTRAS
        /\ \A k \in 1 .. Len(t) : t[k].data \in Tokens(a_extras) \/
                                  (t[k].data = mem /\ Matching(mem) = {})
        /\ \A k \in 1 .. Len(a_extras) : a_extras[k].data \in Tokens(t) \/
               (Len(a_extras) = MAX_AUTO_EXTRAS /\ k \in Evictable)
    BY InsertedTokens
  <2>3. Len(t) <= Max({MAX_AUTO_EXTRAS, MaxExtras})
    <3>1. Len(t) \in Nat /\ MAX_AUTO_EXTRAS \in Nat /\ MaxExtras \in Nat
      BY <2>2, LenProperties, DictionaryAssumption
    <3>2. QED
      BY <2>2, <3>1, MaxOfTwo
  <2>4. /\ a_extras' \in Seq(AutoExtra) /\ Len(a_extras') = Len(t)
        /\ Tokens(a_extras') = Tokens(t) /\ ByUseThenLength(a_extras')
    BY <2>1, <2>2, <2>3, TableSorted
  <2>5. \A new \in Tokens(t) \ Tokens(a_extras) : new = mem /\ Matching(mem) = {}
    BY <2>2 DEF Tokens
  <2>6. QED
    BY <1>2, <2>2, <2>4, <2>5
<1>3. QED
  BY <1>1, <1>2 DEF maybe_add_auto

-----------------------------------------------------------------------------
(* The invariant.                                                          *)

\* The initial states.
LEMMA InitDictInv == DictInit => DictInv
<1> SUFFICES ASSUME DictInit PROVE DictInv
  OBVIOUS
<1> USE DEF DictInit
<1>1. Len(<<>>) = 0 /\ MaxExtras >= 0 /\ MAX_AUTO_EXTRAS >= 0 /\ USE_AUTO_EXTRAS > 0
  BY DictionaryAssumption
<1>2. <<>> \in Seq(Seq(Byte)) /\ <<>> \in Seq(AutoExtra)
  BY EmptySeq
<1>3. DictTypes
  BY <1>1, <1>2 DEF DictTypes
<1>4. TablesInv
  BY <1>1 DEF TablesInv, ByUseThenLength
<1>5. FilesInv
  BY DEF FilesInv, AutoFilesCurrent
<1>6. QED
  BY <1>3, <1>4, <1>5 DEF DictInv

\* The number of tokens in use.
LEMMA UsedProperties ==
  /\ \A t : Len(t) \in Nat => Used(t) \in Nat /\ Used(t) <= Len(t)
  /\ \A t, u : (Len(t) \in Nat /\ Len(u) \in Nat /\ Len(t) <= Len(u)) => Used(t) <= Used(u)
BY DictionaryAssumption DEF Used

\* What save_auto() writes.
LEMMA Written ==
  ASSUME NEW files \in Seq(Seq(Byte)), NEW t \in Seq(AutoExtra)
  PROVE  /\ WriteOver(files, t) \in Seq(Seq(Byte))
         /\ Len(WriteOver(files, t)) = Max({Len(files), Used(t)})
         /\ Len(files) <= Used(t) =>
              WriteOver(files, t) = [k \in 1 .. Used(t) |-> t[k].data]
<1> DEFINE m == Max({Len(files), Used(t)})
<1>1. /\ Len(files) \in Nat /\ Len(t) \in Nat /\ Used(t) \in Nat /\ Used(t) <= Len(t)
      /\ \A k \in 1 .. Len(files) : files[k] \in Seq(Byte)
      /\ \A k \in 1 .. Len(t) : t[k] \in AutoExtra
  BY LenProperties, ElementOfSeq, UsedProperties
<1>2. m = IF Len(files) <= Used(t) THEN Used(t) ELSE Len(files)
  BY <1>1, MaxOfTwo
<1> HIDE DEF m
<1>3. \A k \in 1 .. m : (IF k <= Used(t) THEN t[k].data ELSE files[k]) \in Seq(Byte)
  BY <1>1, <1>2 DEF AutoExtra
<1>4. WriteOver(files, t) = [k \in 1 .. m |-> IF k <= Used(t) THEN t[k].data ELSE files[k]]
  BY DEF WriteOver, m
<1>5. WriteOver(files, t) \in [1 .. m -> Seq(Byte)]
  BY <1>3, <1>4
<1>6. WriteOver(files, t) \in Seq(Seq(Byte)) /\ Len(WriteOver(files, t)) = m
  <2> DEFINE w == WriteOver(files, t)
  <2>1. m \in Nat /\ w \in [1 .. m -> Seq(Byte)]
    BY <1>1, <1>2, <1>5
  <2> HIDE DEF w
  <2>2. w \in Seq(Seq(Byte)) /\ Len(w) = m
    BY <2>1, SeqDef, LenProperties
  <2>3. QED
    BY <2>2 DEF w
<1>7. ASSUME Len(files) <= Used(t)
      PROVE  WriteOver(files, t) = [k \in 1 .. Used(t) |-> t[k].data]
  BY <1>1, <1>2, <1>4, <1>7
<1>8. QED
  BY <1>6, <1>7 DEF m

\* A call of maybe_add_auto() keeps the invariant.
LEMMA LearnKeepsInv ==
  ASSUME DictInv, NEW mem \in Seq(Byte), maybe_add_auto(mem),
         phase \in {"load_auto", "run"}, UNCHANGED <<phase, extras, auto_files, resume_files>>,
         loaded' \in Nat
  PROVE  DictInv'
<1>1. /\ a_extras' \in Seq(AutoExtra) /\ auto_changed' \in BOOLEAN
      /\ Len(a_extras') <= MAX_AUTO_EXTRAS /\ Len(a_extras) <= Len(a_extras')
      /\ ByUseThenLength(a_extras')
      /\ auto_changed' = TRUE \/ UNCHANGED <<a_extras, auto_changed>>
  BY LearnedTokens DEF DictInv
<1>2. DictTypes'
  BY <1>1 DEF DictInv, DictTypes
<1>3. TablesInv'
  BY <1>1 DEF DictInv, TablesInv, ByLength
<1>4. Len(a_extras) \in Nat /\ Len(a_extras') \in Nat /\ Len(auto_files) \in Nat
  BY <1>1, LenProperties DEF DictInv, DictTypes
<1>5. Used(a_extras) <= Used(a_extras') /\ Used(a_extras) \in Nat /\ Used(a_extras') \in Nat
  BY <1>1, <1>4, UsedProperties
<1>6. phase = "run" => Len(auto_files) <= Used(a_extras')
  BY <1>4, <1>5 DEF DictInv, FilesInv
<1>7. CASE auto_changed' = TRUE
  <2>1. AutoFilesCurrent'
    BY <1>7 DEF AutoFilesCurrent
  <2>2. phase' \in {"load_auto", "load_extras"} => auto_files' = <<>> /\ (~auto_changed' => a_extras' = <<>>)
    BY <1>7 DEF DictInv, FilesInv
  <2>3. phase' = "run" => Len(auto_files') <= Used(a_extras)'
    BY <1>6 DEF Used
  <2>4. QED
    BY <1>2, <1>3, <2>1, <2>2, <2>3 DEF DictInv, FilesInv
<1>8. CASE UNCHANGED <<a_extras, auto_changed>>
  <2>1. UNCHANGED <<phase, auto_files, a_extras, auto_changed>>
    BY <1>8
  <2>2. FilesInv'
    BY <2>1 DEF DictInv, FilesInv, AutoFilesCurrent, Used
  <2>3. QED
    BY <1>2, <1>3, <2>2 DEF DictInv
<1>9. QED
  BY <1>1, <1>7, <1>8

\* A step keeps the invariant.
LEMMA NextDictInv == DictInv /\ [DictNext]_dictVars => DictInv'
<1> SUFFICES ASSUME DictInv, [DictNext]_dictVars PROVE DictInv'
  OBVIOUS
<1>1. CASE load_auto_file
  <2> DEFINE mem == resume_files[loaded + 1]
  <2>1. /\ phase = "load_auto" /\ loaded' = loaded + 1 /\ loaded < Len(resume_files)
        /\ UNCHANGED <<phase, extras, auto_files, resume_files>>
    BY <1>1 DEF load_auto_file
  <2>2. loaded' \in Nat /\ mem \in Seq(Byte)
    BY <2>1, LenProperties, ElementOfSeq DEF DictInv, DictTypes
  <2>3. CASE maybe_add_auto(mem)
    BY <2>1, <2>2, <2>3, LearnKeepsInv
  <2>4. CASE UNCHANGED <<a_extras, auto_changed>>
    BY <2>1, <2>2, <2>4
    DEF DictInv, DictTypes, TablesInv, FilesInv, AutoFilesCurrent, ByUseThenLength, Used
  <2>5. QED
    BY <1>1, <2>3, <2>4 DEF load_auto_file
<1>2. CASE pivot_inputs
  <2>1. /\ phase = "load_auto" /\ phase' = "load_extras" /\ resume_files' = <<>>
        /\ UNCHANGED <<extras, a_extras, auto_changed, auto_files, loaded>>
    BY <1>2 DEF pivot_inputs, dictTables
  <2>2. QED
    BY <2>1 DEF DictInv, DictTypes, TablesInv, FilesInv, AutoFilesCurrent, ByUseThenLength, Used
<1>3. CASE load_extra
  <2>1. /\ phase = "load_extras" /\ Len(extras) < MaxExtras
        /\ UNCHANGED <<a_extras, auto_changed, auto_files, resume_files, loaded>>
        /\ \/ phase' = "fatal" /\ extras' = extras
           \/ phase' = phase /\ \E mem \in UserTokens : extras' = Append(extras, mem)
    BY <1>3 DEF load_extra, dictFiles
  <2>2. extras' \in Seq(Seq(Byte)) /\ Len(extras') <= MaxExtras
    <3>1. extras \in Seq(Seq(Byte)) /\ Len(extras) \in Nat /\ MaxExtras \in Nat
      BY LenProperties, DictionaryAssumption DEF DictInv, DictTypes
    <3>2. ASSUME NEW mem \in UserTokens, extras' = Append(extras, mem)
          PROVE  extras' \in Seq(Seq(Byte)) /\ Len(extras') = Len(extras) + 1
      <4>1. mem \in Seq(Byte)
        BY DictionaryAssumption
      <4>2. QED
        BY <3>1, <3>2, <4>1, AppendProperties
    <3>3. QED
      BY <2>1, <3>1, <3>2
  <2>3. DictTypes'
    BY <2>1, <2>2 DEF DictInv, DictTypes
  <2>4. TablesInv' /\ FilesInv'
    BY <2>1 DEF DictInv, TablesInv, FilesInv, AutoFilesCurrent, ByUseThenLength, Used
  <2>5. QED
    BY <2>3, <2>4 DEF DictInv
<1>4. CASE sort_extras \/ no_extras_dir
  <2>1. /\ phase = "load_extras" /\ UNCHANGED <<a_extras, auto_changed, auto_files, resume_files, loaded>>
        /\ \/ phase' = "fatal" /\ extras' = extras
           \/ phase' = "run" /\ extras' \in Sorts(extras, ByLength)
           \/ phase' = "run" /\ extras' = extras /\ extras = <<>>
    BY <1>4 DEF sort_extras, no_extras_dir, dictFiles, dictTables
  <2>2. extras' \in Seq(Seq(Byte)) /\ Len(extras') <= MaxExtras /\ (phase' = "run" => ByLength(extras'))
    <3>1. extras \in Seq(Seq(Byte)) /\ Len(extras) \in Nat /\ Len(extras) <= MaxExtras
      BY LenProperties DEF DictInv, DictTypes
    <3>2. Len(extras) <= Max({MAX_AUTO_EXTRAS, MaxExtras})
      BY <3>1, MaxOfTwo, DictionaryAssumption
    <3>3. CASE extras' \in Sorts(extras, ByLength)
      BY <3>1, <3>2, <3>3, ExtrasSorted
    <3>4. CASE extras' = extras /\ (phase' = "run" => extras = <<>>)
      BY <3>1, <3>4 DEF ByLength
    <3>5. QED
      BY <2>1, <3>3, <3>4
  <2>3. DictTypes'
    BY <2>1, <2>2 DEF DictInv, DictTypes
  <2>4. TablesInv'
    BY <2>1, <2>2 DEF DictInv, TablesInv, ByLength
  <2>5. auto_files = <<>> /\ (~auto_changed => a_extras = <<>>)
    BY <2>1 DEF DictInv, FilesInv
  <2>6. Len(auto_files) = 0 /\ Used(a_extras) \in Nat
    BY <2>5, LenProperties, UsedProperties DEF DictInv, DictTypes
  <2>7. a_extras = <<>> => [k \in 1 .. Used(a_extras) |-> a_extras[k].data] = <<>>
    <3> SUFFICES ASSUME a_extras = <<>>
                 PROVE  [k \in 1 .. Used(a_extras) |-> a_extras[k].data] = <<>>
      OBVIOUS
    <3>1. Used(a_extras) = 0
      BY DictionaryAssumption DEF Used
    <3>2. QED
      BY <3>1
  <2>8. FilesInv'
    BY <2>1, <2>5, <2>6, <2>7 DEF FilesInv, AutoFilesCurrent, Used
  <2>9. QED
    BY <2>3, <2>4, <2>8 DEF DictInv
<1>5. CASE learn
  <2>1. /\ phase = "run" /\ UNCHANGED <<phase, extras, auto_files, resume_files, loaded>>
        /\ \E mem \in AutoTokens : maybe_add_auto(mem)
    BY <1>5 DEF learn, dictFiles
  <2>2. PICK mem \in AutoTokens : maybe_add_auto(mem)
    BY <2>1
  <2>3. mem \in Seq(Byte) /\ loaded' \in Nat
    BY <2>1, DictionaryAssumption DEF DictInv, DictTypes
  <2>4. QED
    BY <2>1, <2>2, <2>3, LearnKeepsInv
<1>6. CASE save_auto
  <2>1. /\ phase = "run" /\ auto_changed' = FALSE /\ auto_files' = WriteOver(auto_files, a_extras)
        /\ UNCHANGED <<phase, extras, a_extras, resume_files, loaded>>
    BY <1>6 DEF save_auto
  <2>2. auto_files \in Seq(Seq(Byte)) /\ a_extras \in Seq(AutoExtra) /\ Len(auto_files) <= Used(a_extras)
    BY <2>1 DEF DictInv, DictTypes, FilesInv
  <2>3. /\ auto_files' \in Seq(Seq(Byte)) /\ Len(auto_files') = Max({Len(auto_files), Used(a_extras)})
        /\ auto_files' = [k \in 1 .. Used(a_extras) |-> a_extras[k].data]
    BY <2>1, <2>2, Written
  <2>4. Len(auto_files') = Used(a_extras) /\ Used(a_extras) \in Nat
    BY <2>2, <2>3, LenProperties, UsedProperties, MaxOfTwo
  <2>5. DictTypes'
    BY <2>1, <2>3 DEF DictInv, DictTypes
  <2>6. TablesInv'
    BY <2>1 DEF DictInv, TablesInv
  <2>7. FilesInv'
    BY <2>1, <2>3, <2>4 DEF FilesInv, AutoFilesCurrent, Used
  <2>8. QED
    BY <2>5, <2>6, <2>7 DEF DictInv
<1>7. CASE die \/ die_saving
  <2>1. /\ phase' = "dead" /\ extras' = <<>> /\ a_extras' = <<>> /\ auto_changed' = FALSE
        /\ loaded' = 0 /\ resume_files' = resume_files
    BY <1>7 DEF die, die_saving, Die
  <2>2. auto_files' \in Seq(Seq(Byte))
    <3>1. auto_files \in Seq(Seq(Byte)) /\ a_extras \in Seq(AutoExtra)
      BY DEF DictInv, DictTypes
    <3>2. CASE auto_files' = auto_files
      BY <3>1, <3>2
    <3>3. ASSUME NEW n \in 0 .. Used(a_extras) - 1,
                 auto_files' = [WriteOver(auto_files, SubSeq(a_extras, 1, n + 1)) EXCEPT ![n + 1] = <<>>]
          PROVE  auto_files' \in Seq(Seq(Byte))
      <4> DEFINE new == WriteOver(auto_files, SubSeq(a_extras, 1, n + 1))
      <4>1. Len(a_extras) \in Nat /\ Used(a_extras) \in Nat /\ Used(a_extras) <= Len(a_extras)
        BY <3>1, LenProperties, UsedProperties
      <4>2. 1 <= Len(a_extras) + 1 /\ n + 1 <= Len(a_extras) /\ n + 1 \in Nat /\ 1 \in Int /\ n + 1 \in Int
        BY <4>1
      <4>3. SubSeq(a_extras, 1, n + 1) \in Seq(AutoExtra)
        BY <3>1, <4>1, <4>2, SubSeqProperties
      <4>4. new \in Seq(Seq(Byte))
        BY <3>1, <4>3, Written
      <4> HIDE DEF new
      <4>5. auto_files' = [new EXCEPT ![n + 1] = <<>>]
        BY <3>3 DEF new
      <4>6. Len(new) \in Nat /\ new \in [1 .. Len(new) -> Seq(Byte)]
        BY <4>4, LenProperties
      <4>7. auto_files' \in [1 .. Len(new) -> Seq(Byte)]
        <5>1. <<>> \in Seq(Byte)
          BY EmptySeq
        <5>2. QED
          BY <4>5, <4>6, <5>1
      <4>8. QED
        BY <4>6, <4>7, SeqDef
    <3>4. QED
      BY <1>7, <3>2, <3>3 DEF die, die_saving
  <2>3. /\ Len(<<>>) = 0 /\ MaxExtras >= 0 /\ MAX_AUTO_EXTRAS >= 0
        /\ <<>> \in Seq(Seq(Byte)) /\ <<>> \in Seq(AutoExtra)
    BY DictionaryAssumption, EmptySeq
  <2>4. DictTypes'
    BY <2>1, <2>2, <2>3 DEF DictInv, DictTypes
  <2>5. TablesInv'
    BY <2>1, <2>3 DEF TablesInv, ByUseThenLength
  <2>6. FilesInv'
    BY <2>1 DEF FilesInv, AutoFilesCurrent
  <2>7. QED
    BY <2>4, <2>5, <2>6 DEF DictInv
<1>8. CASE restart
  <2>1. /\ phase = "dead" /\ phase' = "load_auto" /\ auto_files' = <<>>
        /\ resume_files' \in {resume_files, auto_files}
        /\ UNCHANGED <<extras, a_extras, auto_changed, loaded>>
    BY <1>8 DEF restart, dictTables
  <2>2. extras = <<>> /\ a_extras = <<>>
    BY <2>1 DEF DictInv, TablesInv
  <2>3. DictTypes'
    BY <2>1 DEF DictInv, DictTypes
  <2>4. TablesInv'
    BY <2>1, <2>2 DEF DictInv, TablesInv, ByUseThenLength
  <2>5. FilesInv'
    BY <2>1, <2>2 DEF FilesInv, AutoFilesCurrent
  <2>6. QED
    BY <2>3, <2>4, <2>5 DEF DictInv
<1>9. CASE UNCHANGED dictVars
  <2>1. UNCHANGED <<phase, extras, a_extras, auto_changed, auto_files, resume_files, loaded>>
    BY <1>9 DEF dictVars, dictTables, dictFiles
  <2>2. QED
    BY <2>1 DEF DictInv, DictTypes, TablesInv, FilesInv, AutoFilesCurrent, ByUseThenLength, ByLength, Used
<1>10. QED
  BY <1>1, <1>2, <1>3, <1>4, <1>5, <1>6, <1>7, <1>8, <1>9 DEF DictNext

\* Every state satisfies the invariant.
LEMMA AlwaysDictInv == DictSpec => []DictInv
BY InitDictInv, NextDictInv, PTL DEF DictSpec

-----------------------------------------------------------------------------
(* The theorems.                                                           *)

\* A step that changes the tokens, other than the end of the process, is a call
\* of maybe_add_auto().
LEMMA OnlyLearning ==
  ASSUME DictInv, [DictNext]_dictVars
  PROVE  \/ a_extras' = a_extras
         \/ phase' = "dead" /\ a_extras' = <<>>
         \/ /\ phase \in {"load_auto", "run"}
            /\ \E mem \in Seq(Byte) : maybe_add_auto(mem)
<1>1. CASE load_auto_file
  <2>1. phase = "load_auto" /\ loaded < Len(resume_files)
    BY <1>1 DEF load_auto_file
  <2>2. resume_files[loaded + 1] \in Seq(Byte)
    BY <2>1, LenProperties, ElementOfSeq DEF DictInv, DictTypes
  <2>3. QED
    BY <1>1, <2>1, <2>2 DEF load_auto_file
<1>2. CASE learn
  BY <1>2, DictionaryAssumption DEF learn
<1>3. CASE die \/ die_saving
  BY <1>3 DEF die, die_saving, Die
<1>4. CASE pivot_inputs \/ load_extra \/ sort_extras \/ no_extras_dir \/ save_auto \/ restart
  BY <1>4 DEF pivot_inputs, load_extra, sort_extras, no_extras_dir, save_auto, restart, dictTables
<1>5. CASE UNCHANGED dictVars
  BY <1>5 DEF dictVars, dictTables
<1>6. QED
  BY <1>1, <1>2, <1>3, <1>4, <1>5 DEF DictNext

\* The files of queue/.state/auto_extras are those of the table whenever save_auto()
\* has nothing to do, for tables of every size and however often the process died.
THEOREM FilesCorrect == DictSpec => []AutoFilesCurrent
<1>1. DictInv => AutoFilesCurrent
  BY DEF DictInv, FilesInv
<1>2. QED
  BY <1>1, AlwaysDictInv, PTL

\* maybe_add_auto() takes in no token that the user's dictionary or the table
\* holds already, in whatever case, for every dictionary and every token.
THEOREM NewTokensCorrect == DictSpec => NewTokensAreNew
<1>1. ASSUME DictInv, [DictNext]_dictVars
      PROVE  [\A new \in Tokens(a_extras') \ Tokens(a_extras) :
                \A old \in Tokens(a_extras) \cup ToSet(extras) : ~SameToken(old, new)]_dictVars
  <2> SUFFICES ASSUME NEW new \in Tokens(a_extras') \ Tokens(a_extras),
                      NEW old \in Tokens(a_extras) \cup ToSet(extras)
               PROVE  ~SameToken(old, new)
    OBVIOUS
  <2>1. ~(a_extras' = a_extras) /\ ~(a_extras' = <<>>)
    BY DEF Tokens
  <2>2. PICK mem \in Seq(Byte) : maybe_add_auto(mem)
    BY <1>1, <2>1, OnlyLearning
  <2>3. phase \in {"load_auto", "run"}
    BY <1>1, <2>1, OnlyLearning
  <2>4. new = mem /\ Matching(mem) = {} /\ ~MatchesExtra(mem)
    BY <1>1, <2>2, LearnedTokens DEF DictInv
  <2>5. CASE old \in Tokens(a_extras)
    BY <2>4, <2>5 DEF Tokens, Matching
  <2>6. CASE old \in ToSet(extras)
    <3>1. extras \in Seq(Seq(Byte)) /\ ByLength(extras)
      BY <1>1, <2>3 DEF DictInv, DictTypes, TablesInv, ByLength
    <3>2. PICK k \in 1 .. Len(extras) : old = extras[k]
      BY <2>6, <3>1, LenProperties DEF ToSet
    <3>3. QED
      BY <2>4, <3>1, <3>2, SearchComplete
  <2>7. QED
    BY <2>5, <2>6
<1>2. QED
  BY <1>1, AlwaysDictInv, PTL DEF DictSpec, NewTokensAreNew

\* Eviction strikes outside the tokens in use and among the least used half, for
\* tables of every size, odd ones too.
THEOREM EvictionCorrect == DictSpec => OnlyRareTokensEvicted
<1>1. ASSUME DictInv, [DictNext]_dictVars
      PROVE  [phase' # "dead" =>
                \A k \in 1 .. Len(a_extras) : a_extras[k].data \notin Tokens(a_extras') =>
                  /\ k > USE_AUTO_EXTRAS
                  /\ \A m \in 1 .. MAX_AUTO_EXTRAS \div 2 :
                       a_extras[m].hit_cnt >= a_extras[k].hit_cnt]_dictVars
  <2> SUFFICES ASSUME phase' # "dead", NEW k \in 1 .. Len(a_extras),
                      a_extras[k].data \notin Tokens(a_extras')
               PROVE  /\ k > USE_AUTO_EXTRAS
                      /\ \A m \in 1 .. MAX_AUTO_EXTRAS \div 2 :
                           a_extras[m].hit_cnt >= a_extras[k].hit_cnt
    OBVIOUS
  <2>1. ~(a_extras' = a_extras)
    BY DEF Tokens
  <2>2. PICK mem \in Seq(Byte) : maybe_add_auto(mem)
    BY <1>1, <2>1, OnlyLearning
  <2>3. Len(a_extras) = MAX_AUTO_EXTRAS /\ k \in Evictable
    BY <1>1, <2>2, LearnedTokens DEF DictInv
  <2> DEFINE h == MAX_AUTO_EXTRAS \div 2
  <2>4. h \in Nat /\ USE_AUTO_EXTRAS <= h /\ USE_AUTO_EXTRAS \in Nat /\ h <= MAX_AUTO_EXTRAS
    BY DictionaryAssumption
  <2>5. PICK r \in 0 .. ((MAX_AUTO_EXTRAS + 1) \div 2) - 1 : k = h + r + 1
    BY <2>3 DEF Evictable
  <2> HIDE DEF h
  <2>6. k > h /\ k \in Nat
    BY <2>4, <2>5
  <2>7. Used(a_extras) = USE_AUTO_EXTRAS
    BY <2>3, <2>4, DictionaryAssumption DEF Used
  <2>8. ASSUME NEW m \in 1 .. h PROVE a_extras[m].hit_cnt >= a_extras[k].hit_cnt
    <3>1. m \in 1 .. Len(a_extras) /\ m < k /\ ~(k <= Used(a_extras))
      BY <2>3, <2>4, <2>6, <2>7, DictionaryAssumption
    <3>2. QED
      BY <1>1, <3>1 DEF DictInv, TablesInv, ByUseThenLength
  <2>9. QED
    BY <2>4, <2>6, <2>8 DEF h
<1>2. QED
  BY <1>1, AlwaysDictInv, PTL DEF DictSpec, OnlyRareTokensEvicted

=============================================================================
