------------------------- MODULE CoverageMapProofs --------------------------
(***************************************************************************)
(* Proofs about CoverageMap: the virgin map and the file fuzz_bitmap are   *)
(* what the examined traces leave, entries are marked as they deserve,     *)
(* crashes and timeouts are kept exactly if they are unique, the nodes of  *)
(* the target lie in dfg_bits, a trace counts what was executed, and the   *)
(* scores of the queue are those of the nodes an execution reached.        *)
(***************************************************************************)
EXTENDS CoverageMap, FiniteSetTheorems, SequenceTheorems, WellFoundedInduction, TLAPS

----------------------------------------------------------------------------
(* Numbers and recursive functions. *)

\* A set of numbers that is not empty has a least member.
LEMMA Least ==
  ASSUME NEW T, T \subseteq Nat, T # {}
  PROVE  \E x \in T : \A y \in T : x <= y
<1> DEFINE R == OpToRel(<, Nat)
<1>1. IsWellFoundedOn(R, Nat)
  BY NatLessThanWellFounded
<1>2. \A x, y \in Nat : y < x => <<y, x>> \in R
  BY DEF OpToRel
<1> HIDE DEF R
<1>3. PICK x \in T : \A y \in T : ~(<<y, x>> \in R)
  BY <1>1, WFMin
<1>4. ASSUME NEW y \in T PROVE x <= y
  <2>1. x \in Nat /\ y \in Nat
    OBVIOUS
  <2>2. ~(y < x)
    BY <1>2, <1>3, <2>1
  <2>3. QED
    BY <2>1, <2>2
<1>5. QED
  BY <1>4

\* The Min of the community modules is that member.
LEMMA MinIsLeast ==
  ASSUME NEW T, T \subseteq Nat, T # {}
  PROVE  Min(T) \in T /\ \A y \in T : Min(T) <= y
BY Least DEF Min

\* Induction, over a set.
LEMMA NatSet ==
  ASSUME NEW S, 0 \in S, \A n \in Nat : n \in S => n + 1 \in S
  PROVE  Nat \subseteq S
<1> SUFFICES ASSUME Nat \ S # {} PROVE FALSE
  OBVIOUS
<1>1. PICK x \in Nat \ S : \A y \in Nat \ S : x <= y
  <2>1. Nat \ S \subseteq Nat
    OBVIOUS
  <2>2. QED
    BY <2>1, Least
<1>2. x - 1 \in Nat /\ x - 1 < x
  OBVIOUS
<1>3. QED
  BY <1>1, <1>2

\* A recursion over 0 .. N: it starts with base, and F makes a value of X from the one
\* before and the number of the step.
StepFcn(X, N) == [X \X (1 .. N) -> X]
Recursion(f, X, N, base, F) ==
  /\ f \in [0 .. N -> X]
  /\ f[0] = base
  /\ \A k \in 1 .. N : f[k] = F[<<f[k - 1], k>>]

\* It defines a function into X.
LEMMA Iteration ==
  ASSUME NEW N \in Nat, NEW X, NEW base \in X, NEW F \in StepFcn(X, N)
  PROVE  \E f : Recursion(f, X, N, base, F)
<1>0. F \in [X \X (1 .. N) -> X]
  BY DEF StepFcn
<1> DEFINE P(f, n) == /\ f \in [0 .. n -> X]
                      /\ f[0] = base
                      /\ \A k \in 1 .. n : f[k] = F[<<f[k - 1], k>>]
           S == {n \in Nat : n <= N => \E f : P(f, n)}
<1>1. 0 \in S
  <2>1. P([k \in 0 .. 0 |-> base], 0)
    OBVIOUS
  <2>2. QED
    BY <2>1
<1>2. ASSUME NEW n \in Nat, n \in S PROVE n + 1 \in S
  <2> SUFFICES ASSUME n + 1 <= N PROVE \E f : P(f, n + 1)
    OBVIOUS
  <2>1. PICK f : P(f, n)
    BY <1>2
  <2> DEFINE g == [k \in 0 .. n + 1 |-> IF k <= n THEN f[k] ELSE F[<<f[n], n + 1>>]]
  <2>2. f[n] \in X /\ <<f[n], n + 1>> \in X \X (1 .. N)
    BY <2>1
  <2>3. F[<<f[n], n + 1>>] \in X
    BY <1>0, <2>2
  <2>4. g \in [0 .. n + 1 -> X] /\ g[0] = base
    BY <2>1, <2>3
  <2>5. ASSUME NEW k \in 1 .. n + 1 PROVE g[k] = F[<<g[k - 1], k>>]
    <3>1. g[k - 1] = f[k - 1]
      OBVIOUS
    <3>2. CASE k <= n
      BY <2>1, <3>1, <3>2
    <3>3. CASE k = n + 1
      BY <3>1, <3>3
    <3>4. QED
      BY <3>2, <3>3
  <2>6. QED
    BY <2>4, <2>5
<1> HIDE DEF S
<1>3. N \in S
  BY <1>1, <1>2, NatSet
<1>4. QED
  BY <1>3 DEF S, Recursion

----------------------------------------------------------------------------
(* has_new_bits(). *)

\* Classified traces and virgin maps.
Trace == [Loc -> SUBSET Bits]

\* What the comparison of some bytes of a trace and a virgin map should yield: 2 if one
\* that is hit is pristine, 1 if anything is new.
Overlap(cur, vir, bytes) == \E l \in bytes : cur[l] \cap vir[l] # {}
Compared(cur, vir, bytes) ==
  [ret    |-> IF NewTuple(cur, vir, bytes) THEN 2
              ELSE IF Overlap(cur, vir, bytes) THEN 1 ELSE 0,
   virgin |-> Clear(vir, cur, bytes)]

\* The bytes that the first k words are made of.
Lower(k) == 0 .. k * WordBytes - 1

\* Words do not share bytes, and together they are the map.
LEMMA WordBounds ==
  /\ Words \in Nat /\ Lower(Words) = Loc /\ Lower(0) = {}
  /\ \A k \in 0 .. Words - 1 :
       /\ Lower(k) \cap BytesOf(k) = {} /\ Lower(k + 1) = Lower(k) \cup BytesOf(k)
       /\ Lower(k) \subseteq Loc /\ BytesOf(k) \subseteq Loc
<1>1. MAP_SIZE \in Nat /\ WordBytes \in Nat \ {0} /\ MAP_SIZE % WordBytes = 0
  BY TracingAssumption, CoverageAssumption
<1>2. Words \in Nat /\ Words * WordBytes = MAP_SIZE
  BY <1>1 DEF Words
<1>3. Lower(Words) = Loc /\ Lower(0) = {}
  BY <1>1, <1>2 DEF Lower, Loc
<1>4. ASSUME NEW k \in 0 .. Words - 1
      PROVE  /\ Lower(k) \cap BytesOf(k) = {} /\ Lower(k + 1) = Lower(k) \cup BytesOf(k)
             /\ Lower(k) \subseteq Loc /\ BytesOf(k) \subseteq Loc
  <2> DEFINE a == k * WordBytes
             b == (k + 1) * WordBytes
  <2>1. a \in Nat /\ b \in Nat /\ b = a + WordBytes
    BY <1>1, <1>2
  <2>2. b <= MAP_SIZE
    <3>1. Words - (k + 1) \in Nat
      BY <1>2
    <3>2. (Words - (k + 1)) * WordBytes \in Nat
      BY <1>1, <3>1
    <3>3. MAP_SIZE = b + (Words - (k + 1)) * WordBytes
      BY <1>1, <1>2
    <3>4. QED
      BY <1>1, <2>1, <3>2, <3>3
  <2>3. Lower(k) = 0 .. a - 1 /\ Lower(k + 1) = 0 .. b - 1 /\ BytesOf(k) = a .. b - 1
    BY DEF Lower, BytesOf
  <2> HIDE DEF a, b
  <2>4. QED
    BY <1>1, <2>1, <2>2, <2>3 DEF Loc
<1>5. QED
  BY <1>2, <1>3, <1>4

\* One more word: what was found in the bytes before is not forgotten.
LEMMA CompareStep ==
  ASSUME NEW cur \in Trace, NEW vir \in Trace, NEW A \in SUBSET Loc, NEW w,
         BytesOf(w) \subseteq Loc, A \cap BytesOf(w) = {}
  PROVE  CompareWord(cur, Compared(cur, vir, A), w) = Compared(cur, vir, A \cup BytesOf(w))
<1> DEFINE B == BytesOf(w)
           acc == Compared(cur, vir, A)
<1>1. /\ acc.virgin = Clear(vir, cur, A)
      /\ acc.ret = IF NewTuple(cur, vir, A) THEN 2 ELSE IF Overlap(cur, vir, A) THEN 1 ELSE 0
      /\ acc = [ret |-> acc.ret, virgin |-> acc.virgin]
  BY DEF Compared
<1>2. \A l \in B : acc.virgin[l] = vir[l]
  BY <1>1 DEF Clear
<1>3. NewTuple(cur, acc.virgin, B) <=> NewTuple(cur, vir, B)
  BY <1>2 DEF NewTuple
<1>4. (\A l \in B : cur[l] \cap acc.virgin[l] = {}) <=> ~Overlap(cur, vir, B)
  BY <1>2 DEF Overlap
<1>5. Clear(acc.virgin, cur, B) = Clear(vir, cur, A \cup B)
  <2>1. \A l \in Loc : Clear(acc.virgin, cur, B)[l] = Clear(vir, cur, A \cup B)[l]
    BY <1>1, <1>2 DEF Clear
  <2>2. QED
    BY <2>1 DEF Clear
<1>6. NewTuple(cur, vir, A \cup B) <=> NewTuple(cur, vir, A) \/ NewTuple(cur, vir, B)
  BY DEF NewTuple
<1>7. Overlap(cur, vir, A \cup B) <=> Overlap(cur, vir, A) \/ Overlap(cur, vir, B)
  BY DEF Overlap
<1>8. NewTuple(cur, vir, B) => Overlap(cur, vir, B)
  BY DEF NewTuple, Overlap, Trace
<1>9. ~Overlap(cur, vir, B) => Clear(vir, cur, A \cup B) = Clear(vir, cur, A)
  <2> SUFFICES ASSUME ~Overlap(cur, vir, B)
               PROVE  Clear(vir, cur, A \cup B) = Clear(vir, cur, A)
    OBVIOUS
  <2>1. ASSUME NEW l \in B PROVE vir[l] \ cur[l] = vir[l]
    BY DEF Overlap
  <2>2. \A l \in Loc : Clear(vir, cur, A \cup B)[l] = Clear(vir, cur, A)[l]
    BY <2>1 DEF Clear
  <2>3. QED
    BY <2>2 DEF Clear
<1>10. Compared(cur, vir, A \cup B)
         = [ret |-> IF NewTuple(cur, vir, A \cup B) THEN 2
                    ELSE IF Overlap(cur, vir, A \cup B) THEN 1 ELSE 0,
            virgin |-> Clear(vir, cur, A \cup B)]
  BY DEF Compared
<1>11. CompareWord(cur, acc, w)
         = IF \A l \in B : cur[l] \cap acc.virgin[l] = {} THEN acc
           ELSE [ret |-> IF acc.ret = 2 \/ NewTuple(cur, acc.virgin, B) THEN 2 ELSE 1,
                 virgin |-> Clear(acc.virgin, cur, B)]
  BY DEF CompareWord
<1> HIDE DEF acc, B
<1>12. CASE Overlap(cur, vir, B)
  BY <1>1, <1>3, <1>4, <1>5, <1>6, <1>7, <1>10, <1>11, <1>12 DEF acc, B
<1>13. CASE ~Overlap(cur, vir, B)
  BY <1>1, <1>4, <1>6, <1>7, <1>8, <1>9, <1>10, <1>11, <1>13 DEF acc, B
<1>14. QED
  BY <1>12, <1>13

\* has_new_bits() goes through the map word by word, skips words and remembers the best
\* answer so far; for any map and word size it answers what the comparison of all bytes at
\* once does, and clears the same bits.
THEOREM HasNewBits ==
  ASSUME NEW cur \in Trace, NEW vir \in Trace
  PROVE  has_new_bits(cur, vir) = Compared(cur, vir, Loc)
<1> DEFINE base == [ret |-> 0, virgin |-> vir]
           P(g) == g = [k \in 0 .. Words |-> IF k = 0 THEN base
                                             ELSE CompareWord(cur, g[k - 1], k - 1)]
           f == [k \in 0 .. Words |-> Compared(cur, vir, Lower(k))]
           acc[k \in 0 .. Words] == IF k = 0 THEN [ret |-> 0, virgin |-> vir]
                                             ELSE CompareWord(cur, acc[k - 1], k - 1)
<1>1. Compared(cur, vir, Lower(0)) = base
  <2>1. Clear(vir, cur, {}) = vir
    BY DEF Clear, Trace
  <2>2. ~NewTuple(cur, vir, {}) /\ ~Overlap(cur, vir, {})
    BY DEF NewTuple, Overlap
  <2>3. QED
    BY <2>1, <2>2, WordBounds DEF Compared
<1>2. ASSUME NEW k \in 1 .. Words
      PROVE  CompareWord(cur, Compared(cur, vir, Lower(k - 1)), k - 1)
               = Compared(cur, vir, Lower(k))
  <2>1. k - 1 \in 0 .. Words - 1 /\ (k - 1) + 1 = k
    BY WordBounds
  <2>2. /\ Lower(k - 1) \cap BytesOf(k - 1) = {} /\ Lower(k) = Lower(k - 1) \cup BytesOf(k - 1)
        /\ Lower(k - 1) \subseteq Loc /\ BytesOf(k - 1) \subseteq Loc
    BY <2>1, WordBounds
  <2>3. QED
    BY <2>2, CompareStep
<1>3. acc = [k \in 0 .. Words |-> IF k = 0 THEN base ELSE CompareWord(cur, acc[k - 1], k - 1)]
  <2>1. P(f)
    <3>1. ASSUME NEW k \in 0 .. Words
          PROVE  f[k] = IF k = 0 THEN base ELSE CompareWord(cur, f[k - 1], k - 1)
      <4>1. CASE k = 0
        BY <1>1, <4>1
      <4>2. CASE k # 0
        <5>1. k \in 1 .. Words /\ k - 1 \in 0 .. Words
          BY <4>2, WordBounds
        <5>2. f[k - 1] = Compared(cur, vir, Lower(k - 1)) /\ f[k] = Compared(cur, vir, Lower(k))
          BY <5>1
        <5> HIDE DEF f
        <5>3. QED
          BY <1>2, <4>2, <5>1, <5>2
      <4>3. QED
        BY <4>1, <4>2
    <3>2. f = [k \in 0 .. Words |-> f[k]]
      OBVIOUS
    <3>3. QED
      BY <3>1, <3>2
  <2>2. \E g : P(g)
    BY <2>1
  <2>3. acc = CHOOSE g : P(g)
    OBVIOUS
  <2>4. QED
    BY <2>2, <2>3, Zenon
<1>4. has_new_bits(cur, vir) = acc[Words]
  BY DEF has_new_bits
<1> HIDE DEF acc
<1> DEFINE S == {k \in Nat : k <= Words => acc[k] = Compared(cur, vir, Lower(k))}
<1>5. 0 \in S
  BY <1>1, <1>3, WordBounds
<1>6. ASSUME NEW k \in Nat, k \in S PROVE k + 1 \in S
  <2> SUFFICES ASSUME k + 1 <= Words PROVE acc[k + 1] = Compared(cur, vir, Lower(k + 1))
    OBVIOUS
  <2>1. k + 1 \in 1 .. Words /\ k + 1 \in 0 .. Words /\ k + 1 # 0 /\ (k + 1) - 1 = k /\ k <= Words
    BY WordBounds
  <2>2. acc[k] = Compared(cur, vir, Lower(k))
    BY <1>6, <2>1
  <2>3. acc[k + 1] = CompareWord(cur, acc[k], k)
    BY <1>3, <2>1
  <2>4. CompareWord(cur, Compared(cur, vir, Lower((k + 1) - 1)), (k + 1) - 1)
          = Compared(cur, vir, Lower(k + 1))
    BY <1>2, <2>1
  <2>5. QED
    BY <2>1, <2>2, <2>3, <2>4
<1> HIDE DEF S
<1>7. Words \in S
  BY <1>5, <1>6, NatSet, WordBounds
<1>8. QED
  BY <1>4, <1>7, WordBounds DEF S

----------------------------------------------------------------------------
(* Executions. *)

\* What a block may be compiled to, and what an execution does with it.
CompiledBlock == [loc : Loc \cup {None}, node : [idx : Int, score : Nat]]
Visit   == [blk : Blk, times : Nat \ {0}]
Machine == [area : [Loc -> 0 .. 255], prev : [Scopes -> Loc],
            dfg : [0 .. DFG_MAP_SIZE - 1 -> Nat]]

\* The code sequences of the LLVM pass and of the trampolines of afl-as.h store at the same
\* place and leave the same location behind: the exclusive or that 64-bit code does in
\* place is undone.
THEOREM StoresAgree ==
  ASSUME NEW flavour, NEW prev \in Loc, NEW cur \in Loc
  PROVE  /\ Store(flavour, prev, cur) = store_llvm(prev, cur)
         /\ store_llvm(prev, cur) \in [at : Loc, prev : Loc]
<1>1. /\ XOR(prev, cur) \in Loc /\ XOR(prev, cur) = XOR(cur, prev)
      /\ XOR(prev, XOR(cur, prev)) = cur
  BY XorAssumption
<1>2. cur \div 2 \in Loc
  BY TracingAssumption DEF Loc
<1>3. /\ store_as32(prev, cur) = [at |-> XOR(prev, cur), prev |-> cur \div 2]
      /\ store_as64(prev, cur) = [at |-> XOR(cur, prev),
                                  prev |-> XOR(prev, XOR(cur, prev)) \div 2]
      /\ store_llvm(prev, cur) = [at |-> XOR(prev, cur), prev |-> cur \div 2]
  BY DEF store_as32, store_as64, store_llvm
<1>4. store_as32(prev, cur) = store_llvm(prev, cur) /\ store_as64(prev, cur) = store_llvm(prev, cur)
  BY <1>1, <1>3
<1>5. Store(flavour, prev, cur) = store_llvm(prev, cur)
  BY <1>4 DEF Store
<1>6. QED
  BY <1>1, <1>2, <1>3, <1>5

\* A counter stays a byte.
LEMMA HitTyped ==
  ASSUME NEW area \in [Loc -> 0 .. 255], NEW at \in Loc, NEW n \in Nat
  PROVE  Hit(area, at, n) \in [Loc -> 0 .. 255]
<1>1. area[at] \in Nat
  OBVIOUS
<1>2. (area[at] + n) % 256 \in 0 .. 255
  BY <1>1
<1>3. QED
  BY <1>2 DEF Hit

\* Entering a block keeps the types of the maps.
LEMMA EnterTyped ==
  ASSUME NEW flavour, NEW c \in Seq(CompiledBlock), Len(c) = Len(Blocks),
         NEW m \in Machine, NEW v \in Visit
  PROVE  Enter(flavour, c, m, v) \in Machine
<1> DEFINE b  == c[v.blk]
           p  == prev_loc_of(v.blk, flavour)
           s1 == Store(flavour, m.prev[p], b.loc)
           s2 == Store(flavour, s1.prev, b.loc)
           a1 == Hit(m.area, s1.at, 1)
<1>1. v.blk \in 1 .. Len(c) /\ v.blk \in Blk /\ v.times \in Nat \ {0}
  BY TracingAssumption DEF Visit, Blk
<1>2. b \in CompiledBlock
  BY <1>1
<1>3. p \in Scopes
  BY <1>1 DEF prev_loc_of, Scopes
<1>4. m.prev[p] \in Loc /\ m.area \in [Loc -> 0 .. 255] /\ m.prev \in [Scopes -> Loc]
      /\ m.dfg \in [0 .. DFG_MAP_SIZE - 1 -> Nat]
  BY <1>3 DEF Machine
<1>5. Enter(flavour, c, m, v)
        = IF b.loc = None THEN m
          ELSE [area |-> IF v.times = 1 THEN a1 ELSE Hit(a1, s2.at, v.times - 1),
                prev |-> [m.prev EXCEPT ![p] = IF v.times = 1 THEN s1.prev ELSE s2.prev],
                dfg  |-> IF b.node = NoNode THEN m.dfg
                         ELSE [m.dfg EXCEPT ![b.node.idx] = b.node.score]]
  BY DEF Enter
<1> HIDE DEF b, p, s1, s2, a1
<1>6. CASE b.loc = None
  BY <1>5, <1>6
<1>7. CASE b.loc # None
  <2>1. b.loc \in Loc /\ b.node.score \in Nat
    BY <1>2, <1>7 DEF CompiledBlock
  <2>2. s1.at \in Loc /\ s1.prev \in Loc
    BY <1>4, <2>1, StoresAgree DEF s1
  <2>3. s2.at \in Loc /\ s2.prev \in Loc
    BY <2>1, <2>2, StoresAgree DEF s2
  <2>4. a1 \in [Loc -> 0 .. 255]
    BY <1>4, <2>2, HitTyped DEF a1
  <2>5. Hit(a1, s2.at, v.times - 1) \in [Loc -> 0 .. 255]
    <3>1. v.times - 1 \in Nat
      BY <1>1
    <3>2. QED
      BY <2>3, <2>4, <3>1, HitTyped
  <2>6. [m.prev EXCEPT ![p] = IF v.times = 1 THEN s1.prev ELSE s2.prev] \in [Scopes -> Loc]
    BY <1>4, <2>2, <2>3
  <2>7. [m.dfg EXCEPT ![b.node.idx] = b.node.score] \in [0 .. DFG_MAP_SIZE - 1 -> Nat]
    BY <1>4, <2>1
  <2>8. QED
    BY <1>4, <1>5, <1>7, <2>4, <2>5, <2>6, <2>7 DEF Machine
<1>8. QED
  BY <1>6, <1>7

\* A path is executed visit by visit.
Start == [area |-> ZeroTrace, prev |-> [s \in Scopes |-> 0], dfg |-> ZeroDfg]
Steps(m, flavour, c, path) ==
  /\ m \in [0 .. Len(path) -> Machine] /\ m[0] = Start
  /\ \A k \in 1 .. Len(path) : m[k] = Enter(flavour, c, m[k - 1], path[k])
LEMMA ExecuteSteps ==
  ASSUME NEW flavour, NEW c \in Seq(CompiledBlock), Len(c) = Len(Blocks),
         NEW path \in Seq(Visit)
  PROVE  \E m : /\ Steps(m, flavour, c, path)
               /\ Execute(flavour, c, path, ZeroTrace, ZeroDfg) = m[Len(path)]
<1> DEFINE base == [area |-> ZeroTrace, prev |-> [s \in Scopes |-> 0], dfg |-> ZeroDfg]
           n == Len(path)
           F == [p \in Machine \X (1 .. n) |-> Enter(flavour, c, p[1], path[p[2]])]
           P(g) == g = [k \in 0 .. Len(path) |-> IF k = 0 THEN base
                                        ELSE Enter(flavour, c, g[k - 1], path[k])]
           m[k \in 0 .. Len(path)] ==
             IF k = 0 THEN [area |-> ZeroTrace, prev |-> [s \in Scopes |-> 0], dfg |-> ZeroDfg]
                      ELSE Enter(flavour, c, m[k - 1], path[k])
<1>1. n \in Nat /\ \A k \in 1 .. n : path[k] \in Visit
  OBVIOUS
<1>2. base \in Machine
  BY TracingAssumption DEF Machine, ZeroTrace, ZeroDfg, Loc
<1>3. \A x \in Machine : \A k \in 1 .. n : Enter(flavour, c, x, path[k]) \in Machine
  BY <1>1, EnterTyped
<1>4. F \in StepFcn(Machine, n)
  BY <1>3 DEF StepFcn
<1>5. PICK f : Recursion(f, Machine, n, base, F)
  <2> HIDE DEF F, n, base
  <2>1. QED
    BY <1>1, <1>2, <1>4, Iteration
<1>6. P(f)
  <2>1. ASSUME NEW k \in 1 .. n PROVE f[k] = Enter(flavour, c, f[k - 1], path[k])
    <3>1. k - 1 \in 0 .. n
      BY <1>1
    <3>2. <<f[k - 1], k>> \in Machine \X (1 .. n)
      BY <1>5, <3>1 DEF Recursion
    <3>3. F[<<f[k - 1], k>>] = Enter(flavour, c, f[k - 1], path[k])
      BY <3>2
    <3>4. QED
      BY <1>5, <3>3 DEF Recursion
  <2> HIDE DEF F, base
  <2>2. \A k \in 0 .. n : f[k] = IF k = 0 THEN base ELSE Enter(flavour, c, f[k - 1], path[k])
    BY <1>1, <1>5, <2>1 DEF Recursion
  <2>3. f = [k \in 0 .. n |-> f[k]]
    BY <1>5 DEF Recursion
  <2>4. QED
    BY <2>2, <2>3
<1>7. m = [k \in 0 .. Len(path) |-> IF k = 0 THEN base ELSE Enter(flavour, c, m[k - 1], path[k])]
  <2>1. \E g : P(g)
    BY <1>6
  <2>2. m = CHOOSE g : P(g)
    OBVIOUS
  <2>3. QED
    BY <2>1, <2>2, Zenon
<1>8. Execute(flavour, c, path, ZeroTrace, ZeroDfg) = m[n]
  BY DEF Execute
<1> HIDE DEF m, F, base
<1> DEFINE S == {k \in Nat : k <= n => m[k] \in Machine}
<1>9. 0 \in S
  BY <1>1, <1>2, <1>7
<1>10. ASSUME NEW k \in Nat, k \in S PROVE k + 1 \in S
  <2> SUFFICES ASSUME k + 1 <= n PROVE m[k + 1] \in Machine
    OBVIOUS
  <2>1. k + 1 \in 1 .. n /\ k + 1 \in 0 .. n /\ k + 1 # 0 /\ (k + 1) - 1 = k /\ k <= n
    BY <1>1
  <2>2. m[k + 1] = Enter(flavour, c, m[k], path[k + 1])
    BY <1>7, <2>1
  <2>3. QED
    BY <1>3, <1>10, <2>1, <2>2
<1> HIDE DEF S
<1>11. Nat \subseteq S
  BY <1>9, <1>10, NatSet
<1>12. \A k \in 0 .. n : m[k] \in Machine
  <2>1. ASSUME NEW k \in 0 .. n PROVE m[k] \in Machine
    <3>1. k \in Nat /\ k <= n
      BY <1>1
    <3>2. k \in S
      BY <1>11, <3>1
    <3>3. QED
      BY <3>1, <3>2 DEF S
  <2>2. QED
    BY <2>1
<1>13. m \in [0 .. Len(path) -> Machine]
  BY <1>7, <1>12
<1>14. m[0] = Start /\ \A k \in 1 .. Len(path) : m[k] = Enter(flavour, c, m[k - 1], path[k])
  <2>1. m[0] = base
    BY <1>1, <1>7
  <2>2. ASSUME NEW k \in 1 .. Len(path) PROVE m[k] = Enter(flavour, c, m[k - 1], path[k])
    <3>1. k \in 0 .. Len(path) /\ k # 0
      BY <1>1
    <3>2. QED
      BY <1>7, <3>1
  <2>3. QED
    BY <2>1, <2>2 DEF base, Start
<1>15. QED
  BY <1>8, <1>13, <1>14 DEF Steps

\* So the maps keep their types.
LEMMA ExecuteTyped ==
  ASSUME NEW flavour, NEW c \in Seq(CompiledBlock), Len(c) = Len(Blocks),
         NEW path \in Seq(Visit)
  PROVE  Execute(flavour, c, path, ZeroTrace, ZeroDfg) \in Machine
<1>1. PICK m : /\ Steps(m, flavour, c, path)
               /\ Execute(flavour, c, path, ZeroTrace, ZeroDfg) = m[Len(path)]
  BY ExecuteSteps
<1>2. Len(path) \in 0 .. Len(path)
  OBVIOUS
<1>3. QED
  BY <1>1, <1>2 DEF Steps

\* The classes of a trace are bytes with at most one bit.
LEMMA Classified ==
  ASSUME NEW area \in [Loc -> 0 .. 255]
  PROVE  classify_counts(area) \in Trace
<1>1. ASSUME NEW n \in 0 .. 255 PROVE count_class(n) \in SUBSET Bits
  BY DEF count_class, Bits
<1>2. QED
  BY <1>1 DEF classify_counts, Trace

\* Whatever was executed, the maps have their types.
LEMMA RunTyped ==
  ASSUME code \in Seq(CompiledBlock), Len(code) = Len(Blocks),
         NEW x \in Inputs \cup {{}}, NEW o \in x, run_target(o)
  PROVE  trace_bits' \in Trace
<1>1. o.path \in Seq(Visit)
  BY CoverageAssumption DEF Visit
<1>2. ZeroTrace \in [Loc -> 0 .. 255]
  BY DEF ZeroTrace
<1>3. Execute(conf.flavour, code, o.path, ZeroTrace, ZeroDfg).area \in [Loc -> 0 .. 255]
  BY <1>1, ExecuteTyped DEF Machine
<1> DEFINE m == IF conf.dumb_mode THEN [area |-> ZeroTrace, dfg |-> ZeroDfg]
                ELSE Execute(conf.flavour, code, o.path, ZeroTrace, ZeroDfg)
<1>4. m.area \in [Loc -> 0 .. 255]
  BY <1>2, <1>3
<1>5. trace_bits' = classify_counts(m.area)
  BY DEF run_target
<1> HIDE DEF m
<1>6. QED
  BY <1>4, <1>5, Classified

----------------------------------------------------------------------------
(* The build. *)

\* The compiler reads the DFG file and then compiles the blocks; the fuzzer runs what is
\* complete.
Fuzzing == {"fuzz", "judge", "calibrate", "rerun", "crash"}
BuildInv ==
  /\ conf \in Configs /\ dfg_file \in DfgFiles \cup {<<>>}
  /\ phase \in {"dfg", "refused"} \cup Fuzzing
  /\ idx \in 0 .. Len(dfg_file)
  /\ phase # "refused" => idx < DFG_MAP_SIZE
  /\ code \in Seq(CompiledBlock)
  /\ code # <<>> => idx = Len(dfg_file) /\ phase # "refused"
  /\ phase = "dfg" => Len(code) < Len(Blocks)
  /\ phase \in Fuzzing => Len(code) = Len(Blocks)

\* The map of the nodes holds the lines that were read, each with the index and the score
\* of the last line that has it, and the blocks that are instrumented hold their nodes.
NodesRead ==
  /\ DOMAIN dfg_node_map = {dfg_file[k].line : k \in 1 .. idx}
  /\ \A key \in DOMAIN dfg_node_map :
       /\ dfg_node_map[key] \in [idx : 0 .. idx - 1, score : Nat]
       /\ dfg_file[dfg_node_map[key].idx + 1].line = key
       /\ dfg_file[dfg_node_map[key].idx + 1].score = dfg_node_map[key].score
       /\ \A k \in 1 .. idx : dfg_file[k].line = key => k <= dfg_node_map[key].idx + 1
NodeSet(b, c) ==
  /\ c.node # NoNode => /\ NodeKey(b) \in DOMAIN dfg_node_map
                        /\ c.node = dfg_node_map[NodeKey(b)]
  /\ conf.flavour = "llvm" /\ c.loc # None /\ c.node = NoNode => NodeKey(b) = <<>>
  /\ conf.flavour # "llvm" => c.node = NoNode
NodesCompiled == \A b \in 1 .. Len(code) : NodeSet(b, code[b])

\* A file is a sequence of lines, the empty one of the other compilers included.
LEMMA FileTyped ==
  ASSUME NEW f \in DfgFiles \cup {<<>>}
  PROVE  /\ Len(f) \in Nat
         /\ \A k \in 1 .. Len(f) : f[k].line \in STRING \X (Nat \ {0}) /\ f[k].score \in Nat
<1> DEFINE Line == [line : STRING \X (Nat \ {0}), score : Nat]
<1>1. f \in Seq(Line)
  BY CoverageAssumption, EmptySeq
<1>2. \A e \in Line : e.line \in STRING \X (Nat \ {0}) /\ e.score \in Nat
  OBVIOUS
<1> HIDE DEF Line
<1>3. Len(f) \in Nat /\ \A k \in 1 .. Len(f) : f[k] \in Line
  BY <1>1
<1>4. QED
  BY <1>2, <1>3

\* After the build nothing touches what it has left.
LEMMA FuzzStep ==
  ASSUME BuildInv, Next, ~read_dfg_line, ~compile_block
  PROVE  UNCHANGED buildVars /\ phase \in Fuzzing /\ phase' \in Fuzzing
<1>1. CASE common_fuzz_stuff
  BY <1>1, Zenon DEF common_fuzz_stuff, Fuzzing
<1>2. CASE skip_requested
  BY <1>2 DEF skip_requested, Fuzzing
<1>3. CASE queue_if_new
  BY <1>3, Zenon DEF queue_if_new, Fuzzing
<1>4. CASE calibrate_case
  <2>1. phase = "calibrate" /\ UNCHANGED buildVars
    BY <1>4 DEF calibrate_case
  <2>2. phase' \in {"crash", "fuzz", "calibrate"}
    BY <1>4 DEF calibrate_case, EndCalibration, GoOn
  <2>3. QED
    BY <2>1, <2>2 DEF Fuzzing
<1>5. CASE ignore_fault
  BY <1>5 DEF ignore_fault, Fuzzing
<1>6. CASE judge_tmout
  BY <1>6, Zenon DEF judge_tmout, Fuzzing
<1>7. CASE rerun_hang
  BY <1>7, Zenon DEF rerun_hang, Fuzzing
<1>8. CASE keep_as_crash
  BY <1>8, Zenon DEF keep_as_crash, Fuzzing
<1>9. CASE write_bitmap
  BY <1>9 DEF write_bitmap, Fuzzing
<1>10. CASE read_bitmap
  BY <1>10 DEF read_bitmap, Fuzzing
<1>11. QED
  BY <1>1, <1>2, <1>3, <1>4, <1>5, <1>6, <1>7, <1>8, <1>9, <1>10 DEF Next

\* What a block is compiled to: if it has a node, then that of its first known line.
LEMMA NodeFound ==
  ASSUME BuildInv, NodesRead, idx = Len(dfg_file), NEW b \in Blk,
         NEW c \in Compiled(b, conf, dfg_node_map)
  PROVE  c \in CompiledBlock /\ NodeSet(b, c)
<1> DEFINE lines == Blocks[b].lines
           file  == Blocks[b].file
           known == {k \in DOMAIN lines : \E e \in ToSet(dfg_file) : e.line = <<file, lines[k]>>}
           positions == {k \in DOMAIN lines : lines[k] # 0 /\ <<file, lines[k]>> \in DOMAIN dfg_node_map}
<1>1. lines \in Seq(Nat) /\ DOMAIN lines \subseteq Nat
  BY TracingAssumption
<1>2. /\ Len(dfg_file) \in Nat
      /\ \A k \in 1 .. Len(dfg_file) : dfg_file[k].line \in STRING \X (Nat \ {0})
      /\ DOMAIN dfg_file = 1 .. Len(dfg_file)
  BY FileTyped, CoverageAssumption, EmptySeq DEF BuildInv
<1>3. known = positions
  <2>1. ASSUME NEW k \in DOMAIN lines
        PROVE  (\E e \in ToSet(dfg_file) : e.line = <<file, lines[k]>>)
                 <=> \E j \in 1 .. Len(dfg_file) : dfg_file[j].line = <<file, lines[k]>>
    BY <1>2 DEF ToSet
  <2>2. ASSUME NEW k \in DOMAIN lines, NEW j \in 1 .. Len(dfg_file),
               dfg_file[j].line = <<file, lines[k]>>
        PROVE  lines[k] # 0
    BY <1>2, <2>2
  <2>3. DOMAIN dfg_node_map = {dfg_file[j].line : j \in 1 .. Len(dfg_file)}
    BY DEF NodesRead
  <2>4. QED
    BY <2>1, <2>2, <2>3
<1>4. NodeOf(b, dfg_node_map) = IF positions = {} THEN NoNode
                                ELSE dfg_node_map[<<file, lines[Min(positions)]>>]
  BY DEF NodeOf
<1>5. NodeKey(b) = IF known = {} THEN <<>> ELSE <<file, lines[Min(known)]>>
  BY DEF NodeKey
<1>6. positions # {} => Min(positions) \in positions
  <2>1. positions \subseteq Nat
    BY <1>1
  <2>2. QED
    BY <2>1, MinIsLeast
<1>7. positions # {} => <<file, lines[Min(positions)]>> \in DOMAIN dfg_node_map
  BY <1>6
<1> HIDE DEF known, positions, lines, file
<1> DEFINE node == NodeOf(b, dfg_node_map)
<1>8. /\ node \in [idx : Int, score : Nat]
      /\ node # NoNode => /\ NodeKey(b) \in DOMAIN dfg_node_map
                          /\ node = dfg_node_map[NodeKey(b)]
      /\ node = NoNode => NodeKey(b) = <<>>
  <2>1. CASE positions = {}
    BY <1>3, <1>4, <1>5, <2>1 DEF NoNode, None
  <2>2. CASE positions # {}
    <3>1. NodeKey(b) \in DOMAIN dfg_node_map /\ node = dfg_node_map[NodeKey(b)]
      BY <1>3, <1>4, <1>5, <1>7, <2>2
    <3>2. dfg_node_map[NodeKey(b)] \in [idx : 0 .. idx - 1, score : Nat]
      BY <3>1 DEF NodesRead
    <3> HIDE DEF node
    <3>3. node.idx \in Nat /\ node \in [idx : Int, score : Nat]
      BY <1>2, <3>1, <3>2
    <3>4. node # NoNode
      BY <3>3 DEF NoNode, None
    <3>5. QED
      BY <3>1, <3>3, <3>4
  <2>3. QED
    BY <2>1, <2>2
<1> HIDE DEF node
<1>9. NoNode \in [idx : Int, score : Nat]
  BY DEF NoNode, None
<1>10. /\ c.loc \in Loc \cup {None} /\ c = [loc |-> c.loc, node |-> c.node]
       /\ IF conf.flavour = "llvm" /\ c.loc # None THEN c.node = node ELSE c.node = NoNode
  <2>1. CASE conf.flavour = "llvm" /\ c \in runOnModule(b, conf, dfg_node_map)
    <3>1. None \notin Loc
      BY DEF None, Loc
    <3>2. \/ \E l \in CurLocs : c = [loc |-> l, node |-> node]
          \/ c = [loc |-> None, node |-> NoNode]
      BY <2>1 DEF runOnModule, node
    <3>3. QED
      BY <2>1, <3>1, <3>2, TracingAssumption
  <2>2. CASE conf.flavour # "llvm" /\ c \in trampoline(b, conf)
    BY <2>2, TracingAssumption DEF trampoline
  <2>3. CASE conf.flavour # "llvm" /\ c \in afl_maybe_log(b)
    <3>1. Mangled(Blocks[b].pc) \in Loc
      <4>1. /\ XOR(Blocks[b].pc \div 16, Blocks[b].pc * 256) \in Nat
            /\ MAP_SIZE \in Nat \ {0}
        BY TracingAssumption, XorAssumption
      <4>2. \A x \in Nat : x % MAP_SIZE \in 0 .. MAP_SIZE - 1
        BY <4>1
      <4>3. QED
        BY <4>1, <4>2 DEF Mangled, Loc
    <3>2. QED
      BY <2>3, <3>1 DEF afl_maybe_log
  <2>4. conf.flavour \in {"llvm", "as32", "as64", "qemu"}
    BY CoverageAssumption DEF BuildInv, ConfigOK
  <2>5. QED
    BY <2>1, <2>2, <2>3, <2>4 DEF Compiled
<1>11. c \in CompiledBlock
  <2>1. c.node \in [idx : Int, score : Nat]
    BY <1>8, <1>9, <1>10
  <2>2. QED
    BY <1>10, <2>1 DEF CompiledBlock
<1>12. QED
  BY <1>8, <1>10, <1>11 DEF NodeSet

\* Before the first line is read there is nothing to find.
LEMMA BuildInit == Init => BuildInv /\ NodesRead /\ NodesCompiled
<1> SUFFICES ASSUME Init PROVE BuildInv /\ NodesRead /\ NodesCompiled
  OBVIOUS
<1>1. dfg_file \in DfgFiles \cup {<<>>} /\ conf \in Configs
  BY DEF Init
<1>2. idx = 0 /\ code = <<>> /\ phase = "dfg" /\ dfg_node_map = <<>>
  BY DEF Init
<1>3. Len(dfg_file) \in Nat
  BY <1>1, FileTyped
<1>4. code \in Seq(CompiledBlock) /\ Len(code) = 0
  BY <1>2, EmptySeq
<1>5. BuildInv
  BY <1>1, <1>2, <1>3, <1>4, TracingAssumption DEF BuildInv, Fuzzing
<1>6. DOMAIN dfg_node_map = {} /\ 1 .. idx = {}
  BY <1>2
<1>7. QED
  BY <1>4, <1>5, <1>6 DEF NodesRead, NodesCompiled

\* A line is read: the map holds it, under its index.
LEMMA ReadStep ==
  ASSUME BuildInv, NodesRead, NodesCompiled, read_dfg_line
  PROVE  (BuildInv /\ NodesRead /\ NodesCompiled)'
<1> DEFINE e == dfg_file[idx + 1]
<1>1. /\ phase = "dfg" /\ idx < Len(dfg_file) /\ idx' = idx + 1
      /\ phase' = IF idx' >= DFG_MAP_SIZE THEN "refused" ELSE phase
      /\ dfg_node_map' = AddNode(dfg_node_map, idx, e)
      /\ UNCHANGED <<conf, dfg_file, code>>
  BY DEF read_dfg_line
<1>2. Len(dfg_file) \in Nat /\ idx \in Nat /\ idx + 1 \in 1 .. Len(dfg_file)
  BY <1>1, FileTyped DEF BuildInv
<1>3. e.score \in Nat
  BY <1>2, FileTyped DEF BuildInv
<1>4. code = <<>> /\ Len(code) = 0
  BY <1>1, <1>2 DEF BuildInv
<1>5. BuildInv'
  BY <1>1, <1>2, <1>4, TracingAssumption DEF BuildInv, Fuzzing
<1> HIDE DEF e
<1>6. /\ DOMAIN dfg_node_map' = DOMAIN dfg_node_map \cup {e.line}
      /\ \A key \in DOMAIN dfg_node_map' :
           dfg_node_map'[key] = IF key = e.line THEN [idx |-> idx, score |-> e.score]
                                ELSE dfg_node_map[key]
  BY <1>1 DEF AddNode
<1>7. NodesRead'
  <2>1. {dfg_file[k].line : k \in 1 .. idx + 1} = {dfg_file[k].line : k \in 1 .. idx} \cup {e.line}
    BY <1>2 DEF e
  <2>2. DOMAIN dfg_node_map' = {dfg_file'[k].line : k \in 1 .. idx'}
    <3>1. {dfg_file'[k].line : k \in 1 .. idx'} = {dfg_file[k].line : k \in 1 .. idx + 1}
      BY <1>1
    <3>2. DOMAIN dfg_node_map = {dfg_file[k].line : k \in 1 .. idx}
      BY DEF NodesRead
    <3>3. QED
      BY <1>6, <2>1, <3>1, <3>2, Zenon
  <2>3. ASSUME NEW key \in DOMAIN dfg_node_map'
        PROVE  /\ dfg_node_map'[key] \in [idx : 0 .. idx' - 1, score : Nat]
               /\ dfg_file'[dfg_node_map'[key].idx + 1].line = key
               /\ dfg_file'[dfg_node_map'[key].idx + 1].score = dfg_node_map'[key].score
               /\ \A k \in 1 .. idx' :
                    dfg_file'[k].line = key => k <= dfg_node_map'[key].idx + 1
    <3>1. CASE key = e.line
      <4>1. dfg_node_map'[key] = [idx |-> idx, score |-> e.score]
        BY <1>6, <3>1
      <4>2. QED
        BY <1>1, <1>2, <1>3, <3>1, <4>1 DEF e
    <3>2. CASE key # e.line
      <4>1. key \in DOMAIN dfg_node_map /\ dfg_node_map'[key] = dfg_node_map[key]
        BY <1>6, <3>2
      <4>2. /\ dfg_node_map[key] \in [idx : 0 .. idx - 1, score : Nat]
            /\ dfg_file[dfg_node_map[key].idx + 1].line = key
            /\ dfg_file[dfg_node_map[key].idx + 1].score = dfg_node_map[key].score
            /\ \A k \in 1 .. idx : dfg_file[k].line = key => k <= dfg_node_map[key].idx + 1
        BY <4>1 DEF NodesRead
      <4>3. 0 .. idx - 1 \subseteq 0 .. idx' - 1
        BY <1>1, <1>2
      <4>4. ASSUME NEW k \in 1 .. idx', dfg_file'[k].line = key
            PROVE  k <= dfg_node_map'[key].idx + 1
        <5>1. k # idx + 1
          BY <1>1, <3>2, <4>4 DEF e
        <5>2. k \in 1 .. idx
          BY <1>1, <1>2, <5>1
        <5>3. QED
          BY <1>1, <4>1, <4>2, <4>4, <5>2
      <4>5. QED
        BY <1>1, <4>1, <4>2, <4>3, <4>4
    <3>3. QED
      BY <3>1, <3>2
  <2>4. QED
    BY <2>2, <2>3 DEF NodesRead
<1>8. NodesCompiled'
  BY <1>1, <1>4 DEF NodesCompiled
<1>9. QED
  BY <1>5, <1>7, <1>8

\* A block is compiled: its node is the one of its key.
LEMMA CompileStep ==
  ASSUME BuildInv, NodesRead, NodesCompiled, compile_block
  PROVE  (BuildInv /\ NodesRead /\ NodesCompiled)'
<1>1. /\ phase = "dfg" /\ idx = Len(dfg_file)
      /\ phase' = IF Len(code') = Len(Blocks) THEN "fuzz" ELSE phase
      /\ UNCHANGED <<conf, dfg_file, dfg_node_map, idx>>
  BY DEF compile_block
<1>2. PICK c \in Compiled(Len(code) + 1, conf, dfg_node_map) : code' = Append(code, c)
  BY DEF compile_block
<1>3. code \in Seq(CompiledBlock) /\ Len(code) \in Nat /\ Len(code) < Len(Blocks) /\ Len(Blocks) \in Nat
  BY <1>1, TracingAssumption DEF BuildInv
<1>4. Len(code) + 1 \in Blk
  BY <1>3 DEF Blk
<1>5. c \in CompiledBlock /\ NodeSet(Len(code) + 1, c)
  BY <1>1, <1>4, NodeFound
<1>6. /\ code' \in Seq(CompiledBlock) /\ Len(code') = Len(code) + 1
      /\ code'[Len(code) + 1] = c
      /\ \A b \in 1 .. Len(code) : code'[b] = code[b]
  BY <1>2, <1>3, <1>5
<1>7. BuildInv'
  BY <1>1, <1>3, <1>6 DEF BuildInv, Fuzzing
<1>8. NodesRead'
  BY <1>1 DEF NodesRead
<1>9. NodesCompiled'
  <2>1. \A b : NodeKey(b)' = NodeKey(b)
    BY <1>1 DEF NodeKey
  <2>2. ASSUME NEW b \in 1 .. Len(code') PROVE NodeSet(b, code'[b])
    <3>1. CASE b = Len(code) + 1
      BY <1>5, <1>6, <3>1
    <3>2. CASE b # Len(code) + 1
      <4>1. b \in 1 .. Len(code)
        BY <1>3, <1>6, <3>2
      <4>2. QED
        BY <1>6, <4>1 DEF NodesCompiled
    <3>3. QED
      BY <3>1, <3>2
  <2>3. QED
    BY <1>1, <2>1, <2>2 DEF NodesCompiled, NodeSet
<1>10. QED
  BY <1>7, <1>8, <1>9

\* No step disturbs the build.
LEMMA BuildStep ==
  ASSUME BuildInv, NodesRead, NodesCompiled, [Next]_vars
  PROVE  (BuildInv /\ NodesRead /\ NodesCompiled)'
<1>1. CASE UNCHANGED vars
  <2>1. UNCHANGED <<buildVars, phase>>
    BY <1>1 DEF vars
  <2>2. UNCHANGED <<conf, dfg_file, dfg_node_map, idx, code, phase>>
    BY <2>1 DEF buildVars
  <2>3. BuildInv'
    BY <2>2 DEF BuildInv
  <2>4. \A b : NodeKey(b)' = NodeKey(b)
    BY <2>2 DEF NodeKey
  <2>5. NodesRead'
    BY <2>2 DEF NodesRead
  <2>6. NodesCompiled'
    BY <2>2, <2>4 DEF NodesCompiled, NodeSet
  <2>7. QED
    BY <2>3, <2>5, <2>6
<1>2. CASE read_dfg_line
  BY <1>2, ReadStep
<1>3. CASE compile_block
  BY <1>3, CompileStep
<1>4. CASE Next /\ ~read_dfg_line /\ ~compile_block
  <2>1. UNCHANGED buildVars /\ phase \in Fuzzing /\ phase' \in Fuzzing
    BY <1>4, FuzzStep
  <2>2. UNCHANGED <<conf, dfg_file, dfg_node_map, idx, code>>
    BY <2>1 DEF buildVars
  <2>3. BuildInv'
    BY <2>1, <2>2 DEF BuildInv, Fuzzing
  <2>4. \A b : NodeKey(b)' = NodeKey(b)
    BY <2>2 DEF NodeKey
  <2>5. NodesRead'
    BY <2>2 DEF NodesRead
  <2>6. NodesCompiled'
    BY <2>2, <2>4 DEF NodesCompiled, NodeSet
  <2>7. QED
    BY <2>3, <2>5, <2>6
<1>5. QED
  BY <1>1, <1>2, <1>3, <1>4

\* The invariants of the build.
LEMMA BuildCorrect == Spec => [](BuildInv /\ NodesRead /\ NodesCompiled)
<1>1. BuildInv /\ NodesRead /\ NodesCompiled /\ [Next]_vars
        => (BuildInv /\ NodesRead /\ NodesCompiled)'
  BY BuildStep
<1>2. QED
  BY BuildInit, <1>1, PTL DEF Spec

\* Every node that the target was compiled with has a word of its own in dfg_bits: a file
\* that is too large is refused before any block is compiled, and two blocks share a word
\* only if they are the same node (initDFGNodeMap() and runOnModule() of
\* afl-llvm-pass.so.cc).
THEOREM NodesCorrect == Spec => []NodesInRange
<1>1. ASSUME BuildInv, NodesRead, NodesCompiled PROVE NodesInRange
  <2>1. code \in Seq(CompiledBlock) /\ DOMAIN code = 1 .. Len(code)
    BY <1>1 DEF BuildInv
  <2>2. ASSUME NEW b \in DOMAIN code, code[b].node # NoNode
        PROVE  /\ NodeKey(b) \in DOMAIN dfg_node_map
               /\ code[b].node = dfg_node_map[NodeKey(b)]
               /\ code[b].node.idx \in 0 .. DFG_MAP_SIZE - 1
               /\ dfg_file[code[b].node.idx + 1].line = NodeKey(b)
    <3>1. NodeKey(b) \in DOMAIN dfg_node_map /\ code[b].node = dfg_node_map[NodeKey(b)]
      BY <1>1, <2>1, <2>2 DEF NodesCompiled, NodeSet
    <3>2. /\ code[b].node.idx \in 0 .. idx - 1
          /\ dfg_file[code[b].node.idx + 1].line = NodeKey(b)
      BY <1>1, <3>1 DEF NodesRead
    <3>3. code # <<>>
      BY <2>1
    <3>4. idx < DFG_MAP_SIZE /\ idx \in Nat
      BY <1>1, <3>3, FileTyped DEF BuildInv
    <3>5. 0 .. idx - 1 \subseteq 0 .. DFG_MAP_SIZE - 1
      BY <3>4, TracingAssumption
    <3>6. QED
      BY <3>1, <3>2, <3>5
  <2>3. QED
    BY <2>2 DEF NodesInRange
<1>2. QED
  BY <1>1, BuildCorrect, PTL

----------------------------------------------------------------------------
(* The virgin map. *)

\* The bits that no pair of s stands for.
Unseen(s) == [l \in Loc |-> {b \in Bits : <<l, b>> \notin s}]

\* A location that no pair of s is about.
NewIn(trace, s) == \E l \in Loc : trace[l] # {} /\ ~ \E p \in s : p[1] = l

\* The pairs of a trace are its bits.
LEMMA PairsOf ==
  ASSUME NEW t \in Trace
  PROVE  /\ Pairs(t) \subseteq Loc \X Bits
         /\ \A l \in Loc : \A b : <<l, b>> \in Pairs(t) <=> b \in t[l]
<1>1. ASSUME NEW p \in Pairs(t) PROVE p \in Loc \X Bits /\ p[2] \in t[p[1]]
  <2>1. PICK l \in Loc : p \in {<<l, b>> : b \in t[l]}
    BY <1>1 DEF Pairs
  <2>2. PICK b \in t[l] : p = <<l, b>>
    BY <2>1
  <2>3. t[l] \subseteq Bits
    BY DEF Trace
  <2>4. QED
    BY <2>2, <2>3
<1>2. ASSUME NEW l \in Loc, NEW b \in t[l] PROVE <<l, b>> \in Pairs(t)
  BY DEF Pairs
<1>3. ASSUME NEW l \in Loc, NEW b, <<l, b>> \in Pairs(t) PROVE b \in t[l]
  BY <1>1, <1>3
<1>4. QED
  BY <1>1, <1>2, <1>3

\* What a history has left is a virgin map.
LEMMA UnseenTyped ==
  ASSUME NEW s
  PROVE  Unseen(s) \in Trace /\ \A l \in Loc : \A b : b \in Unseen(s)[l] <=> b \in Bits /\ <<l, b>> \notin s
BY DEF Unseen, Trace

\* What has_new_bits() makes of a virgin map that is what the pairs of s have left.
LEMMA Examined ==
  ASSUME NEW t \in Trace, NEW s \in SUBSET (Loc \X Bits)
  PROVE  /\ has_new_bits(t, Unseen(s)).virgin = Unseen(s \cup Pairs(t))
         /\ has_new_bits(t, Unseen(s)).ret \in {0, 1, 2}
         /\ has_new_bits(t, Unseen(s)).ret = 0 <=> Pairs(t) \subseteq s
         /\ has_new_bits(t, Unseen(s)).ret = 2 <=> NewIn(t, s)
<1> DEFINE r == has_new_bits(t, Unseen(s))
<1>1. r = Compared(t, Unseen(s), Loc)
  BY UnseenTyped, HasNewBits
<1>2. /\ r.virgin = Clear(Unseen(s), t, Loc)
      /\ r.ret = IF NewTuple(t, Unseen(s), Loc) THEN 2
                 ELSE IF Overlap(t, Unseen(s), Loc) THEN 1 ELSE 0
  BY <1>1 DEF Compared
<1> HIDE DEF r
<1>3. r.virgin = Unseen(s \cup Pairs(t))
  <2>1. ASSUME NEW l \in Loc
        PROVE  Unseen(s)[l] \ t[l] = {b \in Bits : <<l, b>> \notin s \cup Pairs(t)}
    <3>1. \A b : b \in Unseen(s)[l] <=> b \in Bits /\ <<l, b>> \notin s
      BY UnseenTyped
    <3>2. \A b : <<l, b>> \in Pairs(t) <=> b \in t[l]
      BY PairsOf
    <3>3. QED
      BY <3>1, <3>2
  <2>2. Clear(Unseen(s), t, Loc) = [l \in Loc |-> Unseen(s)[l] \ t[l]]
    BY DEF Clear
  <2>3. QED
    BY <1>2, <2>1, <2>2 DEF Unseen
<1>4. Overlap(t, Unseen(s), Loc) <=> ~(Pairs(t) \subseteq s)
  <2>1. ASSUME Overlap(t, Unseen(s), Loc) PROVE ~(Pairs(t) \subseteq s)
    <3>1. PICK l \in Loc : t[l] \cap Unseen(s)[l] # {}
      BY <2>1 DEF Overlap
    <3>2. PICK b \in t[l] : b \in Unseen(s)[l]
      BY <3>1
    <3>3. <<l, b>> \in Pairs(t) /\ <<l, b>> \notin s
      BY <3>2, PairsOf, UnseenTyped
    <3>4. QED
      BY <3>3
  <2>2. ASSUME NEW p \in Pairs(t), p \notin s PROVE Overlap(t, Unseen(s), Loc)
    <3>1. PICK l \in Loc, b \in Bits : p = <<l, b>>
      BY PairsOf
    <3>2. b \in t[l] /\ b \in Unseen(s)[l]
      BY <2>2, <3>1, PairsOf, UnseenTyped
    <3>3. QED
      BY <3>2 DEF Overlap
  <2>3. QED
    BY <2>1, <2>2
<1>5. NewTuple(t, Unseen(s), Loc) <=> NewIn(t, s)
  <2>1. ASSUME NEW l \in Loc PROVE Unseen(s)[l] = Bits <=> ~ \E p \in s : p[1] = l
    <3>1. ASSUME NEW p \in s, p[1] = l PROVE Unseen(s)[l] # Bits
      <4>1. p = <<l, p[2]>> /\ p[2] \in Bits
        BY <3>1
      <4>2. p[2] \notin Unseen(s)[l]
        BY <4>1, UnseenTyped
      <4>3. QED
        BY <4>1, <4>2
    <3>2. ASSUME ~ \E p \in s : p[1] = l PROVE Unseen(s)[l] = Bits
      <4>1. \A b \in Bits : <<l, b>> \notin s
        BY <3>2
      <4>2. QED
        BY <4>1 DEF Unseen
    <3>3. QED
      BY <3>1, <3>2
  <2>2. QED
    BY <2>1 DEF NewTuple, NewIn
<1>6. NewTuple(t, Unseen(s), Loc) => Overlap(t, Unseen(s), Loc)
  BY UnseenTyped DEF NewTuple, Overlap, Trace
<1>7. r.virgin = Unseen(s \cup Pairs(t)) /\ r.ret \in {0, 1, 2}
      /\ (r.ret = 0 <=> Pairs(t) \subseteq s) /\ (r.ret = 2 <=> NewIn(t, s))
  BY <1>2, <1>3, <1>4, <1>5, <1>6
<1>8. QED
  BY <1>7 DEF r

\* The calibration in progress: its first trace has been examined.
Calibration ==
  [on : {TRUE}, first_trace : Trace, stage_cur : Nat, stage_max : {CAL_CYCLES, CAL_CYCLES_LONG},
   new_bits : {0, 1, 2}, var_detected : BOOLEAN]
CalInv ==
  /\ phase = "calibrate" => cal \in Calibration /\ Pairs(cal.first_trace) \subseteq seen
  /\ phase # "calibrate" => cal = NoCal

\* virgin_bits and its copy on disk are what the histories have left of a pristine map.
MapInv ==
  /\ trace_bits \in Trace /\ input \in Inputs \cup {{}}
  /\ seen \in SUBSET (Loc \X Bits) /\ file_seen \in SUBSET (Loc \X Bits)
  /\ virgin_bits = Unseen(seen)
  /\ fuzz_bitmap # <<>> => fuzz_bitmap = Unseen(file_seen)
  /\ bitmap_changed \in BOOLEAN
  /\ ~bitmap_changed => fuzz_bitmap = virgin_bits

\* The map of a new session is pristine, and nothing was examined.
LEMMA MapInit == Init => MapInv /\ CalInv
<1> SUFFICES ASSUME Init PROVE MapInv /\ CalInv
  OBVIOUS
<1>1. /\ trace_bits = [l \in Loc |-> {}] /\ input = {} /\ seen = {} /\ file_seen = {}
      /\ virgin_bits = Pristine /\ fuzz_bitmap = <<>> /\ bitmap_changed = TRUE
      /\ phase = "dfg" /\ cal = NoCal
  BY DEF Init
<1>2. Pristine = Unseen({})
  BY DEF Pristine, Unseen
<1>3. trace_bits \in Trace
  BY <1>1 DEF Trace
<1>4. QED
  BY <1>1, <1>2, <1>3 DEF MapInv, CalInv

\* A trace is compared with virgin_bits.
LEMMA ExamineStep ==
  ASSUME MapInv, NEW t \in Trace, Examine(t, has_new_bits(t, virgin_bits))
  PROVE  /\ seen' = seen \cup Pairs(t) /\ seen' \in SUBSET (Loc \X Bits)
         /\ virgin_bits' = Unseen(seen') /\ bitmap_changed' \in BOOLEAN
         /\ ~bitmap_changed' => ~bitmap_changed /\ virgin_bits' = virgin_bits
         /\ UNCHANGED <<virgin_tmout, virgin_crash>>
<1> DEFINE r == has_new_bits(t, virgin_bits)
<1>1. seen \in SUBSET (Loc \X Bits) /\ virgin_bits = Unseen(seen) /\ bitmap_changed \in BOOLEAN
  BY DEF MapInv
<1>2. /\ r.virgin = Unseen(seen \cup Pairs(t)) /\ r.ret \in {0, 1, 2}
      /\ r.ret = 0 <=> Pairs(t) \subseteq seen
  BY <1>1, Examined
<1>3. /\ virgin_bits' = r.virgin /\ bitmap_changed' = (bitmap_changed \/ r.ret > 0)
      /\ seen' = seen \cup Pairs(t) /\ UNCHANGED <<virgin_tmout, virgin_crash>>
  BY DEF Examine
<1> HIDE DEF r
<1>4. seen' \in SUBSET (Loc \X Bits)
  BY <1>1, <1>3, PairsOf
<1>5. bitmap_changed' \in BOOLEAN
  BY <1>3
<1>6. ~bitmap_changed' => ~bitmap_changed /\ ~(r.ret > 0)
  BY <1>3
<1>7. ~(r.ret > 0) => virgin_bits' = virgin_bits
  <2> SUFFICES ASSUME ~(r.ret > 0) PROVE virgin_bits' = virgin_bits
    OBVIOUS
  <2>1. r.ret = 0
    BY <1>2
  <2>2. seen \cup Pairs(t) = seen
    BY <1>2, <2>1
  <2>3. QED
    BY <1>1, <1>2, <1>3, <2>2
<1>8. QED
  BY <1>2, <1>3, <1>4, <1>5, <1>6, <1>7

\* An execution of calibrate_case(): new bits are examined, and the calibration counts
\* a location that no execution had hit before.
LEMMA CalibrateStep ==
  ASSUME BuildInv, MapInv, CalInv, calibrate_case
  PROVE  /\ trace_bits' \in Trace /\ CalInv'
         /\ seen' \in SUBSET (Loc \X Bits) /\ virgin_bits' = Unseen(seen')
         /\ bitmap_changed' \in BOOLEAN
         /\ ~bitmap_changed' => ~bitmap_changed /\ virgin_bits' = virgin_bits
         /\ UNCHANGED <<virgin_tmout, virgin_crash, fileVars, input, faultVars, countVars>>
         /\ \E c, bits : \E new \in BOOLEAN :
              /\ seen' = seen \cup bits /\ bits \in SUBSET (Loc \X Bits)
              /\ c.new_bits = 2 <=> cal.new_bits = 2 \/ new
              /\ \/ \E complete : EndCalibration(c, bits, new, complete)
                 \/ GoOn(c, bits, new)
<1>1. /\ phase = "calibrate" /\ cal \in Calibration /\ Pairs(cal.first_trace) \subseteq seen
      /\ code \in Seq(CompiledBlock) /\ Len(code) = Len(Blocks)
      /\ UNCHANGED <<fileVars, input, faultVars, countVars>>
  BY DEF calibrate_case, CalInv, BuildInv, Fuzzing
<1>2. input \in Inputs \cup {{}} /\ seen \in SUBSET (Loc \X Bits) /\ virgin_bits = Unseen(seen)
      /\ bitmap_changed \in BOOLEAN
  BY DEF MapInv
<1> DEFINE differs == trace_bits' # cal.first_trace
           r == IF differs THEN has_new_bits(trace_bits', virgin_bits)
                ELSE [ret |-> 0, virgin |-> virgin_bits]
           vars_found == {l \in Loc : cal.first_trace[l] # trace_bits'[l]}
           c == [cal EXCEPT !.stage_cur = @ + 1,
                            !.new_bits = IF r.ret > @ THEN r.ret ELSE @,
                            !.var_detected = @ \/ differs,
                            !.stage_max = IF vars_found \subseteq var_bytes THEN @
                                          ELSE CAL_CYCLES_LONG]
           bits == IF differs THEN Pairs(trace_bits') \ seen ELSE {}
           new  == differs /\ IsNew(trace_bits')
           trace == IF differs THEN trace_bits' ELSE cal.first_trace
<1>3. PICK o \in input :
        /\ run_target(o)
        /\ \/ EndCalibration(cal, {}, FALSE, FALSE) /\ UNCHANGED <<mapVars, seen>>
           \/ /\ Examine(trace, r)
              /\ EndCalibration(c, bits, new, TRUE) \/ GoOn(c, bits, new)
  BY DEF calibrate_case
<1>4. trace_bits' \in Trace
  BY <1>1, <1>2, <1>3, RunTyped
<1>5. CASE EndCalibration(cal, {}, FALSE, FALSE) /\ UNCHANGED <<mapVars, seen>>
  <2>1. UNCHANGED <<virgin_bits, virgin_tmout, virgin_crash, bitmap_changed, seen>>
    BY <1>5 DEF mapVars
  <2>2. cal' = NoCal /\ phase' # "calibrate"
    BY <1>5 DEF EndCalibration
  <2>3. CalInv'
    BY <2>2 DEF CalInv
  <2>4. \E cc, bb : \E n \in BOOLEAN :
              /\ seen' = seen \cup bb /\ bb \in SUBSET (Loc \X Bits)
              /\ cc.new_bits = 2 <=> cal.new_bits = 2 \/ n
              /\ \/ \E complete : EndCalibration(cc, bb, n, complete)
                 \/ GoOn(cc, bb, n)
    <3>1. seen' = seen \cup {} /\ {} \in SUBSET (Loc \X Bits)
      BY <2>1
    <3>2. cal.new_bits = 2 <=> cal.new_bits = 2 \/ FALSE
      OBVIOUS
    <3>3. QED
      BY <1>5, <3>1, <3>2, Zenon
  <2>5. QED
    BY <1>1, <1>2, <1>4, <2>1, <2>3, <2>4
<1>6. CASE /\ Examine(trace, r)
           /\ EndCalibration(c, bits, new, TRUE) \/ GoOn(c, bits, new)
  <2>1. /\ seen' = seen \cup Pairs(trace) /\ seen' \in SUBSET (Loc \X Bits)
        /\ virgin_bits' = Unseen(seen') /\ bitmap_changed' \in BOOLEAN
        /\ ~bitmap_changed' => ~bitmap_changed /\ virgin_bits' = virgin_bits
        /\ UNCHANGED <<virgin_tmout, virgin_crash>>
    <3>1. CASE differs
      <4>1. Examine(trace_bits', has_new_bits(trace_bits', virgin_bits)) /\ trace = trace_bits'
        BY <1>6, <3>1
      <4> HIDE DEF trace
      <4>2. QED
        BY <1>4, <4>1, ExamineStep
    <3>2. CASE ~differs
      <4>1. Examine(cal.first_trace, [ret |-> 0, virgin |-> virgin_bits]) /\ trace = cal.first_trace
        BY <1>6, <3>2
      <4> HIDE DEF trace
      <4>2. /\ virgin_bits' = virgin_bits /\ bitmap_changed' = (bitmap_changed \/ 0 > 0)
            /\ seen' = seen \cup Pairs(cal.first_trace) /\ UNCHANGED <<virgin_tmout, virgin_crash>>
        BY <4>1 DEF Examine
      <4>3. seen' = seen
        BY <1>1, <4>2
      <4>4. bitmap_changed' = bitmap_changed
        BY <1>2, <4>2
      <4>5. QED
        BY <1>2, <4>1, <4>2, <4>3, <4>4
    <3>3. QED
      BY <3>1, <3>2
  <2>2. bits \in SUBSET (Loc \X Bits) /\ seen' = seen \cup bits
    <3>1. CASE differs
      BY <1>4, <2>1, <3>1, PairsOf
    <3>2. CASE ~differs
      <4>1. seen' = seen \cup Pairs(cal.first_trace) /\ bits = {}
        BY <2>1, <3>2
      <4>2. QED
        BY <1>1, <4>1
    <3>3. QED
      BY <3>1, <3>2
  <2>3. new \in BOOLEAN /\ r.ret \in {0, 1, 2} /\ (r.ret = 2 <=> new)
    <3>1. IsNew(trace_bits') <=> NewIn(trace_bits', seen)
      BY DEF IsNew, NewIn
    <3>2. CASE differs
      <4>1. /\ has_new_bits(trace_bits', virgin_bits).ret \in {0, 1, 2}
            /\ has_new_bits(trace_bits', virgin_bits).ret = 2 <=> NewIn(trace_bits', seen)
        BY <1>2, <1>4, Examined
      <4>2. QED
        BY <3>1, <3>2, <4>1
    <3>3. CASE ~differs
      BY <3>3
    <3>4. QED
      BY <3>2, <3>3
  <2> HIDE DEF r, bits, new, trace, vars_found
  <2>4. /\ cal.stage_cur \in Nat /\ cal.new_bits \in {0, 1, 2} /\ cal.var_detected \in BOOLEAN
        /\ cal.first_trace \in Trace /\ cal.stage_max \in {CAL_CYCLES, CAL_CYCLES_LONG}
    BY <1>1 DEF Calibration
  <2>5. /\ c \in Calibration /\ c.first_trace = cal.first_trace
        /\ c.new_bits = IF r.ret > cal.new_bits THEN r.ret ELSE cal.new_bits
    <3> DEFINE nb == IF r.ret > cal.new_bits THEN r.ret ELSE cal.new_bits
               vd == cal.var_detected \/ differs
               sm == IF vars_found \subseteq var_bytes THEN cal.stage_max ELSE CAL_CYCLES_LONG
    <3>1. /\ nb \in {0, 1, 2} /\ vd \in BOOLEAN /\ sm \in {CAL_CYCLES, CAL_CYCLES_LONG}
          /\ cal.stage_cur + 1 \in Nat
      BY <2>3, <2>4
    <3>2. c = [cal EXCEPT !.stage_cur = cal.stage_cur + 1, !.new_bits = nb,
                          !.var_detected = vd, !.stage_max = sm]
      BY <1>1 DEF Calibration
    <3> HIDE DEF nb, vd, sm, c
    <3>3. c \in Calibration /\ c.first_trace = cal.first_trace /\ c.new_bits = nb
      BY <1>1, <3>1, <3>2 DEF Calibration
    <3>4. QED
      BY <3>3 DEF nb
  <2>6. c.new_bits = 2 <=> cal.new_bits = 2 \/ new
    BY <2>3, <2>4, <2>5
  <2> HIDE DEF c
  <2>7. CalInv'
    <3>1. CASE EndCalibration(c, bits, new, TRUE)
      <4>1. cal' = NoCal /\ phase' # "calibrate"
        BY <3>1 DEF EndCalibration
      <4>2. QED
        BY <4>1 DEF CalInv
    <3>2. CASE GoOn(c, bits, new)
      <4>1. cal' = c /\ phase' = "calibrate"
        BY <1>1, <3>2 DEF GoOn
      <4>2. Pairs(cal'.first_trace) \subseteq seen'
        BY <1>1, <2>1, <2>5, <4>1
      <4>3. QED
        BY <2>5, <4>1, <4>2 DEF CalInv
    <3>3. QED
      BY <1>6, <3>1, <3>2
  <2>8. \E cc, bb : \E n \in BOOLEAN :
              /\ seen' = seen \cup bb /\ bb \in SUBSET (Loc \X Bits)
              /\ cc.new_bits = 2 <=> cal.new_bits = 2 \/ n
              /\ \/ \E complete : EndCalibration(cc, bb, n, complete)
                 \/ GoOn(cc, bb, n)
    BY <1>6, <2>2, <2>3, <2>6, Zenon
  <2>9. QED
    BY <1>1, <1>4, <2>1, <2>7, <2>8
<1>7. QED
  BY <1>3, <1>5, <1>6

\* An entry of the queue, as far as it matters here.
IsEntry(e) ==
  /\ DOMAIN e = {"name_score", "prox_score", "has_new_cov", "bitmap_size", "var_behavior",
                 "found_by", "kept_by", "new_cov", "bits"}
  /\ e.bits \in SUBSET (Loc \X Bits)
  /\ e.has_new_cov \in BOOLEAN /\ e.new_cov \in BOOLEAN

\* What save_if_interesting() does to the queue and to the virgin map.
LEMMA QueueStep ==
  ASSUME MapInv, CalInv, queue_if_new
  PROVE  /\ CalInv'
         /\ seen' \in SUBSET (Loc \X Bits) /\ virgin_bits' = Unseen(seen')
         /\ bitmap_changed' \in BOOLEAN
         /\ ~bitmap_changed' => ~bitmap_changed /\ virgin_bits' = virgin_bits
         /\ UNCHANGED <<trace_bits, virgin_tmout, virgin_crash, fileVars, input, faultVars, countVars>>
         /\ phase = "judge"
         /\ \/ seen' = seen /\ UNCHANGED entries /\ phase' = "fuzz"
            \/ \E e : /\ IsEntry(e) /\ e.bits # {} /\ seen' = seen \cup e.bits
                      /\ e.has_new_cov <=> e.new_cov
                      /\ entries' = Append(entries, e)
                      /\ phase' = "calibrate" /\ cal'.new_bits = 0
<1> DEFINE r == has_new_bits(trace_bits, virgin_bits)
           e == [name_score |-> compute_proximity_score(dfg_bits),
                 prox_score |-> compute_proximity_score(dfg_bits),
                 has_new_cov |-> r.ret = 2, bitmap_size |-> 0, var_behavior |-> FALSE,
                 found_by |-> run, kept_by |-> run,
                 new_cov |-> IsNew(trace_bits), bits |-> Pairs(trace_bits) \ seen]
           c == [on |-> TRUE, first_trace |-> trace_bits, stage_cur |-> 0,
                 stage_max |-> CAL_CYCLES, new_bits |-> 0, var_detected |-> FALSE]
<1>1. /\ phase = "judge" /\ Examine(trace_bits, r)
      /\ UNCHANGED <<trace_bits, fileVars, input, faultVars, countVars>>
      /\ IF r.ret = 0 THEN phase' = "fuzz" /\ UNCHANGED <<entries, cal>>
         ELSE phase' = "calibrate" /\ entries' = Append(entries, e) /\ cal' = c
  BY DEF queue_if_new, faultVars
<1>2. /\ trace_bits \in Trace /\ seen \in SUBSET (Loc \X Bits) /\ virgin_bits = Unseen(seen)
  BY DEF MapInv
<1>3. /\ seen' = seen \cup Pairs(trace_bits) /\ seen' \in SUBSET (Loc \X Bits)
      /\ virgin_bits' = Unseen(seen') /\ bitmap_changed' \in BOOLEAN
      /\ ~bitmap_changed' => ~bitmap_changed /\ virgin_bits' = virgin_bits
      /\ UNCHANGED <<virgin_tmout, virgin_crash>>
  BY <1>1, <1>2, ExamineStep
<1>4. /\ r.ret = 0 <=> Pairs(trace_bits) \subseteq seen
      /\ r.ret = 2 <=> NewIn(trace_bits, seen)
  BY <1>2, Examined
<1> HIDE DEF r
<1>5. CASE r.ret = 0
  <2>1. seen' = seen
    BY <1>3, <1>4, <1>5
  <2>2. phase' = "fuzz" /\ cal' = cal /\ entries' = entries
    BY <1>1, <1>5
  <2>3. cal = NoCal
    BY <1>1 DEF CalInv
  <2>4. CalInv'
    BY <2>2, <2>3 DEF CalInv
  <2>5. QED
    BY <1>1, <1>3, <2>1, <2>2, <2>4
<1>6. CASE r.ret # 0
  <2>1. phase' = "calibrate" /\ entries' = Append(entries, e) /\ cal' = c
    BY <1>1, <1>6
  <2>2. c \in Calibration /\ c.first_trace = trace_bits /\ c.new_bits = 0
    BY <1>2 DEF Calibration
  <2> HIDE DEF c
  <2>3. CalInv'
    <3>1. Pairs(cal'.first_trace) \subseteq seen'
      BY <1>3, <2>1, <2>2
    <3>2. QED
      BY <2>1, <2>2, <3>1 DEF CalInv
  <2>4. e.bits = Pairs(trace_bits) \ seen
    OBVIOUS
  <2>5. e.bits # {} /\ seen' = seen \cup e.bits /\ e.bits \in SUBSET (Loc \X Bits)
    BY <1>2, <1>3, <1>4, <1>6, <2>4, PairsOf
  <2>6. (e.has_new_cov <=> e.new_cov) /\ e.has_new_cov \in BOOLEAN /\ e.new_cov \in BOOLEAN
    <3>1. IsNew(trace_bits) <=> NewIn(trace_bits, seen)
      BY DEF IsNew, NewIn
    <3>2. e.has_new_cov = (r.ret = 2) /\ e.new_cov = IsNew(trace_bits)
      OBVIOUS
    <3>3. IsNew(trace_bits) \in BOOLEAN
      BY DEF IsNew
    <3> HIDE DEF e
    <3>4. QED
      BY <1>4, <3>1, <3>2, <3>3
  <2>7. DOMAIN e = {"name_score", "prox_score", "has_new_cov", "bitmap_size", "var_behavior",
                    "found_by", "kept_by", "new_cov", "bits"}
    OBVIOUS
  <2> HIDE DEF e
  <2>8. IsEntry(e)
    BY <2>5, <2>6, <2>7 DEF IsEntry
  <2>9. QED
    BY <1>1, <1>3, <2>1, <2>2, <2>3, <2>5, <2>6, <2>8
<1>7. QED
  BY <1>5, <1>6

\* A simplified trace is a trace.
LEMMA SimplifyTyped ==
  ASSUME NEW t
  PROVE  simplify_trace(t) \in Trace
BY DEF simplify_trace, Trace, Bits

\* All other steps leave the virgin map alone or replace it and its history together.
LEMMA MapStep ==
  ASSUME BuildInv, MapInv, CalInv, [Next]_vars
  PROVE  (MapInv /\ CalInv)'
<1>1. CASE UNCHANGED vars
  BY <1>1 DEF vars, mapVars, fileVars, MapInv, CalInv
<1>2. CASE read_dfg_line \/ compile_block
  <2>1. UNCHANGED fuzzVars /\ phase # "calibrate" /\ phase' # "calibrate"
    BY <1>2 DEF read_dfg_line, compile_block
  <2>2. QED
    BY <2>1 DEF fuzzVars, mapVars, fileVars, MapInv, CalInv
<1>3. CASE common_fuzz_stuff
  <2>1. PICK x \in Inputs : \E o \in x : input' = x /\ run_target(o)
    BY <1>3 DEF common_fuzz_stuff
  <2>2. PICK o \in x : input' = x /\ run_target(o)
    BY <2>1
  <2>3. phase = "fuzz" /\ phase' \in {"fuzz", "judge"} /\ UNCHANGED <<mapVars, fileVars, cal, seen>>
    BY <1>3, Zenon DEF common_fuzz_stuff
  <2>4. trace_bits' \in Trace
    BY <2>2, <2>3, RunTyped DEF BuildInv, Fuzzing
  <2>5. QED
    BY <2>2, <2>3, <2>4 DEF mapVars, fileVars, MapInv, CalInv
<1>4. CASE skip_requested \/ ignore_fault
  <2>1. UNCHANGED fuzzVars /\ phase # "calibrate" /\ phase' # "calibrate"
    BY <1>4 DEF skip_requested, ignore_fault
  <2>2. QED
    BY <2>1 DEF fuzzVars, mapVars, fileVars, MapInv, CalInv
<1>5. CASE queue_if_new
  BY <1>5, QueueStep DEF MapInv, fileVars
<1>6. CASE calibrate_case
  BY <1>6, CalibrateStep DEF MapInv, fileVars
<1>7. CASE judge_tmout
  <2>1. /\ phase = "judge" /\ phase' \in {"fuzz", "rerun"}
        /\ UNCHANGED <<virgin_bits, bitmap_changed, fileVars, cal, input, seen>>
        /\ trace_bits' \in {trace_bits, simplify_trace(trace_bits)}
    BY <1>7 DEF judge_tmout
  <2>2. trace_bits' \in Trace
    BY <2>1, SimplifyTyped DEF MapInv
  <2>3. QED
    BY <2>1, <2>2 DEF fileVars, MapInv, CalInv
<1>8. CASE rerun_hang
  <2>1. PICK o \in input : run_target(o)
    BY <1>8 DEF rerun_hang
  <2>2. phase = "rerun" /\ phase' \in {"fuzz", "crash"} /\ UNCHANGED <<mapVars, fileVars, cal, input, seen>>
    BY <1>8, Zenon DEF rerun_hang
  <2>3. input \in Inputs \cup {{}}
    BY DEF MapInv
  <2>4. trace_bits' \in Trace
    BY <2>1, <2>2, <2>3, RunTyped DEF BuildInv, Fuzzing
  <2>5. QED
    BY <2>2, <2>4 DEF mapVars, fileVars, MapInv, CalInv
<1>9. CASE keep_as_crash
  <2>1. /\ phase # "calibrate" /\ phase' = "fuzz"
        /\ UNCHANGED <<virgin_bits, bitmap_changed, fileVars, cal, input, seen>>
        /\ trace_bits' \in {trace_bits, simplify_trace(trace_bits)}
    BY <1>9 DEF keep_as_crash
  <2>2. trace_bits' \in Trace
    BY <2>1, SimplifyTyped DEF MapInv
  <2>3. QED
    BY <2>1, <2>2 DEF fileVars, MapInv, CalInv
<1>10. CASE write_bitmap
  BY <1>10 DEF write_bitmap, MapInv, CalInv
<1>11. CASE read_bitmap
  <2>1. /\ phase = "fuzz" /\ phase' = phase /\ fuzz_bitmap # <<>>
        /\ virgin_bits' = fuzz_bitmap /\ seen' = file_seen /\ bitmap_changed' = TRUE
        /\ UNCHANGED <<trace_bits, fuzz_bitmap, file_seen, cal, input>>
    BY <1>11 DEF read_bitmap, fileVars
  <2>2. QED
    BY <2>1 DEF MapInv, CalInv
<1>12. QED
  BY <1>1, <1>2, <1>3, <1>4, <1>5, <1>6, <1>7, <1>8, <1>9, <1>10, <1>11 DEF Next

\* The invariants of the virgin map.
LEMMA MapCorrect == Spec => [](MapInv /\ CalInv)
<1>1. BuildInv /\ MapInv /\ CalInv /\ [Next]_vars => (MapInv /\ CalInv)'
  BY MapStep
<1>2. QED
  BY MapInit, <1>1, BuildCorrect, PTL DEF Spec

\* virgin_bits is exactly what no examined execution has set, for any map, word size and
\* history of sessions, and fuzz_bitmap is a copy of it unless bitmap_changed says that it
\* is out of date (has_new_bits(), write_bitmap() and read_bitmap() of afl-fuzz.c).
THEOREM VirginCorrect == Spec => []VirginExact
<1>1. ASSUME MapInv PROVE VirginExact
  <2>1. \A l \in Loc : virgin_bits[l] = {b \in Bits : <<l, b>> \notin seen}
    BY <1>1 DEF MapInv, Unseen
  <2>2. ~bitmap_changed => fuzz_bitmap = virgin_bits
    BY <1>1 DEF MapInv
  <2>3. QED
    BY <2>1, <2>2 DEF VirginExact
<1>2. QED
  BY <1>1, MapCorrect, PTL

----------------------------------------------------------------------------
(* The queue. *)

\* What the entries have brought, and how they are marked; the last entry may still be in
\* calibration, whose result it gets at the end.
AllBits(q) == UNION {q[k].bits : k \in 1 .. Len(q)}
NoveltyInv ==
  /\ entries \in Seq(ToSet(entries)) /\ restarts \in Nat
  /\ restarts = 0 => seen = AllBits(entries)
  /\ \A k \in 1 .. Len(entries) : IsEntry(entries[k]) /\ entries[k].bits # {}
  /\ \A k \in 1 .. Len(entries) :
       phase # "calibrate" \/ k # Len(entries) => (entries[k].has_new_cov <=> entries[k].new_cov)
  /\ phase = "calibrate" =>
       /\ Len(entries) # 0
       /\ entries[Len(entries)].has_new_cov \/ cal.new_bits = 2 <=> entries[Len(entries)].new_cov

\* A sequence is one over its own elements.
LEMMA OwnElements ==
  ASSUME NEW S, NEW s \in Seq(S)
  PROVE  s \in Seq(ToSet(s))
<1>1. Len(s) \in Nat /\ DOMAIN s = 1 .. Len(s) /\ s = [k \in 1 .. Len(s) |-> s[k]]
  OBVIOUS
<1>2. \A k \in 1 .. Len(s) : s[k] \in ToSet(s)
  BY <1>1 DEF ToSet
<1>3. QED
  BY <1>1, <1>2

\* A bit was brought by the queue if one of its entries brought it.
LEMMA BitsOf ==
  ASSUME NEW q, NEW p
  PROVE  p \in AllBits(q) <=> \E k \in 1 .. Len(q) : p \in q[k].bits
BY DEF AllBits

\* An entry is added, or the last one is replaced by v, which brought bits more.
LEMMA EntryAdded ==
  ASSUME NEW q, q \in Seq(ToSet(q)), NEW e
  PROVE  /\ Append(q, e) \in Seq(ToSet(Append(q, e)))
         /\ Len(Append(q, e)) = Len(q) + 1 /\ Append(q, e)[Len(q) + 1] = e
         /\ \A k \in 1 .. Len(q) : Append(q, e)[k] = q[k]
         /\ AllBits(Append(q, e)) = AllBits(q) \cup e.bits
<1> DEFINE T == ToSet(q) \cup {e}
           q2 == Append(q, e)
<1>1. q \in Seq(T) /\ e \in T
  BY SeqMonotonic
<1> HIDE DEF T
<1>2. /\ q2 \in Seq(T) /\ Len(q2) = Len(q) + 1 /\ q2[Len(q) + 1] = e /\ Len(q) \in Nat
      /\ \A k \in 1 .. Len(q) : q2[k] = q[k]
  BY <1>1
<1> HIDE DEF q2
<1>3. q2 \in Seq(ToSet(q2))
  BY <1>2, OwnElements
<1>4. ASSUME NEW p PROVE p \in AllBits(q2) <=> p \in AllBits(q) \/ p \in e.bits
  <2>1. p \in AllBits(q2) <=> \E k \in 1 .. Len(q) + 1 : p \in q2[k].bits
    BY <1>2, BitsOf
  <2>2. p \in AllBits(q) <=> \E k \in 1 .. Len(q) : p \in q[k].bits
    BY BitsOf
  <2>3. 1 .. Len(q) + 1 = (1 .. Len(q)) \cup {Len(q) + 1}
    BY <1>2
  <2>4. QED
    BY <1>2, <2>1, <2>2, <2>3
<1>5. AllBits(q2) = AllBits(q) \cup e.bits
  BY <1>4
<1>6. QED
  BY <1>2, <1>3, <1>5 DEF q2

ReplaceLast(q, v) == [q EXCEPT ![Len(q)] = v]
LEMMA EntryReplaced ==
  ASSUME NEW q, q \in Seq(ToSet(q)), Len(q) # 0, NEW v, q[Len(q)].bits \subseteq v.bits
  PROVE  /\ ReplaceLast(q, v) \in Seq(ToSet(ReplaceLast(q, v)))
         /\ Len(ReplaceLast(q, v)) = Len(q) /\ ReplaceLast(q, v)[Len(q)] = v
         /\ \A k \in 1 .. Len(q) : k # Len(q) => ReplaceLast(q, v)[k] = q[k]
         /\ AllBits(ReplaceLast(q, v)) = AllBits(q) \cup v.bits
<1> DEFINE T == ToSet(q) \cup {v}
           n == Len(q)
           q2 == ReplaceLast(q, v)
<1>1. n \in Nat \ {0} /\ n \in 1 .. n
  OBVIOUS
<1>2. q \in Seq(T) /\ v \in T
  BY SeqMonotonic
<1> HIDE DEF T
<1>3. /\ q2 \in Seq(T) /\ Len(q2) = n
      /\ \A k \in 1 .. n : q2[k] = IF k = n THEN v ELSE q[k]
  BY <1>1, <1>2, ExceptSeq DEF ReplaceLast
<1> HIDE DEF q2, n
<1>4. q2 \in Seq(ToSet(q2))
  BY <1>3, OwnElements
<1>5. ASSUME NEW p PROVE p \in AllBits(q2) <=> p \in AllBits(q) \/ p \in v.bits
  <2>1. p \in AllBits(q2) <=> \E k \in 1 .. n : p \in q2[k].bits
    BY <1>3, BitsOf
  <2>2. p \in AllBits(q) <=> \E k \in 1 .. n : p \in q[k].bits
    BY BitsOf DEF n
  <2>3. p \in q[n].bits => p \in v.bits
    BY DEF n
  <2>4. \A k \in 1 .. n : p \in q2[k].bits <=> (IF k = n THEN p \in v.bits ELSE p \in q[k].bits)
    BY <1>3
  <2>5. QED
    BY <1>1, <2>1, <2>2, <2>3, <2>4
<1>6. QED
  BY <1>1, <1>3, <1>4, <1>5 DEF n, q2

\* The queue is empty at first.
LEMMA NoveltyInit == Init => NoveltyInv
<1> SUFFICES ASSUME Init PROVE NoveltyInv
  OBVIOUS
<1>1. entries = <<>> /\ restarts = 0 /\ seen = {} /\ phase = "dfg"
  BY DEF Init
<1>2. entries \in Seq(ToSet(entries)) /\ Len(entries) = 0 /\ 1 .. Len(entries) = {}
  BY <1>1, EmptySeq
<1>3. AllBits(entries) = {}
  BY <1>2 DEF AllBits
<1>4. QED
  BY <1>1, <1>2, <1>3 DEF NoveltyInv

\* An input is queued only if it brings a bit, and marked as it deserves.
LEMMA NoveltyQueue ==
  ASSUME MapInv, CalInv, NoveltyInv, queue_if_new
  PROVE  NoveltyInv'
<1>1. /\ phase = "judge" /\ restarts' = restarts
      /\ \/ seen' = seen /\ UNCHANGED entries /\ phase' = "fuzz"
         \/ \E e : /\ IsEntry(e) /\ e.bits # {} /\ seen' = seen \cup e.bits
                   /\ e.has_new_cov <=> e.new_cov
                   /\ entries' = Append(entries, e)
                   /\ phase' = "calibrate" /\ cal'.new_bits = 0
  BY QueueStep DEF countVars
<1>2. CASE seen' = seen /\ UNCHANGED entries /\ phase' = "fuzz"
  BY <1>1, <1>2 DEF NoveltyInv
<1>3. ASSUME NEW e, IsEntry(e), e.bits # {}, seen' = seen \cup e.bits,
             e.has_new_cov <=> e.new_cov, entries' = Append(entries, e),
             phase' = "calibrate", cal'.new_bits = 0
      PROVE  NoveltyInv'
  <2>1. entries \in Seq(ToSet(entries)) /\ Len(entries) \in Nat
    BY DEF NoveltyInv
  <2>2. /\ entries' \in Seq(ToSet(entries')) /\ Len(entries') = Len(entries) + 1
        /\ entries'[Len(entries) + 1] = e
        /\ \A k \in 1 .. Len(entries) : entries'[k] = entries[k]
        /\ AllBits(entries') = AllBits(entries) \cup e.bits
    BY <1>3, <2>1, EntryAdded
  <2>3. \A k \in 1 .. Len(entries') : k # Len(entries') => k \in 1 .. Len(entries)
    BY <2>1, <2>2
  <2>4. \A k \in 1 .. Len(entries') : IsEntry(entries'[k]) /\ entries'[k].bits # {}
    BY <1>3, <2>2, <2>3 DEF NoveltyInv
  <2>5. \A k \in 1 .. Len(entries') :
          k # Len(entries') => (entries'[k].has_new_cov <=> entries'[k].new_cov)
    BY <1>1, <2>2, <2>3 DEF NoveltyInv
  <2>6. /\ Len(entries') # 0
        /\ entries'[Len(entries')].has_new_cov \/ cal'.new_bits = 2
             <=> entries'[Len(entries')].new_cov
    BY <1>3, <2>1, <2>2
  <2>7. restarts' \in Nat /\ (restarts' = 0 => seen' = AllBits(entries'))
    BY <1>1, <1>3, <2>2 DEF NoveltyInv
  <2>8. QED
    BY <1>3, <2>2, <2>4, <2>5, <2>6, <2>7 DEF NoveltyInv
<1>4. QED
  BY <1>1, <1>2, <1>3

\* What the two ways to end an execution of the calibration do to the last entry e: v is
\* what becomes of it.
Revised(v, e, bits, new, marked) ==
  /\ IsEntry(v) /\ v.bits = e.bits \cup bits
  /\ v.new_cov <=> e.new_cov \/ new
  /\ v.has_new_cov <=> e.has_new_cov \/ marked
LEMMA Updated ==
  ASSUME NEW c, NEW bits \in SUBSET (Loc \X Bits), NEW new \in BOOLEAN,
         IsEntry(entries[Len(entries)])
  PROVE  /\ GoOn(c, bits, new) =>
              \E v : /\ entries' = ReplaceLast(entries, v)
                     /\ Revised(v, entries[Len(entries)], bits, new, FALSE)
         /\ \A complete : EndCalibration(c, bits, new, complete) =>
              \E v : /\ entries' = ReplaceLast(entries, v)
                     /\ Revised(v, entries[Len(entries)], bits, new, c.new_bits = 2)
<1> DEFINE n == Len(entries)
           e == entries[n]
           nc == e.new_cov \/ new
           hn == e.has_new_cov \/ c.new_bits = 2
           bb == e.bits \cup bits
<1>1. IsEntry(e)
  OBVIOUS
<1>2. bb \in SUBSET (Loc \X Bits) /\ nc \in BOOLEAN /\ hn \in BOOLEAN
  BY <1>1 DEF IsEntry
<1>3. ASSUME GoOn(c, bits, new)
      PROVE  \E v : entries' = ReplaceLast(entries, v) /\ Revised(v, e, bits, new, FALSE)
  <2> DEFINE v == [e EXCEPT !.bits = @ \cup bits, !.new_cov = @ \/ new]
  <2>1. entries' = [entries EXCEPT ![n] = v]
    BY <1>3 DEF GoOn
  <2> HIDE DEF e
  <2>2. v.bits = bb /\ v.new_cov = nc /\ v.has_new_cov = e.has_new_cov /\ DOMAIN v = DOMAIN e
    BY <1>1 DEF IsEntry
  <2> HIDE DEF v, nc, bb
  <2>3. IsEntry(v)
    BY <1>1, <1>2, <2>2 DEF IsEntry
  <2>4. Revised(v, e, bits, new, FALSE)
    BY <2>2, <2>3 DEF nc, bb, Revised
  <2>5. QED
    BY <2>1, <2>4 DEF ReplaceLast
<1>4. ASSUME NEW complete, EndCalibration(c, bits, new, complete)
      PROVE  \E v : entries' = ReplaceLast(entries, v) /\ Revised(v, e, bits, new, c.new_bits = 2)
  <2> DEFINE v == [e EXCEPT !.has_new_cov = @ \/ c.new_bits = 2,
                            !.var_behavior = @ \/ c.var_detected,
                            !.bitmap_size = IF complete THEN count_bytes(trace_bits') ELSE @,
                            !.prox_score = IF complete THEN compute_proximity_score(dfg_bits')
                                           ELSE @,
                            !.kept_by = IF complete THEN run' ELSE @,
                            !.bits = @ \cup bits, !.new_cov = @ \/ new]
  <2>1. entries' = [entries EXCEPT ![n] = v]
    BY <1>4 DEF EndCalibration
  <2> HIDE DEF e
  <2>2. v.bits = bb /\ v.new_cov = nc /\ v.has_new_cov = hn /\ DOMAIN v = DOMAIN e
    BY <1>1 DEF IsEntry
  <2> HIDE DEF v, nc, bb, hn
  <2>3. IsEntry(v)
    BY <1>1, <1>2, <2>2 DEF IsEntry
  <2>4. Revised(v, e, bits, new, c.new_bits = 2)
    BY <2>2, <2>3 DEF nc, bb, hn, Revised
  <2>5. QED
    BY <2>1, <2>4 DEF ReplaceLast
<1>5. QED
  BY <1>3, <1>4

\* What the calibration finds is credited to the entry.
LEMMA NoveltyCalibrate ==
  ASSUME BuildInv, MapInv, CalInv, NoveltyInv, calibrate_case
  PROVE  NoveltyInv'
<1> DEFINE n == Len(entries)
           e == entries[n]
<1>1. phase = "calibrate" /\ restarts' = restarts
  BY DEF calibrate_case, countVars
<1>2. PICK c, bits : \E new \in BOOLEAN :
        /\ seen' = seen \cup bits /\ bits \in SUBSET (Loc \X Bits)
        /\ c.new_bits = 2 <=> cal.new_bits = 2 \/ new
        /\ \/ \E complete : EndCalibration(c, bits, new, complete)
           \/ GoOn(c, bits, new)
  BY CalibrateStep
<1>3. PICK new \in BOOLEAN :
        /\ seen' = seen \cup bits /\ bits \in SUBSET (Loc \X Bits)
        /\ c.new_bits = 2 <=> cal.new_bits = 2 \/ new
        /\ \/ \E complete : EndCalibration(c, bits, new, complete)
           \/ GoOn(c, bits, new)
  BY <1>2
<1>4. /\ entries \in Seq(ToSet(entries)) /\ Len(entries) # 0 /\ n \in Nat /\ n \in 1 .. n
      /\ IsEntry(e) /\ e.bits # {} /\ (e.has_new_cov \/ cal.new_bits = 2 <=> e.new_cov)
  BY <1>1 DEF NoveltyInv
<1>5. \/ /\ phase' # "calibrate"
         /\ \E v : entries' = ReplaceLast(entries, v) /\ Revised(v, e, bits, new, c.new_bits = 2)
      \/ /\ phase' = "calibrate" /\ cal' = c
         /\ \E v : entries' = ReplaceLast(entries, v) /\ Revised(v, e, bits, new, FALSE)
  <2>1. /\ GoOn(c, bits, new) =>
             \E v : entries' = ReplaceLast(entries, v) /\ Revised(v, e, bits, new, FALSE)
        /\ \A complete : EndCalibration(c, bits, new, complete) =>
             \E v : /\ entries' = ReplaceLast(entries, v)
                    /\ Revised(v, e, bits, new, c.new_bits = 2)
    BY <1>3, <1>4, Updated, Zenon
  <2>2. GoOn(c, bits, new) => phase' = "calibrate" /\ cal' = c
    BY <1>1 DEF GoOn
  <2>3. \A complete : EndCalibration(c, bits, new, complete) => phase' # "calibrate"
    BY DEF EndCalibration
  <2>4. QED
    BY <1>3, <2>1, <2>2, <2>3, Zenon
<1>6. PICK v : /\ entries' = ReplaceLast(entries, v)
               /\ \/ phase' # "calibrate" /\ Revised(v, e, bits, new, c.new_bits = 2)
                  \/ phase' = "calibrate" /\ cal' = c /\ Revised(v, e, bits, new, FALSE)
  BY <1>5, Zenon
<1>7. /\ IsEntry(v) /\ v.bits = e.bits \cup bits /\ e.bits \subseteq v.bits
      /\ v.new_cov <=> e.new_cov \/ new
      /\ \/ phase' # "calibrate" /\ (v.has_new_cov <=> e.has_new_cov \/ c.new_bits = 2)
         \/ phase' = "calibrate" /\ cal' = c /\ (v.has_new_cov <=> e.has_new_cov)
  <2> HIDE DEF e
  <2>1. QED
    BY <1>6 DEF Revised
<1>8. /\ entries' \in Seq(ToSet(entries')) /\ Len(entries') = n /\ entries'[n] = v
      /\ \A k \in 1 .. n : k # n => entries'[k] = entries[k]
      /\ AllBits(entries') = AllBits(entries) \cup v.bits
  <2>1. entries[Len(entries)].bits \subseteq v.bits
    BY <1>7
  <2>2. QED
    BY <1>4, <1>6, <2>1, EntryReplaced
<1>9. \A k \in 1 .. n : k # n => /\ IsEntry(entries[k]) /\ entries[k].bits # {}
                                 /\ entries[k].has_new_cov <=> entries[k].new_cov
  BY DEF NoveltyInv
<1>10. restarts' \in Nat /\ (restarts' = 0 => seen' = AllBits(entries'))
  <2>1. e.bits \subseteq AllBits(entries)
    BY <1>4, BitsOf
  <2>2. AllBits(entries') = AllBits(entries) \cup bits
    BY <1>7, <1>8, <2>1
  <2>3. QED
    BY <1>1, <1>3, <2>2 DEF NoveltyInv
<1> HIDE DEF e, n
<1>11. \A k \in 1 .. Len(entries') : IsEntry(entries'[k]) /\ entries'[k].bits # {}
  BY <1>4, <1>7, <1>8, <1>9
<1>12. \A k \in 1 .. Len(entries') :
         k # Len(entries') => (entries'[k].has_new_cov <=> entries'[k].new_cov)
  BY <1>8, <1>9
<1>13. phase' # "calibrate" => (v.has_new_cov <=> v.new_cov)
  BY <1>3, <1>4, <1>7
<1>14. phase' = "calibrate" => (v.has_new_cov \/ cal'.new_bits = 2 <=> v.new_cov)
  BY <1>3, <1>4, <1>7
<1>15. Len(entries') # 0 /\ entries'[Len(entries')] = v
  BY <1>4, <1>8
<1>16. QED
  BY <1>8, <1>10, <1>11, <1>12, <1>13, <1>14, <1>15 DEF NoveltyInv

\* No other step touches the queue, except the start of a session.
LEMMA NoveltyStep ==
  ASSUME BuildInv, MapInv, CalInv, NoveltyInv, [Next]_vars
  PROVE  NoveltyInv'
<1>1. CASE queue_if_new
  BY <1>1, NoveltyQueue
<1>2. CASE calibrate_case
  BY <1>2, NoveltyCalibrate
<1>3. CASE UNCHANGED vars
  BY <1>3 DEF vars, countVars, NoveltyInv
<1>4. CASE read_bitmap
  <2>1. phase = "fuzz" /\ phase' = phase /\ restarts' = restarts + 1 /\ entries' = <<>>
    BY <1>4 DEF read_bitmap
  <2>2. restarts' \in Nat /\ restarts' # 0
    BY <2>1 DEF NoveltyInv
  <2>3. entries' \in Seq(ToSet(entries')) /\ Len(entries') = 0 /\ 1 .. Len(entries') = {}
    BY <2>1, EmptySeq
  <2>4. QED
    BY <2>1, <2>2, <2>3 DEF NoveltyInv
<1>5. CASE write_bitmap
  BY <1>5 DEF write_bitmap, countVars, NoveltyInv
<1>6. CASE \/ read_dfg_line \/ compile_block \/ common_fuzz_stuff \/ skip_requested
           \/ ignore_fault \/ judge_tmout \/ rerun_hang \/ keep_as_crash
  <2>1. UNCHANGED <<entries, seen, restarts>> /\ phase # "calibrate" /\ phase' # "calibrate"
    <3>1. CASE read_dfg_line \/ compile_block \/ skip_requested \/ ignore_fault
      BY <3>1 DEF read_dfg_line, compile_block, skip_requested, ignore_fault, fuzzVars, countVars
    <3>2. CASE common_fuzz_stuff
      BY <3>2, Zenon DEF common_fuzz_stuff
    <3>3. CASE judge_tmout
      BY <3>3 DEF judge_tmout, countVars
    <3>4. CASE rerun_hang
      BY <3>4 DEF rerun_hang, countVars
    <3>5. CASE keep_as_crash
      BY <3>5 DEF keep_as_crash, countVars
    <3>6. QED
      BY <1>6, <3>1, <3>2, <3>3, <3>4, <3>5
  <2>2. QED
    BY <2>1 DEF NoveltyInv
<1>7. QED
  BY <1>1, <1>2, <1>3, <1>4, <1>5, <1>6 DEF Next

\* The invariant of the queue.
LEMMA NoveltyInvariant == Spec => []NoveltyInv
<1>1. BuildInv /\ MapInv /\ CalInv /\ NoveltyInv /\ [Next]_vars => NoveltyInv'
  BY NoveltyStep
<1>2. QED
  BY NoveltyInit, <1>1, BuildCorrect, MapCorrect, PTL DEF Spec

\* No coverage is lost and none is counted twice, however often an input is calibrated and
\* whatever it does then: each bit cleared in virgin_bits was brought by an entry, each
\* entry brought one, and it is marked has_new_cov exactly if an execution of it was the
\* first to hit a location (save_if_interesting() and calibrate_case() of afl-fuzz.c).
THEOREM NoveltyCorrect == Spec => []NoveltyExact
<1>1. ASSUME CalInv, NoveltyInv PROVE NoveltyExact
  <2>1. entries \in Seq(ToSet(entries)) /\ DOMAIN entries = 1 .. Len(entries)
    BY <1>1 DEF NoveltyInv
  <2>2. cal.on <=> phase = "calibrate"
    <3>1. CASE phase = "calibrate"
      <4>1. cal \in Calibration
        BY <1>1, <3>1 DEF CalInv
      <4>2. cal.on = TRUE
        BY <4>1 DEF Calibration
      <4>3. QED
        BY <3>1, <4>2
    <3>2. CASE phase # "calibrate"
      <4>1. cal = NoCal
        BY <1>1, <3>2 DEF CalInv
      <4>2. cal.on = FALSE
        BY <4>1 DEF NoCal
      <4>3. QED
        BY <3>2, <4>2
    <3>3. QED
      BY <3>1, <3>2
  <2>3. restarts = 0 => seen = UNION {entries[k].bits : k \in DOMAIN entries}
    BY <1>1, <2>1 DEF NoveltyInv, AllBits
  <2>4. QED
    BY <1>1, <2>1, <2>2, <2>3 DEF NoveltyInv, NoveltyExact
<1>2. QED
  BY <1>1, MapCorrect, NoveltyInvariant, PTL

----------------------------------------------------------------------------
(* Crashes and timeouts. *)

\* What a log of simplified traces leaves of a pristine map: bit 7 of a byte goes with the
\* first trace that hits it, bit 0 with the first that does not.
LogEntry == [hits : SUBSET Loc, kept : BOOLEAN]
Remaining(log) ==
  [l \in Loc |-> {b \in Bits : /\ b = 7 => \A j \in 1 .. Len(log) : l \notin log[j].hits
                               /\ b = 0 => \A j \in 1 .. Len(log) : l \in log[j].hits}]
LogInv(log, virgin) ==
  /\ log \in Seq(LogEntry)
  /\ ~conf.dumb_mode => /\ virgin = Remaining(log)
                        /\ \A k \in 1 .. Len(log) : log[k].kept <=> UniqueIn(log, k)
FaultInv == LogInv(crash_log, virgin_crash) /\ LogInv(tmout_log, virgin_tmout)

\* What a log has left is a virgin map.
LEMMA RemainingTyped ==
  ASSUME NEW log
  PROVE  /\ Remaining(log) \in Trace
         /\ \A l \in Loc : \A b : b \in Remaining(log)[l] <=>
              /\ b \in Bits
              /\ b = 7 => \A j \in 1 .. Len(log) : l \notin log[j].hits
              /\ b = 0 => \A j \in 1 .. Len(log) : l \in log[j].hits
BY DEF Remaining, Trace

\* A simplified trace, as a set of pairs of bytes and bits.
LEMMA Simplified ==
  ASSUME NEW t, NEW l \in Loc, NEW b
  PROVE  b \in simplify_trace(t)[l] <=> (b = 7 /\ l \in Hits(t)) \/ (b = 0 /\ l \notin Hits(t))
BY DEF simplify_trace, Hits

\* An empty log leaves a pristine map.
LEMMA EmptyLog ==
  ASSUME NEW log, NEW virgin, log = <<>>, virgin = Pristine
  PROVE  LogInv(log, virgin)
<1>1. log \in Seq(LogEntry) /\ Len(log) = 0 /\ 1 .. Len(log) = {}
  BY EmptySeq
<1>2. Remaining(log) = Pristine
  BY <1>1 DEF Remaining, Pristine
<1>3. QED
  BY <1>1, <1>2 DEF LogInv

\* A trace is judged: what has_new_bits() finds is that the fault is unique.
LEMMA Judged ==
  ASSUME NEW log \in Seq(LogEntry), NEW t, NEW kept \in BOOLEAN
  PROVE  LET r == has_new_bits(simplify_trace(t), Remaining(log))
             log2 == Append(log, [hits |-> Hits(t), kept |-> kept])
         IN  /\ r.virgin = Remaining(log2)
             /\ r.ret > 0 <=> UniqueIn(log2, Len(log2))
<1> DEFINE s == simplify_trace(t)
           v == Remaining(log)
           r == has_new_bits(s, v)
           h == Hits(t)
           e == [hits |-> h, kept |-> kept]
           log2 == Append(log, e)
           n == Len(log)
<1>1. e \in LogEntry /\ h \subseteq Loc /\ e.hits = h
  BY DEF LogEntry, Hits
<1>2. /\ n \in Nat /\ log2 \in Seq(LogEntry) /\ Len(log2) = n + 1 /\ log2[n + 1].hits = h
      /\ \A j \in 1 .. n : log2[j] = log[j]
  <2> HIDE DEF e
  <2>1. QED
    BY <1>1
<1>3. s \in Trace /\ v \in Trace
  BY SimplifyTyped, RemainingTyped
<1>4. \A l \in Loc : \A b : b \in s[l] <=> (b = 7 /\ l \in h) \/ (b = 0 /\ l \notin h)
  BY Simplified
<1>5. \A l \in Loc : \A b : b \in v[l] <=>
              /\ b \in Bits
              /\ b = 7 => \A j \in 1 .. n : l \notin log[j].hits
              /\ b = 0 => \A j \in 1 .. n : l \in log[j].hits
  BY RemainingTyped
<1> HIDE DEF s, v, h, log2, n, e
<1>6. r = Compared(s, v, Loc)
  BY <1>3, HasNewBits
<1>7. /\ r.virgin = Clear(v, s, Loc)
      /\ r.ret = IF NewTuple(s, v, Loc) THEN 2 ELSE IF Overlap(s, v, Loc) THEN 1 ELSE 0
  BY <1>6 DEF Compared
<1> HIDE DEF r
<1>8. NewTuple(s, v, Loc) => Overlap(s, v, Loc)
  BY <1>3 DEF NewTuple, Overlap, Trace
<1>9. r.ret > 0 <=> Overlap(s, v, Loc)
  BY <1>7, <1>8
<1>10. 1 .. n + 1 = (1 .. n) \cup {n + 1}
  BY <1>2
<1>11. r.virgin = Remaining(log2)
  <2>1. ASSUME NEW l \in Loc, NEW b
        PROVE  b \in v[l] \ s[l] <=> b \in Remaining(log2)[l]
    <3>1. b \in Remaining(log2)[l] <=>
              /\ b \in Bits
              /\ b = 7 => \A j \in 1 .. n + 1 : l \notin log2[j].hits
              /\ b = 0 => \A j \in 1 .. n + 1 : l \in log2[j].hits
      BY <1>2, RemainingTyped
    <3>2. (\A j \in 1 .. n + 1 : l \notin log2[j].hits)
            <=> (\A j \in 1 .. n : l \notin log[j].hits) /\ l \notin h
      BY <1>2, <1>10
    <3>3. (\A j \in 1 .. n + 1 : l \in log2[j].hits)
            <=> (\A j \in 1 .. n : l \in log[j].hits) /\ l \in h
      BY <1>2, <1>10
    <3>4. QED
      BY <1>4, <1>5, <3>1, <3>2, <3>3
  <2>2. \A l \in Loc : v[l] \ s[l] = Remaining(log2)[l]
    BY <2>1
  <2>3. Remaining(log2) = [l \in Loc |-> Remaining(log2)[l]]
    BY DEF Remaining
  <2>4. Clear(v, s, Loc) = [l \in Loc |-> v[l] \ s[l]]
    BY DEF Clear
  <2>5. QED
    BY <1>7, <2>2, <2>3, <2>4
<1>12. Overlap(s, v, Loc) <=>
         \/ \E l \in Loc : l \in h /\ \A j \in 1 .. n : l \notin log[j].hits
         \/ \E l \in Loc : l \notin h /\ \A j \in 1 .. n : l \in log[j].hits
  <2>1. 0 \in Bits /\ 7 \in Bits
    BY DEF Bits
  <2>2. ASSUME NEW l \in Loc
        PROVE  s[l] \cap v[l] # {} <=>
                 \/ l \in h /\ \A j \in 1 .. n : l \notin log[j].hits
                 \/ l \notin h /\ \A j \in 1 .. n : l \in log[j].hits
    <3>1. CASE l \in h
      <4>1. \A b : b \in s[l] <=> b = 7
        BY <1>4, <3>1
      <4>2. 7 \in v[l] <=> \A j \in 1 .. n : l \notin log[j].hits
        BY <1>5, <2>1
      <4>3. QED
        BY <3>1, <4>1, <4>2
    <3>2. CASE l \notin h
      <4>1. \A b : b \in s[l] <=> b = 0
        BY <1>4, <3>2
      <4>2. 0 \in v[l] <=> \A j \in 1 .. n : l \in log[j].hits
        BY <1>5, <2>1
      <4>3. QED
        BY <3>2, <4>1, <4>2
    <3>3. QED
      BY <3>1, <3>2
  <2>3. QED
    BY <2>2 DEF Overlap
<1>13. UniqueIn(log2, n + 1) <=>
         \/ n = 0
         \/ \E l \in Loc : l \in h /\ \A j \in 1 .. n : l \notin log[j].hits
         \/ \E l \in Loc : l \notin h /\ \A j \in 1 .. n : l \in log[j].hits
  <2>1. (n + 1) - 1 = n /\ (n + 1 = 1 <=> n = 0)
    BY <1>2
  <2>2. h \ UNION {log2[j].hits : j \in 1 .. n} # {} <=>
          \E l \in Loc : l \in h /\ \A j \in 1 .. n : l \notin log[j].hits
    BY <1>1, <1>2
  <2>3. (\E l \in Loc \ h : \A j \in 1 .. n : l \in log2[j].hits) <=>
          \E l \in Loc : l \notin h /\ \A j \in 1 .. n : l \in log[j].hits
    BY <1>2
  <2>4. UniqueIn(log2, n + 1) <=>
          \/ n + 1 = 1
          \/ h \ UNION {log2[j].hits : j \in 1 .. (n + 1) - 1} # {}
          \/ \E l \in Loc \ h : \A j \in 1 .. (n + 1) - 1 : l \in log2[j].hits
    BY <1>2 DEF UniqueIn
  <2>5. UniqueIn(log2, n + 1) <=>
          \/ n = 0
          \/ h \ UNION {log2[j].hits : j \in 1 .. n} # {}
          \/ \E l \in Loc \ h : \A j \in 1 .. n : l \in log2[j].hits
    BY <2>1, <2>4
  <2>6. QED
    BY <2>2, <2>3, <2>5
<1>14. n = 0 => \/ \E l \in Loc : l \in h /\ \A j \in 1 .. n : l \notin log[j].hits
                \/ \E l \in Loc : l \notin h /\ \A j \in 1 .. n : l \in log[j].hits
  <2>1. 0 \in Loc
    BY TracingAssumption DEF Loc
  <2>2. n = 0 => 1 .. n = {}
    BY <1>2
  <2>3. QED
    BY <2>1, <2>2
<1>15. r.ret > 0 <=> UniqueIn(log2, Len(log2))
  BY <1>2, <1>9, <1>12, <1>13, <1>14
<1>16. QED
  BY <1>11, <1>15 DEF r, s, v, log2, e, h

\* The log grows by what the trace was judged.
Grows(log, virgin, log2, virgin2, t, kept) ==
  /\ log2 = Append(log, [hits |-> Hits(t), kept |-> kept])
  /\ ~conf.dumb_mode => /\ virgin2 = has_new_bits(simplify_trace(t), virgin).virgin
                        /\ kept <=> has_new_bits(simplify_trace(t), virgin).ret > 0
LEMMA LogGrows ==
  ASSUME NEW log, NEW virgin, LogInv(log, virgin), NEW t, NEW kept \in BOOLEAN,
         NEW log2, NEW virgin2, Grows(log, virgin, log2, virgin2, t, kept)
  PROVE  LogInv(log2, virgin2)
<1> DEFINE e == [hits |-> Hits(t), kept |-> kept]
<1>1. log \in Seq(LogEntry)
  BY DEF LogInv
<1>2. e \in LogEntry /\ e.kept = kept
  BY DEF LogEntry, Hits
<1>3. /\ log2 \in Seq(LogEntry) /\ Len(log2) = Len(log) + 1 /\ log2[Len(log) + 1] = e
      /\ \A j \in 1 .. Len(log) : log2[j] = log[j]
  <2>1. log2 = Append(log, e)
    BY DEF Grows
  <2> HIDE DEF e
  <2>2. QED
    BY <1>1, <1>2, <2>1
<1>4. ASSUME ~conf.dumb_mode
      PROVE  /\ virgin2 = Remaining(log2)
             /\ \A k \in 1 .. Len(log2) : log2[k].kept <=> UniqueIn(log2, k)
  <2>1. virgin = Remaining(log) /\ \A k \in 1 .. Len(log) : log[k].kept <=> UniqueIn(log, k)
    BY <1>4 DEF LogInv
  <2>2. /\ has_new_bits(simplify_trace(t), virgin).virgin = Remaining(log2)
        /\ has_new_bits(simplify_trace(t), virgin).ret > 0 <=> UniqueIn(log2, Len(log2))
    BY <1>1, <2>1, Judged DEF Grows
  <2>3. ASSUME NEW k \in 1 .. Len(log) PROVE UniqueIn(log2, k) <=> UniqueIn(log, k)
    <3>1. log2[k] = log[k] /\ \A j \in 1 .. k - 1 : log2[j] = log[j]
      BY <1>1, <1>3
    <3>2. {log2[j].hits : j \in 1 .. k - 1} = {log[j].hits : j \in 1 .. k - 1}
      BY <3>1
    <3>3. QED
      BY <3>1, <3>2 DEF UniqueIn
  <2>4. ASSUME NEW k \in 1 .. Len(log2) PROVE log2[k].kept <=> UniqueIn(log2, k)
    <3>1. CASE k = Len(log2)
      BY <1>2, <1>3, <1>4, <2>2, <3>1 DEF Grows
    <3>2. CASE k # Len(log2)
      <4>1. k \in 1 .. Len(log)
        BY <1>1, <1>3, <3>2
      <4>2. QED
        BY <1>3, <2>1, <2>3, <4>1
    <3>3. QED
      BY <3>1, <3>2
  <2>5. QED
    BY <1>4, <2>2, <2>4 DEF Grows
<1>5. QED
  BY <1>3, <1>4 DEF LogInv

\* The logs are empty at first.
LEMMA FaultInit == Init => FaultInv
<1> SUFFICES ASSUME Init PROVE FaultInv
  OBVIOUS
<1>1. crash_log = <<>> /\ tmout_log = <<>> /\ virgin_crash = Pristine /\ virgin_tmout = Pristine
  BY DEF Init
<1>2. QED
  BY <1>1, EmptyLog DEF FaultInv

\* A timeout is judged with virgin_tmout.
LEMMA FaultTmout ==
  ASSUME FaultInv, judge_tmout
  PROVE  FaultInv'
<1> DEFINE r   == has_new_bits(simplify_trace(trace_bits), virgin_tmout)
           new == conf.dumb_mode \/ r.ret > 0
<1>1. UNCHANGED <<conf, crash_log, virgin_crash>>
  BY DEF judge_tmout, buildVars
<1>2. new \in BOOLEAN
  OBVIOUS
<1>3. \/ UNCHANGED <<virgin_tmout, tmout_log>>
      \/ /\ tmout_log' = Append(tmout_log, [hits |-> Hits(trace_bits), kept |-> new])
         /\ ~conf.dumb_mode => virgin_tmout' = r.virgin
  BY DEF judge_tmout
<1>4. ~conf.dumb_mode => (new <=> r.ret > 0)
  OBVIOUS
<1>5. LogInv(tmout_log, virgin_tmout) /\ LogInv(crash_log, virgin_crash)
  BY DEF FaultInv
<1>6. LogInv(tmout_log', virgin_tmout')
  <2>1. CASE UNCHANGED <<virgin_tmout, tmout_log>>
    BY <1>5, <2>1
  <2>2. CASE /\ tmout_log' = Append(tmout_log, [hits |-> Hits(trace_bits), kept |-> new])
             /\ ~conf.dumb_mode => virgin_tmout' = r.virgin
    <3>1. Grows(tmout_log, virgin_tmout, tmout_log', virgin_tmout', trace_bits, new)
      BY <1>4, <2>2 DEF Grows
    <3> HIDE DEF new, r
    <3>2. QED
      BY <1>2, <1>5, <3>1, LogGrows
  <2>3. QED
    BY <1>3, <2>1, <2>2
<1>7. LogInv(crash_log, virgin_crash)' /\ LogInv(tmout_log, virgin_tmout)'
  BY <1>1, <1>5, <1>6 DEF LogInv
<1>8. QED
  BY <1>7 DEF FaultInv

\* A crash is judged with virgin_crash.
LEMMA FaultCrash ==
  ASSUME FaultInv, keep_as_crash
  PROVE  FaultInv'
<1> DEFINE r   == has_new_bits(simplify_trace(trace_bits), virgin_crash)
           new == conf.dumb_mode \/ r.ret > 0
<1>1. UNCHANGED <<conf, tmout_log, virgin_tmout>>
  BY DEF keep_as_crash, buildVars
<1>2. new \in BOOLEAN
  OBVIOUS
<1>3. \/ UNCHANGED <<virgin_crash, crash_log>>
      \/ /\ crash_log' = Append(crash_log, [hits |-> Hits(trace_bits), kept |-> new])
         /\ ~conf.dumb_mode => virgin_crash' = r.virgin
  BY DEF keep_as_crash
<1>4. ~conf.dumb_mode => (new <=> r.ret > 0)
  OBVIOUS
<1>5. LogInv(tmout_log, virgin_tmout) /\ LogInv(crash_log, virgin_crash)
  BY DEF FaultInv
<1>6. LogInv(crash_log', virgin_crash')
  <2>1. CASE UNCHANGED <<virgin_crash, crash_log>>
    BY <1>5, <2>1
  <2>2. CASE /\ crash_log' = Append(crash_log, [hits |-> Hits(trace_bits), kept |-> new])
             /\ ~conf.dumb_mode => virgin_crash' = r.virgin
    <3>1. Grows(crash_log, virgin_crash, crash_log', virgin_crash', trace_bits, new)
      BY <1>4, <2>2 DEF Grows
    <3> HIDE DEF new, r
    <3>2. QED
      BY <1>2, <1>5, <3>1, LogGrows
  <2>3. QED
    BY <1>3, <2>1, <2>2
<1>7. LogInv(crash_log, virgin_crash)' /\ LogInv(tmout_log, virgin_tmout)'
  BY <1>1, <1>5, <1>6 DEF LogInv
<1>8. QED
  BY <1>7 DEF FaultInv

\* No other step touches the logs, except the start of a session.
LEMMA FaultStep ==
  ASSUME BuildInv, MapInv, CalInv, FaultInv, [Next]_vars
  PROVE  FaultInv'
<1>1. CASE judge_tmout
  BY <1>1, FaultTmout
<1>2. CASE keep_as_crash
  BY <1>2, FaultCrash
<1>3. CASE read_bitmap
  <2>1. /\ crash_log' = <<>> /\ tmout_log' = <<>>
        /\ virgin_crash' = Pristine /\ virgin_tmout' = Pristine /\ conf' = conf
    BY <1>3 DEF read_bitmap, buildVars
  <2>2. LogInv(crash_log', virgin_crash') /\ LogInv(tmout_log', virgin_tmout')
    BY <2>1, EmptyLog
  <2>3. LogInv(crash_log, virgin_crash)' /\ LogInv(tmout_log, virgin_tmout)'
    BY <2>1, <2>2 DEF LogInv
  <2>4. QED
    BY <2>3 DEF FaultInv
<1>4. CASE UNCHANGED <<conf, crash_log, tmout_log, virgin_crash, virgin_tmout>>
  BY <1>4 DEF FaultInv, LogInv
<1>5. CASE UNCHANGED vars
  <2>1. UNCHANGED <<conf, crash_log, tmout_log, virgin_crash, virgin_tmout>>
    BY <1>5 DEF vars, buildVars, mapVars, faultVars
  <2>2. QED
    BY <1>4, <2>1
<1>6. CASE \/ read_dfg_line \/ compile_block \/ common_fuzz_stuff \/ skip_requested
           \/ queue_if_new \/ calibrate_case \/ ignore_fault \/ rerun_hang \/ write_bitmap
  <2>1. UNCHANGED <<conf, crash_log, tmout_log, virgin_crash, virgin_tmout>>
    <3>1. CASE read_dfg_line \/ compile_block \/ skip_requested \/ ignore_fault
      BY <3>1 DEF read_dfg_line, compile_block, skip_requested, ignore_fault, fuzzVars,
                  buildVars, mapVars, faultVars
    <3>2. CASE common_fuzz_stuff
      <4>1. UNCHANGED <<buildVars, mapVars, faultVars>>
        BY <3>2 DEF common_fuzz_stuff
      <4>2. QED
        BY <4>1 DEF buildVars, mapVars, faultVars
    <3>3. CASE queue_if_new
      <4>1. UNCHANGED <<virgin_tmout, virgin_crash, faultVars>>
        BY <3>3, QueueStep
      <4>2. conf' = conf
        BY <3>3 DEF queue_if_new, buildVars
      <4>3. QED
        BY <4>1, <4>2 DEF faultVars
    <3>4. CASE calibrate_case
      <4>1. UNCHANGED <<virgin_tmout, virgin_crash, faultVars>>
        BY <3>4, CalibrateStep
      <4>2. conf' = conf
        BY <3>4 DEF calibrate_case, buildVars
      <4>3. QED
        BY <4>1, <4>2 DEF faultVars
    <3>5. CASE rerun_hang
      <4>1. UNCHANGED <<buildVars, mapVars, crash_log, tmout_log>>
        BY <3>5 DEF rerun_hang
      <4>2. QED
        BY <4>1 DEF buildVars, mapVars
    <3>6. CASE write_bitmap
      BY <3>6 DEF write_bitmap, buildVars, faultVars
    <3>7. QED
      BY <1>6, <3>1, <3>2, <3>3, <3>4, <3>5, <3>6
  <2>2. QED
    BY <1>4, <2>1
<1>7. QED
  BY <1>1, <1>2, <1>3, <1>5, <1>6 DEF Next

\* The invariant of the logs.
LEMMA FaultInvariant == Spec => []FaultInv
<1>1. BuildInv /\ MapInv /\ CalInv /\ FaultInv /\ [Next]_vars => FaultInv'
  BY FaultStep
<1>2. QED
  BY FaultInit, <1>1, BuildCorrect, MapCorrect, PTL DEF Spec

\* A crash or a timeout is kept exactly if it is unique as docs/technical_details.txt has it:
\* it hits something that none before did, or misses something that all of them hit
\* (simplify_trace() and save_if_interesting() of afl-fuzz.c), for logs of any length.
THEOREM FaultsCorrect == Spec => []FaultsUnique
<1>1. ASSUME FaultInv PROVE FaultsUnique
  <2>1. LogInv(tmout_log, virgin_tmout) /\ LogInv(crash_log, virgin_crash)
    BY <1>1 DEF FaultInv
  <2>2. DOMAIN crash_log = 1 .. Len(crash_log) /\ DOMAIN tmout_log = 1 .. Len(tmout_log)
    BY <2>1 DEF LogInv
  <2>3. QED
    BY <2>1, <2>2 DEF LogInv, FaultsUnique
<1>2. QED
  BY <1>1, FaultInvariant, PTL

----------------------------------------------------------------------------
(* What an execution leaves in the maps. *)

Built == code \in Seq(CompiledBlock) /\ Len(code) = Len(Blocks)

\* What a visit that is instrumented adds to the maps.
Adds(m, m2, v) ==
  LET loc  == code[v.blk].loc
      node == code[v.blk].node
      p    == prev_loc_of(v.blk, conf.flavour)
  IN  /\ p \in Scopes /\ m.prev[p] \in Loc /\ loc \in Loc
      /\ \A l \in Loc :
           m2.area[l] = ((m.area[l] + (IF XOR(m.prev[p], loc) = l THEN 1 ELSE 0))
                          + (IF LoopTuple(v) = l THEN v.times - 1 ELSE 0)) % 256
      /\ m2.prev = [m.prev EXCEPT ![p] = loc \div 2]
      /\ m2.dfg = IF node = NoNode THEN m.dfg ELSE [m.dfg EXCEPT ![node.idx] = node.score]

\* It does not matter who compiled the block.
LEMMA EnterEffect ==
  ASSUME Built, NEW m \in Machine, NEW v \in Visit, code[v.blk].loc # None
  PROVE  Adds(m, Enter(conf.flavour, code, m, v), v)
<1> DEFINE b  == code[v.blk]
           loc == b.loc
           p  == prev_loc_of(v.blk, conf.flavour)
           s1 == Store(conf.flavour, m.prev[p], loc)
           s2 == Store(conf.flavour, s1.prev, loc)
           a1 == Hit(m.area, s1.at, 1)
           a2 == Hit(a1, s2.at, v.times - 1)
           m2 == Enter(conf.flavour, code, m, v)
<1>1. v.blk \in 1 .. Len(code) /\ v.blk \in Blk /\ v.times \in Nat \ {0} /\ v.times - 1 \in Nat
  BY TracingAssumption DEF Visit, Blk, Built
<1>2. b \in CompiledBlock
  BY <1>1 DEF Built
<1>3. p \in Scopes /\ loc \in Loc
  <2>1. p \in Scopes
    BY <1>1 DEF prev_loc_of, Scopes
  <2>2. loc \in Loc
    BY <1>2 DEF CompiledBlock
  <2>3. QED
    BY <2>1, <2>2
<1>4. m.prev[p] \in Loc /\ m.area \in [Loc -> 0 .. 255] /\ m.prev \in [Scopes -> Loc]
  BY <1>3 DEF Machine
<1>5. m2 = [area |-> IF v.times = 1 THEN a1 ELSE a2,
            prev |-> [m.prev EXCEPT ![p] = IF v.times = 1 THEN s1.prev ELSE s2.prev],
            dfg  |-> IF b.node = NoNode THEN m.dfg
                     ELSE [m.dfg EXCEPT ![b.node.idx] = b.node.score]]
  BY DEF Enter
<1>6. LoopTuple(v) = XOR(loc \div 2, loc)
  BY DEF LoopTuple
<1>7. loc \div 2 \in Loc
  BY <1>3, TracingAssumption DEF Loc
<1> HIDE DEF b, loc, p, a1, a2, m2, s1, s2
<1>8. s1.at = XOR(m.prev[p], loc) /\ s1.prev = loc \div 2 /\ s1.at \in Loc
  BY <1>3, <1>4, StoresAgree DEF s1, store_llvm
<1>9. s2.at = LoopTuple(v) /\ s2.prev = loc \div 2 /\ s2.at \in Loc
  BY <1>3, <1>6, <1>7, <1>8, StoresAgree DEF s2, store_llvm
<1>10. a1 \in [Loc -> 0 .. 255]
  BY <1>4, <1>8, HitTyped DEF a1
<1>11. ASSUME NEW l \in Loc
       PROVE  m2.area[l] = ((m.area[l] + (IF XOR(m.prev[p], loc) = l THEN 1 ELSE 0))
                             + (IF LoopTuple(v) = l THEN v.times - 1 ELSE 0)) % 256
  <2> DEFINE x == IF XOR(m.prev[p], loc) = l THEN 1 ELSE 0
             y == IF LoopTuple(v) = l THEN v.times - 1 ELSE 0
  <2>1. m.area[l] \in 0 .. 255 /\ x \in Nat /\ y \in Nat
    BY <1>1, <1>4
  <2>2. a1[l] = (m.area[l] + x) % 256
    <3>1. a1[l] = IF l = s1.at THEN (m.area[l] + 1) % 256 ELSE m.area[l]
      BY <1>4, <1>8 DEF a1, Hit
    <3>2. m.area[l] = (m.area[l] + 0) % 256
      BY <2>1
    <3>3. QED
      BY <1>8, <3>1, <3>2
  <2>3. CASE v.times = 1
    <3>1. m2.area[l] = a1[l] /\ y = 0
      BY <1>5, <2>3
    <3>2. QED
      BY <2>1, <2>2, <3>1
  <2>4. CASE v.times # 1
    <3>1. m2.area[l] = a2[l]
      BY <1>5, <2>4
    <3>2. a2[l] = IF l = s2.at THEN (a1[l] + (v.times - 1)) % 256 ELSE a1[l]
      BY <1>9, <1>10 DEF a2, Hit
    <3>3. a1[l] = a1[l] % 256 /\ a1[l] \in Nat
      BY <1>10
    <3>4. a2[l] = (a1[l] + y) % 256
      BY <1>9, <3>2, <3>3
    <3> HIDE DEF x, y
    <3>5. (((m.area[l] + x) % 256) + y) % 256 = ((m.area[l] + x) + y) % 256
      BY <2>1
    <3>6. QED
      BY <2>2, <3>1, <3>4, <3>5 DEF x, y
  <2>5. QED
    BY <2>3, <2>4
<1>12. m2.prev = [m.prev EXCEPT ![p] = loc \div 2]
  BY <1>5, <1>8, <1>9
<1>13. m2.dfg = IF b.node = NoNode THEN m.dfg ELSE [m.dfg EXCEPT ![b.node.idx] = b.node.score]
  BY <1>5
<1>14. QED
  BY <1>3, <1>4, <1>11, <1>12, <1>13 DEF Adds, b, loc, p, m2

\* The visits up to the k-th, their turns that execute l, and the location they leave.
Visits(path, k) == {j \in Traced(path) : j <= k}
TurnsUpto(path, l, k) == UNION {{j} \X TurnsOf(path, j, l) : j \in Visits(path, k)}
InScope(path, s, k) ==
  {j \in Visits(path, k) : prev_loc_of(path[j].blk, conf.flavour) = s}
LastLoc(path, s, k) ==
  IF InScope(path, s, k) = {} THEN 0
  ELSE code[path[Max(InScope(path, s, k))].blk].loc \div 2

\* How many turns of a visit execute a tuple.
LEMMA TurnsCounted ==
  ASSUME NEW path, NEW k, NEW l, path[k].times \in Nat \ {0}
  PROVE  /\ IsFiniteSet(TurnsOf(path, k, l))
         /\ Cardinality(TurnsOf(path, k, l))
              = (IF Tuple(path, k) = l THEN 1 ELSE 0)
                  + (IF LoopTuple(path[k]) = l THEN path[k].times - 1 ELSE 0)
<1> DEFINE t == path[k].times
           A == IF Tuple(path, k) = l THEN {1} ELSE {}
           B == IF LoopTuple(path[k]) = l THEN 2 .. t ELSE {}
<1>1. TurnsOf(path, k, l) = A \cup B
  BY DEF TurnsOf
<1>2. IsFiniteSet({}) /\ Cardinality({}) = 0 /\ IsFiniteSet({1}) /\ Cardinality({1}) = 1
  BY FS_EmptySet, FS_Singleton
<1>3. IsFiniteSet(2 .. t) /\ Cardinality(2 .. t) = t - 1
  <2>1. 2 \in Int /\ t \in Int /\ (IF 2 > t THEN 0 ELSE t - 2 + 1) = t - 1
    OBVIOUS
  <2>2. QED
    BY <2>1, FS_Interval
<1>4. IsFiniteSet(A) /\ Cardinality(A) = IF Tuple(path, k) = l THEN 1 ELSE 0
  BY <1>2
<1>5. IsFiniteSet(B) /\ Cardinality(B) = IF LoopTuple(path[k]) = l THEN t - 1 ELSE 0
  BY <1>2, <1>3
<1>6. A \cap B = {}
  OBVIOUS
<1> HIDE DEF A, B
<1>7. /\ IsFiniteSet(A \cup B)
      /\ Cardinality(A \cup B) = Cardinality(A) + Cardinality(B) - Cardinality(A \cap B)
  BY <1>4, <1>5, FS_Union
<1>8. Cardinality(A \cap B) = 0 /\ Cardinality(A) \in Nat /\ Cardinality(B) \in Nat
  BY <1>2, <1>4, <1>5, <1>6
<1>9. Cardinality(A \cup B) = Cardinality(A) + Cardinality(B)
  BY <1>7, <1>8
<1>10. QED
  BY <1>1, <1>4, <1>5, <1>7, <1>9


\* Visit k is the last of the first k.
LEMMA VisitsGrow ==
  ASSUME NEW path \in Seq(Visit), NEW k \in 1 .. Len(path)
  PROVE  /\ Visits(path, k) = IF code[path[k].blk].loc # None THEN Visits(path, k - 1) \cup {k}
                              ELSE Visits(path, k - 1)
         /\ k \notin Visits(path, k - 1) /\ Visits(path, k - 1) \subseteq Nat
BY DEF Visits, Traced

\* The turns of the first k visits.
LEMMA TurnsGrow ==
  ASSUME NEW path \in Seq(Visit), NEW k \in 1 .. Len(path), code[path[k].blk].loc # None,
         NEW l, IsFiniteSet(TurnsUpto(path, l, k - 1)),
         NEW c, c = Cardinality(TurnsUpto(path, l, k - 1)),
         NEW d, d = Cardinality(TurnsOf(path, k, l))
  PROVE  IsFiniteSet(TurnsUpto(path, l, k)) /\ Cardinality(TurnsUpto(path, l, k)) = c + d
<1> DEFINE U == TurnsUpto(path, l, k - 1)
           T == TurnsOf(path, k, l)
           V == {k} \X T
<1>1. Visits(path, k) = Visits(path, k - 1) \cup {k} /\ k \notin Visits(path, k - 1)
  BY VisitsGrow
<1>2. TurnsUpto(path, l, k) = U \cup V
  <2>1. TurnsUpto(path, l, k) = UNION {{j} \X TurnsOf(path, j, l) : j \in Visits(path, k - 1) \cup {k}}
    BY <1>1 DEF TurnsUpto
  <2>2. QED
    BY <2>1 DEF TurnsUpto
<1>3. U \cap V = {}
  BY <1>1 DEF TurnsUpto
<1>4. IsFiniteSet(T)
  <2>1. path[k] \in Visit
    OBVIOUS
  <2>2. path[k].times \in Nat \ {0}
    BY <2>1 DEF Visit
  <2>3. QED
    BY <2>2, TurnsCounted
<1>5. IsFiniteSet({k}) /\ Cardinality({k}) = 1 /\ Cardinality({}) = 0
  BY FS_Singleton, FS_EmptySet
<1>6. Cardinality(T) \in Nat /\ Cardinality(U) \in Nat
  BY <1>4, FS_CardinalityType
<1> HIDE DEF U, T
<1>7. IsFiniteSet(V) /\ Cardinality(V) = Cardinality({k}) * Cardinality(T)
  BY Zenon, <1>4, <1>5, FS_Product
<1>8. Cardinality(V) = d
  BY <1>5, <1>6, <1>7 DEF T
<1> HIDE DEF V
<1>9. IsFiniteSet(U)
  BY DEF U
<1>10. /\ IsFiniteSet(U \cup V)
       /\ Cardinality(U \cup V) = Cardinality(U) + Cardinality(V) - Cardinality(U \cap V)
  BY <1>7, <1>9, FS_Union
<1>11. Cardinality(U \cap V) = 0
  BY <1>3, <1>5
<1>12. Cardinality(U) = c
  BY DEF U
<1>13. d \in Nat
  BY <1>6 DEF T
<1>14. Cardinality(U \cup V) = c + d
  BY <1>6, <1>8, <1>10, <1>11, <1>12, <1>13
<1>15. QED
  BY <1>2, <1>10, <1>14

\* The Max of the community modules.
LEMMA MaxIsGreatest ==
  ASSUME NEW T, T \subseteq Nat, NEW x \in T, \A y \in T : y <= x
  PROVE  Max(T) = x
<1>1. \E z \in T : \A y \in T : z >= y
  OBVIOUS
<1>2. Max(T) \in T /\ \A y \in T : Max(T) >= y
  BY <1>1 DEF Max
<1>3. Max(T) \in Nat /\ x \in Nat /\ Max(T) <= x /\ Max(T) >= x
  BY <1>2
<1>4. QED
  BY <1>3

\* The location that the first k visits leave in a scope.
LEMMA LastLocGrows ==
  ASSUME NEW path \in Seq(Visit), NEW k \in 1 .. Len(path), code[path[k].blk].loc # None, NEW s
  PROVE  LastLoc(path, s, k) = IF s = prev_loc_of(path[k].blk, conf.flavour)
                               THEN code[path[k].blk].loc \div 2 ELSE LastLoc(path, s, k - 1)
<1>1. /\ Visits(path, k) = Visits(path, k - 1) \cup {k} /\ k \notin Visits(path, k - 1)
      /\ Visits(path, k - 1) \subseteq Nat
  BY VisitsGrow
<1>2. \A j \in Visits(path, k) : j \in Nat /\ j <= k
  BY <1>1 DEF Visits
<1>3. CASE s = prev_loc_of(path[k].blk, conf.flavour)
  <2>1. k \in InScope(path, s, k) /\ InScope(path, s, k) \subseteq Nat
        /\ \A j \in InScope(path, s, k) : j <= k
    BY <1>1, <1>2, <1>3 DEF InScope
  <2>2. Max(InScope(path, s, k)) = k
    BY <2>1, MaxIsGreatest
  <2>3. QED
    BY <1>3, <2>1, <2>2 DEF LastLoc
<1>4. CASE s # prev_loc_of(path[k].blk, conf.flavour)
  <2>1. InScope(path, s, k) = InScope(path, s, k - 1)
    BY <1>1, <1>4 DEF InScope
  <2>2. QED
    BY <1>4, <2>1 DEF LastLoc
<1>5. QED
  BY <1>3, <1>4

\* The tuple that a visit starts with has the location that the visits before it left.
LEMMA TupleStored ==
  ASSUME NEW path \in Seq(Visit), NEW k \in 1 .. Len(path), Built
  PROVE  Tuple(path, k) = XOR(LastLoc(path, prev_loc_of(path[k].blk, conf.flavour), k - 1),
                              code[path[k].blk].loc)
<1> DEFINE s == prev_loc_of(path[k].blk, conf.flavour)
           before == {j \in Traced(path) : j < k /\ SameScope(path[j].blk, path[k].blk)}
<1>1. \A j \in Traced(path) : j \in Nat /\ (j < k <=> j <= k - 1)
  BY DEF Traced
<1>2. \A j : SameScope(path[j].blk, path[k].blk) <=> prev_loc_of(path[j].blk, conf.flavour) = s
  BY DEF SameScope, prev_loc_of
<1>3. before = InScope(path, s, k - 1)
  BY <1>1, <1>2 DEF InScope, Visits
<1>4. Tuple(path, k) = XOR(IF before = {} THEN 0 ELSE code[path[Max(before)].blk].loc \div 2,
                           code[path[k].blk].loc)
  BY DEF Tuple
<1> HIDE DEF before, s
<1>5. QED
  BY <1>3, <1>4 DEF LastLoc, s


\* After k visits: a counter holds the turns that executed its tuple, modulo 256, and each
\* scope has the location that its last visit left.
MapsAfter(m, path, k) ==
  /\ \A l \in Loc : /\ IsFiniteSet(TurnsUpto(path, l, k))
                    /\ m.area[l] = Cardinality(TurnsUpto(path, l, k)) % 256
  /\ \A s \in Scopes : m.prev[s] = LastLoc(path, s, k)

LEMMA MapsAtStart ==
  ASSUME NEW path \in Seq(Visit)
  PROVE  MapsAfter(Start, path, 0)
<1>1. Visits(path, 0) = {}
  BY DEF Visits, Traced
<1>2. \A l : TurnsUpto(path, l, 0) = {}
  BY <1>1 DEF TurnsUpto
<1>3. \A s : LastLoc(path, s, 0) = 0
  BY <1>1 DEF LastLoc, InScope
<1>4. IsFiniteSet({}) /\ Cardinality({}) = 0
  BY FS_EmptySet
<1>5. /\ \A l \in Loc : Start.area[l] = 0
      /\ \A s \in Scopes : Start.prev[s] = 0
  BY DEF Start, ZeroTrace
<1>6. ASSUME NEW l \in Loc
      PROVE  /\ IsFiniteSet(TurnsUpto(path, l, 0))
             /\ Start.area[l] = Cardinality(TurnsUpto(path, l, 0)) % 256
  <2>1. Cardinality(TurnsUpto(path, l, 0)) = 0
    BY <1>2, <1>4
  <2>2. 0 = 0 % 256
    OBVIOUS
  <2>3. QED
    BY <1>2, <1>4, <1>5, <2>1, <2>2
<1>7. QED
  BY <1>3, <1>5, <1>6 DEF MapsAfter

LEMMA MapsNext ==
  ASSUME Built, NEW path \in Seq(Visit), NEW k \in 1 .. Len(path), NEW m \in Machine,
         MapsAfter(m, path, k - 1)
  PROVE  MapsAfter(Enter(conf.flavour, code, m, path[k]), path, k)
<1> DEFINE v   == path[k]
           loc == code[v.blk].loc
           p   == prev_loc_of(v.blk, conf.flavour)
           m2  == Enter(conf.flavour, code, m, v)
<1>1. v \in Visit
  OBVIOUS
<1>2. CASE loc = None
  <2>1. m2 = m
    BY <1>2 DEF Enter
  <2>2. Visits(path, k) = Visits(path, k - 1)
    BY <1>2, VisitsGrow
  <2>3. /\ \A l : TurnsUpto(path, l, k) = TurnsUpto(path, l, k - 1)
        /\ \A s : LastLoc(path, s, k) = LastLoc(path, s, k - 1)
    BY <2>2 DEF TurnsUpto, LastLoc, InScope
  <2>4. QED
    BY <2>1, <2>3 DEF MapsAfter
<1>3. CASE loc # None
  <2>1. /\ p \in Scopes /\ m.prev[p] \in Loc /\ loc \in Loc
        /\ \A l \in Loc :
             m2.area[l] = ((m.area[l] + (IF XOR(m.prev[p], loc) = l THEN 1 ELSE 0))
                            + (IF LoopTuple(v) = l THEN v.times - 1 ELSE 0)) % 256
        /\ m2.prev = [m.prev EXCEPT ![p] = loc \div 2]
    <3>1. Adds(m, m2, v)
      BY <1>1, <1>3, EnterEffect
    <3> HIDE DEF v, m2
    <3>2. QED
      BY <3>1 DEF Adds
  <2>2. Tuple(path, k) = XOR(m.prev[p], loc)
    <3>1. m.prev[p] = LastLoc(path, p, k - 1)
      BY <2>1 DEF MapsAfter
    <3>2. Tuple(path, k) = XOR(LastLoc(path, p, k - 1), loc)
      BY TupleStored
    <3> HIDE DEF p, loc
    <3>3. QED
      BY <3>1, <3>2
  <2>3. v.times \in Nat \ {0}
    BY <1>1 DEF Visit
  <2> HIDE DEF v, loc, p, m2
  <2>4. ASSUME NEW l \in Loc
        PROVE  /\ IsFiniteSet(TurnsUpto(path, l, k))
               /\ m2.area[l] = Cardinality(TurnsUpto(path, l, k)) % 256
    <3> DEFINE x == IF Tuple(path, k) = l THEN 1 ELSE 0
               y == IF LoopTuple(v) = l THEN v.times - 1 ELSE 0
               c == Cardinality(TurnsUpto(path, l, k - 1))
    <3>1. IsFiniteSet(TurnsUpto(path, l, k - 1)) /\ m.area[l] = c % 256
      BY DEF MapsAfter
    <3>2. c \in Nat /\ x \in Nat /\ y \in Nat
      <4>1. c \in Nat
        BY <3>1, FS_CardinalityType
      <4>2. QED
        BY <2>3, <4>1
    <3>3. Cardinality(TurnsOf(path, k, l)) = x + y
      BY <2>3, TurnsCounted DEF v
    <3>4. IsFiniteSet(TurnsUpto(path, l, k)) /\ Cardinality(TurnsUpto(path, l, k)) = c + (x + y)
      BY <1>3, <3>1, <3>3, TurnsGrow DEF loc, v
    <3>5. m2.area[l] = ((m.area[l] + x) + y) % 256
      BY <2>1, <2>2
    <3> HIDE DEF x, y, c
    <3>6. (((c % 256) + x) + y) % 256 = (c + (x + y)) % 256
      BY <3>2
    <3>7. QED
      BY <3>1, <3>4, <3>5, <3>6
  <2>5. ASSUME NEW s \in Scopes PROVE m2.prev[s] = LastLoc(path, s, k)
    <3>1. LastLoc(path, s, k) = IF s = p THEN loc \div 2 ELSE LastLoc(path, s, k - 1)
      BY <1>3, LastLocGrows DEF loc, v, p
    <3>2. m.prev \in [Scopes -> Loc] /\ m.prev[s] = LastLoc(path, s, k - 1)
      BY DEF Machine, MapsAfter
    <3>3. m2.prev[s] = IF s = p THEN loc \div 2 ELSE m.prev[s]
      BY <2>1, <3>2
    <3>4. QED
      BY <3>1, <3>2, <3>3
  <2>6. MapsAfter(m2, path, k)
    BY <2>4, <2>5 DEF MapsAfter
  <2>7. QED
    BY <2>6 DEF m2, v
<1>4. QED
  BY <1>2, <1>3

\* After an execution a counter holds the turns of the whole path.
LEMMA TraceCounted ==
  ASSUME Built, NEW path \in Seq(Visit), NEW l \in Loc
  PROVE  Execute(conf.flavour, code, path, ZeroTrace, ZeroDfg).area[l]
           = Cardinality(Turns(path, l)) % 256
<1> DEFINE n == Len(path)
           E == Execute(conf.flavour, code, path, ZeroTrace, ZeroDfg)
<1>1. PICK m : Steps(m, conf.flavour, code, path) /\ E = m[n]
  BY ExecuteSteps DEF Built
<1>2. n \in Nat
  OBVIOUS
<1> HIDE DEF E
<1> DEFINE S == {k \in Nat : k <= n => MapsAfter(m[k], path, k)}
<1>3. 0 \in S
  BY <1>1, MapsAtStart DEF Steps
<1>4. ASSUME NEW k \in Nat, k \in S PROVE k + 1 \in S
  <2> SUFFICES ASSUME k + 1 <= n PROVE MapsAfter(m[k + 1], path, k + 1)
    OBVIOUS
  <2>1. k + 1 \in 1 .. Len(path) /\ k \in 0 .. Len(path) /\ (k + 1) - 1 = k /\ k <= n
    BY <1>2
  <2>2. m[k + 1] = Enter(conf.flavour, code, m[k], path[k + 1]) /\ m[k] \in Machine
    BY <1>1, <2>1 DEF Steps
  <2>3. MapsAfter(m[k], path, (k + 1) - 1)
    BY <1>4, <2>1
  <2>4. MapsAfter(Enter(conf.flavour, code, m[k], path[k + 1]), path, k + 1)
    BY <2>1, <2>2, <2>3, MapsNext
  <2>5. QED
    BY <2>2, <2>4
<1> HIDE DEF S
<1>5. n \in S
  BY <1>2, <1>3, <1>4, NatSet
<1>6. MapsAfter(E, path, n)
  BY <1>1, <1>2, <1>5 DEF S
<1>7. Visits(path, n) = Traced(path)
  BY DEF Visits, Traced
<1>8. TurnsUpto(path, l, n) = Turns(path, l)
  BY <1>7 DEF TurnsUpto, Turns
<1>9. QED
  BY <1>6, <1>8 DEF MapsAfter, E


\* The trace that is judged is that of the last execution.
TraceInv ==
  phase = "judge" /\ ~conf.dumb_mode =>
    /\ run.path \in Seq(Visit)
    /\ trace_bits = classify_counts(Execute(conf.flavour, code, run.path, ZeroTrace, ZeroDfg).area)

\* Only a new execution is judged.
LEMMA OnlyRunsJudge ==
  ASSUME Next, ~common_fuzz_stuff
  PROVE  phase' # "judge"
<1>1. CASE read_dfg_line \/ compile_block
  BY <1>1 DEF read_dfg_line, compile_block
<1>2. CASE skip_requested \/ ignore_fault
  BY <1>2 DEF skip_requested, ignore_fault
<1>3. CASE queue_if_new
  BY <1>3, Zenon DEF queue_if_new
<1>4. CASE calibrate_case
  <2>1. phase' \in {"crash", "fuzz", "calibrate"}
    BY <1>4 DEF calibrate_case, EndCalibration, GoOn
  <2>2. QED
    BY <2>1
<1>5. CASE judge_tmout
  BY <1>5, Zenon DEF judge_tmout
<1>6. CASE rerun_hang
  BY <1>6, Zenon DEF rerun_hang
<1>7. CASE keep_as_crash
  BY <1>7, Zenon DEF keep_as_crash
<1>8. CASE write_bitmap \/ read_bitmap
  BY <1>8 DEF write_bitmap, read_bitmap
<1>9. QED
  BY <1>1, <1>2, <1>3, <1>4, <1>5, <1>6, <1>7, <1>8 DEF Next

LEMMA TraceStep ==
  ASSUME BuildInv, TraceInv, [Next]_vars
  PROVE  TraceInv'
<1>1. CASE common_fuzz_stuff
  <2>1. PICK x \in Inputs : \E o \in x : run_target(o)
    BY <1>1 DEF common_fuzz_stuff
  <2>2. PICK o \in x : run_target(o)
    BY <2>1
  <2>3. UNCHANGED <<conf, code>>
    BY <1>1 DEF common_fuzz_stuff, buildVars
  <2>4. o.path \in Seq(Visit) /\ run' = o
    BY <2>2, CoverageAssumption DEF Visit, run_target
  <2>5. ~conf.dumb_mode =>
          trace_bits' = classify_counts(Execute(conf.flavour, code, o.path, ZeroTrace, ZeroDfg).area)
    BY <2>2 DEF run_target
  <2>6. QED
    BY <2>3, <2>4, <2>5 DEF TraceInv
<1>2. CASE UNCHANGED vars
  BY <1>2 DEF TraceInv, vars, buildVars
<1>3. CASE ~common_fuzz_stuff /\ Next
  BY <1>3, OnlyRunsJudge DEF TraceInv
<1>4. QED
  BY <1>1, <1>2, <1>3

\* A byte of the trace that is judged is the class of the number of times that its tuple was
\* executed, modulo 256, for every program, map size and path and whichever compiler
\* instrumented the target (afl-llvm-pass.so.cc, afl-as.h, afl-qemu-cpu-inl.h).
THEOREM TracesCorrect == Spec => []TraceExact
<1>1. Init => TraceInv
  BY DEF Init, TraceInv
<1>2. BuildInv /\ TraceInv /\ [Next]_vars => TraceInv'
  BY TraceStep
<1>3. BuildInv /\ TraceInv => TraceExact
  <2> SUFFICES ASSUME BuildInv, TraceInv, phase = "judge", ~conf.dumb_mode, NEW l \in Loc
               PROVE  trace_bits[l] = count_class(Cardinality(Turns(run.path, l)) % 256)
    BY DEF TraceExact
  <2> DEFINE area == Execute(conf.flavour, code, run.path, ZeroTrace, ZeroDfg).area
  <2>1. Built /\ run.path \in Seq(Visit) /\ trace_bits = classify_counts(area)
    BY DEF BuildInv, Built, TraceInv, Fuzzing
  <2>2. area[l] = Cardinality(Turns(run.path, l)) % 256
    BY <2>1, TraceCounted
  <2> HIDE DEF area
  <2>3. trace_bits[l] = count_class(area[l])
    BY <2>1 DEF classify_counts
  <2>4. QED
    BY <2>2, <2>3
<1>4. QED
  BY <1>1, <1>2, <1>3, BuildCorrect, PTL DEF Spec

----------------------------------------------------------------------------
(* The proximity scores. *)

Slots == 0 .. DFG_MAP_SIZE - 1
\* The line that word i of dfg_bits is about, and the visits to blocks that write it.
LineOf(i) == dfg_file[i + 1].line
Writes(v, i) == code[v.blk].node # NoNode /\ code[v.blk].node.idx = i

\* The node of a block has the score of the last line about it, and a word of its own.
LEMMA NodeKnown ==
  ASSUME BuildInv, NodesRead, NodesCompiled, NEW b \in 1 .. Len(code), code[b].node # NoNode
  PROVE  /\ code[b].node.idx \in Slots /\ LineOf(code[b].node.idx) = NodeKey(b)
         /\ code[b].node.score = ScoreOf(NodeKey(b)) /\ code[b].node.score \in Nat
         /\ NodeKey(b) # <<>> /\ code[b].node = dfg_node_map[NodeKey(b)]
<1> DEFINE node == code[b].node
           key  == NodeKey(b)
<1>1. key \in DOMAIN dfg_node_map /\ node = dfg_node_map[key]
  BY DEF NodesCompiled, NodeSet
<1>2. /\ node \in [idx : 0 .. idx - 1, score : Nat]
      /\ LineOf(node.idx) = key /\ dfg_file[node.idx + 1].score = node.score
      /\ \A k \in 1 .. idx : dfg_file[k].line = key => k <= node.idx + 1
  BY <1>1 DEF NodesRead, LineOf
<1>3. code \in Seq(CompiledBlock) /\ Len(code) \in Nat /\ code # <<>>
  BY DEF BuildInv
<1>4. /\ idx = Len(dfg_file) /\ idx < DFG_MAP_SIZE /\ idx \in Nat
      /\ DOMAIN dfg_file = 1 .. Len(dfg_file)
      /\ \A k \in 1 .. Len(dfg_file) : dfg_file[k].line \in STRING \X (Nat \ {0})
  <2>1. /\ Len(dfg_file) \in Nat /\ DOMAIN dfg_file = 1 .. Len(dfg_file)
        /\ \A k \in 1 .. Len(dfg_file) : dfg_file[k].line \in STRING \X (Nat \ {0})
    BY FileTyped, CoverageAssumption, EmptySeq DEF BuildInv
  <2>2. idx = Len(dfg_file) /\ idx < DFG_MAP_SIZE
    BY <1>3 DEF BuildInv
  <2>3. QED
    BY <2>1, <2>2
<1> HIDE DEF node, key
<1>5. node.idx \in 0 .. idx - 1 /\ node.score \in Nat
  BY <1>2
<1>6. node.idx \in Slots /\ node.idx + 1 \in 1 .. idx
  BY <1>4, <1>5, TracingAssumption DEF Slots
<1>7. node.score = ScoreOf(key)
  <2> DEFINE lines == {k \in DOMAIN dfg_file : dfg_file[k].line = key}
  <2>1. lines \subseteq Nat /\ node.idx + 1 \in lines /\ \A k \in lines : k <= node.idx + 1
    BY <1>2, <1>4, <1>6 DEF LineOf
  <2> HIDE DEF lines
  <2>2. Max(lines) = node.idx + 1
    BY <2>1, MaxIsGreatest
  <2>3. ScoreOf(key) = dfg_file[Max(lines)].score
    BY DEF ScoreOf, lines
  <2>4. QED
    BY <1>2, <2>2, <2>3
<1>8. key # <<>>
  <2>1. key \in STRING \X (Nat \ {0})
    BY <1>2, <1>4, <1>6 DEF LineOf
  <2>2. Len(key) = 2
    BY <2>1
  <2>3. QED
    BY <2>2
<1>9. QED
  BY <1>1, <1>2, <1>5, <1>6, <1>7, <1>8 DEF node, key

\* After k visits: a word of dfg_bits is zero, or the score of a node that was visited.
ScoresAfter(m, path, k) ==
  \A i \in Slots :
    \/ m.dfg[i] = 0 /\ \A j \in Visits(path, k) : ~Writes(path[j], i)
    \/ \E j \in Visits(path, k) : Writes(path[j], i) /\ m.dfg[i] = code[path[j].blk].node.score

LEMMA ScoresNext ==
  ASSUME Built, NEW path \in Seq(Visit), NEW k \in 1 .. Len(path), NEW m \in Machine,
         ScoresAfter(m, path, k - 1)
  PROVE  ScoresAfter(Enter(conf.flavour, code, m, path[k]), path, k)
<1> DEFINE v    == path[k]
           node == code[v.blk].node
           m2   == Enter(conf.flavour, code, m, v)
<1>1. v \in Visit
  OBVIOUS
<1>2. CASE code[v.blk].loc = None
  <2>1. m2 = m
    BY <1>2 DEF Enter
  <2>2. Visits(path, k) = Visits(path, k - 1)
    BY <1>2, VisitsGrow
  <2>3. QED
    BY <2>1, <2>2 DEF ScoresAfter
<1>3. CASE code[v.blk].loc # None
  <2>1. Visits(path, k) = Visits(path, k - 1) \cup {k}
    BY <1>3, VisitsGrow
  <2>2. m2.dfg = IF node = NoNode THEN m.dfg ELSE [m.dfg EXCEPT ![node.idx] = node.score]
    <3>1. Adds(m, m2, v)
      BY <1>1, <1>3, EnterEffect
    <3> HIDE DEF v, m2
    <3>2. QED
      BY <3>1 DEF Adds
  <2>3. m.dfg \in [Slots -> Nat]
    BY DEF Machine, Slots
  <2> HIDE DEF m2, node
  <2>4. ASSUME NEW i \in Slots
        PROVE  \/ m2.dfg[i] = 0 /\ \A j \in Visits(path, k) : ~Writes(path[j], i)
               \/ \E j \in Visits(path, k) : Writes(path[j], i) /\ m2.dfg[i] = code[path[j].blk].node.score
    <3>1. CASE Writes(v, i)
      <4>1. m2.dfg[i] = node.score
        BY <2>2, <2>3, <3>1 DEF Writes, node
      <4>2. QED
        BY <2>1, <3>1, <4>1 DEF node
    <3>2. CASE ~Writes(v, i)
      <4>1. m2.dfg[i] = m.dfg[i]
        BY <2>2, <2>3, <3>2 DEF Writes, node
      <4>2. QED
        BY <2>1, <3>2, <4>1 DEF ScoresAfter
    <3>3. QED
      BY <3>1, <3>2
  <2>5. QED
    BY <2>4 DEF ScoresAfter, m2
<1>4. QED
  BY <1>2, <1>3

\* After an execution every word is zero or the score of a node on the path.
LEMMA ScoresStored ==
  ASSUME Built, NEW path \in Seq(Visit)
  PROVE  /\ Execute(conf.flavour, code, path, ZeroTrace, ZeroDfg).dfg \in [Slots -> Nat]
         /\ ScoresAfter(Execute(conf.flavour, code, path, ZeroTrace, ZeroDfg), path, Len(path))
         /\ Visits(path, Len(path)) = Traced(path)
<1> DEFINE n == Len(path)
           E == Execute(conf.flavour, code, path, ZeroTrace, ZeroDfg)
<1>1. PICK m : Steps(m, conf.flavour, code, path) /\ E = m[n]
  BY ExecuteSteps DEF Built
<1>2. n \in Nat /\ E \in Machine
  BY ExecuteTyped DEF Built
<1> HIDE DEF E
<1> DEFINE S == {k \in Nat : k <= n => ScoresAfter(m[k], path, k)}
<1>3. 0 \in S
  <2>1. Visits(path, 0) = {}
    BY DEF Visits, Traced
  <2>2. m[0] = Start /\ \A i \in Slots : Start.dfg[i] = 0
    BY <1>1 DEF Steps, Start, ZeroDfg, Slots
  <2>3. QED
    BY <2>1, <2>2 DEF ScoresAfter
<1>4. ASSUME NEW k \in Nat, k \in S PROVE k + 1 \in S
  <2> SUFFICES ASSUME k + 1 <= n PROVE ScoresAfter(m[k + 1], path, k + 1)
    OBVIOUS
  <2>1. k + 1 \in 1 .. Len(path) /\ k \in 0 .. Len(path) /\ (k + 1) - 1 = k /\ k <= n
    BY <1>2
  <2>2. m[k + 1] = Enter(conf.flavour, code, m[k], path[k + 1]) /\ m[k] \in Machine
    BY <1>1, <2>1 DEF Steps
  <2>3. ScoresAfter(m[k], path, (k + 1) - 1)
    BY <1>4, <2>1
  <2>4. ScoresAfter(Enter(conf.flavour, code, m[k], path[k + 1]), path, k + 1)
    BY <2>1, <2>2, <2>3, ScoresNext
  <2>5. QED
    BY <2>2, <2>4
<1> HIDE DEF S
<1>5. n \in S
  BY <1>2, <1>3, <1>4, NatSet
<1>6. ScoresAfter(E, path, n)
  BY <1>1, <1>2, <1>5 DEF S
<1>7. Visits(path, n) = Traced(path)
  BY DEF Visits, Traced
<1>8. QED
  BY <1>2, <1>6, <1>7 DEF E, Machine, Slots

\* So the words that are not zero are the nodes that were reached, one word for each.
LEMMA NodesReached ==
  ASSUME BuildInv, NodesRead, NodesCompiled, Built, conf.flavour = "llvm",
         NEW path \in Seq(Visit),
         NEW dfg, dfg = Execute(conf.flavour, code, path, ZeroTrace, ZeroDfg).dfg
  PROVE  /\ \A i \in Slots :
              dfg[i] # 0 => /\ LineOf(i) \in Reached(path) /\ dfg[i] = ScoreOf(LineOf(i))
                            /\ i = dfg_node_map[LineOf(i)].idx
         /\ \A key \in Reached(path) : \E i \in Slots : LineOf(i) = key /\ dfg[i] = ScoreOf(key)
<1>1. \A j \in Traced(path) : path[j].blk \in 1 .. Len(code)
  <2>1. ASSUME NEW j \in 1 .. Len(path) PROVE path[j].blk \in 1 .. Len(code)
    <3>1. path[j] \in Visit
      OBVIOUS
    <3>2. QED
      BY <3>1 DEF Visit, Blk, Built
  <2>2. QED
    BY <2>1 DEF Traced
<1>2. \A i \in Slots :
        \/ dfg[i] = 0 /\ \A j \in Traced(path) : ~Writes(path[j], i)
        \/ \E j \in Traced(path) : Writes(path[j], i) /\ dfg[i] = code[path[j].blk].node.score
  BY ScoresStored DEF ScoresAfter
<1>3. ASSUME NEW i \in Slots, NEW j \in Traced(path), Writes(path[j], i)
      PROVE  /\ LineOf(i) = NodeKey(path[j].blk) /\ LineOf(i) \in Reached(path)
             /\ code[path[j].blk].node.score = ScoreOf(LineOf(i))
             /\ i = dfg_node_map[LineOf(i)].idx
  <2>1. path[j].blk \in 1 .. Len(code) /\ code[path[j].blk].node # NoNode
        /\ code[path[j].blk].node.idx = i
    BY <1>1, <1>3 DEF Writes
  <2>2. /\ LineOf(i) = NodeKey(path[j].blk) /\ NodeKey(path[j].blk) # <<>>
        /\ code[path[j].blk].node.score = ScoreOf(LineOf(i))
        /\ code[path[j].blk].node = dfg_node_map[LineOf(i)]
    BY <2>1, NodeKnown
  <2>3. LineOf(i) \in Reached(path)
    BY <2>2 DEF Reached
  <2>4. QED
    BY <2>1, <2>2, <2>3
<1>4. ASSUME NEW i \in Slots, dfg[i] # 0
      PROVE  /\ LineOf(i) \in Reached(path) /\ dfg[i] = ScoreOf(LineOf(i))
             /\ i = dfg_node_map[LineOf(i)].idx
  <2>1. PICK j \in Traced(path) : Writes(path[j], i) /\ dfg[i] = code[path[j].blk].node.score
    BY <1>2, <1>4
  <2>2. QED
    BY <1>3, <2>1
<1>5. ASSUME NEW key \in Reached(path)
      PROVE  \E i \in Slots : LineOf(i) = key /\ dfg[i] = ScoreOf(key)
  <2>1. PICK j \in Traced(path) : key = NodeKey(path[j].blk) /\ key # <<>>
    BY DEF Reached
  <2> DEFINE b == path[j].blk
             i == code[b].node.idx
  <2>2. b \in 1 .. Len(code) /\ code[b].loc # None
    BY <1>1 DEF Traced
  <2>3. code[b].node # NoNode
    BY <2>1, <2>2 DEF NodesCompiled, NodeSet
  <2>4. i \in Slots /\ LineOf(i) = key
    BY <2>1, <2>2, <2>3, NodeKnown
  <2>5. Writes(path[j], i)
    BY <2>3 DEF Writes
  <2> HIDE DEF i
  <2>6. PICK j2 \in Traced(path) : Writes(path[j2], i) /\ dfg[i] = code[path[j2].blk].node.score
    BY <1>2, <2>4, <2>5
  <2>7. dfg[i] = ScoreOf(key)
    BY <1>3, <2>4, <2>6
  <2>8. QED
    BY <2>4, <2>7
<1>6. QED
  BY <1>4, <1>5

\* The sum of the words is the number of their units.
Units(dfg, I) == UNION {{i} \X (1 .. dfg[i]) : i \in I}
LEMMA UnitsGrow ==
  ASSUME NEW dfg, NEW I, NEW e, e \notin I, NEW s \in Nat, dfg[e] = s,
         IsFiniteSet(Units(dfg, I)), NEW total, total = Cardinality(Units(dfg, I))
  PROVE  /\ IsFiniteSet(Units(dfg, I \cup {e}))
         /\ Cardinality(Units(dfg, I \cup {e})) = total + s
<1> DEFINE U == Units(dfg, I)
           V == {e} \X (1 .. s)
<1>1. Units(dfg, I \cup {e}) = U \cup V
  BY DEF Units
<1>2. U \cap V = {}
  BY DEF Units
<1>3. IsFiniteSet(V) /\ Cardinality(V) = s
  <2>1. IsFiniteSet(1 .. s) /\ Cardinality(1 .. s) = s
    <3>1. 1 \in Int /\ s \in Int /\ (IF 1 > s THEN 0 ELSE s - 1 + 1) = s
      OBVIOUS
    <3>2. QED
      BY <3>1, FS_Interval
  <2>2. IsFiniteSet({e}) /\ Cardinality({e}) = 1
    BY FS_Singleton
  <2>3. IsFiniteSet(V) /\ Cardinality(V) = Cardinality({e}) * Cardinality(1 .. s)
    BY Zenon, <2>1, <2>2, FS_Product
  <2>4. QED
    BY <2>1, <2>2, <2>3
<1>4. /\ IsFiniteSet(U \cup V) /\ Cardinality({}) = 0
      /\ Cardinality(U \cup V) = Cardinality(U) + Cardinality(V) - Cardinality(U \cap V)
  BY <1>3, FS_Union, FS_EmptySet
<1>5. Cardinality(U) \in Nat
  BY FS_CardinalityType
<1>6. Cardinality(U \cap V) = 0
  BY <1>2, <1>4
<1>7. Cardinality(U \cup V) = total + s
  BY <1>3, <1>4, <1>5, <1>6
<1>8. QED
  BY Zenon, <1>1, <1>4, <1>7

LEMMA ScoreSummed ==
  ASSUME NEW dfg \in [Slots -> Nat]
  PROVE  /\ IsFiniteSet(Units(dfg, Slots))
         /\ compute_proximity_score(dfg) = Cardinality(Units(dfg, Slots))
<1> DEFINE N == DFG_MAP_SIZE
           F == [p \in Nat \X (1 .. N) |-> p[1] + dfg[N - p[2]]]
           P(g) == g = [k \in 0 .. DFG_MAP_SIZE |->
                          IF k = 0 THEN 0 ELSE g[k - 1] + dfg[DFG_MAP_SIZE - k]]
           prox_score[k \in 0 .. DFG_MAP_SIZE] ==
             IF k = 0 THEN 0 ELSE prox_score[k - 1] + dfg[DFG_MAP_SIZE - k]
<1>1. N \in Nat /\ 0 \in Nat
  BY TracingAssumption
<1>2. \A k \in 1 .. N : N - k \in Slots /\ dfg[N - k] \in Nat
  BY <1>1 DEF Slots
<1>3. F \in StepFcn(Nat, N)
  BY <1>2 DEF StepFcn
<1>4. PICK f : Recursion(f, Nat, N, 0, F)
  <2> HIDE DEF F, N
  <2>1. QED
    BY <1>1, <1>3, Iteration
<1>5. /\ f \in [0 .. N -> Nat] /\ f[0] = 0
      /\ \A k \in 1 .. N : f[k] = f[k - 1] + dfg[N - k]
  <2>1. ASSUME NEW k \in 1 .. N PROVE f[k] = f[k - 1] + dfg[N - k]
    <3>1. k - 1 \in 0 .. N
      BY <1>1
    <3>2. <<f[k - 1], k>> \in Nat \X (1 .. N)
      BY <1>4, <3>1 DEF Recursion
    <3>3. F[<<f[k - 1], k>>] = f[k - 1] + dfg[N - k]
      BY <3>2
    <3>4. QED
      BY <1>4, <3>3 DEF Recursion
  <2>2. QED
    BY <1>4, <2>1 DEF Recursion
<1>6. P(f)
  <2>1. \A k \in 0 .. N : f[k] = IF k = 0 THEN 0 ELSE f[k - 1] + dfg[N - k]
    BY <1>1, <1>5
  <2>2. f = [k \in 0 .. N |-> f[k]]
    BY <1>5
  <2>3. QED
    BY <2>1, <2>2
<1>7. P(prox_score)
  <2>1. \E g : P(g)
    BY <1>6
  <2>2. prox_score = CHOOSE g : P(g)
    OBVIOUS
  <2>3. QED
    BY <2>1, <2>2, Zenon
<1>8. compute_proximity_score(dfg) = prox_score[N]
  BY DEF compute_proximity_score
<1> HIDE DEF prox_score, F
<1> DEFINE S == {k \in Nat : k <= N => /\ IsFiniteSet(Units(dfg, N - k .. N - 1))
                                       /\ prox_score[k] = Cardinality(Units(dfg, N - k .. N - 1))}
<1>9. 0 \in S
  <2>1. N - 0 .. N - 1 = {}
    BY <1>1
  <2>2. Units(dfg, N - 0 .. N - 1) = {}
    BY <2>1 DEF Units
  <2>3. prox_score[0] = 0
    BY <1>1, <1>7
  <2>4. QED
    BY <1>1, <2>2, <2>3, FS_EmptySet
<1>10. ASSUME NEW k \in Nat, k \in S PROVE k + 1 \in S
  <2> SUFFICES ASSUME k + 1 <= N
               PROVE  /\ IsFiniteSet(Units(dfg, N - (k + 1) .. N - 1))
                      /\ prox_score[k + 1] = Cardinality(Units(dfg, N - (k + 1) .. N - 1))
    OBVIOUS
  <2> DEFINE I == N - k .. N - 1
             e == N - (k + 1)
             s == dfg[e]
  <2>1. k + 1 \in 0 .. N /\ k + 1 # 0 /\ (k + 1) - 1 = k /\ k <= N /\ k + 1 \in 1 .. N
    BY <1>1
  <2>2. prox_score[k + 1] = prox_score[k] + s
    BY <1>7, <2>1
  <2>3. IsFiniteSet(Units(dfg, I)) /\ prox_score[k] = Cardinality(Units(dfg, I))
    BY <1>10, <2>1
  <2>4. N - (k + 1) .. N - 1 = I \cup {e} /\ e \notin I
    BY <1>1, <2>1
  <2>5. s \in Nat
    BY <1>2, <2>1
  <2> HIDE DEF I, e
  <2>6. /\ IsFiniteSet(Units(dfg, I \cup {e}))
        /\ Cardinality(Units(dfg, I \cup {e})) = prox_score[k] + s
    BY <2>3, <2>4, <2>5, UnitsGrow
  <2>7. QED
    BY <2>2, <2>4, <2>6
<1> HIDE DEF S
<1>11. N \in S
  BY <1>1, <1>9, <1>10, NatSet
<1>12. N - N .. N - 1 = Slots
  BY <1>1 DEF Slots
<1>13. QED
  BY <1>1, <1>8, <1>11, <1>12 DEF S

\* What run_target() leaves in dfg_bits, and what compute_proximity_score() makes of it.
DfgOf(path) == IF conf.dumb_mode THEN ZeroDfg
               ELSE Execute(conf.flavour, code, path, ZeroTrace, ZeroDfg).dfg
LEMMA ScoreComputed ==
  ASSUME BuildInv, NodesRead, NodesCompiled, phase \in Fuzzing, NEW r, r.path \in Seq(Visit)
  PROVE  compute_proximity_score(DfgOf(r.path)) = ProximityOf(r)
<1> DEFINE path == r.path
           dfg  == DfgOf(path)
<1>1. Built
  BY DEF BuildInv, Built
<1>2. dfg \in [Slots -> Nat]
  <2>1. ZeroDfg \in [Slots -> Nat]
    BY DEF ZeroDfg, Slots
  <2>2. Execute(conf.flavour, code, path, ZeroTrace, ZeroDfg).dfg \in [Slots -> Nat]
    BY <1>1, ScoresStored
  <2>3. QED
    BY <2>1, <2>2 DEF DfgOf
<1>3. IsFiniteSet(Units(dfg, Slots)) /\ compute_proximity_score(dfg) = Cardinality(Units(dfg, Slots))
  <2> HIDE DEF dfg
  <2>1. QED
    BY <1>2, ScoreSummed
<1>4. CASE conf.flavour # "llvm" \/ conf.dumb_mode
  <2>1. \A i \in Slots : dfg[i] = 0
    <3>1. CASE conf.dumb_mode
      BY <3>1 DEF DfgOf, ZeroDfg, Slots
    <3>2. CASE conf.flavour # "llvm" /\ ~conf.dumb_mode
      <4>1. ASSUME NEW j \in Traced(path) PROVE code[path[j].blk].node = NoNode
        <5>1. path[j] \in Visit
          BY DEF Traced
        <5>2. path[j].blk \in 1 .. Len(code)
          BY <1>1, <5>1 DEF Visit, Blk, Built
        <5>3. QED
          BY <3>2, <5>2 DEF NodesCompiled, NodeSet
      <4>2. \A i \in Slots :
              \/ dfg[i] = 0
              \/ \E j \in Traced(path) : Writes(path[j], i)
        BY <1>1, <3>2, ScoresStored DEF ScoresAfter, DfgOf
      <4>3. QED
        BY <4>1, <4>2 DEF Writes
    <3>3. QED
      BY <1>4, <3>1, <3>2
  <2> HIDE DEF dfg
  <2>2. Units(dfg, Slots) = {}
    BY <2>1 DEF Units
  <2>3. compute_proximity_score(dfg) = 0
    BY <1>3, <2>2, FS_EmptySet
  <2>4. QED
    BY <1>4, <2>3 DEF ProximityOf, dfg
<1>5. CASE conf.flavour = "llvm" /\ ~conf.dumb_mode
  <2> DEFINE S == Units(dfg, Slots)
             T == ProximityUnits(path)
             f == [u \in S |-> <<LineOf(u[1]), u[2]>>]
  <2>1. /\ \A i \in Slots :
             dfg[i] # 0 => /\ LineOf(i) \in Reached(path) /\ dfg[i] = ScoreOf(LineOf(i))
                           /\ i = dfg_node_map[LineOf(i)].idx
        /\ \A key \in Reached(path) : \E i \in Slots : LineOf(i) = key /\ dfg[i] = ScoreOf(key)
    <3>1. dfg = Execute(conf.flavour, code, path, ZeroTrace, ZeroDfg).dfg
      BY <1>5 DEF DfgOf
    <3> HIDE DEF dfg
    <3>2. QED
      BY <1>1, <1>5, <3>1, NodesReached
  <2> HIDE DEF dfg
  <2>2. ASSUME NEW u \in S
        PROVE  /\ u[1] \in Slots /\ u = <<u[1], u[2]>>
               /\ LineOf(u[1]) \in Reached(path) /\ u[2] \in 1 .. ScoreOf(LineOf(u[1]))
               /\ u[1] = dfg_node_map[LineOf(u[1])].idx
    <3>1. u[1] \in Slots /\ u = <<u[1], u[2]>> /\ u[2] \in 1 .. dfg[u[1]]
      BY DEF Units
    <3>2. dfg[u[1]] # 0
      BY <1>2, <3>1
    <3>3. QED
      BY <2>1, <3>1, <3>2
  <2>3. f \in [S -> T]
    BY <2>2 DEF ProximityUnits
  <2>4. ASSUME NEW u \in S, NEW w \in S, f[u] = f[w] PROVE u = w
    <3>1. LineOf(u[1]) = LineOf(w[1]) /\ u[2] = w[2]
      BY <2>4
    <3>2. QED
      BY <2>2, <3>1
  <2>5. ASSUME NEW t \in T PROVE \E u \in S : f[u] = t
    <3>1. PICK key \in Reached(path) : t \in {key} \X (1 .. ScoreOf(key))
      BY DEF ProximityUnits
    <3>2. PICK i \in Slots : LineOf(i) = key /\ dfg[i] = ScoreOf(key)
      BY <2>1
    <3>3. t = <<key, t[2]>> /\ t[2] \in 1 .. dfg[i]
      BY <3>1, <3>2
    <3>4. <<i, t[2]>> \in S
      BY <3>3 DEF Units
    <3>5. f[<<i, t[2]>>] = t
      BY <3>2, <3>3, <3>4
    <3>6. QED
      BY <3>4, <3>5
  <2> HIDE DEF f, S, T
  <2>6. f \in Bijection(S, T)
    BY <2>3, <2>4, <2>5 DEF Bijection, Injection, Surjection, IsInjective
  <2>7. Cardinality(T) = Cardinality(S)
    BY <1>3, <2>6, FS_Bijection DEF ExistsBijection, S
  <2>8. QED
    BY <1>3, <1>5, <2>7 DEF ProximityOf, S, T, dfg
<1>6. QED
  BY <1>4, <1>5

\* The scores of the queue are those of the executions that gave them.
Scored(e) == /\ e.name_score = ProximityOf(e.found_by)
             /\ e.prox_score = ProximityOf(e.kept_by)
ScoreInv ==
  /\ phase = "judge" => run.path \in Seq(Visit) /\ dfg_bits = DfgOf(run.path)
  /\ phase \notin Fuzzing => entries = <<>>
  /\ \A k \in 1 .. Len(entries) : Scored(entries[k])

LEMMA RunScored ==
  ASSUME BuildInv, MapInv, NEW x \in Inputs \cup {{}}, NEW o \in x, run_target(o)
  PROVE  run' = o /\ o.path \in Seq(Visit) /\ dfg_bits' = DfgOf(o.path)
<1>1. o.path \in Seq(Visit)
  BY CoverageAssumption DEF Visit
<1>2. QED
  BY <1>1 DEF run_target, DfgOf

\* What does not change.
LEMMA BuildKept ==
  ASSUME UNCHANGED buildVars
  PROVE  /\ \A e : Scored(e)' <=> Scored(e)
         /\ \A path : DfgOf(path)' = DfgOf(path)
<1>1. conf' = conf /\ dfg_file' = dfg_file /\ code' = code
  BY DEF buildVars
<1>2. /\ \A b : NodeKey(b)' = NodeKey(b)
      /\ \A path : Traced(path)' = Traced(path)
      /\ \A key : ScoreOf(key)' = ScoreOf(key)
  BY <1>1 DEF NodeKey, Traced, ScoreOf
<1>3. \A path : Reached(path)' = Reached(path)
  BY <1>2 DEF Reached
<1>4. \A path : ProximityUnits(path)' = ProximityUnits(path)
  BY <1>2, <1>3 DEF ProximityUnits
<1>5. \A r : ProximityOf(r)' = ProximityOf(r)
  BY <1>1, <1>4 DEF ProximityOf
<1>6. \A path : DfgOf(path)' = DfgOf(path)
  BY <1>1 DEF DfgOf
<1>7. QED
  BY <1>5, <1>6 DEF Scored

\* An entry gets its scores when it is queued, from the execution that is judged.
LEMMA ScoreQueue ==
  ASSUME BuildInv, NodesRead, NodesCompiled, NoveltyInv, ScoreInv, queue_if_new
  PROVE  \A k \in 1 .. Len(entries') : Scored(entries'[k])
<1> DEFINE r == has_new_bits(trace_bits, virgin_bits)
           e == [name_score |-> compute_proximity_score(dfg_bits),
                 prox_score |-> compute_proximity_score(dfg_bits),
                 has_new_cov |-> r.ret = 2, bitmap_size |-> 0, var_behavior |-> FALSE,
                 found_by |-> run, kept_by |-> run,
                 new_cov |-> IsNew(trace_bits), bits |-> Pairs(trace_bits) \ seen]
<1>1. phase = "judge" /\ (entries' = entries \/ entries' = Append(entries, e))
  BY DEF queue_if_new
<1>2. compute_proximity_score(dfg_bits) = ProximityOf(run)
  BY <1>1, ScoreComputed DEF ScoreInv, Fuzzing
<1>3. Scored(e)
  BY <1>2 DEF Scored
<1> HIDE DEF e
<1>4. CASE entries' = entries
  BY <1>4 DEF ScoreInv
<1>5. CASE entries' = Append(entries, e)
  <2>1. entries \in Seq(ToSet(entries)) /\ Len(entries) \in Nat
    BY DEF NoveltyInv
  <2>2. /\ Len(entries') = Len(entries) + 1 /\ entries'[Len(entries) + 1] = e
        /\ \A k \in 1 .. Len(entries) : entries'[k] = entries[k]
    BY <1>5, <2>1, EntryAdded
  <2>3. \A k \in 1 .. Len(entries') : k = Len(entries) + 1 \/ k \in 1 .. Len(entries)
    BY <2>1, <2>2
  <2>4. QED
    BY <1>3, <2>2, <2>3 DEF ScoreInv
<1>6. QED
  BY <1>1, <1>4, <1>5

\* A complete calibration replaces one of them by that of its last execution.
LEMMA ScoreCalibrate ==
  ASSUME BuildInv, NodesRead, NodesCompiled, MapInv, CalInv, NoveltyInv, ScoreInv, calibrate_case
  PROVE  \A k \in 1 .. Len(entries') : Scored(entries'[k])
<1> DEFINE n == Len(entries)
           e == entries[n]
<1>1. phase = "calibrate" /\ \E o \in input : run_target(o)
  BY DEF calibrate_case
<1>2. PICK o \in input : run_target(o)
  BY <1>1
<1>3. run' = o /\ o.path \in Seq(Visit) /\ dfg_bits' = DfgOf(o.path)
  BY <1>2, RunScored DEF MapInv
<1>4. compute_proximity_score(dfg_bits') = ProximityOf(run')
  BY <1>1, <1>3, ScoreComputed DEF Fuzzing
<1>5. /\ entries \in Seq(ToSet(entries)) /\ Len(entries) # 0 /\ n \in Nat /\ n \in 1 .. n
      /\ IsEntry(e) /\ Scored(e)
  BY <1>1 DEF NoveltyInv, ScoreInv
<1>6. \E v : entries' = ReplaceLast(entries, v) /\ Scored(v) /\ e.bits \subseteq v.bits
  <2>1. PICK c, bits : \E new \in BOOLEAN :
          \/ \E complete : EndCalibration(c, bits, new, complete)
          \/ GoOn(c, bits, new)
    BY CalibrateStep
  <2>2. PICK new \in BOOLEAN :
          \/ \E complete : EndCalibration(c, bits, new, complete)
          \/ GoOn(c, bits, new)
    BY <2>1
  <2>3. CASE GoOn(c, bits, new)
    <3> DEFINE v == [e EXCEPT !.bits = @ \cup bits, !.new_cov = @ \/ new]
    <3>1. entries' = ReplaceLast(entries, v)
      BY <2>3 DEF GoOn, ReplaceLast
    <3> HIDE DEF e
    <3>2. /\ v.bits = e.bits \cup bits /\ v.name_score = e.name_score
          /\ v.found_by = e.found_by /\ v.prox_score = e.prox_score /\ v.kept_by = e.kept_by
      BY <1>5 DEF IsEntry
    <3> HIDE DEF v
    <3>3. Scored(v) /\ e.bits \subseteq v.bits
      BY <1>5, <3>2 DEF Scored
    <3>4. QED
      BY <3>1, <3>3
  <2>4. ASSUME NEW complete, EndCalibration(c, bits, new, complete)
        PROVE  \E v : entries' = ReplaceLast(entries, v) /\ Scored(v) /\ e.bits \subseteq v.bits
    <3> DEFINE v == [e EXCEPT !.has_new_cov = @ \/ c.new_bits = 2,
                              !.var_behavior = @ \/ c.var_detected,
                              !.bitmap_size = IF complete THEN count_bytes(trace_bits') ELSE @,
                              !.prox_score = IF complete THEN compute_proximity_score(dfg_bits')
                                             ELSE @,
                              !.kept_by = IF complete THEN run' ELSE @,
                              !.bits = @ \cup bits, !.new_cov = @ \/ new]
    <3>1. entries' = ReplaceLast(entries, v)
      BY <2>4 DEF EndCalibration, ReplaceLast
    <3> HIDE DEF e
    <3>2. /\ v.bits = e.bits \cup bits /\ v.name_score = e.name_score
          /\ v.found_by = e.found_by
          /\ IF complete THEN v.prox_score = compute_proximity_score(dfg_bits') /\ v.kept_by = run'
             ELSE v.prox_score = e.prox_score /\ v.kept_by = e.kept_by
      BY <1>5 DEF IsEntry
    <3> HIDE DEF v
    <3>3. Scored(v) /\ e.bits \subseteq v.bits
      BY <1>4, <1>5, <3>2 DEF Scored
    <3>4. QED
      BY <3>1, <3>3
  <2>5. QED
    BY <2>2, <2>3, <2>4
<1>7. PICK v : entries' = ReplaceLast(entries, v) /\ Scored(v) /\ e.bits \subseteq v.bits
  BY <1>6
<1>8. /\ Len(entries') = n /\ entries'[n] = v
      /\ \A k \in 1 .. n : k # n => entries'[k] = entries[k]
  BY <1>5, <1>7, EntryReplaced
<1>9. QED
  BY <1>7, <1>8 DEF ScoreInv

LEMMA ScoreStep ==
  ASSUME BuildInv, NodesRead, NodesCompiled, MapInv, CalInv, NoveltyInv, ScoreInv, [Next]_vars
  PROVE  ScoreInv'
<1>1. CASE UNCHANGED vars
  <2>1. UNCHANGED <<phase, run, dfg_bits, entries, buildVars>>
    BY <1>1 DEF vars
  <2>2. /\ \A e : Scored(e)' <=> Scored(e)
        /\ \A path : DfgOf(path)' = DfgOf(path)
    BY <2>1, BuildKept
  <2>3. QED
    BY <2>1, <2>2 DEF ScoreInv
<1>2. CASE read_dfg_line \/ compile_block
  <2>1. phase = "dfg" /\ phase' # "judge" /\ entries' = entries
    BY <1>2 DEF read_dfg_line, compile_block, fuzzVars
  <2>2. entries' = <<>> /\ Len(entries') = 0
    BY <2>1 DEF ScoreInv, Fuzzing
  <2>3. QED
    BY <2>1, <2>2 DEF ScoreInv
<1>3. CASE Next /\ ~read_dfg_line /\ ~compile_block
  <2>1. UNCHANGED buildVars /\ phase \in Fuzzing /\ phase' \in Fuzzing
    BY <1>3, FuzzStep
  <2>2. /\ \A e : Scored(e)' <=> Scored(e)
        /\ \A path : DfgOf(path)' = DfgOf(path)
    BY <2>1, BuildKept
  <2>3. \A k \in 1 .. Len(entries') : Scored(entries'[k])
    <3>1. CASE queue_if_new
      BY <3>1, ScoreQueue
    <3>2. CASE calibrate_case
      BY <3>2, ScoreCalibrate
    <3>3. CASE read_bitmap
      <4>1. entries' = <<>> /\ Len(entries') = 0
        BY <3>3 DEF read_bitmap
      <4>2. QED
        BY <4>1
    <3>4. CASE ~queue_if_new /\ ~calibrate_case /\ ~read_bitmap
      <4>1. entries' = entries
        <5>1. CASE skip_requested \/ ignore_fault \/ write_bitmap
          BY <5>1 DEF skip_requested, ignore_fault, write_bitmap, fuzzVars
        <5>2. CASE common_fuzz_stuff
          BY <5>2, Zenon DEF common_fuzz_stuff
        <5>3. CASE judge_tmout
          BY <5>3 DEF judge_tmout
        <5>4. CASE rerun_hang
          BY <5>4 DEF rerun_hang
        <5>5. CASE keep_as_crash
          BY <5>5 DEF keep_as_crash
        <5>6. QED
          BY <1>3, <3>4, <5>1, <5>2, <5>3, <5>4, <5>5 DEF Next
      <4>2. QED
        BY <4>1 DEF ScoreInv
    <3>5. QED
      BY <3>1, <3>2, <3>3, <3>4
  <2>4. phase' = "judge" => run'.path \in Seq(Visit) /\ dfg_bits' = DfgOf(run'.path)
    <3>1. CASE common_fuzz_stuff
      <4>1. PICK x \in Inputs : \E o \in x : run_target(o)
        BY <3>1 DEF common_fuzz_stuff
      <4>2. PICK o \in x : run_target(o)
        BY <4>1
      <4>3. QED
        BY <4>2, RunScored
    <3>2. CASE ~common_fuzz_stuff
      BY <1>3, <3>2, OnlyRunsJudge
    <3>3. QED
      BY <3>1, <3>2
  <2>5. QED
    BY <2>1, <2>2, <2>3, <2>4 DEF ScoreInv
<1>4. QED
  BY <1>1, <1>2, <1>3

\* The score in the name of a queue file and the score of its entry are the sums of the
\* scores of the nodes that one execution of the input reached, each node counted once and
\* with the score of the last line about it, for every program, DFG file, queue and history
\* of calibrations (compute_proximity_score() of afl-fuzz.c).
THEOREM ScoresCorrect == Spec => []ProximityExact
<1>1. Init => ScoreInv
  BY DEF Init, ScoreInv
<1>2. BuildInv /\ NodesRead /\ NodesCompiled /\ MapInv /\ CalInv /\ NoveltyInv /\ ScoreInv
        /\ [Next]_vars => ScoreInv'
  BY ScoreStep
<1>3. ASSUME NoveltyInv, ScoreInv PROVE ProximityExact
  <2>1. entries \in Seq(ToSet(entries)) /\ DOMAIN entries = 1 .. Len(entries)
    BY <1>3 DEF NoveltyInv
  <2>2. QED
    BY <1>3, <2>1 DEF ScoreInv, Scored, ProximityExact
<1>4. QED
  BY <1>1, <1>2, <1>3, BuildCorrect, MapCorrect, NoveltyInvariant, PTL DEF Spec

=============================================================================
