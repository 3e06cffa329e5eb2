------------------------------ MODULE Tracing -------------------------------
(***************************************************************************)
(* How the target is instrumented and how an execution of it fills the two *)
(* shared maps: trace_bits (hit counts of branches) and dfg_bits (the      *)
(* proximity scores of the data-flow nodes that were reached).             *)
(*                                                                         *)
(* The target is a sequence of basic blocks.  The LLVM pass of DAFL        *)
(* instruments the blocks of the selected functions and looks up the node  *)
(* of each; afl-as adds a trampoline to every block, or to some of them    *)
(* with AFL_INST_RATIO; QEMU instruments what it executes.  An execution   *)
(* is a path: a sequence of [blk, times], where a block that branches to   *)
(* itself is entered times times in a row.                                 *)
(***************************************************************************)
EXTENDS Integers, Sequences, SequencesExt, FiniteSetsExt

CONSTANTS
  MAP_SIZE,        \* 65536; a power of 2
  DFG_MAP_SIZE,    \* 16284
  Blocks,          \* the program: a sequence of [file, func, lines, pc]
  instr_targets,   \* the <<file, func>> of DAFL_SELECTIVE_COV
  CurLocs,         \* the locations the random numbers of this build yield
  afl_start_code,  \* what QEMU instruments
  afl_end_code,
  afl_inst_rms,
  XOR(_, _)        \* the operator ^ of C and the xor of the assembler

Loc == 0 .. MAP_SIZE - 1
Blk == 1 .. Len(Blocks)

ASSUME TracingAssumption ==
  /\ MAP_SIZE \in Nat \ {0} /\ DFG_MAP_SIZE \in Nat \ {0}
  /\ CurLocs \subseteq Loc /\ CurLocs # {}
  /\ Len(Blocks) \in Nat \ {0}
  /\ \A b \in Blk : Blocks[b].pc \in Nat /\ Blocks[b].lines \in Seq(Nat)

\* What the instrumentation relies on: an exclusive or of two locations is one,
\* since the size of the map is a power of 2, and doing it twice undoes it.
ASSUME XorAssumption ==
  /\ \A a, b \in Loc : /\ XOR(a, b) \in Loc /\ XOR(a, b) = XOR(b, a)
                      /\ XOR(b, XOR(a, b)) = a
  /\ \A b \in Blk : XOR(Blocks[b].pc \div 16, Blocks[b].pc * 256) \in Nat

\* A block that is not instrumented, and one that is no node of the DFG.
None   == -1
NoNode == [idx |-> None, score |-> 0]

----------------------------------------------------------------------------
(* The compilers. *)

\* initDFGNodeMap(): what reading one more line of the file does to the map.
AddNode(nodes, idx, entry) ==
  [key \in DOMAIN nodes \cup {entry.line} |->
     IF key = entry.line THEN [idx |-> idx, score |-> entry.score] ELSE nodes[key]]

\* The LLVM pass takes the node of the first instruction that has one.
NodeOf(b, nodes) ==
  LET Known(k)  == <<Blocks[b].file, Blocks[b].lines[k]>> \in DOMAIN nodes
      positions == {k \in DOMAIN Blocks[b].lines : Blocks[b].lines[k] # 0 /\ Known(k)}
  IN  IF positions = {} THEN NoNode
      ELSE nodes[<<Blocks[b].file, Blocks[b].lines[Min(positions)]>>]

is_inst_targ(b, selective, no_filename_match) ==
  \/ ~selective
  \/ \E t \in instr_targets : /\ no_filename_match \/ t[1] = Blocks[b].file
                              /\ t[2] = Blocks[b].func

\* What a block may be compiled to: its location and its node.
runOnModule(b, conf, nodes) ==
  IF is_inst_targ(b, conf.selective, conf.no_filename_match)
    THEN {[loc |-> l, node |-> NodeOf(b, nodes)] : l \in CurLocs}
    ELSE {[loc |-> None, node |-> NoNode]}

trampoline(b, conf) ==
  {[loc |-> l, node |-> NoNode] : l \in IF conf.ratio = 100 THEN CurLocs
                                      ELSE CurLocs \cup {None}}

\* QEMU derives the location from the address.
Mangled(pc) == XOR(pc \div 16, pc * 256) % MAP_SIZE
afl_maybe_log(b) ==
  LET out == Blocks[b].pc > afl_end_code \/ Blocks[b].pc < afl_start_code
  IN  {[loc  |-> IF out \/ Mangled(Blocks[b].pc) >= afl_inst_rms THEN None
                 ELSE Mangled(Blocks[b].pc),
        node |-> NoNode]}

Compiled(b, conf, nodes) ==
  CASE conf.flavour = "llvm"           -> runOnModule(b, conf, nodes)
    [] conf.flavour \in {"as32", "as64"} -> trampoline(b, conf)
    [] conf.flavour = "qemu"           -> afl_maybe_log(b)

----------------------------------------------------------------------------
(* The code that runs on entering an instrumented block: it stores a hit   *)
(* at index at of the map and leaves prev in __afl_prev_loc.               *)

store_llvm(prev, cur) == [at |-> XOR(prev, cur), prev |-> cur \div 2]

store_as32(prev, ecx) ==
  LET edi == XOR(prev, ecx) IN [at |-> edi, prev |-> ecx \div 2]

store_as64_unshifted(prev, rcx) ==
  LET rcx1 == XOR(rcx, prev) IN [at |-> rcx1, prev |-> XOR(prev, rcx1)]
\* Without a second register: the location is exclusive-ored in place.
store_as64(prev, rcx) ==
  LET rcx1 == XOR(rcx, prev) IN [at |-> rcx1, prev |-> XOR(prev, rcx1) \div 2]

\* __afl_prev_loc is a variable of the whole program, except that each object
\* file has its own in 64-bit code from afl-as (.lcomm).
prev_loc_of(b, flavour) == IF flavour = "as64" THEN Blocks[b].file ELSE "program"

Store(flavour, prev, loc) ==
  CASE flavour = "as32" -> store_as32(prev, loc)
    [] flavour = "as64" -> store_as64(prev, loc)
    [] OTHER            -> store_llvm(prev, loc)

\* A counter is a byte and wraps around.
Hit(area, at, n) == [area EXCEPT ![at] = (@ + n) % 256]

\* The block of visit v is entered: m is the state of the process and its maps,
\* code the compiled blocks.  After two turns of a tight loop all others hit
\* the same byte.
Enter(flavour, code, m, v) ==
  LET c  == code[v.blk]
      p  == prev_loc_of(v.blk, flavour)
      s1 == Store(flavour, m.prev[p], c.loc)
      s2 == Store(flavour, s1.prev, c.loc)
      a1 == Hit(m.area, s1.at, 1)
  IN  IF c.loc = None THEN m
      ELSE [area |-> IF v.times = 1 THEN a1 ELSE Hit(a1, s2.at, v.times - 1),
            prev |-> [m.prev EXCEPT ![p] = IF v.times = 1 THEN s1.prev ELSE s2.prev],
            dfg  |-> IF c.node = NoNode THEN m.dfg
                     ELSE [m.dfg EXCEPT ![c.node.idx] = c.node.score]]

Scopes == {"program"} \cup {Blocks[b].file : b \in Blk}
ZeroTrace == [l \in Loc |-> 0]
ZeroDfg   == [k \in 0 .. DFG_MAP_SIZE - 1 |-> 0]

\* The child of a fork server starts with a __afl_prev_loc of 0.
Execute(flavour, code, path, area, dfg) ==
  LET m[k \in 0 .. Len(path)] ==
        IF k = 0 THEN [area |-> area, prev |-> [s \in Scopes |-> 0], dfg |-> dfg]
                 ELSE Enter(flavour, code, m[k - 1], path[k])
  IN  m[Len(path)]

=============================================================================
