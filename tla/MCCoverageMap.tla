--------------------------- MODULE MCCoverageMap ----------------------------
(***************************************************************************)
(* Model checking of CoverageMap: a program of three blocks in two files, a *)
(* map of eight bytes in words of two, and room for three nodes.           *)
(***************************************************************************)
EXTENDS CoverageMap, Bitwise

Program ==
  <<[file |-> "a.c", func |-> "f", lines |-> <<1, 2>>, pc |-> 16],
    [file |-> "a.c", func |-> "g", lines |-> <<0, 3, 1>>, pc |-> 80],
    [file |-> "b.c", func |-> "f", lines |-> <<2>>, pc |-> 112]>>

Node(f, l, s) == [line |-> <<f, l>>, score |-> s]
SomeDfgFiles ==
  {<<Node("a.c", 1, 5), Node("b.c", 2, 3)>>,
   \* The same line twice.
   <<Node("a.c", 3, 1), Node("a.c", 3, 7)>>,
   \* As many lines as the map has words, and more.
   <<Node("a.c", 1, 1), Node("a.c", 2, 2), Node("a.c", 3, 4)>>,
   <<Node("b.c", 2, 1), Node("a.c", 2, 2), Node("a.c", 3, 4), Node("a.c", 1, 8)>>}

Config(f, mode) ==
  [flavour |-> f, crash_mode |-> mode, selective |-> FALSE, no_filename_match |-> FALSE,
   dumb_mode |-> FALSE, generous |-> FALSE, ratio |-> 100]
SomeConfigs ==
  {Config("llvm", "NONE"), Config("as64", "CRASH"), Config("qemu", "NONE"),
   [Config("llvm", "NONE") EXCEPT !.selective = TRUE, !.generous = TRUE],
   [Config("llvm", "CRASH") EXCEPT !.selective = TRUE, !.no_filename_match = TRUE],
   [Config("as32", "NONE") EXCEPT !.ratio = 50],
   [Config("qemu", "NONE") EXCEPT !.dumb_mode = TRUE]}
Selected == {<<"a.c", "f">>}

V(b, n) == [blk |-> b, times |-> n]
O(p, f) == [path |-> p, fault |-> f]
SomeInputs ==
  {\* A loop that wraps its counter around.
   {O(<<V(1, 1), V(3, 257), V(1, 1)>>, "NONE")},
   \* A flaky input.
   {O(<<V(3, 1), V(2, 3), V(3, 6)>>, "NONE"), O(<<V(1, 1), V(3, 1)>>, "NONE")},
   {O(<<V(1, 1), V(2, 20)>>, "CRASH"), O(<<V(1, 1), V(3, 1), V(2, 1)>>, "CRASH")},
   \* A hang that is a crash, or nothing, when it is given more time.
   {O(<<V(2, 200)>>, "TMOUT"), O(<<V(2, 1), V(3, 1)>>, "CRASH"), O(<<>>, "NONE")}}

Locations == {1, 6}

BitXor(a, b) == a ^^ b

=============================================================================
