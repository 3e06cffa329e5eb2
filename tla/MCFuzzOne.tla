----------------------------- MODULE MCFuzzOne ------------------------------
(***************************************************************************)
(* Model checking of FuzzOne with five-bit bytes: the tables of            *)
(* interesting values are those of config.h scaled down, and an input has  *)
(* up to five bytes, so that each kind of word has several positions.      *)
(***************************************************************************)
EXTENDS FuzzOne, Bitwise

BitXor(a, b) == a ^^ b

Interesting8  == <<-16, -1, 0, 1, 2, 4, 8, 12, 15>>
Interesting16 == Interesting8 \o <<-512, -17, 16, 31, 32, 64, 125, 128, 256, 511>>
Interesting32 == Interesting16 \o <<-524288, -196582, -513, 512, 1023, 1024, 196581, 524287>>

LowerCase == [b \in Byte |-> b]

Plain ==
  [data |-> <<0>>, trimmed |-> 1, others |-> {}, extras |-> <<>>,
   no_arith |-> FALSE, det |-> TRUE, splicing |-> FALSE, no_dfg |-> FALSE, t_x |-> FALSE,
   exec_us |-> 10, bitmap_size |-> 10, handicap |-> 0, depth |-> 1, prox |-> 1, avg_prox |-> 1]

SomeEntries ==
  {\* A single byte, three tokens of which some are drawn at random.
   [Plain EXCEPT !.data = <<30>>, !.extras = <<<<7>>, <<30>>, <<2, 3>>>>],
   \* Trimmed to two bytes; AFL_NO_ARITH; a spliced havoc stage.
   [Plain EXCEPT !.data = <<0, 31, 4>>, !.trimmed = 2, !.no_arith = TRUE,
                 !.extras = <<<<0>>, <<0, 31>>>>],
   \* Carries through all bytes of a word in both directions.
   [Plain EXCEPT !.data = <<31, 31, 31, 0, 17>>, !.trimmed = 5],
   \* Values next to each other in the tables, and tokens across flagged blocks.
   [Plain EXCEPT !.data = <<0, 1, 2, 16, 15, 0, 31>>, !.trimmed = 7, !.no_dfg = TRUE,
                 !.extras = <<<<2, 16>>, <<2, 16, 15>>>>],
   \* No deterministic stages: havoc and splicing with a longer and a shorter entry.
   [Plain EXCEPT !.data = <<1, 2, 3>>, !.trimmed = 3, !.det = FALSE, !.splicing = TRUE,
                 !.others = {1, 3, 4}, !.handicap = 5],
   \* A score of 0.
   [Plain EXCEPT !.data = <<1, 2>>, !.trimmed = 2, !.det = FALSE, !.prox = 0],
   [Plain EXCEPT !.data = <<1, 2>>, !.trimmed = 1, !.det = FALSE, !.t_x = TRUE]}

=============================================================================
