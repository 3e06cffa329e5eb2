----------------------------- MODULE HitCounts ------------------------------
(***************************************************************************)
(* The classes that the tools of DAFL put the hit counts of a trace into.  *)
(* A class is one bit of a byte; the byte is written as the set of its     *)
(* bits.                                                                   *)
(***************************************************************************)
EXTENDS Naturals

Bits == 0 .. 7

\* count_class_lookup8[] of afl-fuzz, count_class_lookup[] of afl-tmin.
count_class(n) ==
  CASE n = 0 -> {} [] n = 1 -> {0} [] n = 2 -> {1} [] n = 3 -> {2}
    [] n \in 4 .. 7 -> {3} [] n \in 8 .. 15 -> {4} [] n \in 16 .. 31 -> {5}
    [] n \in 32 .. 127 -> {6} [] n \in 128 .. 255 -> {7}

=============================================================================
