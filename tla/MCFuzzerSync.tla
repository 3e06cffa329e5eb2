---------------------------- MODULE MCFuzzerSync ----------------------------
(***************************************************************************)
(* Model checking of FuzzerSync.                                           *)
(***************************************************************************)
EXTENDS FuzzerSync

CONSTANTS c1, c2, c3

Three == {c1, c2, c3}
One   == <<c1>>

=============================================================================
