--------------------------- MODULE MCSessionResume ---------------------------
(***************************************************************************)
(* Model checking of SessionResume.                                        *)
(***************************************************************************)
EXTENDS SessionResume

CONSTANTS c1, c2, c3

Three == {c1, c2, c3}
Two   == <<c1, c2>>

=============================================================================
