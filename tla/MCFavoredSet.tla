---------------------------- MODULE MCFavoredSet ----------------------------
(***************************************************************************)
(* Model checking of FavoredSet.                                           *)
(***************************************************************************)
EXTENDS FavoredSet

LastFlaky == {MaxEntries - 1}

=============================================================================
