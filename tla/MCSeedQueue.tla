---------------------------- MODULE MCSeedQueue ----------------------------
(***************************************************************************)
(* Model checking of SeedQueue.                                            *)
(***************************************************************************)
EXTENDS SeedQueue

FirstTiny == {1}

=============================================================================
