------------------------------ MODULE MCFetch ------------------------------
(***************************************************************************)
(* A small instance of FetchProperties for TLC.                            *)
(***************************************************************************)
EXTENDS FetchProperties

CONSTANT None

Pcs == 0 .. PC_COUNT - 1
TwoTargets == {0, 3}

=============================================================================
