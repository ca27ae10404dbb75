---------------------------- MODULE MCAsyncFifo ----------------------------
(***************************************************************************)
(* A small instance of AsyncFifo for TLC.                                  *)
(***************************************************************************)
EXTENDS AsyncFifo

CONSTANT one

Words == {Zero, one}

=============================================================================
