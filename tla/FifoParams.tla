----------------------------- MODULE FifoParams -----------------------------
(***************************************************************************)
(* The parameters of the asynchronous FIFO of BasicModules.                *)
(***************************************************************************)
EXTENDS WrapPointer

CONSTANTS
  FIFO_DEPTH,        (* 1 << ADDR_WIDTH                                    *)
  Data, Zero,        (* The words and the one rd_data has after reset.     *)
  ALMOST_FULL_GAP,   (* 0 turns the flag off.                              *)
  ALMOST_EMPTY_GAP,
  SKEW               (* Whether a pointer that is sampled while it changes *)
                     (* may be caught bit by bit.  A simulation of the     *)
                     (* code never does so, gates of unequal delay do.     *)

(* The elaboration checks of fifo.sv; the gates may be of either kind.     *)
ASSUME FifoAssumption ==
  /\ FIFO_DEPTH \in Nat \ {0}
  /\ Zero \in Data
  /\ ALMOST_FULL_GAP \in 0 .. FIFO_DEPTH - 1
  /\ ALMOST_EMPTY_GAP \in 0 .. FIFO_DEPTH - 1
  /\ SKEW \in BOOLEAN

(* wr_data matters only together with wr_en.                               *)
Offered(push) == IF push THEN Data ELSE {Zero}

=============================================================================
