---------------------------- MODULE WrapPointer ----------------------------
(***************************************************************************)
(* Circular-buffer pointers with an extra wrap bit, as the queues of the   *)
(* processor keep them (ROB.sv, FRL.sv, FRAT.sv).  A pointer of a buffer   *)
(* of D slots is a number in 0 .. 2*D-1: the slot is the part below D and  *)
(* the wrap bit says whether D has been added.  Two pointers are equal     *)
(* when the buffer is empty; they address the same slot with different     *)
(* wrap bits when it is full.  The operators use comparisons instead of %  *)
(* so that they stay linear for the SMT prover.                            *)
(***************************************************************************)
EXTENDS Integers

Pointers(D) == 0 .. 2*D - 1

(* The slot a pointer addresses: the bits below the wrap bit.              *)
Slot(p, D) == IF p < D THEN p ELSE p - D

(* The same slot with the wrap bit toggled.                                *)
Toggle(p, D) == IF p < D THEN p + D ELSE p - D

(* Mutant of Succ: the wrap at the last slot is missing.                   *)
SuccNoWrap(p, D) == p + 1

(* Pointer increment, with the wrap at the last slot.                      *)
Succ(p, D) == IF p = 2*D - 1 THEN 0 ELSE p + 1

(* How far pointer p is ahead of pointer q.                                *)
Dist(p, q, D) == IF p >= q THEN p - q ELSE p - q + 2*D

IsEmpty(w, r) == w = r
IsFull(w, r, D) == w = Toggle(r, D)

(* The pointer k places after q.                                           *)
Ahead(q, k, D) == IF q + k < 2*D THEN q + k ELSE q + k - 2*D

(* The pointers from r (included) up to w (excluded): the occupied places. *)
Window(r, w, D) == {p \in Pointers(D) : Dist(p, r, D) < Dist(w, r, D)}

=============================================================================
