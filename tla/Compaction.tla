----------------------------- MODULE Compaction -----------------------------
(***************************************************************************)
(* How LSB.sv removes entries from the middle of its buffer in a flush:    *)
(* those that stay are copied, in order, to the places behind the read     *)
(* pointer.                                                                *)
(***************************************************************************)
EXTENDS Naturals, Sequences, FiniteSets

(* flush_keep_count: how many of the first i entries stay, when those at   *)
(* the positions in stays do.                                              *)
KeepCount(i, stays) == Cardinality({j \in 1 .. i : j \in stays})

(* flush_compact: the buffer s without the other entries.                  *)
Compacted(s, stays) ==
  [k \in 1 .. KeepCount(Len(s), stays) |->
     s[CHOOSE i \in stays : KeepCount(i, stays) = k]]

=============================================================================
