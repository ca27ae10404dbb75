--------------------------- MODULE MCMemorySystem ---------------------------
(***************************************************************************)
(* A small instance of MemorySystemProperties for TLC: stores to the last  *)
(* word of the first line, loads that evict it, and fetches of that word   *)
(* that may run on into the second line.                                   *)
(***************************************************************************)
EXTENDS MemorySystemProperties

LastWord == {<<0, 1>>}
OtherLine == {<<1, 0>>}

=============================================================================
