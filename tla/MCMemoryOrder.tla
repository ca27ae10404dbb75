--------------------------- MODULE MCMemoryOrder ---------------------------
(***************************************************************************)
(* Small instances of MemoryOrderProperties for TLC.                       *)
(***************************************************************************)
EXTENDS MemoryOrderProperties, TLC

(* Fences and branches do not depend on each other here.                   *)
BranchOrFence == {{"LOAD", "STORE", "BRANCH"}, {"LOAD", "STORE", "FENCE"}}

(* The design treats all double words alike.                               *)
AddrSymmetry == Permutations(Addrs)

(* The state up to a rotation of the ROB, of the store buffer and of the   *)
(* address buffer, and up to the exchange of the two values of a double    *)
(* word: the design does not depend on any of these.                       *)
Flip(a, v) == IF a = NoAddr THEN 0 ELSE IF mem[a] = 0 THEN v ELSE 1 - v
Op(t) == IF rob[t].kind \in {"LOAD", "STORE"}
           THEN <<memOp[t].addr, Flip(memOp[t].addr, memOp[t].val)>> ELSE <<>>
Place(s) == Dist(Slot(sbWrite, SB_DEPTH), s, SB_DEPTH) % SB_DEPTH
ByDepth ==
  << [d \in 0 .. RobCount - 1 |->
        LET t == (RobTop + d) % ROB_DEPTH IN <<rob[t].kind, rob[t].compl, Op(t)>>],
     [i \in LsqSlots |->
        IF lsq[i].valid THEN <<Depth(lsq[i].tag), lsq[i].ready, lsq[i].junior>>
        ELSE <<>>],
     {<<sab[j].addr, sab[j].sel,
        IF sab[j].sel THEN Place(sab[j].slot) ELSE Depth(sab[j].tag)>> :
        j \in SabSlots \ SabVacant},
     [d \in 0 .. Dist(sbWrite, sbTrail, SB_DEPTH) - 1 |->
        LET e == sbArray[Slot(Ahead(sbTrail, d, SB_DEPTH), SB_DEPTH)]
        IN <<e.addr, Flip(e.addr, e.val)>>],
     Dist(sbLead, sbTrail, SB_DEPTH),
     IF sbEntry.valid THEN <<Place(sbEntry.slot), Depth(sbEntry.tag)>> ELSE <<>>,
     IF sbFlush.valid THEN <<Place(sbFlush.slot)>> ELSE <<>>,
     IF lw.valid THEN <<Depth(lw.tag), lw.data,
                        IF lw.data THEN lw.val = memOp[lw.tag].val ELSE TRUE>>
     ELSE <<>>,
     respReady,
     [k \in DOMAIN lsb |-> <<Depth(lsb[k].tag),
                             rob[lsb[k].tag].kind = "LOAD" =>
                               lsb[k].val = memOp[lsb[k].tag].val>>],
     <<cache.st, cache.addr, Flip(cache.addr, cache.val)>> >>

=============================================================================
