-------------------------- MODULE MCRenameCommit --------------------------
(***************************************************************************)
(* Small instances of RenameProperties for TLC.  The programs are built    *)
(* from the instructions below; each instance names the ones it mixes.     *)
(***************************************************************************)
EXTENDS RenameProperties

Alu(d, s) == [kind |-> "ALU", rd |-> d, rs |-> s]
Plain(kind, s) == [kind |-> kind, rd |-> 0, rs |-> s]
Writing(kind, d, s) == [kind |-> kind, rd |-> d, rs |-> s]

(* Every kind of instruction once, two ALU instructions that feed each     *)
(* other.  (LOAD is renamed like ALU, MRET commits like TRAP.)             *)
AllKinds ==
  {Alu(1, 2), Alu(2, 1), Plain("STORE", 1), Plain("BRANCH", 1),
   Writing("JAL", 1, 0), Plain("JR", 1), Writing("JALR", 2, 1),
   Writing("JR31", 2, 1), Writing("CSR", 1, 2), Plain("TRAP", 0),
   Plain("MRET", 0), Plain("FENCE", 0), Plain("FENCE_I", 0),
   Plain("ILLEGAL", 0)}

(* Writers and branches only, for deep windows.                            *)
BranchMix == {Alu(1, 1), Plain("BRANCH", 1)}

(* A legal program: no ILLEGAL, which never completes.                     *)
LegalMix ==
  {Plain("BRANCH", 1), Writing("JALR", 1, 1), Writing("CSR", 1, 1)}

-----------------------------------------------------------------------------
(* A view that identifies states with the same future.  Physical register  *)
(* numbers are only ever copied and compared, so a register is named by    *)
(* where it lives: the committed map or its slot of the free list.  What   *)
(* empty slots of the ROB, the checkpoints and stage 2 hold is left out:   *)
(* every read of them is guarded by a pointer comparison or a valid bit.   *)
(* So is the ready bit of a register that is free or just being allocated: *)
(* dispatch clears it before an instruction can wait for it.               *)
Home(p) ==
  LET R == {r \in ArchRegs : rrat[r] = p}
      S == {i \in FrlSlots : frlArray[i] = p}
  IN IF R # {} THEN Min(R)
     ELSE IF S # {} THEN ARCH_REG_COUNT + Min(S)
     ELSE ARCH_REG_COUNT + FRL_DEPTH + p
HomeMap(m) == [r \in ArchRegs |-> Home(m[r])]

LiveReady == {p \in PhyRegs \ FreeRegs :
                rdy[p] /\ ~(stage2.valid /\ stage2.rw /\ p = frlRead)}

LiveState ==
  << [t \in LiveTags |->
        LET e == rob[t]
        IN <<e.kind, e.rd, e.rs, e.compl, Home(iqSrc[t]),
             IF e.rw THEN <<Home(e.curr), Home(e.prev)>>
             ELSE IF e.kind = "STORE" THEN <<Home(e.curr)>> ELSE <<>> >>],
     robRead, robWrite,
     HomeMap(rrat), [i \in FrlSlots |-> Home(frlArray[i])], frlHead, frlTail,
     IF stage2.valid
       THEN <<stage2.kind, stage2.rd, stage2.rs, stage2.taken, Home(stage2.src),
              IF stage2.rw THEN <<Home(stage2.prev), Home(frlRead)>> ELSE <<>> >>
       ELSE <<>>,
     HomeMap(frat),
     [p \in ActiveCkpts |->
        LET c == ckpt[Slot(p, NUM_CHECKPOINT)]
        IN <<HomeMap(c.map), c.tag, c.head>>],
     ckptHead, ckptTail, {Home(p) : p \in LiveReady}, jrStall, csrStall >>

=============================================================================
