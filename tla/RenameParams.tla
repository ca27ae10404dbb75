--------------------------- MODULE RenameParams ---------------------------
(***************************************************************************)
(* Sizes shared by the modules of the rename and commit path, and the      *)
(* decoded instruction as they see it (RISC_V_DECODER.sv).                 *)
(***************************************************************************)
EXTENDS WrapPointer

CONSTANTS
  ARCH_REG_COUNT,  (* Architectural registers, x0 included.                *)
  FRL_DEPTH,       (* Slots of the free list: physical minus architectural.*)
  ROB_DEPTH,       (* Entries of the reorder buffer.                       *)
  NUM_CHECKPOINT   (* Branch checkpoints of the FRAT.                      *)

ASSUME SizeAssumption ==
  /\ ARCH_REG_COUNT \in Nat \ {0}
  /\ FRL_DEPTH \in Nat \ {0}
  /\ ROB_DEPTH \in Nat \ {0, 1}
  /\ NUM_CHECKPOINT \in Nat \ {0}

ArchRegs == 0 .. ARCH_REG_COUNT - 1
PhyRegs == 0 .. ARCH_REG_COUNT + FRL_DEPTH - 1
FrlSlots == 0 .. FRL_DEPTH - 1
RobTags == 0 .. ROB_DEPTH - 1
CkptSlots == 0 .. NUM_CHECKPOINT - 1

(* The kinds of instruction the front end treats differently.  JR is jalr  *)
(* with rd = x0, JR31 is jalr through the link register x1, JALR any other *)
(* jalr; ILLEGAL is what the decoder calls INSTR_NONE.                     *)
Kinds == {"ALU", "LOAD", "STORE", "BRANCH", "JAL", "JR", "JALR", "JR31",
          "CSR", "TRAP", "MRET", "FENCE", "FENCE_I", "ILLEGAL"}

(* What the front end reads of an instruction: rd is the destination, rs   *)
(* the source register (base and data register of a STORE).                *)
Instrs == [kind : Kinds, rd : ArchRegs, rs : ArchRegs]

(* rw of the decoder, with the x0 filter of stage1_reg_write.              *)
RegWrite(i) ==
  /\ i.kind \in {"ALU", "LOAD", "JAL", "JALR", "JR31", "CSR"}
  /\ i.rd # 0

JrKinds == {"JR", "JALR"}                            (* jr_inst            *)
SerializingKinds == {"CSR", "TRAP", "MRET", "FENCE_I"}

(* Mutant of RobOnlyKinds: a CSR also takes an issue-queue entry.          *)
RobOnlyKindsNoCsr == (SerializingKinds \ {"CSR"}) \cup {"FENCE"}

RobOnlyKinds == SerializingKinds \cup {"FENCE"}     (* no issue-queue entry *)
CheckpointKinds == {"BRANCH", "JR31"}                (* FRAT.is_branch     *)

=============================================================================
