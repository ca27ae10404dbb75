----------------------------- MODULE FreeList -----------------------------
(***************************************************************************)
(* FRL.sv: the free list of physical registers.  The list is a circular    *)
(* buffer that is full after reset.  Dispatch reads (allocates) at the     *)
(* head, commit writes (frees) the previous register of the committed      *)
(* instruction at the tail, and a flush puts the head back to the position *)
(* that the checkpoint of the mispredicted branch recorded.                *)
(***************************************************************************)
EXTENDS RenameParams

VARIABLES
  frlArray,  (* The slots.                                                 *)
  frlHead,   (* head_ptr: next register to allocate.                       *)
  frlTail,   (* tail_ptr: next slot to return a register to.               *)
  frlRead    (* frl_read_phy_addr: the register read in the last cycle.    *)

frlVars == <<frlArray, frlHead, frlTail, frlRead>>

FrlTypeOK ==
  /\ frlArray \in [FrlSlots -> PhyRegs]
  /\ frlHead \in Pointers(FRL_DEPTH)
  /\ frlTail \in Pointers(FRL_DEPTH)
  /\ frlRead \in PhyRegs

FrlInit ==
  /\ frlArray = [i \in FrlSlots |-> ARCH_REG_COUNT + i]
  /\ frlHead = 0
  /\ frlTail = FRL_DEPTH
  /\ frlRead = 0

FrlEmpty == IsEmpty(frlHead, frlTail)
FrlFull == IsFull(frlHead, frlTail, FRL_DEPTH)

(* A read is dropped when the list is empty or when the cycle flushes.     *)
FrlDoRead(read, flush) == read /\ ~FrlEmpty /\ ~flush

(* Mutant of FrlClock: a flush leaves the head where it is.                *)
FrlClockNoRestore(commitRw, freed, flush, restored, read) ==
  /\ IF commitRw /\ (~FrlFull \/ FrlDoRead(read, flush))
       THEN /\ frlArray' = [frlArray EXCEPT ![Slot(frlTail, FRL_DEPTH)] = freed]
            /\ frlTail' = Succ(frlTail, FRL_DEPTH)
       ELSE UNCHANGED <<frlArray, frlTail>>
  /\ IF FrlDoRead(read, flush)
       THEN /\ frlRead' = frlArray[Slot(frlHead, FRL_DEPTH)]
            /\ frlHead' = Succ(frlHead, FRL_DEPTH)
       ELSE UNCHANGED <<frlHead, frlRead>>

(* One clock edge.  freed is the prev_phy of the committing instruction    *)
(* and commitRw says whether one that writes a register commits; flush and *)
(* restored are combined_flush and frat_frl_head_ptr; read is dis_frl_read.*)
FrlClock(commitRw, freed, flush, restored, read) ==
  /\ IF commitRw /\ (~FrlFull \/ FrlDoRead(read, flush))
       THEN /\ frlArray' = [frlArray EXCEPT ![Slot(frlTail, FRL_DEPTH)] = freed]
            /\ frlTail' = Succ(frlTail, FRL_DEPTH)
       ELSE UNCHANGED <<frlArray, frlTail>>
  /\ IF FrlDoRead(read, flush)
       THEN /\ frlRead' = frlArray[Slot(frlHead, FRL_DEPTH)]
            /\ frlHead' = Succ(frlHead, FRL_DEPTH)
       ELSE /\ frlHead' = IF flush THEN restored ELSE frlHead
            /\ UNCHANGED frlRead

=============================================================================
