------------------------- MODULE RenameProperties -------------------------
(***************************************************************************)
(* What register renaming and in-order commit must get right.  The         *)
(* properties speak of the instructions in flight in program order: the    *)
(* entries of the ROB from the head on, then the instruction in stage 2.   *)
(***************************************************************************)
EXTENDS RenameCommit, FiniteSets, FiniteSetsExt

TagAt(k) == Slot(Ahead(robRead, k, ROB_DEPTH), ROB_DEPTH)

FlightCount == RobCount + (IF stage2.valid THEN 1 ELSE 0)
Places == 0 .. FlightCount - 1

(* The instruction k places behind the head.                               *)
Flight(k) ==
  IF k < RobCount
    THEN LET e == rob[TagAt(k)]
         IN [kind |-> e.kind, rd |-> e.rd, rs |-> e.rs, rw |-> e.rw,
             curr |-> e.curr, prev |-> e.prev, src |-> iqSrc[TagAt(k)]]
    ELSE [kind |-> stage2.kind, rd |-> stage2.rd, rs |-> stage2.rs,
          rw |-> stage2.rw, curr |-> frlRead, prev |-> stage2.prev,
          src |-> stage2.src]

(* The instructions among the first n that write a register.               *)
Writers(n) == {j \in 0 .. n - 1 : Flight(j).rw}

(* The register map that program order gives the instruction at place n:   *)
(* the youngest older writer of each register, or the committed map.       *)
MapBefore(n) ==
  [r \in ArchRegs |->
     LET W == {j \in Writers(n) : Flight(j).rd = r}
     IN IF W = {} THEN rrat[r] ELSE Flight(Max(W)).curr]

(* The free-list pointer one whole turn behind the tail: the allocation    *)
(* point of the oldest writer in flight.                                   *)
FirstAllocated == Toggle(frlTail, FRL_DEPTH)
AllocPtr(n) == Ahead(FirstAllocated, Cardinality(Writers(n)), FRL_DEPTH)

(* The physical registers of the free places of the free list.             *)
FreeRegs == {frlArray[Slot(p, FRL_DEPTH)] :
               p \in Window(frlHead, frlTail, FRL_DEPTH)}

-----------------------------------------------------------------------------
(* No physical register is leaked or owned twice: the slots of the free    *)
(* list and the committed map together hold every register exactly once,   *)
(* through every mix of allocation, commit and flush.                      *)
RegistersConserved ==
  {frlArray[i] : i \in FrlSlots} \cup {rrat[r] : r \in ArchRegs} = PhyRegs

(* The registers of the writers in flight are the slots between the tail   *)
(* (one turn back) and the head, in program order; this is why putting the *)
(* head back frees exactly the registers of the squashed instructions.     *)
AllocationOrder ==
  /\ frlHead = AllocPtr(FlightCount)
  /\ \A k \in Writers(FlightCount) :
       Flight(k).curr = frlArray[Slot(AllocPtr(k), FRL_DEPTH)]

(* Every lookup an instruction made, of its source and of the mapping it   *)
(* replaces, is the one program order gives, although the FRAT lags one    *)
(* cycle behind stage 1 and is rewritten by flushes.                       *)
RenamingFollowsProgramOrder ==
  /\ frat = MapBefore(RobCount)
  /\ \A k \in Places :
       /\ Flight(k).src = MapBefore(k)[Flight(k).rs]
       /\ Flight(k).rw => Flight(k).prev = MapBefore(k)[Flight(k).rd]

(* A register that an instruction in flight has still to read is not up    *)
(* for allocation.                                                         *)
SourceNotFree == \A k \in Places : Flight(k).src \notin FreeRegs

(* The branches and returns in flight whose outcome is still open.         *)
Unresolved == {k \in 0 .. RobCount - 1 :
                 /\ Flight(k).kind \in CheckpointKinds
                 /\ ~rob[TagAt(k)].compl}

(* Every unresolved branch or return owns exactly one checkpoint, which    *)
(* restores the map and the free list as they were just behind it.         *)
CheckpointOfBranch ==
  \A k \in Unresolved :
    /\ Cardinality(Matching(TagAt(k))) = 1
    /\ MatchCkpt(TagAt(k)).map = MapBefore(k + 1)
    /\ MatchCkpt(TagAt(k)).head = AllocPtr(k + 1)

(* The dispatch pipeline never loses an instruction to a full ROB: the     *)
(* one in stage 2 always finds an entry.                                   *)
Stage2FindsEntry == stage2.valid => ~RobFull

(* While a serializing instruction is in flight nothing younger is, so its *)
(* commit acts alone.                                                      *)
SerializingIsYoungest ==
  \A k \in Places :
    Flight(k).kind \in SerializingKinds => k = FlightCount - 1 /\ csrStall

(* RBA.sv has one write port that sets ready bits, and a CSR commit takes  *)
(* it from the CDB: no completion may fall into that cycle.                *)
CsrPortExclusive ==
  ~RobEmpty /\ RobHead.kind = "CSR" => Completable = {}

(* The ready bits tell the truth: committed registers are ready, and the   *)
(* destination of an instruction in flight is ready when its value has     *)
(* been broadcast.  A lost or stale bit starves or corrupts a consumer.    *)
ReadyBitsTruthful ==
  /\ \A r \in ArchRegs : rdy[rrat[r]]
  /\ \A k \in 0 .. RobCount - 1 :
       LET e == rob[TagAt(k)]
       IN e.rw => (rdy[e.curr] <=> e.compl /\ e.kind # "CSR")

(* A trap commit leaves the machine in the committed state: nothing in     *)
(* flight, no checkpoint, the whole free list free and the speculative map *)
(* equal to the committed one, although FRAT.sv restores nothing for it.   *)
TrapIsPrecise ==
  [][robRead' # robRead /\ RobHead.kind \in {"TRAP", "MRET"}
       => /\ FlightCount' = 0
          /\ ActiveCkpts' = {}
          /\ FrlFull'
          /\ frat' = rrat']_vars

(* In-order commit never stops: time and again the ROB is empty or its     *)
(* head leaves it, so no entry stays at the head for ever.                 *)
HeadProgress == []<>RobEmpty \/ []<><<robRead' # robRead>>_vars

(* The stall registers of dispatch are released: an indirect jump by its   *)
(* own redirect, a serializing instruction by its commit, either by an     *)
(* older flush.                                                            *)
StallsReleased == (jrStall \/ csrStall) ~> ~(jrStall \/ csrStall)

-----------------------------------------------------------------------------
(* What the comment in front of the stall rules says: dispatch stalls when *)
(* the FRAT has no checkpoint left for a branch or an indirect jump, so no *)
(* unresolved branch is in flight without one.  It does not hold when the  *)
(* ROB can hold more branches than there are checkpoints.                  *)
BranchHasCheckpoint == \A k \in Unresolved : Found(TagAt(k))

=============================================================================
