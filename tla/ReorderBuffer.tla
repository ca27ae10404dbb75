--------------------------- MODULE ReorderBuffer ---------------------------
(***************************************************************************)
(* ROB.sv: the reorder buffer.  Stage 2 of dispatch appends at the write   *)
(* pointer, the common data bus marks entries complete out of order, the   *)
(* head commits in order, a mispredicted branch cuts the buffer behind its *)
(* own entry, and the commit of a trap or MRET cuts it behind the head.    *)
(***************************************************************************)
EXTENDS RenameParams

VARIABLES
  rob,       (* ROB_array.  kind stands for opclass and trap_cause.        *)
  robWrite,  (* write_ptr                                                  *)
  robRead    (* read_ptr                                                   *)

robVars == <<rob, robWrite, robRead>>

RobEntry == [kind : Kinds, rd : ArchRegs, rs : ArchRegs, rw : BOOLEAN,
             curr : PhyRegs, prev : PhyRegs, compl : BOOLEAN]

RobTypeOK ==
  /\ rob \in [RobTags -> RobEntry]
  /\ robWrite \in Pointers(ROB_DEPTH)
  /\ robRead \in Pointers(ROB_DEPTH)

RobInit ==
  /\ rob = [t \in RobTags |-> [kind |-> "ALU", rd |-> 0, rs |-> 0, rw |-> FALSE,
                               curr |-> 0, prev |-> 0, compl |-> FALSE]]
  /\ robWrite = 0
  /\ robRead = 0

RobEmpty == IsEmpty(robWrite, robRead)
RobFull == IsFull(robWrite, robRead, ROB_DEPTH)
RobCount == Dist(robWrite, robRead, ROB_DEPTH)

(* Mutant of TwoOrMoreVacant: off by one.                                  *)
OneOrMoreVacant == RobCount <= ROB_DEPTH - 1

(* rob_two_or_more_vacant                                                  *)
TwoOrMoreVacant == RobCount <= ROB_DEPTH - 2

RobTop == Slot(robRead, ROB_DEPTH)       (* rob_top_ptr    *)
RobBottom == Slot(robWrite, ROB_DEPTH)   (* rob_bottom_ptr *)
RobHead == rob[RobTop]

(* rob_tag - rob_top_ptr: the distance of a tag from the head of the ROB.  *)
Depth(tag) == IF tag >= RobTop THEN tag - RobTop ELSE tag + ROB_DEPTH - RobTop

(* The instruction is removed by the flush on the CDB: it is younger than  *)
(* the branch that causes it.                                              *)
Flushed(tag, cdb) == cdb.flush /\ Depth(tag) > Depth(cdb.tag)

(* The tags of the occupied entries.                                       *)
LiveTags == {Slot(p, ROB_DEPTH) : p \in Window(robRead, robWrite, ROB_DEPTH)}

(* enable: the head commits.  mem is what the store buffer and the cache   *)
(* coherence controller report: sbFull, sbDrained, cohDone.                *)
Commits(mem) ==
  /\ ~RobEmpty
  /\ RobHead.compl
  /\ RobHead.kind = "STORE" => ~mem.sbFull
  /\ RobHead.kind \in {"FENCE", "FENCE_I"} => mem.sbDrained
  /\ RobHead.kind = "FENCE_I" => mem.cohDone

TrapCommit(mem) == Commits(mem) /\ RobHead.kind \in {"TRAP", "MRET"}
FenceICommit(mem) == Commits(mem) /\ RobHead.kind = "FENCE_I"

(* Mutant of SerializingCommit: a CSR does not release dispatch.           *)
SerializingCommitNoCsr(mem) ==
  Commits(mem) /\ RobHead.kind \in SerializingKinds \ {"CSR"}

(* rob_serializing_committed                                               *)
SerializingCommit(mem) == Commits(mem) /\ RobHead.kind \in SerializingKinds
CsrWrite(mem) == Commits(mem) /\ RobHead.kind = "CSR" /\ RobHead.rw

(* The pointer of the entry with a given tag, from the position of the     *)
(* write pointer.                                                          *)
FlushPtr(tag) ==
  IF (RobBottom > tag) = (robWrite < ROB_DEPTH) THEN tag ELSE tag + ROB_DEPTH

(* One clock edge.  new is the instruction of stage 2 and fires says it is *)
(* dispatched; cdb is the broadcast of this cycle.  The later of the two   *)
(* assignments to the write pointer wins, as in the code.                  *)
RobClock(fires, new, cdb, mem) ==
  LET append == fires /\ ~RobFull
      entry == [kind |-> new.kind, rd |-> new.rd, rs |-> new.rs, rw |-> new.rw,
                curr |-> IF new.kind = "STORE" THEN new.src ELSE new.phy,
                prev |-> new.prev, compl |-> new.kind \in RobOnlyKinds]
      appended == IF append THEN [rob EXCEPT ![RobBottom] = entry] ELSE rob
  IN /\ rob' = IF cdb.valid THEN [appended EXCEPT ![cdb.tag].compl = TRUE]
                ELSE appended
     /\ robRead' = IF Commits(mem) THEN Succ(robRead, ROB_DEPTH) ELSE robRead
     /\ robWrite' = IF TrapCommit(mem) THEN Succ(robRead, ROB_DEPTH)
                    ELSE IF cdb.flush THEN Succ(FlushPtr(cdb.tag), ROB_DEPTH)
                    ELSE IF append THEN Succ(robWrite, ROB_DEPTH)
                    ELSE robWrite

=============================================================================
