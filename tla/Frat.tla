------------------------------- MODULE Frat -------------------------------
(***************************************************************************)
(* FRAT.sv: the speculative register map of the front end and its branch   *)
(* checkpoints.  A checkpoint copies the whole map, the ROB tag of its     *)
(* branch and the head of the free list; the checkpoints form a circular   *)
(* buffer in program order.                                                *)
(***************************************************************************)
EXTENDS RenameParams

VARIABLES
  frat,      (* frat_array: architectural to physical register.            *)
  ckpt,      (* The checkpoint slots: map, tag of the branch, FRL head.    *)
  ckptHead,  (* checkpoint_head: where the next checkpoint goes.           *)
  ckptTail   (* checkpoint_tail: the oldest checkpoint.                    *)

fratVars == <<frat, ckpt, ckptHead, ckptTail>>

Checkpoint ==
  [map : [ArchRegs -> PhyRegs], tag : RobTags, head : Pointers(FRL_DEPTH)]

FratTypeOK ==
  /\ frat \in [ArchRegs -> PhyRegs]
  /\ ckpt \in [CkptSlots -> Checkpoint]
  /\ ckptHead \in Pointers(NUM_CHECKPOINT)
  /\ ckptTail \in Pointers(NUM_CHECKPOINT)

(* The map and head of a checkpoint have no reset value in the code; zero  *)
(* stands for it, and no active checkpoint shows it.                       *)
FratInit ==
  /\ frat = [r \in ArchRegs |-> r]
  /\ ckpt = [i \in CkptSlots |-> [map |-> frat, tag |-> 0, head |-> 0]]
  /\ ckptHead = 0
  /\ ckptTail = 0

FratFull == IsFull(ckptHead, ckptTail, NUM_CHECKPOINT)
FratEmpty == IsEmpty(ckptHead, ckptTail)

ActiveCkpts == Window(ckptTail, ckptHead, NUM_CHECKPOINT)

(* Mutant of Matching: the comparison forgets the active window.           *)
MatchingStale(tag) ==
  {p \in Pointers(NUM_CHECKPOINT) : ckpt[Slot(p, NUM_CHECKPOINT)].tag = tag}

(* The active checkpoints with the tag of the mispredicting branch; when   *)
(* several match, the comparison loop keeps the one in the highest slot.   *)
Matching(tag) ==
  {p \in ActiveCkpts : ckpt[Slot(p, NUM_CHECKPOINT)].tag = tag}
Found(tag) == Matching(tag) # {}
MatchPtr(tag) ==
  CHOOSE p \in Matching(tag) : \A q \in Matching(tag) :
    Slot(q, NUM_CHECKPOINT) <= Slot(p, NUM_CHECKPOINT)
MatchCkpt(tag) == ckpt[Slot(MatchPtr(tag), NUM_CHECKPOINT)]

(* Mutant of RestoredHead: one allocation too far.                         *)
RestoredHeadLate(tag, head) ==
  IF Found(tag) THEN Succ(MatchCkpt(tag).head, FRL_DEPTH) ELSE head

(* frat_frl_head_ptr: where a flush puts the head of the free list.        *)
RestoredHead(tag, head) == IF Found(tag) THEN MatchCkpt(tag).head ELSE head

(* The map after the register write of the instruction in stage 2.         *)
Renamed(map, new) == IF new.rw THEN [map EXCEPT ![new.rd] = new.phy] ELSE map

(* One clock edge.  new is the instruction dispatched in stage 2 (branch:  *)
(* it takes a checkpoint; tag: its ROB entry; rw, rd, phy: its register    *)
(* write) and head the head of the free list.  flushTag is the tag on the  *)
(* CDB and restoring says that cdb_valid and combined_flush hold; commit   *)
(* and commitTag describe the head of the ROB.                             *)
FratClock(new, head, restoring, flushTag, commit, commitTag) ==
  LET restore == restoring /\ Found(flushTag)
      take == new.branch /\ ~FratFull
  IN /\ frat' = Renamed(IF restore THEN MatchCkpt(flushTag).map ELSE frat, new)
     /\ ckpt' = IF take
                  THEN [ckpt EXCEPT ![Slot(ckptHead, NUM_CHECKPOINT)] =
                    [map |-> Renamed(frat, new), tag |-> new.tag, head |-> head]]
                  ELSE ckpt
     /\ ckptHead' = IF take THEN Succ(ckptHead, NUM_CHECKPOINT)
                    ELSE IF restore THEN MatchPtr(flushTag) ELSE ckptHead
     /\ ckptTail' =
          IF /\ ~FratEmpty
             /\ commit
             /\ commitTag = ckpt[Slot(ckptTail, NUM_CHECKPOINT)].tag
            THEN Succ(ckptTail, NUM_CHECKPOINT)
            ELSE ckptTail

=============================================================================
