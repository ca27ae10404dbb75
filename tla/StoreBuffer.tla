---------------------------- MODULE StoreBuffer ----------------------------
(***************************************************************************)
(* SB.sv: committed stores on their way to the data cache.  A store enters *)
(* at the write pointer when it commits, is handed to the cache at the     *)
(* leading read pointer and leaves at the trailing one when the cache has  *)
(* answered.  Both ends are reported to the store address buffer through   *)
(* registers, one cycle late.                                              *)
(***************************************************************************)
EXTENDS WrapPointer, FiniteSets, CachePort

CONSTANT SB_DEPTH  (* Entries of the store buffer.                         *)

ASSUME StoreBufferAssumption == SB_DEPTH \in Nat \ {0}

VARIABLES
  sbArray,   (* sb_array: address and value; the byte strobes are data.    *)
  sbWrite,   (* write_ptr                                                  *)
  sbLead,    (* read_ptr_lead                                              *)
  sbTrail,   (* read_ptr_trail                                             *)
  sbEntry,   (* sb_entry_sw, sb_entry_sw_tag, sb_entry_sw_rob_tag          *)
  sbFlush    (* sb_flush_sw, sb_flush_sw_tag                               *)

sbVars == <<sbArray, sbWrite, sbLead, sbTrail, sbEntry, sbFlush>>

SbSlots == 0 .. SB_DEPTH - 1
NoStore == [addr |-> NoAddr, val |-> 0]
NoSbEntry == [valid |-> FALSE, slot |-> 0, tag |-> 0]
NoSbFlush == [valid |-> FALSE, slot |-> 0]

SbTypeOK(tags) ==
  /\ sbArray \in [SbSlots -> [addr : Addrs \cup {NoAddr}, val : Values]]
  /\ {sbWrite, sbLead, sbTrail} \subseteq Pointers(SB_DEPTH)
  /\ sbEntry \in [valid : BOOLEAN, slot : SbSlots, tag : tags]
  /\ sbFlush \in [valid : BOOLEAN, slot : SbSlots]

SbInit ==
  /\ sbArray = [s \in SbSlots |-> NoStore]
  /\ sbWrite = 0 /\ sbLead = 0 /\ sbTrail = 0
  /\ sbEntry = NoSbEntry
  /\ sbFlush = NoSbFlush

SbEmpty == IsEmpty(sbWrite, sbLead)
SbFull == IsFull(sbWrite, sbTrail, SB_DEPTH)
SbDrained == sbWrite = sbTrail

(* The store that is offered to the cache.                                 *)
SbHead == sbArray[Slot(sbLead, SB_DEPTH)]

(* The slots whose store the cache has not answered yet.                   *)
SbLive == {Slot(p, SB_DEPTH) : p \in Window(sbTrail, sbWrite, SB_DEPTH)}

(* Mutant of SbClock: while a store enters, the one handed to the cache    *)
(* stays on offer.                                                         *)
SbClockOneSide(commit, store, tag, taken, answered) ==
  /\ sbArray' = IF commit /\ ~SbFull
                  THEN [sbArray EXCEPT ![Slot(sbWrite, SB_DEPTH)] = store]
                ELSE sbArray
  /\ sbWrite' = IF commit /\ ~SbFull THEN Succ(sbWrite, SB_DEPTH) ELSE sbWrite
  /\ sbEntry' = IF commit /\ ~SbFull
                  THEN [valid |-> TRUE, slot |-> Slot(sbWrite, SB_DEPTH), tag |-> tag]
                ELSE NoSbEntry
  /\ sbLead' = IF taken /\ ~commit THEN Succ(sbLead, SB_DEPTH) ELSE sbLead
  /\ sbTrail' = IF answered THEN Succ(sbTrail, SB_DEPTH) ELSE sbTrail
  /\ sbFlush' = IF answered THEN [valid |-> TRUE, slot |-> Slot(sbTrail, SB_DEPTH)]
                ELSE NoSbFlush

(* One clock edge.  commit says that the head of the ROB, with this tag,   *)
(* is a store that commits; taken that the cache takes the store offered;  *)
(* answered that it answers the oldest one taken.                          *)
SbClock(commit, store, tag, taken, answered) ==
  /\ sbArray' = IF commit /\ ~SbFull
                  THEN [sbArray EXCEPT ![Slot(sbWrite, SB_DEPTH)] = store]
                ELSE sbArray
  /\ sbWrite' = IF commit /\ ~SbFull THEN Succ(sbWrite, SB_DEPTH) ELSE sbWrite
  /\ sbEntry' = IF commit /\ ~SbFull
                  THEN [valid |-> TRUE, slot |-> Slot(sbWrite, SB_DEPTH), tag |-> tag]
                ELSE NoSbEntry
  /\ sbLead' = IF taken THEN Succ(sbLead, SB_DEPTH) ELSE sbLead
  /\ sbTrail' = IF answered THEN Succ(sbTrail, SB_DEPTH) ELSE sbTrail
  /\ sbFlush' = IF answered THEN [valid |-> TRUE, slot |-> Slot(sbTrail, SB_DEPTH)]
                ELSE NoSbFlush

=============================================================================
