---------------------------- MODULE RenameProofs ----------------------------
(***************************************************************************)
(* The rename and commit path, for every size of its buffers and every     *)
(* program, in two parts.                                                  *)
(*                                                                         *)
(* Part one: type correctness, and serialization - a CSR instruction,      *)
(* trap, MRET or FENCE.I commits with nothing younger in flight, and       *)
(* dispatch never overruns the ROB.                                        *)
(*                                                                         *)
(* Part two: register renaming.  RenameInv says where everything comes     *)
(* from - which registers are in flight and in which order they were taken *)
(* from the free list, what the front map shows, and which checkpoint      *)
(* belongs to which branch.  It is inductive in the states in which every  *)
(* branch has its checkpoint; the theorems are for behaviours that never   *)
(* run out of them, and for a machine that cannot.  The end derives what   *)
(* the invariant says of the registers: the safety properties of           *)
(* RenameProperties.                                                       *)
(***************************************************************************)
EXTENDS RenameProperties, ReorderBufferProofs

-----------------------------------------------------------------------------
(* Part one: types and serialization.                                      *)

(* When the comparison finds a checkpoint, it returns one that matches.    *)
LEMMA MatchPtrMatches ==
  ASSUME NEW tag, Found(tag)
  PROVE  MatchPtr(tag) \in Matching(tag)
<1> DEFINE N == NUM_CHECKPOINT
           M == Matching(tag)
           S == {Slot(p, N) : p \in M}
<1>1. M \subseteq Pointers(N) /\ M # {}
  BY DEF Matching, ActiveCkpts, Window, Found
<1>2. N - 1 \in Nat /\ N \in Nat \ {0}
  BY SizeAssumption
<1>3. S \in SUBSET (0 .. N - 1) /\ S # {}
  BY <1>1, <1>2, PointerTypes
<1>4. \E m \in S : \A x \in S : x <= m
  <2> HIDE DEF S, N
  <2> QED
    BY <1>2, <1>3, MaxExists
<1>5. \E p \in M : \A q \in M : Slot(q, N) <= Slot(p, N)
  BY <1>4
<1> HIDE DEF M, N
<1>6. (CHOOSE p \in M : \A q \in M : Slot(q, N) <= Slot(p, N)) \in M
  BY <1>5
<1> QED
  BY <1>6 DEF MatchPtr, M, N

-----------------------------------------------------------------------------
(* What the inputs of a cycle are.                                         *)
LEMMA InputTypes ==
  ASSUME TypeOK, NEW fetch \in FetchInputs, NEW cdb \in CdbInputs
  PROVE  /\ fetch.valid \in BOOLEAN
         /\ fetch.instr \in Instrs
         /\ fetch.taken \in BOOLEAN
         /\ cdb.valid \in BOOLEAN
         /\ cdb.tag \in RobTags
         /\ cdb.flush \in BOOLEAN
         /\ cdb.valid => cdb.tag \in Completable
         /\ cdb.flush => cdb.valid
<1>1. LiveTags \subseteq RobTags
  BY SizeAssumption, PointerTypes DEF LiveTags, RobTags, Window
<1>2. Completable \subseteq RobTags
  BY <1>1 DEF Completable
<1>3. /\ fetch.valid \in BOOLEAN
      /\ fetch.instr \in Instrs
      /\ fetch.taken \in BOOLEAN
  <2>1. CASE fetch = Nothing
    BY <2>1, SizeAssumption DEF Nothing, Instrs, Kinds, ArchRegs
  <2>2. CASE fetch \in [valid : {TRUE}, instr : Instructions, taken : BOOLEAN]
    BY <2>2, InstructionsAssumption
  <2> QED
    BY <2>1, <2>2 DEF FetchInputs
<1>4. /\ cdb.valid \in BOOLEAN
      /\ cdb.tag \in RobTags
      /\ cdb.flush \in BOOLEAN
      /\ cdb.valid => cdb.tag \in Completable
      /\ cdb.flush => cdb.valid
  <2>1. CASE cdb = Idle
    BY <2>1, SizeAssumption DEF Idle, RobTags
  <2>2. CASE cdb \in [valid : {TRUE}, tag : Completable, flush : BOOLEAN]
    BY <2>2, <1>2
  <2> QED
    BY <2>1, <2>2 DEF CdbInputs
<1> QED
  BY <1>3, <1>4

(* The instruction that stage 2 hands on is well formed.                   *)
LEMMA DispatchedType ==
  ASSUME TypeOK, NEW fires \in BOOLEAN
  PROVE  /\ Dispatched(fires).kind \in Kinds
         /\ Dispatched(fires).rd \in ArchRegs
         /\ Dispatched(fires).rs \in ArchRegs
         /\ Dispatched(fires).rw \in BOOLEAN
         /\ Dispatched(fires).phy \in PhyRegs
         /\ Dispatched(fires).src \in PhyRegs
         /\ Dispatched(fires).prev \in PhyRegs
         /\ Dispatched(fires).tag \in RobTags
         /\ Dispatched(fires).branch \in BOOLEAN
<1>1. stage2 \in Stage2Entry /\ frlRead \in PhyRegs
  BY DEF TypeOK, DispatchTypeOK, FrlTypeOK
<1>2. RobBottom \in RobTags
  BY RobSlotTypes DEF TypeOK
<1> QED
  BY <1>1, <1>2 DEF Dispatched, Stage2Entry

-----------------------------------------------------------------------------
(* Each component keeps its types over a clock edge.                       *)
LEMMA FrlClockTypes ==
  ASSUME FrlTypeOK,
         NEW commitRw \in BOOLEAN, NEW freed \in PhyRegs, NEW flush \in BOOLEAN,
         NEW restored \in Pointers(FRL_DEPTH), NEW read \in BOOLEAN,
         FrlClock(commitRw, freed, flush, restored, read)
  PROVE  FrlTypeOK'
<1>1. /\ Slot(frlHead, FRL_DEPTH) \in FrlSlots
      /\ Succ(frlHead, FRL_DEPTH) \in Pointers(FRL_DEPTH)
      /\ Succ(frlTail, FRL_DEPTH) \in Pointers(FRL_DEPTH)
  BY SizeAssumption, PointerTypes DEF FrlTypeOK, FrlSlots
<1> QED
  BY <1>1 DEF FrlTypeOK, FrlClock

(* The checkpoint that a flush restores is one of the checkpoints.         *)
LEMMA RestoredCheckpoint ==
  ASSUME FratTypeOK, NEW tag, Found(tag)
  PROVE  /\ MatchPtr(tag) \in Pointers(NUM_CHECKPOINT)
         /\ MatchCkpt(tag) \in Checkpoint
<1>1. MatchPtr(tag) \in Pointers(NUM_CHECKPOINT)
  BY MatchPtrMatches DEF Matching, ActiveCkpts, Window
<1>2. Slot(MatchPtr(tag), NUM_CHECKPOINT) \in CkptSlots
  BY <1>1, SizeAssumption, PointerTypes DEF CkptSlots
<1> QED
  BY <1>1, <1>2 DEF MatchCkpt, FratTypeOK

(* A cycle keeps the front map and the checkpoints well typed.             *)
LEMMA FratClockTypes ==
  ASSUME FratTypeOK,
         NEW new, new.rw \in BOOLEAN, new.rd \in ArchRegs, new.phy \in PhyRegs,
         new.tag \in RobTags, new.branch \in BOOLEAN,
         NEW head \in Pointers(FRL_DEPTH), NEW restoring \in BOOLEAN,
         NEW flushTag \in RobTags, NEW commit \in BOOLEAN, NEW commitTag,
         FratClock(new, head, restoring, flushTag, commit, commitTag)
  PROVE  FratTypeOK'
<1>1. /\ Succ(ckptHead, NUM_CHECKPOINT) \in Pointers(NUM_CHECKPOINT)
      /\ Succ(ckptTail, NUM_CHECKPOINT) \in Pointers(NUM_CHECKPOINT)
      /\ Slot(ckptHead, NUM_CHECKPOINT) \in CkptSlots
  BY SizeAssumption, PointerTypes DEF FratTypeOK, CkptSlots
<1>2. \A map \in [ArchRegs -> PhyRegs] : Renamed(map, new) \in [ArchRegs -> PhyRegs]
  BY DEF Renamed
<1>3. Found(flushTag) => /\ MatchPtr(flushTag) \in Pointers(NUM_CHECKPOINT)
                         /\ MatchCkpt(flushTag).map \in [ArchRegs -> PhyRegs]
  BY RestoredCheckpoint DEF Checkpoint
<1>4. frat' \in [ArchRegs -> PhyRegs]
  BY <1>2, <1>3 DEF FratClock, FratTypeOK
<1>5. [map |-> Renamed(frat, new), tag |-> new.tag, head |-> head] \in Checkpoint
  BY <1>2 DEF FratTypeOK, Checkpoint
<1>6. ckpt' \in [CkptSlots -> Checkpoint]
  BY <1>5, <1>1 DEF FratClock, FratTypeOK
<1>7. ckptHead' \in Pointers(NUM_CHECKPOINT) /\ ckptTail' \in Pointers(NUM_CHECKPOINT)
  BY <1>1, <1>3 DEF FratClock, FratTypeOK
<1> QED
  BY <1>4, <1>6, <1>7 DEF FratTypeOK

(* An empty stage 2 is well typed.                                         *)
LEMMA BubbleType == Bubble \in Stage2Entry
BY SizeAssumption DEF Bubble, Stage2Entry, Kinds, ArchRegs, PhyRegs

(* A cycle keeps stage 2 well typed.                                       *)
LEMMA DispatchClockTypes ==
  ASSUME DispatchTypeOK,
         NEW fetch, fetch.valid \in BOOLEAN, fetch.instr \in Instrs,
         fetch.taken \in BOOLEAN, NEW from, NEW flush \in BOOLEAN,
         NEW released \in BOOLEAN, NEW map \in [ArchRegs -> PhyRegs],
         NEW phy \in PhyRegs,
         DispatchClock(fetch, from, flush, released, map, phy)
  PROVE  DispatchTypeOK'
<1>1. \A r \in ArchRegs : Forward(r, map, phy) \in PhyRegs
  BY DEF Forward
<1>2. /\ fetch.instr.rd \in ArchRegs /\ fetch.instr.rs \in ArchRegs
      /\ fetch.instr.kind \in Kinds /\ RegWrite(fetch.instr) \in BOOLEAN
  BY DEF Instrs, RegWrite
<1>3. stage2' \in Stage2Entry
  BY <1>1, <1>2, BubbleType DEF DispatchClock, Stage2Entry
<1> QED
  BY <1>3 DEF DispatchClock, DispatchTypeOK

-----------------------------------------------------------------------------
(* Every register of the path holds a value of its type after any number   *)
(* of cycles: no pointer leaves its buffer, no map or queue entry names a  *)
(* register that does not exist.                                           *)
THEOREM Typing == Spec => []TypeOK
<1>1. Init => TypeOK
  <2> SUFFICES ASSUME Init PROVE TypeOK
    OBVIOUS
  <2>1. FrlTypeOK
    BY SizeAssumption DEF Init, FrlInit, FrlTypeOK, FrlSlots, PhyRegs, Pointers
  <2>2. FratTypeOK
    BY SizeAssumption DEF Init, FratInit, FratTypeOK, Checkpoint, RobTags,
       ArchRegs, PhyRegs, Pointers, CkptSlots
  <2>3. RobTypeOK
    BY SizeAssumption DEF Init, RobInit, RobTypeOK, RobEntry, Kinds, RobTags,
       ArchRegs, PhyRegs, Pointers
  <2>4. DispatchTypeOK
    BY BubbleType DEF Init, DispatchInit, DispatchTypeOK
  <2> QED
    BY <2>1, <2>2, <2>3, <2>4, SizeAssumption
       DEF Init, TypeOK, ArchRegs, PhyRegs, RobTags
<1>2. TypeOK /\ [Next]_vars => TypeOK'
  <2> SUFFICES ASSUME TypeOK, [Next]_vars PROVE TypeOK'
    OBVIOUS
  <2>1. CASE UNCHANGED vars
    BY <2>1 DEF vars, frlVars, fratVars, robVars, dispatchVars, TypeOK,
       FrlTypeOK, FratTypeOK, RobTypeOK, DispatchTypeOK
  <2>2. CASE Next
    <3>1. PICK fetch \in FetchInputs, cdb \in CdbInputs, mem \in MemInputs :
            Cycle(fetch, cdb, mem)
      BY <2>2 DEF Next
    <3> DEFINE dflush == DispatchFlush(cdb, mem)
               cflush == CombinedFlush(cdb, mem)
               fires == Stage2Fires(dflush)
               new == Dispatched(fires)
               read == /\ Stage1Valid(fetch, ToDispatch, dflush)
                       /\ RegWrite(fetch.instr)
    <3>2. /\ fetch.valid \in BOOLEAN
          /\ fetch.instr \in Instrs
          /\ fetch.taken \in BOOLEAN
          /\ cdb.valid \in BOOLEAN
          /\ cdb.tag \in RobTags
          /\ cdb.flush \in BOOLEAN
      BY InputTypes
    <3>3. /\ dflush \in BOOLEAN /\ cflush \in BOOLEAN /\ read \in BOOLEAN
          /\ SerializingCommit(mem) \in BOOLEAN /\ Commits(mem) \in BOOLEAN
      BY <3>2 DEF DispatchFlush, CombinedFlush, TrapCommit, FenceICommit, Commits,
         SerializingCommit, Stage1Valid, RegWrite
    <3>4. fires \in BOOLEAN
      BY DEF Stage2Fires, TypeOK, DispatchTypeOK, Stage2Entry
    <3>5. RobHead \in RobEntry
      BY RobSlotTypes DEF TypeOK
    <3>6. FrlTypeOK'
      <4>1. RobHead.prev \in PhyRegs /\ (Commits(mem) /\ RobHead.rw) \in BOOLEAN
        BY <3>5, <3>3 DEF RobEntry
      <4>2. RestoredHead(cdb.tag, frlHead) \in Pointers(FRL_DEPTH)
        BY RestoredCheckpoint DEF RestoredHead, TypeOK, FratTypeOK, FrlTypeOK,
           Checkpoint
      <4>3. FrlClock(Commits(mem) /\ RobHead.rw, RobHead.prev, cflush,
                     RestoredHead(cdb.tag, frlHead), read)
        BY <3>1 DEF Cycle
      <4> HIDE DEF cflush, read
      <4> QED
        BY <3>3, <4>1, <4>2, <4>3, FrlClockTypes DEF TypeOK
    <3>7. FratTypeOK'
      <4>1. FratClock(new, frlHead, cdb.valid /\ cflush, cdb.tag,
                      Commits(mem), RobTop)
        BY <3>1 DEF Cycle
      <4>2. /\ new.rw \in BOOLEAN /\ new.rd \in ArchRegs /\ new.phy \in PhyRegs
            /\ new.tag \in RobTags /\ new.branch \in BOOLEAN
        BY <3>4, DispatchedType
      <4>3. frlHead \in Pointers(FRL_DEPTH) /\ FratTypeOK
        BY DEF TypeOK, FrlTypeOK
      <4> HIDE DEF cflush, new
      <4> QED
        BY <3>2, <3>3, <4>1, <4>2, <4>3, FratClockTypes
    <3>8. RobTypeOK'
      <4>1. RobClock(fires, new, cdb, mem)
        BY <3>1 DEF Cycle
      <4>2. /\ new.kind \in Kinds /\ new.rd \in ArchRegs /\ new.rs \in ArchRegs
            /\ new.rw \in BOOLEAN /\ new.phy \in PhyRegs /\ new.src \in PhyRegs
            /\ new.prev \in PhyRegs
        BY <3>4, DispatchedType
      <4> HIDE DEF fires, new
      <4> QED
        BY <3>2, <3>4, <4>1, <4>2, RobClockTypes DEF TypeOK
    <3>9. DispatchTypeOK'
      <4>1. DispatchClock(fetch, ToDispatch, dflush, SerializingCommit(mem),
                          frat, frlRead)
        BY <3>1 DEF Cycle
      <4>2. frat \in [ArchRegs -> PhyRegs] /\ frlRead \in PhyRegs /\ DispatchTypeOK
        BY DEF TypeOK, FratTypeOK, FrlTypeOK
      <4> HIDE DEF dflush
      <4> QED
        BY <3>2, <3>3, <4>1, <4>2, DispatchClockTypes
    <3>10. rrat' \in [ArchRegs -> PhyRegs]
      BY <3>1, <3>5 DEF Cycle, RratClock, TypeOK, RobEntry
    <3>11. rdy' \in [PhyRegs -> BOOLEAN]
      BY <3>1 DEF Cycle, RbaClock, TypeOK
    <3>12. iqSrc' \in [RobTags -> PhyRegs]
      BY <3>1 DEF Cycle, TypeOK, DispatchTypeOK, Stage2Entry
    <3> QED
      BY <3>6, <3>7, <3>8, <3>9, <3>10, <3>11, <3>12 DEF TypeOK
  <2> QED
    BY <2>1, <2>2
<1> QED
  BY <1>1, <1>2, PTL DEF Spec

-----------------------------------------------------------------------------
(* The properties mention only the present state and are not inductive:    *)
(* that a serializing instruction is youngest at the next edge follows     *)
(* from csr_stall holding stage 1 while it is in stage 2 or in the ROB,    *)
(* and from two free entries being demanded of the ROB while stage 2 is    *)
(* occupied.                                                               *)
SerialInv ==
  /\ RobCount <= ROB_DEPTH
  /\ stage2.valid => RobCount < ROB_DEPTH
  /\ stage2.valid /\ stage2.kind \in SerializingKinds => csrStall
  /\ \A p \in RobWindow :
       rob[Slot(p, ROB_DEPTH)].kind \in SerializingKinds =>
         Succ(p, ROB_DEPTH) = robWrite /\ csrStall /\ ~stage2.valid

(* What a completion on the CDB guarantees.                                *)
LEMMA CompletionIsLive ==
  ASSUME TypeOK, NEW cdb \in CdbInputs, cdb.valid
  PROVE  /\ cdb.tag \in LiveTags
         /\ rob[cdb.tag].kind \notin RobOnlyKinds
         /\ ~rob[cdb.tag].compl
<1>1. cdb.tag \in Completable
  <2>1. cdb # Idle
    BY DEF Idle
  <2> QED
    BY <2>1 DEF CdbInputs
<1> QED
  BY <1>1 DEF Completable

(* While a serializing instruction is at the head, it is alone: no         *)
(* completion, nothing to dispatch.                                        *)
LEMMA SerializingHeadAlone ==
  ASSUME TypeOK, SerialInv, ~RobEmpty, RobHead.kind \in SerializingKinds
  PROVE  /\ Succ(robRead, ROB_DEPTH) = robWrite
         /\ csrStall
         /\ ~stage2.valid
         /\ Completable = {}
<1>1. /\ Succ(robRead, ROB_DEPTH) = robWrite
      /\ csrStall
      /\ ~stage2.valid
  BY HeadInWindow DEF TypeOK, SerialInv, RobHead, RobTop
<1>2. RobWindow = {robRead}
  BY <1>1, SizeAssumption
     DEF RobWindow, Window, Succ, Dist, Pointers, TypeOK, RobTypeOK
<1>3. LiveTags = {RobTop}
  BY <1>2 DEF LiveTags, RobWindow, RobTop
<1>4. Completable = {}
  BY <1>3 DEF Completable, RobOnlyKinds, RobHead
<1> QED
  BY <1>1, <1>4

-----------------------------------------------------------------------------
(* The invariant holds at reset.                                           *)
LEMMA SerialInit == Init => SerialInv
<1> SUFFICES ASSUME Init PROVE SerialInv
  OBVIOUS
<1>1. RobCount = 0
  BY DEF Init, RobInit, RobCount, Dist
<1>2. RobWindow = {}
  BY SizeAssumption DEF RobWindow, Window, Init, RobInit, Dist, Pointers
<1>3. ~stage2.valid
  BY DEF Init, DispatchInit, Bubble
<1> QED
  BY <1>1, <1>2, <1>3, SizeAssumption DEF SerialInv

(* A cycle preserves the invariant.                                        *)
LEMMA SerialStep ==
  ASSUME TypeOK, SerialInv,
         NEW fetch \in FetchInputs, NEW cdb \in CdbInputs, NEW mem \in MemInputs,
         Cycle(fetch, cdb, mem)
  PROVE  SerialInv'
<1> DEFINE dflush == DispatchFlush(cdb, mem)
           fires == Stage2Fires(dflush)
           accept == Stage1Valid(fetch, ToDispatch, dflush)
           D == ROB_DEPTH
<1>1. /\ robRead \in Pointers(D) /\ robWrite \in Pointers(D) /\ D \in Nat \ {0, 1}
      /\ RobTypeOK /\ RobCount = Dist(robWrite, robRead, D)
      /\ cdb.valid \in BOOLEAN /\ cdb.flush \in BOOLEAN
      /\ cdb.flush => cdb.valid
  BY SizeAssumption, InputTypes DEF TypeOK, RobTypeOK, RobCount
<1>2. /\ robRead' = IF Commits(mem) THEN Succ(robRead, D) ELSE robRead
      /\ robWrite' = IF TrapCommit(mem) THEN Succ(robRead, D)
                     ELSE IF cdb.flush THEN Succ(FlushPtr(cdb.tag), D)
                     ELSE IF fires /\ ~RobFull THEN Succ(robWrite, D)
                     ELSE robWrite
  BY DEF Cycle, RobClock
<1>3. ASSUME NEW t \in RobTags
      PROVE  rob'[t].kind = IF fires /\ ~RobFull /\ t = RobBottom
                              THEN stage2.kind ELSE rob[t].kind
  BY DEF Cycle, RobClock, TypeOK, RobTypeOK, RobEntry, Dispatched
<1>4. /\ stage2' = IF accept
                     THEN [valid |-> TRUE, kind |-> fetch.instr.kind,
                           rd |-> fetch.instr.rd, rs |-> fetch.instr.rs,
                           rw |-> RegWrite(fetch.instr),
                           src |-> Forward(fetch.instr.rs, frat, frlRead),
                           prev |-> Forward(fetch.instr.rd, frat, frlRead),
                           taken |-> fetch.taken]
                     ELSE Bubble
      /\ csrStall' = /\ ~dflush /\ ~SerializingCommit(mem)
                     /\ csrStall \/ (accept /\ fetch.instr.kind \in SerializingKinds)
  BY DEF Cycle, DispatchClock
<1>5. /\ stage2'.valid => accept
      /\ stage2'.valid => stage2'.kind = fetch.instr.kind
  BY <1>4 DEF Bubble
<1>6. accept => /\ ~dflush /\ ~csrStall /\ ~RobFull
                /\ stage2.valid => RobCount <= D - 2
  BY DEF Stage1Valid, NormalStall, ToDispatch, TwoOrMoreVacant
<1>7. /\ fires => stage2.valid /\ ~dflush
      /\ Commits(mem) => ~RobEmpty
      /\ dflush <=> cdb.flush \/ TrapCommit(mem) \/ FenceICommit(mem)
      /\ TrapCommit(mem) => Commits(mem) /\ SerializingCommit(mem)
      /\ FenceICommit(mem) => Commits(mem) /\ SerializingCommit(mem)
      /\ SerializingCommit(mem) => Commits(mem) /\ RobHead.kind \in SerializingKinds
  BY DEF Stage2Fires, Commits, DispatchFlush, CombinedFlush, TrapCommit,
     FenceICommit, SerializingCommit, SerializingKinds
<1>8. SerializingCommit(mem) => /\ Succ(robRead, D) = robWrite
                                /\ csrStall /\ ~stage2.valid /\ ~cdb.valid
  <2> SUFFICES ASSUME SerializingCommit(mem)
               PROVE  /\ Succ(robRead, D) = robWrite
                      /\ csrStall /\ ~stage2.valid /\ ~cdb.valid
    OBVIOUS
  <2>1. ~RobEmpty /\ RobHead.kind \in SerializingKinds
    BY <1>7
  <2>2. cdb.valid => cdb.tag \in Completable
    BY InputTypes
  <2> QED
    BY <2>1, <2>2, SerializingHeadAlone
<1> DEFINE f == FlushPtr(cdb.tag)
<1>9. cdb.flush => /\ f \in RobWindow
                   /\ rob[Slot(f, D)].kind \notin SerializingKinds
                   /\ Commits(mem) => f # robRead
  <2> SUFFICES ASSUME cdb.flush
               PROVE  /\ f \in RobWindow
                      /\ rob[Slot(f, D)].kind \notin SerializingKinds
                      /\ Commits(mem) => f # robRead
    OBVIOUS
  <2>1. /\ cdb.tag \in LiveTags
        /\ rob[cdb.tag].kind \notin RobOnlyKinds
        /\ ~rob[cdb.tag].compl
    BY <1>1, CompletionIsLive
  <2>2. f \in RobWindow /\ Slot(f, D) = cdb.tag
    BY <2>1, <1>1, FlushPtrLive DEF SerialInv
  <2>3. Commits(mem) => rob[Slot(robRead, D)].compl
    BY DEF Commits, RobHead, RobTop
  <2> HIDE DEF f
  <2> QED
    BY <2>1, <2>2, <2>3 DEF RobOnlyKinds
<1>10. /\ RobFull <=> RobCount = D
       /\ RobEmpty <=> RobCount = 0
       /\ RobCount \in 0 .. D
  <2>1. Dist(robWrite, robRead, D) <= D /\ Dist(robWrite, robRead, D) \in Nat
    BY <1>1 DEF SerialInv, Dist, Pointers
  <2> QED
    BY <1>1, <2>1 DEF RobFull, RobEmpty, IsFull, IsEmpty, Toggle, Dist, Pointers
<1> HIDE DEF f, fires, accept, dflush, D
<1>11. /\ RobCount' <= D
       /\ accept => RobCount' < D
  <2>1. RobCount' = Dist(robWrite', robRead', D)
    BY DEF RobCount, D
  <2>2. CASE TrapCommit(mem)
    BY <2>1, <2>2, <1>1, <1>2, <1>7 DEF Dist, Succ, Pointers
  <2>3. CASE ~TrapCommit(mem) /\ cdb.flush
    <3>1. ~accept
      BY <2>3, <1>6, <1>7
    <3>2. robWrite' = Succ(f, D) /\ f \in RobWindow /\ (Commits(mem) => f # robRead)
      BY <2>3, <1>2, <1>9 DEF f, D
    <3>3. Dist(robWrite', robRead', D) <= Dist(robWrite, robRead, D)
      BY <3>2, <1>1, <1>2 DEF RobWindow, Window, Dist, Succ, Pointers, D
    <3> QED
      BY <2>1, <3>1, <3>3, <1>1, <1>10
  <2>4. CASE ~TrapCommit(mem) /\ ~cdb.flush
    <3>1. robWrite' = IF fires /\ ~RobFull THEN Succ(robWrite, D) ELSE robWrite
      BY <2>4, <1>2
    <3>2. Dist(robWrite', robRead', D) <=
            RobCount + (IF fires /\ ~RobFull THEN 1 ELSE 0)
      BY <3>1, <1>1, <1>2, <1>7, <1>10 DEF Dist, Succ, Pointers
    <3> QED
      BY <2>1, <3>2, <1>1, <1>6, <1>7, <1>10 DEF Dist
  <2> QED
    BY <2>2, <2>3, <2>4
<1>12. stage2'.valid /\ stage2'.kind \in SerializingKinds => csrStall'
  BY <1>4, <1>5, <1>6, <1>8
<1>13. ASSUME NEW p \in RobWindow', rob'[Slot(p, D)].kind \in SerializingKinds
       PROVE  Succ(p, D) = robWrite' /\ csrStall' /\ ~stage2'.valid
  <2>1. p \in Pointers(D) /\ Dist(p, robRead', D) < Dist(robWrite', robRead', D)
    BY DEF RobWindow, Window, D
  <2>2. Slot(p, D) \in RobTags
    BY <1>1, <2>1, PointerTypes DEF RobTags, D
  <2>3. ASSUME p \in RobWindow, p # robWrite
        PROVE  rob'[Slot(p, D)].kind = rob[Slot(p, D)].kind
    <3>1. fires /\ ~RobFull => Slot(p, D) # RobBottom
      BY <2>3, <1>1, <1>10, AppendSlotFree DEF RobWindow, RobBottom, D
    <3> QED
      BY <3>1, <2>2, <1>3
  <2>4. ~SerializingCommit(mem)
    <3> SUFFICES ASSUME SerializingCommit(mem) PROVE FALSE
      OBVIOUS
    <3>1. ~fires /\ ~cdb.flush /\ Succ(robRead, D) = robWrite
      BY <1>1, <1>7, <1>8 DEF D
    <3>2. robRead' = robWrite'
      BY <3>1, <1>2, <1>7
    <3> QED
      BY <3>2, <2>1, <1>1, <1>2 DEF Dist, Succ, Pointers
  <2>5. ~cdb.flush
    <3> SUFFICES ASSUME cdb.flush PROVE FALSE
      OBVIOUS
    <3>1. robWrite' = Succ(f, D) /\ f \in RobWindow /\ (Commits(mem) => f # robRead)
      BY <2>4, <1>2, <1>7, <1>9 DEF f, D
    <3>2. p \in RobWindow /\ p # robWrite
      BY <3>1, <2>1, <1>1, <1>2 DEF RobWindow, Window, Dist, Succ, Pointers, D
    <3>3. rob[Slot(p, D)].kind \in SerializingKinds
      BY <3>2, <2>3, <1>13
    <3>4. Succ(p, D) = robWrite
      BY <3>2, <3>3 DEF SerialInv, D
    <3>5. p = f
      BY <3>1, <3>4, <2>1, <1>1, <1>2 DEF RobWindow, Window, Dist, Succ, Pointers, D
    <3> QED
      BY <3>3, <3>5, <1>9
  <2>6. ~dflush
    BY <2>4, <2>5, <1>7
  <2>7. robWrite' = IF fires /\ ~RobFull THEN Succ(robWrite, D) ELSE robWrite
    BY <2>4, <2>5, <1>2, <1>7
  <2>8. CASE p \in RobWindow
    <3>1. p # robWrite
      BY <2>8, <1>1 DEF RobWindow, Window, Dist, Pointers, D
    <3>2. Succ(p, D) = robWrite /\ csrStall /\ ~stage2.valid
      BY <2>8, <3>1, <2>3, <1>13 DEF SerialInv, D
    <3> QED
      BY <3>2, <2>4, <2>6, <2>7, <1>4, <1>5, <1>6, <1>7
  <2>9. CASE p \notin RobWindow
    <3>1. p = robWrite /\ fires /\ ~RobFull
      BY <2>9, <2>1, <2>7, <1>1, <1>2, <1>7, <1>10
         DEF RobWindow, Window, Dist, Succ, Pointers, D
    <3>2. stage2.valid /\ stage2.kind \in SerializingKinds
      BY <3>1, <2>2, <1>3, <1>7, <1>13 DEF RobBottom, D
    <3>3. csrStall
      BY <3>2 DEF SerialInv
    <3> QED
      BY <3>1, <3>3, <2>4, <2>6, <2>7, <1>4, <1>5, <1>6
  <2> QED
    BY <2>8, <2>9
<1> QED
  BY <1>5, <1>11, <1>12, <1>13 DEF SerialInv, D

(* Types and serialization in every reachable state, for every program.    *)
THEOREM SerialInvariant == Spec => [](TypeOK /\ SerialInv)
<1>1. Init => SerialInv
  BY SerialInit
<1>2. TypeOK /\ TypeOK' /\ SerialInv /\ [Next]_vars => SerialInv'
  <2> SUFFICES ASSUME TypeOK, TypeOK', SerialInv, [Next]_vars PROVE SerialInv'
    OBVIOUS
  <2>1. CASE UNCHANGED vars
    BY <2>1 DEF vars, robVars, dispatchVars, SerialInv, RobCount, RobWindow
  <2>2. CASE Next
    BY <2>2, SerialStep DEF Next
  <2> QED
    BY <2>1, <2>2
<1>3. Spec => []TypeOK
  BY Typing
<1> QED
  BY <1>1, <1>2, <1>3, PTL DEF Spec

-----------------------------------------------------------------------------
(* An instruction in stage 2 always finds a free ROB entry: dispatch never *)
(* loses an instruction to a full ROB.                                     *)
THEOREM DispatchFindsEntry == Spec => []Stage2FindsEntry
<1>1. TypeOK /\ SerialInv => Stage2FindsEntry
  <2> SUFFICES ASSUME TypeOK, SerialInv, stage2.valid PROVE ~RobFull
    BY DEF Stage2FindsEntry
  <2>1. RobCount < ROB_DEPTH
    BY DEF SerialInv
  <2> QED
    BY <2>1, SizeAssumption
       DEF RobCount, RobFull, IsFull, Toggle, Dist, Pointers, TypeOK, RobTypeOK
<1> QED
  BY <1>1, SerialInvariant, PTL

(* A serializing instruction in flight is the youngest one, so its commit  *)
(* acts alone.                                                             *)
THEOREM SerializingCommitsAlone == Spec => []SerializingIsYoungest
<1>1. TypeOK /\ SerialInv => SerializingIsYoungest
  <2> SUFFICES ASSUME TypeOK, SerialInv, NEW k \in Places,
                      Flight(k).kind \in SerializingKinds
               PROVE  k = FlightCount - 1 /\ csrStall
    BY DEF SerializingIsYoungest
  <2>1. /\ robRead \in Pointers(ROB_DEPTH) /\ robWrite \in Pointers(ROB_DEPTH)
        /\ ROB_DEPTH \in Nat \ {0} /\ RobCount = Dist(robWrite, robRead, ROB_DEPTH)
        /\ RobCount <= ROB_DEPTH
    BY SizeAssumption DEF TypeOK, RobTypeOK, RobCount, SerialInv
  <2>2. RobCount \in Nat
    BY <2>1 DEF Dist, Pointers
  <2>3. /\ FlightCount = RobCount + (IF stage2.valid THEN 1 ELSE 0)
        /\ k \in 0 .. FlightCount - 1
    BY DEF FlightCount, Places
  <2>4. CASE k < RobCount
    <3> DEFINE p == Ahead(robRead, k, ROB_DEPTH)
    <3>1. p \in RobWindow /\ Dist(p, robRead, ROB_DEPTH) = k
      BY <2>1, <2>2, <2>3, <2>4, PlacesOfWindow DEF RobWindow
    <3>2. rob[Slot(p, ROB_DEPTH)].kind \in SerializingKinds
      BY <2>4 DEF Flight, TagAt
    <3>3. Succ(p, ROB_DEPTH) = robWrite /\ csrStall /\ ~stage2.valid
      BY <3>1, <3>2 DEF SerialInv
    <3>4. k = RobCount - 1
      <4> HIDE DEF p
      <4> QED
        BY <2>1, <3>1, <3>3 DEF Succ, Dist, Pointers, RobWindow, Window
    <3> QED
      BY <2>2, <2>3, <3>3, <3>4
  <2>5. CASE ~(k < RobCount)
    <3>1. stage2.valid /\ k = FlightCount - 1
      BY <2>2, <2>3, <2>5
    <3>2. stage2.kind \in SerializingKinds
      BY <2>5 DEF Flight
    <3> QED
      BY <3>1, <3>2 DEF SerialInv
  <2> QED
    BY <2>4, <2>5
<1> QED
  BY <1>1, SerialInvariant, PTL

(* While a CSR instruction is at the head of the ROB the back end has      *)
(* nothing to complete, so the ready-bit port that CSR commit shares with  *)
(* the CDB is free.                                                        *)
THEOREM CsrHasReadyPort == Spec => []CsrPortExclusive
<1>1. TypeOK /\ SerialInv => CsrPortExclusive
  BY SerializingHeadAlone DEF CsrPortExclusive, SerializingKinds
<1> QED
  BY <1>1, SerialInvariant, PTL

-----------------------------------------------------------------------------
(* Part two: renaming.                                                     *)

(* The number of writers and the map that program order gives, place by    *)
(* place.                                                                  *)
WriterCount(n) == Cardinality(Writers(n))
CountFacts ==
  /\ WriterCount(0) = 0
  /\ \A n \in Nat : /\ WriterCount(n) \in Nat
                    /\ WriterCount(n + 1) =
                         WriterCount(n) + (IF Flight(n).rw THEN 1 ELSE 0)
MapFacts ==
  /\ TypeOK => MapBefore(0) = rrat
  /\ \A n \in Nat : MapBefore(n + 1) =
       [r \in ArchRegs |-> IF Flight(n).rw /\ Flight(n).rd = r
                             THEN Flight(n).curr ELSE MapBefore(n)[r]]

(* Proved from the cardinalities of the sets of writers.                   *)
LEMMA WriterCountSteps == CountFacts
<1>1. \A n \in Nat : IsFiniteSet(Writers(n))
  <2> TAKE n \in Nat
  <2>1. IsFiniteSet(0 .. n - 1) /\ Writers(n) \in SUBSET (0 .. n - 1)
    BY FS_Interval DEF Writers
  <2> QED
    BY <2>1, FS_Subset
<1>2. WriterCount(0) = 0
  <2>1. Writers(0) = {}
    BY DEF Writers
  <2> QED
    BY <2>1, FS_EmptySet DEF WriterCount
<1>3. ASSUME NEW n \in Nat
      PROVE  /\ WriterCount(n) \in Nat
             /\ WriterCount(n + 1) =
                  WriterCount(n) + (IF Flight(n).rw THEN 1 ELSE 0)
  <2>1. WriterCount(n) \in Nat
    BY <1>1, FS_CardinalityType DEF WriterCount
  <2>2. CASE Flight(n).rw
    <3>1. Writers(n + 1) = Writers(n) \cup {n} /\ n \notin Writers(n)
      BY <2>2 DEF Writers
    <3> QED
      BY <3>1, <1>1, <2>1, <2>2, FS_AddElement DEF WriterCount
  <2>3. CASE ~Flight(n).rw
    <3>1. Writers(n + 1) = Writers(n)
      BY <2>3 DEF Writers
    <3> QED
      BY <3>1, <2>1, <2>3 DEF WriterCount
  <2> QED
    BY <2>1, <2>2, <2>3
<1> QED
  BY <1>2, <1>3 DEF CountFacts

(* The greatest member of a set of numbers is its maximum.                 *)
LEMMA MaxOfNats ==
  ASSUME NEW S \in SUBSET Nat, NEW m \in S, \A x \in S : x <= m
  PROVE  Max(S) = m
<1>1. \A x \in S : (\A y \in S : x >= y) => x = m
  OBVIOUS
<1> QED
  BY <1>1 DEF Max

(* Proved from the definition of the last writer.                          *)
LEMMA MapSteps == MapFacts
<1>1. TypeOK => MapBefore(0) = rrat
  <2>1. Writers(0) = {}
    BY DEF Writers
  <2> QED
    BY <2>1 DEF MapBefore, TypeOK
<1>2. ASSUME NEW n \in Nat
      PROVE  MapBefore(n + 1) =
       [r \in ArchRegs |-> IF Flight(n).rw /\ Flight(n).rd = r
                             THEN Flight(n).curr ELSE MapBefore(n)[r]]
  <2> DEFINE W(k, r) == {j \in Writers(k) : Flight(j).rd = r}
  <2>1. ASSUME NEW r \in ArchRegs
        PROVE  (IF W(n + 1, r) = {} THEN rrat[r] ELSE Flight(Max(W(n + 1, r))).curr) =
               (IF Flight(n).rw /\ Flight(n).rd = r THEN Flight(n).curr
                ELSE IF W(n, r) = {} THEN rrat[r] ELSE Flight(Max(W(n, r))).curr)
    <3>1. CASE Flight(n).rw /\ Flight(n).rd = r
      <4>1. n \in W(n + 1, r) /\ W(n + 1, r) \in SUBSET Nat
            /\ \A x \in W(n + 1, r) : x <= n
        BY <3>1 DEF Writers
      <4>2. Max(W(n + 1, r)) = n
        <5> HIDE DEF W
        <5> QED
          BY <4>1, MaxOfNats
      <4> QED
        BY <3>1, <4>1, <4>2
    <3>2. CASE ~(Flight(n).rw /\ Flight(n).rd = r)
      <4>1. W(n + 1, r) = W(n, r)
        BY <3>2 DEF Writers
      <4> QED
        BY <3>2, <4>1
    <3> QED
      BY <3>1, <3>2
  <2> QED
    BY <2>1 DEF MapBefore
<1> QED
  BY <1>1, <1>2 DEF MapFacts

-----------------------------------------------------------------------------
(* One clock cycle seen by the instructions in flight: the head leaves     *)
(* when it commits, a flush keeps the places up to its branch, and stage 1 *)
(* may append one instruction.                                             *)
Out(mem) == IF Commits(mem) THEN 1 ELSE 0
BranchPlace(cdb) == Dist(FlushPtr(cdb.tag), robRead, ROB_DEPTH)
Kept(cdb) == IF cdb.flush THEN BranchPlace(cdb) + 1 ELSE FlightCount
Accepts(fetch, cdb, mem) ==
  Stage1Valid(fetch, ToDispatch, DispatchFlush(cdb, mem))
Fires(cdb, mem) == Stage2Fires(DispatchFlush(cdb, mem))

(* The instructions in flight are those of the ROB and the one in stage 2. *)
LEMMA CountRange ==
  ASSUME TypeOK, SerialInv
  PROVE  /\ RobCount \in 0 .. ROB_DEPTH
         /\ FlightCount \in 0 .. ROB_DEPTH
         /\ stage2.valid => FlightCount = RobCount + 1
         /\ ~stage2.valid => FlightCount = RobCount
         /\ RobEmpty <=> RobCount = 0
         /\ RobFull <=> RobCount = ROB_DEPTH
<1>1. /\ robRead \in Pointers(ROB_DEPTH) /\ robWrite \in Pointers(ROB_DEPTH)
      /\ ROB_DEPTH \in Nat \ {0} /\ stage2.valid \in BOOLEAN
  BY SizeAssumption DEF TypeOK, RobTypeOK, DispatchTypeOK, Stage2Entry
<1>2. RobCount \in 0 .. ROB_DEPTH
  BY <1>1 DEF RobCount, SerialInv, Dist, Pointers
<1>3. stage2.valid => RobCount < ROB_DEPTH
  BY DEF SerialInv
<1>4. /\ RobEmpty <=> RobCount = 0
      /\ RobFull <=> RobCount = ROB_DEPTH
  BY <1>1, <1>2, WindowSize DEF RobCount, RobEmpty, RobFull
<1> QED
  BY <1>1, <1>2, <1>3, <1>4 DEF FlightCount

(* The tags of the places.                                                 *)
LEMMA TagPlaces ==
  ASSUME TypeOK, SerialInv
  PROVE  /\ \A k \in 0 .. ROB_DEPTH : TagAt(k) \in RobTags
         /\ TagAt(0) = RobTop
         /\ TagAt(RobCount) = RobBottom
         /\ \A k \in 0 .. ROB_DEPTH - 1 : Depth(TagAt(k)) = k
         /\ \A t \in RobTags : Depth(t) \in 0 .. ROB_DEPTH - 1 /\ TagAt(Depth(t)) = t
<1>1. /\ robRead \in Pointers(ROB_DEPTH) /\ robWrite \in Pointers(ROB_DEPTH)
      /\ ROB_DEPTH \in Nat \ {0} /\ RobCount <= ROB_DEPTH
  BY SizeAssumption DEF TypeOK, RobTypeOK, SerialInv
<1>2. \A k \in 0 .. ROB_DEPTH : TagAt(k) \in RobTags
  BY <1>1 DEF TagAt, RobTags, Ahead, Slot, Pointers
<1>3. TagAt(0) = RobTop
  BY <1>1 DEF TagAt, RobTop, Ahead, Slot, Pointers
<1>4. TagAt(RobCount) = RobBottom
  BY <1>1 DEF TagAt, RobCount, RobBottom, Ahead, Dist, Slot, Pointers
<1>5. \A k \in 0 .. ROB_DEPTH - 1 : Depth(TagAt(k)) = k
  BY <1>1 DEF TagAt, Depth, RobTop, Ahead, Slot, Pointers
<1>6. \A t \in RobTags : Depth(t) \in 0 .. ROB_DEPTH - 1 /\ TagAt(Depth(t)) = t
  BY <1>1 DEF TagAt, RobTags, Depth, RobTop, Ahead, Slot, Pointers
<1> QED
  BY <1>2, <1>3, <1>4, <1>5, <1>6

(* Live tags are those whose depth is below the number of entries.         *)
LEMMA LiveDepth ==
  ASSUME TypeOK, SerialInv, NEW tag \in LiveTags
  PROVE  /\ tag \in RobTags
         /\ Depth(tag) \in 0 .. RobCount - 1
         /\ Dist(FlushPtr(tag), robRead, ROB_DEPTH) = Depth(tag)
<1>1. /\ robRead \in Pointers(ROB_DEPTH) /\ robWrite \in Pointers(ROB_DEPTH)
      /\ ROB_DEPTH \in Nat \ {0} /\ RobCount <= ROB_DEPTH /\ RobTypeOK
  BY SizeAssumption DEF TypeOK, RobTypeOK, SerialInv
<1> DEFINE p == FlushPtr(tag)
<1>2. p \in Window(robRead, robWrite, ROB_DEPTH) /\ Slot(p, ROB_DEPTH) = tag
  BY <1>1, FlushPtrLive DEF RobWindow
<1> HIDE DEF p
<1>3. tag \in RobTags
  BY <1>1, <1>2 DEF Window, Slot, Pointers, RobTags
<1>4. Depth(tag) \in 0 .. RobCount - 1 /\ Dist(p, robRead, ROB_DEPTH) = Depth(tag)
  BY <1>1, <1>2 DEF Window, Slot, Pointers, Dist, Depth, RobTop, RobCount
<1> QED
  BY <1>3, <1>4 DEF p

(* One cycle in numbers: at most one instruction leaves at the head, a     *)
(* flush cuts the tail, stage 2 dispatches one and stage 1 passes one on.  *)
LEMMA CycleCounts ==
  ASSUME TypeOK, SerialInv,
         NEW fetch \in FetchInputs, NEW cdb \in CdbInputs, NEW mem \in MemInputs,
         Cycle(fetch, cdb, mem)
  PROVE  /\ Out(mem) \in {0, 1}
         /\ Kept(cdb) \in Out(mem) .. FlightCount
         /\ Out(mem) = 1 => RobCount > 0
         /\ cdb.flush => Kept(cdb) > Out(mem)
         /\ RobCount' = Kept(cdb) - Out(mem)
         /\ Kept(cdb) <= RobCount \/ Kept(cdb) = FlightCount
         /\ stage2'.valid <=> Accepts(fetch, cdb, mem)
         /\ Accepts(fetch, cdb, mem) => ~cdb.flush /\ ~DispatchFlush(cdb, mem)
         /\ Fires(cdb, mem) <=> Kept(cdb) = RobCount + 1
         /\ TrapCommit(mem) \/ FenceICommit(mem) =>
              RobCount = 1 /\ ~stage2.valid /\ ~cdb.valid /\ Out(mem) = 1
         /\ \A k \in Nat : k < RobCount' => TagAt(k)' = TagAt(k + Out(mem))
<1> DEFINE D == ROB_DEPTH
           c == Out(mem)
           m == Kept(cdb)
<1>1. /\ robRead \in Pointers(D) /\ robWrite \in Pointers(D) /\ D \in Nat \ {0, 1}
      /\ RobCount = Dist(robWrite, robRead, D) /\ RobCount \in 0 .. D
      /\ FlightCount \in 0 .. D
      /\ stage2.valid => FlightCount = RobCount + 1
      /\ ~stage2.valid => FlightCount = RobCount
      /\ RobEmpty <=> RobCount = 0
      /\ RobFull <=> RobCount = ROB_DEPTH
      /\ stage2.valid \in BOOLEAN
  BY CountRange, SizeAssumption
     DEF TypeOK, RobTypeOK, RobCount, DispatchTypeOK, Stage2Entry
<1>2. /\ robRead' = IF Commits(mem) THEN Succ(robRead, D) ELSE robRead
      /\ robWrite' = IF TrapCommit(mem) THEN Succ(robRead, D)
                     ELSE IF cdb.flush THEN Succ(FlushPtr(cdb.tag), D)
                     ELSE IF Fires(cdb, mem) /\ ~RobFull THEN Succ(robWrite, D)
                     ELSE robWrite
  BY DEF Cycle, RobClock, Fires
<1>3. c \in {0, 1} /\ (c = 1 <=> Commits(mem)) /\ (c = 1 => RobCount > 0)
  BY <1>1 DEF Out, Commits
<1>4. TrapCommit(mem) \/ FenceICommit(mem) =>
        RobCount = 1 /\ ~stage2.valid /\ ~cdb.valid /\ c = 1
  <2> SUFFICES ASSUME TrapCommit(mem) \/ FenceICommit(mem)
               PROVE  RobCount = 1 /\ ~stage2.valid /\ ~cdb.valid /\ c = 1
    OBVIOUS
  <2>1. Commits(mem) /\ ~RobEmpty /\ RobHead.kind \in SerializingKinds
    BY DEF TrapCommit, FenceICommit, Commits, SerializingKinds
  <2>2. Succ(robRead, D) = robWrite /\ ~stage2.valid /\ Completable = {}
    BY <2>1, SerializingHeadAlone
  <2>3. ~cdb.valid
    BY <2>2, InputTypes
  <2>4. RobCount = 1
    BY <2>2, <1>1 DEF Succ, Dist, Pointers
  <2> QED
    BY <2>1, <2>2, <2>3, <2>4, <1>3
<1>5. /\ cdb.flush \in BOOLEAN /\ cdb.valid \in BOOLEAN
      /\ cdb.flush => cdb.valid
  BY InputTypes
<1>6. cdb.flush => /\ FlushPtr(cdb.tag) \in Window(robRead, robWrite, D)
                   /\ m = Dist(FlushPtr(cdb.tag), robRead, D) + 1
                   /\ m \in 1 .. RobCount
                   /\ c = 1 => m > 1
  <2> SUFFICES ASSUME cdb.flush
               PROVE  /\ FlushPtr(cdb.tag) \in Window(robRead, robWrite, D)
                      /\ m = Dist(FlushPtr(cdb.tag), robRead, D) + 1
                      /\ m \in 1 .. RobCount
                      /\ c = 1 => m > 1
    OBVIOUS
  <2>1. cdb.tag \in LiveTags /\ ~rob[cdb.tag].compl
    BY <1>5, CompletionIsLive
  <2>2. /\ FlushPtr(cdb.tag) \in Window(robRead, robWrite, D)
        /\ Slot(FlushPtr(cdb.tag), D) = cdb.tag
    BY <2>1, FlushPtrLive DEF RobWindow, TypeOK, SerialInv
  <2>3. m = Dist(FlushPtr(cdb.tag), robRead, D) + 1
    BY DEF Kept, BranchPlace
  <2>4. m \in 1 .. RobCount
    BY <2>2, <2>3, <1>1 DEF Window, Dist, Pointers
  <2>5. c = 1 => cdb.tag # Slot(robRead, D)
    BY <2>1, <1>3 DEF Commits, RobHead, RobTop
  <2>6. c = 1 => m # 1
    BY <2>2, <2>3, <2>5, <1>1 DEF Window, Dist, Pointers
  <2> HIDE DEF c, m
  <2> QED
    BY <2>2, <2>3, <2>4, <2>6, <1>1
<1>7. ~cdb.flush => m = FlightCount
  BY DEF Kept
<1> HIDE DEF c, m
<1>8. m \in c .. FlightCount
  BY <1>1, <1>3, <1>5, <1>6, <1>7
<1>9. /\ m <= RobCount \/ m = FlightCount
      /\ cdb.flush => m > c
  BY <1>1, <1>3, <1>5, <1>6, <1>7
<1>10. DispatchFlush(cdb, mem) <=> cdb.flush \/ TrapCommit(mem) \/ FenceICommit(mem)
  BY DEF DispatchFlush, CombinedFlush
<1>11. Fires(cdb, mem) <=> stage2.valid /\ ~cdb.flush
  BY <1>4, <1>10 DEF Fires, Stage2Fires
<1>12. Fires(cdb, mem) <=> m = RobCount + 1
  BY <1>1, <1>5, <1>6, <1>7, <1>11
<1>13. RobCount' = m - c
  <2>1. RobCount' = Dist(robWrite', robRead', D)
    BY DEF RobCount
  <2>2. CASE TrapCommit(mem)
    <3>1. m = 1 /\ c = 1
      BY <2>2, <1>1, <1>4, <1>5, <1>7
    <3> QED
      BY <3>1, <2>1, <2>2, <1>1, <1>2, <1>3 DEF Dist, Succ, Pointers
  <2>3. CASE ~TrapCommit(mem) /\ cdb.flush
    <3>1. robWrite' = Succ(FlushPtr(cdb.tag), D)
      BY <2>3, <1>2
    <3> QED
      BY <3>1, <2>1, <2>3, <1>1, <1>2, <1>3, <1>6 DEF Dist, Succ, Window, Pointers
  <2>4. CASE ~TrapCommit(mem) /\ ~cdb.flush
    <3>1. m = IF Fires(cdb, mem) THEN RobCount + 1 ELSE RobCount
      BY <2>4, <1>1, <1>7, <1>11
    <3>2. robWrite' = IF m = RobCount + 1 THEN Succ(robWrite, D) ELSE robWrite
      BY <2>4, <3>1, <1>1, <1>2, <1>8, <1>12
    <3>3. m <= D
      BY <1>1, <1>8
    <3> QED
      BY <3>1, <3>2, <3>3, <2>1, <1>1, <1>2, <1>3, <1>12 DEF Dist, Succ, Pointers
  <2> QED
    BY <2>2, <2>3, <2>4
<1>14. stage2'.valid <=> Accepts(fetch, cdb, mem)
  BY DEF Cycle, DispatchClock, Accepts, Bubble
<1>15. Accepts(fetch, cdb, mem) => ~cdb.flush /\ ~DispatchFlush(cdb, mem)
  BY <1>10 DEF Accepts, Stage1Valid
<1>16. ASSUME NEW k \in Nat, k < RobCount' PROVE TagAt(k)' = TagAt(k + c)
  <2>1. k + c <= D
    BY <1>16, <1>1, <1>3, <1>8, <1>13
  <2>2. TagAt(k)' = Slot(Ahead(robRead', k, D), D)
    BY DEF TagAt
  <2>3. robRead' = IF c = 1 THEN Succ(robRead, D) ELSE robRead
    BY <1>2, <1>3
  <2> QED
    BY <2>1, <2>2, <2>3, <1>1, <1>3 DEF TagAt, Ahead, Succ, Slot, Pointers
<1> QED
  BY <1>3, <1>4, <1>8, <1>9, <1>12, <1>13, <1>14, <1>15, <1>16 DEF c, m

(* The same instruction: the destination register counts when one is       *)
(* written.                                                                *)
SameInstr(i, j) ==
  /\ i.kind = j.kind /\ i.rd = j.rd /\ i.rs = j.rs /\ i.rw = j.rw
  /\ i.src = j.src /\ i.prev = j.prev
  /\ i.rw => i.curr = j.curr

(* The entry k places behind the head is complete.                         *)
Done(k) == rob[TagAt(k)].compl

(* Only kinds with a destination write a register.                         *)
WriterKinds == {"ALU", "LOAD", "JAL", "JALR", "JR31", "CSR"}
WriterInv == stage2.rw => stage2.valid /\ stage2.kind \in WriterKinds

(* The ROB entry of every tag after the cycle.                             *)
LEMMA CycleRob ==
  ASSUME TypeOK, SerialInv,
         NEW fetch \in FetchInputs, NEW cdb \in CdbInputs, NEW mem \in MemInputs,
         Cycle(fetch, cdb, mem), NEW t \in RobTags
  PROVE  LET new == Fires(cdb, mem) /\ t = RobBottom
         IN /\ rob'[t].kind = IF new THEN stage2.kind ELSE rob[t].kind
            /\ rob'[t].rd = IF new THEN stage2.rd ELSE rob[t].rd
            /\ rob'[t].rs = IF new THEN stage2.rs ELSE rob[t].rs
            /\ rob'[t].rw = IF new THEN stage2.rw ELSE rob[t].rw
            /\ rob'[t].prev = IF new THEN stage2.prev ELSE rob[t].prev
            /\ rob'[t].curr = IF new
                                THEN IF stage2.kind = "STORE" THEN stage2.src ELSE frlRead
                                ELSE rob[t].curr
            /\ rob'[t].compl <=> \/ cdb.valid /\ cdb.tag = t
                                 \/ IF new THEN stage2.kind \in RobOnlyKinds
                                    ELSE rob[t].compl
            /\ iqSrc'[t] = IF new THEN stage2.src ELSE iqSrc[t]
<1> DEFINE fires == Fires(cdb, mem)
           entry == [kind |-> stage2.kind, rd |-> stage2.rd, rs |-> stage2.rs,
                     rw |-> fires /\ stage2.rw,
                     curr |-> IF stage2.kind = "STORE" THEN stage2.src ELSE frlRead,
                     prev |-> stage2.prev, compl |-> stage2.kind \in RobOnlyKinds]
           appended == IF fires THEN [rob EXCEPT ![RobBottom] = entry] ELSE rob
<1>1. rob \in [RobTags -> RobEntry] /\ iqSrc \in [RobTags -> PhyRegs]
  BY DEF TypeOK, RobTypeOK
<1>2. fires => ~RobFull
  BY CycleCounts, CountRange
<1>3. rob' = IF cdb.valid THEN [appended EXCEPT ![cdb.tag].compl = TRUE] ELSE appended
  BY <1>2 DEF Cycle, RobClock, Dispatched, Fires
<1>4. iqSrc' = IF fires THEN [iqSrc EXCEPT ![RobBottom] = stage2.src] ELSE iqSrc
  BY DEF Cycle, Fires
<1>5. RobBottom \in RobTags /\ cdb.tag \in RobTags /\ cdb.valid \in BOOLEAN
  BY RobSlotTypes, InputTypes DEF TypeOK
<1>6. entry \in RobEntry
  BY <1>5, DispatchedType DEF RobEntry, TypeOK, DispatchTypeOK, Stage2Entry, FrlTypeOK
<1> HIDE DEF fires, entry
<1>7. appended[t] = IF fires /\ t = RobBottom THEN entry ELSE rob[t]
  BY <1>1, <1>5
<1>8. appended \in [RobTags -> RobEntry]
  BY <1>1, <1>5, <1>6
<1> HIDE DEF appended
<1>9. /\ rob'[t].kind = appended[t].kind
      /\ rob'[t].rd = appended[t].rd
      /\ rob'[t].rs = appended[t].rs
      /\ rob'[t].rw = appended[t].rw
      /\ rob'[t].prev = appended[t].prev
      /\ rob'[t].curr = appended[t].curr
      /\ rob'[t].compl <=> (cdb.valid /\ cdb.tag = t) \/ appended[t].compl
  BY <1>3, <1>5, <1>8 DEF RobEntry
<1>10. iqSrc'[t] = IF fires /\ t = RobBottom THEN stage2.src ELSE iqSrc[t]
  BY <1>1, <1>4, <1>5
<1> DEFINE now == Fires(cdb, mem) /\ t = RobBottom
<1>11. now => /\ appended[t].kind = stage2.kind /\ appended[t].rd = stage2.rd
              /\ appended[t].rs = stage2.rs /\ appended[t].rw = stage2.rw
              /\ appended[t].prev = stage2.prev
              /\ appended[t].curr =
                   IF stage2.kind = "STORE" THEN stage2.src ELSE frlRead
              /\ (appended[t].compl <=> stage2.kind \in RobOnlyKinds)
  <2>1. stage2.rw \in BOOLEAN
    BY DEF TypeOK, DispatchTypeOK, Stage2Entry
  <2>2. fires => entry.rw = stage2.rw
    BY <2>1 DEF entry
  <2>3. entry.compl <=> stage2.kind \in RobOnlyKinds
    BY DEF entry
  <2>4. /\ entry.kind = stage2.kind /\ entry.rd = stage2.rd
        /\ entry.rs = stage2.rs /\ entry.prev = stage2.prev
        /\ entry.curr = IF stage2.kind = "STORE" THEN stage2.src ELSE frlRead
    BY DEF entry
  <2> QED
    BY <1>7, <2>2, <2>3, <2>4 DEF fires
<1>12. ~now => appended[t] = rob[t]
  BY <1>7 DEF fires
<1>13. iqSrc'[t] = IF now THEN stage2.src ELSE iqSrc[t]
  BY <1>10 DEF fires
<1> HIDE DEF now
<1> SUFFICES
      /\ rob'[t].kind = IF now THEN stage2.kind ELSE rob[t].kind
      /\ rob'[t].rd = IF now THEN stage2.rd ELSE rob[t].rd
      /\ rob'[t].rs = IF now THEN stage2.rs ELSE rob[t].rs
      /\ rob'[t].rw = IF now THEN stage2.rw ELSE rob[t].rw
      /\ rob'[t].prev = IF now THEN stage2.prev ELSE rob[t].prev
      /\ rob'[t].curr = IF now
                          THEN IF stage2.kind = "STORE" THEN stage2.src ELSE frlRead
                          ELSE rob[t].curr
      /\ rob'[t].compl <=> \/ cdb.valid /\ cdb.tag = t
                           \/ IF now THEN stage2.kind \in RobOnlyKinds
                              ELSE rob[t].compl
      /\ iqSrc'[t] = IF now THEN stage2.src ELSE iqSrc[t]
  BY Zenon DEF now
<1>14. rob'[t].compl <=> \/ cdb.valid /\ cdb.tag = t
                         \/ IF now THEN stage2.kind \in RobOnlyKinds
                            ELSE rob[t].compl
  BY <1>9, <1>11, <1>12
<1> QED
  BY <1>9, <1>11, <1>12, <1>13, <1>14

(* One cycle, place by place: the instruction at place k was at place k +  *)
(* Out, with the same registers, and is done if it was or is broadcast     *)
(* now.                                                                    *)
LEMMA CycleFlight ==
  ASSUME TypeOK, SerialInv, WriterInv,
         NEW fetch \in FetchInputs, NEW cdb \in CdbInputs, NEW mem \in MemInputs,
         Cycle(fetch, cdb, mem), NEW k \in Nat, k < RobCount'
  PROVE  /\ k + Out(mem) \in 0 .. FlightCount - 1
         /\ SameInstr(Flight(k)', Flight(k + Out(mem)))
         /\ Done(k)' <=> \/ cdb.valid /\ cdb.tag = TagAt(k + Out(mem))
                         \/ IF k + Out(mem) < RobCount THEN Done(k + Out(mem))
                            ELSE stage2.kind \in RobOnlyKinds
<1> DEFINE j == k + Out(mem)
<1>1. /\ Out(mem) \in {0, 1}
      /\ Kept(cdb) \in Out(mem) .. FlightCount
      /\ RobCount' = Kept(cdb) - Out(mem)
      /\ Fires(cdb, mem) <=> Kept(cdb) = RobCount + 1
      /\ TagAt(k)' = TagAt(j)
      /\ RobCount \in 0 .. ROB_DEPTH /\ FlightCount \in 0 .. ROB_DEPTH
      /\ stage2.valid => FlightCount = RobCount + 1
      /\ ~stage2.valid => FlightCount = RobCount
      /\ stage2.valid \in BOOLEAN
  BY CycleCounts, CountRange DEF TypeOK, DispatchTypeOK, Stage2Entry
<1>2. k \in Nat /\ j \in Nat /\ j < Kept(cdb) /\ j < FlightCount /\ k < RobCount'
      /\ j < ROB_DEPTH
  BY <1>1, SizeAssumption
<1> HIDE DEF j
<1>3. TagAt(j) \in RobTags /\ (TagAt(j) = RobBottom /\ Fires(cdb, mem) <=> j = RobCount)
  BY <1>1, <1>2, TagPlaces, SizeAssumption
<1>4. Flight(k)' = [kind |-> rob'[TagAt(k)'].kind, rd |-> rob'[TagAt(k)'].rd,
                    rs |-> rob'[TagAt(k)'].rs, rw |-> rob'[TagAt(k)'].rw,
                    curr |-> rob'[TagAt(k)'].curr, prev |-> rob'[TagAt(k)'].prev,
                    src |-> iqSrc'[TagAt(k)']]
  BY <1>2 DEF Flight
<1> DEFINE t == TagAt(j)
<1>5. Flight(k)' = [kind |-> rob'[t].kind, rd |-> rob'[t].rd, rs |-> rob'[t].rs,
                    rw |-> rob'[t].rw, curr |-> rob'[t].curr, prev |-> rob'[t].prev,
                    src |-> iqSrc'[t]]
  BY <1>1, <1>4
<1>6. Done(k)' <=> rob'[t].compl
  BY <1>1 DEF Done
<1> DEFINE new == Fires(cdb, mem) /\ t = RobBottom
<1>7. /\ rob'[t].kind = IF new THEN stage2.kind ELSE rob[t].kind
      /\ rob'[t].rd = IF new THEN stage2.rd ELSE rob[t].rd
      /\ rob'[t].rs = IF new THEN stage2.rs ELSE rob[t].rs
      /\ rob'[t].rw = IF new THEN stage2.rw ELSE rob[t].rw
      /\ rob'[t].prev = IF new THEN stage2.prev ELSE rob[t].prev
      /\ rob'[t].curr = IF new
                          THEN IF stage2.kind = "STORE" THEN stage2.src ELSE frlRead
                          ELSE rob[t].curr
      /\ rob'[t].compl <=> \/ cdb.valid /\ cdb.tag = t
                           \/ IF new THEN stage2.kind \in RobOnlyKinds
                              ELSE rob[t].compl
      /\ iqSrc'[t] = IF new THEN stage2.src ELSE iqSrc[t]
  <2> HIDE DEF t
  <2> QED
    BY <1>3, CycleRob DEF t
<1>8. new <=> ~(j < RobCount)
  BY <1>1, <1>2, <1>3
<1> HIDE DEF new
<1>9. SameInstr(Flight(k)', Flight(j))
  <2>1. CASE j < RobCount
    <3>1. Flight(j) = [kind |-> rob[t].kind, rd |-> rob[t].rd, rs |-> rob[t].rs,
                       rw |-> rob[t].rw, curr |-> rob[t].curr, prev |-> rob[t].prev,
                       src |-> iqSrc[t]]
      BY <2>1 DEF Flight
    <3> HIDE DEF t
    <3> QED
      BY <1>5, <1>7, <1>8, <2>1, <3>1 DEF SameInstr
  <2>2. CASE ~(j < RobCount)
    <3>1. Flight(j) = [kind |-> stage2.kind, rd |-> stage2.rd, rs |-> stage2.rs,
                       rw |-> stage2.rw, curr |-> frlRead, prev |-> stage2.prev,
                       src |-> stage2.src]
      BY <2>2 DEF Flight
    <3>2. stage2.rw => stage2.kind # "STORE"
      BY DEF WriterInv, WriterKinds
    <3> HIDE DEF t
    <3> QED
      BY <1>5, <1>7, <1>8, <2>2, <3>1, <3>2 DEF SameInstr
  <2> QED
    BY <2>1, <2>2
<1>10. Done(k)' <=> \/ cdb.valid /\ cdb.tag = TagAt(j)
                    \/ IF j < RobCount THEN Done(j)
                       ELSE stage2.kind \in RobOnlyKinds
  <2> HIDE DEF t
  <2> QED
    BY <1>6, <1>7, <1>8 DEF Done, t
<1> QED
  BY <1>1, <1>2, <1>9, <1>10 DEF j

(* The instruction that stage 1 accepts is the new last place.             *)
LEMMA CycleEntry ==
  ASSUME TypeOK, SerialInv,
         NEW fetch \in FetchInputs, NEW cdb \in CdbInputs, NEW mem \in MemInputs,
         Cycle(fetch, cdb, mem)
  PROVE  /\ FlightCount' =
              RobCount' + (IF Accepts(fetch, cdb, mem) THEN 1 ELSE 0)
         /\ Accepts(fetch, cdb, mem) =>
              \A n \in Nat : n = RobCount' =>
                Flight(n)' =
                  [kind |-> fetch.instr.kind, rd |-> fetch.instr.rd,
                   rs |-> fetch.instr.rs, rw |-> RegWrite(fetch.instr),
                   curr |-> frlRead',
                   prev |-> Forward(fetch.instr.rd, frat, frlRead),
                   src |-> Forward(fetch.instr.rs, frat, frlRead)]
<1>1. /\ RobCount' = Kept(cdb) - Out(mem)
      /\ Kept(cdb) \in Out(mem) .. FlightCount /\ Out(mem) \in {0, 1}
      /\ stage2'.valid <=> Accepts(fetch, cdb, mem)
      /\ FlightCount \in 0 .. ROB_DEPTH
  BY CycleCounts, CountRange
<1>2. RobCount' \in Nat
  BY <1>1, SizeAssumption
<1>3. FlightCount' = RobCount' + (IF Accepts(fetch, cdb, mem) THEN 1 ELSE 0)
  BY <1>1 DEF FlightCount
<1>4. ASSUME Accepts(fetch, cdb, mem), NEW n \in Nat, n = RobCount'
      PROVE  Flight(n)' =
                  [kind |-> fetch.instr.kind, rd |-> fetch.instr.rd,
                   rs |-> fetch.instr.rs, rw |-> RegWrite(fetch.instr),
                   curr |-> frlRead',
                   prev |-> Forward(fetch.instr.rd, frat, frlRead),
                   src |-> Forward(fetch.instr.rs, frat, frlRead)]
  <2>1. ~(n < RobCount')
    BY <1>2, <1>4
  <2>2. Flight(n)' =
          [kind |-> stage2'.kind, rd |-> stage2'.rd, rs |-> stage2'.rs,
           rw |-> stage2'.rw, curr |-> frlRead', prev |-> stage2'.prev,
           src |-> stage2'.src]
    BY <2>1 DEF Flight
  <2>3. stage2' = [valid |-> TRUE, kind |-> fetch.instr.kind,
                   rd |-> fetch.instr.rd, rs |-> fetch.instr.rs,
                   rw |-> RegWrite(fetch.instr),
                   src |-> Forward(fetch.instr.rs, frat, frlRead),
                   prev |-> Forward(fetch.instr.rd, frat, frlRead),
                   taken |-> fetch.taken]
    BY <1>4 DEF Cycle, DispatchClock, Accepts
  <2> QED
    BY <2>2, <2>3
<1> QED
  BY <1>3, <1>4

(* Counting the writers of a prefix is monotonic, and strictly so across a *)
(* writer.                                                                 *)
LEMMA WriterOrder ==
  ASSUME NEW j \in Nat
  PROVE  \A n \in Nat : j <= n =>
           /\ WriterCount(j) <= WriterCount(n)
           /\ j < n /\ Flight(j).rw => WriterCount(j) < WriterCount(n)
<1> DEFINE S == {n \in Nat : j <= n =>
                   /\ WriterCount(j) <= WriterCount(n)
                   /\ j < n /\ Flight(j).rw => WriterCount(j) < WriterCount(n)}
<1>1. CountFacts
  BY WriterCountSteps
<1>2. 0 \in S
  BY <1>1 DEF CountFacts
<1>3. \A n \in Nat : n \in S => n + 1 \in S
  <2> SUFFICES ASSUME NEW n \in Nat, n \in S PROVE n + 1 \in S
    OBVIOUS
  <2>1. /\ WriterCount(n) \in Nat /\ WriterCount(j) \in Nat
        /\ WriterCount(n + 1) = WriterCount(n) + (IF Flight(n).rw THEN 1 ELSE 0)
    BY <1>1 DEF CountFacts
  <2> QED
    BY <2>1
<1>4. \A n \in Nat : n \in S
  <2> HIDE DEF S
  <2> QED
    BY <1>2, <1>3, NatSetInduction
<1> QED
  BY <1>4

(* Counted from the new head, the writers are the old ones without the     *)
(* committed one.                                                          *)
LEMMA WriterShift ==
  ASSUME TypeOK, SerialInv, WriterInv,
         NEW fetch \in FetchInputs, NEW cdb \in CdbInputs, NEW mem \in MemInputs,
         Cycle(fetch, cdb, mem)
  PROVE  \A n \in Nat : n <= RobCount' =>
           WriterCount(n)' + WriterCount(Out(mem)) = WriterCount(n + Out(mem))
<1> DEFINE c == Out(mem)
           S == {n \in Nat : n <= RobCount' =>
                   WriterCount(n)' + WriterCount(c) = WriterCount(n + c)}
<1>1. CountFacts /\ CountFacts'
  <2>1. CountFacts'
    BY WriterCountSteps, PTL
  <2> QED
    BY <2>1, WriterCountSteps
<1>2. c \in Nat /\ RobCount' \in Nat
  BY CycleCounts, CountRange, SizeAssumption
<1>3. \A k \in Nat : k < RobCount' => (Flight(k)'.rw <=> Flight(k + c).rw)
  BY CycleFlight DEF SameInstr
<1> HIDE DEF c
<1>4. 0 \in S
  BY <1>1, <1>2 DEF CountFacts
<1>5. \A n \in Nat : n \in S => n + 1 \in S
  <2> SUFFICES ASSUME NEW n \in Nat, n \in S, n + 1 <= RobCount'
               PROVE  WriterCount(n + 1)' + WriterCount(c) = WriterCount(n + 1 + c)
    OBVIOUS
  <2>1. WriterCount(n + 1)' = WriterCount(n)' + (IF Flight(n)'.rw THEN 1 ELSE 0)
    BY <1>1 DEF CountFacts
  <2>2. WriterCount(n + c + 1) =
          WriterCount(n + c) + (IF Flight(n + c).rw THEN 1 ELSE 0)
    <3>1. n + c \in Nat
      BY <1>2
    <3> QED
      BY <1>1, <3>1 DEF CountFacts
  <2>3. Flight(n)'.rw <=> Flight(n + c).rw
    BY <1>2, <1>3
  <2>4. n + 1 + c = n + c + 1
    BY <1>2
  <2>5. WriterCount(n)' + WriterCount(c) = WriterCount(n + c)
    BY <1>2
  <2>6. WriterCount(n)' \in Nat /\ WriterCount(c) \in Nat
    BY <1>1, <1>2 DEF CountFacts
  <2> QED
    BY <2>1, <2>2, <2>3, <2>4, <2>5, <2>6
<1>6. \A n \in Nat : n \in S
  <2> HIDE DEF S
  <2> QED
    BY <1>4, <1>5, NatSetInduction
<1> QED
  BY <1>6 DEF c

(* Counted from the new head, the map that program order gives is the old  *)
(* one, given that commit updates the committed map in program order.      *)
LEMMA MapShift ==
  ASSUME TypeOK, TypeOK', SerialInv, WriterInv,
         NEW fetch \in FetchInputs, NEW cdb \in CdbInputs, NEW mem \in MemInputs,
         Cycle(fetch, cdb, mem)
  PROVE  \A n \in Nat : n <= RobCount' =>
           MapBefore(n)' = MapBefore(n + Out(mem))
<1> DEFINE c == Out(mem)
           S == {n \in Nat : n <= RobCount' => MapBefore(n)' = MapBefore(n + c)}
<1>1. MapFacts /\ MapFacts'
  <2>1. MapFacts'
    BY MapSteps, PTL
  <2> QED
    BY <2>1, MapSteps
<1>2. c \in Nat /\ RobCount' \in Nat
  BY CycleCounts, CountRange, SizeAssumption
<1>3. MapBefore(c) = rrat'
  <2>1. CASE ~Commits(mem)
    BY <2>1, <1>1 DEF Out, Cycle, RratClock, MapFacts
  <2>2. CASE Commits(mem)
    <3>1. c = 1 /\ RobCount > 0
      BY <2>2, CycleCounts DEF Out
    <3>2. Flight(0).rw = RobHead.rw /\ Flight(0).rd = RobHead.rd
          /\ Flight(0).curr = RobHead.curr
      BY <3>1, TagPlaces, CountRange DEF Flight, RobHead
    <3>3. MapBefore(1) = [r \in ArchRegs |->
                            IF RobHead.rw /\ RobHead.rd = r THEN RobHead.curr
                            ELSE rrat[r]]
      <4>1. MapBefore(0 + 1) = [r \in ArchRegs |->
                                  IF Flight(0).rw /\ Flight(0).rd = r
                                    THEN Flight(0).curr ELSE MapBefore(0)[r]]
        BY <1>1 DEF MapFacts
      <4>2. 0 + 1 = 1 /\ MapBefore(0) = rrat
        BY <1>1 DEF MapFacts
      <4> QED
        BY <4>1, <4>2, <3>2
    <3>4. rrat' = IF RobHead.rw THEN [rrat EXCEPT ![RobHead.rd] = RobHead.curr]
                  ELSE rrat
      BY <2>2 DEF Cycle, RratClock
    <3>5. rrat \in [ArchRegs -> PhyRegs]
      BY DEF TypeOK
    <3> QED
      BY <3>1, <3>3, <3>4, <3>5
  <2> QED
    BY <2>1, <2>2
<1>4. \A k \in Nat : k < RobCount' =>
        /\ Flight(k)'.rw <=> Flight(k + c).rw
        /\ Flight(k)'.rd = Flight(k + c).rd
        /\ Flight(k)'.rw => Flight(k)'.curr = Flight(k + c).curr
  BY CycleFlight DEF SameInstr
<1> HIDE DEF c
<1>5. 0 \in S
  BY <1>1, <1>2, <1>3 DEF MapFacts
<1>6. \A n \in Nat : n \in S => n + 1 \in S
  <2> SUFFICES ASSUME NEW n \in Nat, n \in S, n + 1 <= RobCount'
               PROVE  MapBefore(n + 1)' = MapBefore(n + 1 + c)
    OBVIOUS
  <2>1. MapBefore(n + 1)' =
          [r \in ArchRegs |-> IF Flight(n)'.rw /\ Flight(n)'.rd = r
                                THEN Flight(n)'.curr ELSE MapBefore(n)'[r]]
    BY <1>1 DEF MapFacts
  <2>2. MapBefore(n + c + 1) =
          [r \in ArchRegs |-> IF Flight(n + c).rw /\ Flight(n + c).rd = r
                                THEN Flight(n + c).curr ELSE MapBefore(n + c)[r]]
    <3>1. n + c \in Nat
      BY <1>2
    <3> QED
      BY <1>1, <3>1 DEF MapFacts
  <2>3. n < RobCount' /\ n + 1 + c = n + c + 1 /\ MapBefore(n)' = MapBefore(n + c)
    BY <1>2
  <2>4. /\ Flight(n)'.rw <=> Flight(n + c).rw
        /\ Flight(n)'.rd = Flight(n + c).rd
        /\ Flight(n)'.rw => Flight(n)'.curr = Flight(n + c).curr
    BY <1>4, <2>3
  <2> QED
    BY <2>1, <2>2, <2>3, <2>4
<1>7. \A n \in Nat : n \in S
  <2> HIDE DEF S
  <2> QED
    BY <1>5, <1>6, NatSetInduction
<1> QED
  BY <1>7 DEF c

-----------------------------------------------------------------------------
(* The inductive invariant.  Every part quantifies over places as numbers, *)
(* so that it reads the same before and after a step.                      *)

(* An indirect jump that takes no checkpoint is the youngest instruction   *)
(* and holds stage 1 until it completes, so its redirect removes nothing.  *)
JrInv ==
  \A k \in Nat :
    /\ k < FlightCount
    /\ Flight(k).kind \in JrKinds
    /\ k < RobCount => ~Done(k)
    => k + 1 = FlightCount /\ jrStall

AllocInv ==
  /\ \A n \in Nat : n = FlightCount =>
       frlHead = AllocPtr(n) /\ WriterCount(n) <= FRL_DEPTH
  /\ \A k \in Nat : k < FlightCount /\ Flight(k).rw =>
       Flight(k).curr = frlArray[Slot(AllocPtr(k), FRL_DEPTH)]

MapInv ==
  /\ \A n \in Nat : n = RobCount => frat = MapBefore(n)
  /\ \A k \in Nat : k < FlightCount =>
       /\ Flight(k).src = MapBefore(k)[Flight(k).rs]
       /\ Flight(k).rw => Flight(k).prev = MapBefore(k)[Flight(k).rd]

(* The place of the branch that owns a checkpoint, and the place of the    *)
(* checkpoint among the active ones.                                       *)
CkptAt(p) == ckpt[Slot(p, NUM_CHECKPOINT)]
Owner(p) == Depth(CkptAt(p).tag)
Rank(p) == Dist(p, ckptTail, NUM_CHECKPOINT)

(* The active checkpoints belong to branches in flight, in program order,  *)
(* at most one each, and hold what program order gives behind the branch;  *)
(* a branch still open has one.                                            *)
CkptInv ==
  /\ Dist(ckptHead, ckptTail, NUM_CHECKPOINT) <= NUM_CHECKPOINT
  /\ \A p \in ActiveCkpts : Owner(p) < RobCount
  /\ \A p \in ActiveCkpts : \A k \in Nat : k = Owner(p) =>
       /\ Flight(k).kind \in CheckpointKinds
       /\ CkptAt(p).map = MapBefore(k + 1)
       /\ CkptAt(p).head = AllocPtr(k + 1)
  /\ \A p, q \in ActiveCkpts :
       Rank(p) <= Rank(q) => Rank(q) - Rank(p) <= Owner(q) - Owner(p)
  /\ \A k \in Nat :
       k < RobCount /\ Flight(k).kind \in CheckpointKinds /\ ~Done(k) =>
         \E p \in ActiveCkpts : Owner(p) = k

RenameInv == WriterInv /\ JrInv /\ AllocInv /\ MapInv /\ CkptInv

(* A cycle preserves WriterInv: only classes with a result write.          *)
LEMMA WriterInvStep ==
  ASSUME NEW fetch \in FetchInputs, NEW cdb \in CdbInputs, NEW mem \in MemInputs,
         Cycle(fetch, cdb, mem)
  PROVE  WriterInv'
<1>1. RegWrite(fetch.instr) => fetch.instr.kind \in WriterKinds
  BY DEF RegWrite, WriterKinds
<1> QED
  BY <1>1 DEF WriterInv, Cycle, DispatchClock, Bubble

(* A cycle preserves JrInv.                                                *)
LEMMA JrInvStep ==
  ASSUME TypeOK, SerialInv, WriterInv, JrInv,
         NEW fetch \in FetchInputs, NEW cdb \in CdbInputs, NEW mem \in MemInputs,
         Cycle(fetch, cdb, mem)
  PROVE  JrInv'
<1> DEFINE c == Out(mem)
           accept == Accepts(fetch, cdb, mem)
<1>1. /\ c \in {0, 1} /\ RobCount' = Kept(cdb) - c /\ RobCount' \in Nat
      /\ Kept(cdb) \in c .. FlightCount
      /\ Kept(cdb) <= RobCount \/ Kept(cdb) = FlightCount
      /\ RobCount \in Nat /\ FlightCount \in Nat /\ RobCount <= FlightCount
      /\ FlightCount' = RobCount' + (IF accept THEN 1 ELSE 0)
  BY CycleCounts, CountRange, CycleEntry, SizeAssumption
     DEF TypeOK, DispatchTypeOK, Stage2Entry
<1>2. /\ jrStall' <=> /\ ~DispatchFlush(cdb, mem)
                      /\ jrStall \/ (accept /\ fetch.instr.kind \in JrKinds)
      /\ accept => ~jrStall /\ ~DispatchFlush(cdb, mem)
  BY DEF Cycle, DispatchClock, Accepts, Stage1Valid, NormalStall, Redirects
<1>3. DispatchFlush(cdb, mem) =>
        \/ cdb.flush
        \/ RobCount = 1 /\ FlightCount = 1 /\ c = 1
  BY CycleCounts, CountRange DEF DispatchFlush, CombinedFlush
<1> SUFFICES ASSUME NEW k \in Nat, k < FlightCount', Flight(k)'.kind \in JrKinds,
                    k < RobCount' => ~Done(k)'
             PROVE  k + 1 = FlightCount' /\ jrStall'
  BY DEF JrInv
<1>4. CASE k < RobCount'
  <2> DEFINE j == k + c
  <2>1. /\ j \in 0 .. FlightCount - 1
        /\ Flight(j).kind \in JrKinds
        /\ j < RobCount => ~Done(j)
        /\ ~(cdb.valid /\ cdb.tag = TagAt(j))
    BY <1>4, CycleFlight DEF SameInstr
  <2>2. j + 1 = FlightCount /\ jrStall
    BY <2>1, <1>1 DEF JrInv
  <2>3. ~cdb.flush
    <3> SUFFICES ASSUME cdb.flush PROVE FALSE
      OBVIOUS
    <3>1. cdb.valid /\ cdb.tag \in LiveTags
      BY InputTypes, CompletionIsLive
    <3>2. Kept(cdb) = Depth(cdb.tag) + 1 /\ cdb.tag = TagAt(Depth(cdb.tag))
      BY <3>1, LiveDepth, TagPlaces DEF Kept, BranchPlace
    <3>3. Depth(cdb.tag) \in 0 .. RobCount - 1
      BY <3>1, LiveDepth
    <3>4. Depth(cdb.tag) = j
      BY <3>2, <3>3, <2>2, <1>1, <1>4
    <3> QED
      BY <3>1, <3>2, <3>4, <2>1
  <2>4. ~DispatchFlush(cdb, mem)
    BY <2>2, <2>3, <1>1, <1>3, <1>4
  <2>5. Kept(cdb) = FlightCount
    BY <2>3 DEF Kept
  <2> QED
    BY <2>2, <2>4, <2>5, <1>1, <1>2
<1>5. CASE ~(k < RobCount')
  <2>1. accept /\ k = RobCount' /\ k + 1 = FlightCount'
    BY <1>1, <1>5
  <2>2. Flight(k)'.kind = fetch.instr.kind
    BY <2>1, CycleEntry
  <2> QED
    BY <2>1, <2>2, <1>2
<1> QED
  BY <1>4, <1>5

-----------------------------------------------------------------------------
(* The free list read from one turn behind its tail t.                     *)
LEMMA TurnBehind ==
  ASSUME NEW D \in Nat \ {0}, NEW t \in Pointers(D)
  PROVE  /\ Slot(Ahead(Toggle(t, D), 0, D), D) = Slot(t, D)
         /\ Ahead(Toggle(t, D), D, D) = t
         /\ \A i \in 0 .. D :
              /\ Ahead(Toggle(t, D), i, D) \in Pointers(D)
              /\ Ahead(Toggle(t, D), i, D) = Toggle(t, D) <=> i = 0
              /\ Ahead(Toggle(t, D), i, D) = t <=> i = D
              /\ i < D => Succ(Ahead(Toggle(t, D), i, D), D)
                            = Ahead(Toggle(t, D), i + 1, D)
              /\ i > 0 => Ahead(Toggle(Succ(t, D), D), i - 1, D)
                            = Ahead(Toggle(t, D), i, D)
              /\ i \in 1 .. D - 1 =>
                   Slot(Ahead(Toggle(t, D), i, D), D) # Slot(t, D)
              /\ Slot(Ahead(Toggle(t, D), i, D), D) \in 0 .. D - 1
BY DEF Pointers, Toggle, Ahead, Slot, Succ

(* A flush puts the free list and the map back to where they were behind   *)
(* the branch; a trap, and a redirect that has no checkpoint, find them    *)
(* there already.                                                          *)
LEMMA FlushRestores ==
  ASSUME TypeOK, SerialInv, JrInv, AllocInv, MapInv, CkptInv,
         NEW fetch \in FetchInputs, NEW cdb \in CdbInputs, NEW mem \in MemInputs,
         Cycle(fetch, cdb, mem), CombinedFlush(cdb, mem)
  PROVE  /\ RestoredHead(cdb.tag, frlHead) = AllocPtr(Kept(cdb))
         /\ (IF cdb.valid /\ Found(cdb.tag) THEN MatchCkpt(cdb.tag).map ELSE frat)
              = MapBefore(Kept(cdb))
         /\ cdb.valid /\ Found(cdb.tag) =>
              /\ MatchPtr(cdb.tag) \in ActiveCkpts
              /\ Owner(MatchPtr(cdb.tag)) = Kept(cdb) - 1
         /\ ~(cdb.valid /\ Found(cdb.tag)) => Kept(cdb) >= RobCount
<1>1. RobCount \in Nat /\ FlightCount \in Nat
  BY CountRange, SizeAssumption
<1>2. CASE cdb.flush
  <2> DEFINE k == Depth(cdb.tag)
  <2>1. /\ cdb.valid /\ cdb.tag \in LiveTags /\ cdb.tag \in Completable
        /\ ~rob[cdb.tag].compl
    BY <1>2, InputTypes, CompletionIsLive
  <2>2. k \in Nat /\ k < RobCount /\ Kept(cdb) = k + 1 /\ TagAt(k) = cdb.tag
    BY <1>2, <2>1, <1>1, LiveDepth, TagPlaces DEF Kept, BranchPlace
  <2>3. Flight(k).kind = rob[cdb.tag].kind /\ ~Done(k)
    BY <2>1, <2>2 DEF Flight, Done
  <2>4. rob[cdb.tag].kind \in JrKinds \cup CheckpointKinds
    <3>1. cdb # Idle
      BY <1>2 DEF Idle
    <3>2. cdb.flush \in Flushes(rob[cdb.tag].kind)
      BY <3>1 DEF CdbInputs
    <3> QED
      BY <1>2, <3>2 DEF Flushes
  <2> HIDE DEF k
  <2>5. ASSUME NEW p \in Matching(cdb.tag)
        PROVE  p \in ActiveCkpts /\ Owner(p) = k
    BY DEF Matching, Owner, CkptAt, k
  <2>6. CASE Flight(k).kind \in CheckpointKinds
    <3>1. PICK p \in ActiveCkpts : Owner(p) = k
      BY <2>2, <2>3, <2>6 DEF CkptInv
    <3>2. CkptAt(p).tag \in RobTags
      BY SizeAssumption, PointerTypes
         DEF CkptAt, ActiveCkpts, Window, TypeOK, FratTypeOK, CkptSlots, Checkpoint
    <3>3. CkptAt(p).tag = cdb.tag
      BY <3>1, <3>2, <2>2, TagPlaces DEF Owner
    <3>4. Found(cdb.tag)
      BY <3>1, <3>3 DEF Found, Matching, CkptAt
    <3>5. MatchPtr(cdb.tag) \in ActiveCkpts /\ Owner(MatchPtr(cdb.tag)) = k
      BY <3>4, <2>5, MatchPtrMatches
    <3>6. /\ MatchCkpt(cdb.tag).map = MapBefore(k + 1)
          /\ MatchCkpt(cdb.tag).head = AllocPtr(k + 1)
      BY <3>5, <2>2 DEF CkptInv, MatchCkpt, CkptAt
    <3> QED
      BY <3>4, <3>5, <3>6, <2>1, <2>2 DEF RestoredHead
  <2>7. CASE Flight(k).kind \in JrKinds
    <3>1. ~Found(cdb.tag)
      <4> SUFFICES ASSUME NEW p \in Matching(cdb.tag) PROVE FALSE
        BY DEF Found
      <4>1. Flight(k).kind \in CheckpointKinds
        BY <2>2, <2>5 DEF CkptInv
      <4> QED
        BY <4>1, <2>7 DEF JrKinds, CheckpointKinds
    <3>2. k + 1 = FlightCount
      BY <2>2, <2>3, <2>7, <1>1, CountRange
         DEF JrInv, TypeOK, DispatchTypeOK, Stage2Entry
    <3>3. FlightCount = RobCount
      BY <3>2, <2>2, <1>1, CountRange DEF TypeOK, DispatchTypeOK, Stage2Entry
    <3>4. frlHead = AllocPtr(k + 1) /\ frat = MapBefore(k + 1)
      BY <3>2, <3>3, <2>2 DEF AllocInv, MapInv
    <3> QED
      BY <3>1, <3>2, <3>3, <3>4, <2>2 DEF RestoredHead
  <2> QED
    BY <2>3, <2>4, <2>6, <2>7
<1>3. CASE ~cdb.flush
  <2>1. TrapCommit(mem)
    BY <1>3 DEF CombinedFlush
  <2>2. RobCount = 1 /\ FlightCount = 1 /\ ~cdb.valid /\ Kept(cdb) = 1
    BY <2>1, <1>3, CycleCounts, CountRange DEF Kept
  <2>3. Flight(0).kind \notin CheckpointKinds
    <3>1. Flight(0).kind = RobHead.kind
      BY <2>2, TagPlaces DEF Flight, RobHead
    <3> QED
      BY <3>1, <2>1 DEF TrapCommit, CheckpointKinds
  <2>4. ActiveCkpts = {}
    <3> SUFFICES ASSUME NEW p \in ActiveCkpts PROVE FALSE
      OBVIOUS
    <3>1. CkptAt(p).tag \in RobTags
      BY SizeAssumption, PointerTypes
         DEF CkptAt, ActiveCkpts, Window, TypeOK, FratTypeOK, CkptSlots, Checkpoint
    <3>2. Owner(p) \in Nat
      BY <3>1, TagPlaces, SizeAssumption DEF Owner
    <3>3. Owner(p) = 0
      BY <3>2, <2>2 DEF CkptInv
    <3> QED
      BY <3>3, <2>3 DEF CkptInv
  <2>5. ~Found(cdb.tag)
    BY <2>4 DEF Found, Matching
  <2>6. frlHead = AllocPtr(1) /\ frat = MapBefore(1)
    BY <2>2 DEF AllocInv, MapInv
  <2> QED
    BY <2>2, <2>5, <2>6 DEF RestoredHead
<1> QED
  BY <1>2, <1>3

(* How commit moves the tail of the free list: the head of the ROB is a    *)
(* writer in flight, so the list is not full and takes its old register.   *)
LEMMA CommitFrees ==
  ASSUME TypeOK, SerialInv, AllocInv,
         NEW fetch \in FetchInputs, NEW cdb \in CdbInputs, NEW mem \in MemInputs,
         Cycle(fetch, cdb, mem)
  PROVE  LET w == WriterCount(Out(mem))
         IN /\ w \in {0, 1} /\ w <= Out(mem)
            /\ w = 1 <=> Commits(mem) /\ RobHead.rw
            /\ frlTail' = IF w = 1 THEN Succ(frlTail, FRL_DEPTH) ELSE frlTail
            /\ frlArray' =
                 IF w = 1
                   THEN [frlArray EXCEPT ![Slot(frlTail, FRL_DEPTH)] = RobHead.prev]
                   ELSE frlArray
<1> DEFINE w == WriterCount(Out(mem))
           freeing == Commits(mem) /\ RobHead.rw
<1>1. CountFacts
  BY WriterCountSteps
<1>2. w = IF freeing THEN 1 ELSE 0
  <2>1. CASE ~Commits(mem)
    BY <2>1, <1>1 DEF Out, CountFacts
  <2>2. CASE Commits(mem)
    <3>1. Out(mem) = 1 /\ RobCount > 0
      BY <2>2, CycleCounts DEF Out
    <3>2. Flight(0).rw = RobHead.rw
      BY <3>1, TagPlaces, CountRange DEF Flight, RobHead
    <3>3. WriterCount(0 + 1) = WriterCount(0) + (IF Flight(0).rw THEN 1 ELSE 0)
      BY <1>1 DEF CountFacts
    <3> QED
      BY <2>2, <3>1, <3>2, <3>3, <1>1 DEF CountFacts
  <2> QED
    BY <2>1, <2>2
<1>3. freeing => ~FrlFull
  <2> SUFFICES ASSUME freeing PROVE ~FrlFull
    OBVIOUS
  <2>1. Out(mem) = 1 /\ RobCount > 0 /\ RobCount \in Nat /\ FlightCount \in Nat
        /\ FlightCount >= RobCount
    BY CycleCounts, CountRange, SizeAssumption
       DEF Out, TypeOK, DispatchTypeOK, Stage2Entry
  <2>2. WriterCount(1) = 1 /\ 1 <= FlightCount
    BY <2>1, <1>2
  <2>3. WriterCount(FlightCount) >= 1 /\ WriterCount(FlightCount) \in Nat
    BY <2>1, <2>2, <1>1, WriterOrder DEF CountFacts
  <2>4. WriterCount(FlightCount) \in 1 .. FRL_DEPTH
        /\ frlHead = AllocPtr(FlightCount)
    BY <2>1, <2>3, SizeAssumption DEF AllocInv
  <2>5. frlHead # Toggle(frlTail, FRL_DEPTH)
    BY <2>4, SizeAssumption, TurnBehind
       DEF AllocPtr, FirstAllocated, WriterCount, TypeOK, FrlTypeOK
  <2> QED
    BY <2>5 DEF FrlFull, IsFull
<1> HIDE DEF w
<1>4. /\ frlTail' = IF w = 1 THEN Succ(frlTail, FRL_DEPTH) ELSE frlTail
      /\ frlArray' =
           IF w = 1
             THEN [frlArray EXCEPT ![Slot(frlTail, FRL_DEPTH)] = RobHead.prev]
             ELSE frlArray
  <2>1. w = 1 <=> freeing
    BY <1>2
  <2>2. /\ frlTail' = IF freeing THEN Succ(frlTail, FRL_DEPTH) ELSE frlTail
        /\ frlArray' =
             IF freeing
               THEN [frlArray EXCEPT ![Slot(frlTail, FRL_DEPTH)] = RobHead.prev]
               ELSE frlArray
    BY <1>3 DEF Cycle, FrlClock
  <2> HIDE DEF freeing
  <2> QED
    BY <2>1, <2>2
<1>5. w <= Out(mem)
  BY <1>2 DEF Out
<1> QED
  BY <1>2, <1>4, <1>5 DEF w

(* The allocation points of the surviving places do not move.              *)
LEMMA AllocShift ==
  ASSUME TypeOK, SerialInv, WriterInv, AllocInv,
         NEW fetch \in FetchInputs, NEW cdb \in CdbInputs, NEW mem \in MemInputs,
         Cycle(fetch, cdb, mem)
  PROVE  \A n \in Nat : n <= RobCount' =>
           /\ AllocPtr(n)' = AllocPtr(n + Out(mem))
           /\ WriterCount(n + Out(mem)) \in WriterCount(Out(mem)) .. FRL_DEPTH
<1> SUFFICES ASSUME NEW n \in Nat, n <= RobCount'
             PROVE  /\ AllocPtr(n)' = AllocPtr(n + Out(mem))
                    /\ WriterCount(n + Out(mem)) \in WriterCount(Out(mem)) .. FRL_DEPTH
  OBVIOUS
<1> DEFINE c == Out(mem)
           w == WriterCount(c)
<1>1. CountFacts /\ CountFacts'
  <2>1. CountFacts'
    BY WriterCountSteps, PTL
  <2> QED
    BY <2>1, WriterCountSteps
<1>2. /\ c \in Nat /\ n + c <= FlightCount /\ FlightCount \in Nat
  BY CycleCounts, CountRange, SizeAssumption
<1>3. /\ w \in {0, 1}
      /\ frlTail' = IF w = 1 THEN Succ(frlTail, FRL_DEPTH) ELSE frlTail
  BY CommitFrees
<1>4. /\ WriterCount(n + c) <= WriterCount(FlightCount)
      /\ WriterCount(c) <= WriterCount(n + c)
      /\ WriterCount(n + c) \in Nat /\ WriterCount(FlightCount) \in Nat
      /\ WriterCount(FlightCount) <= FRL_DEPTH
      /\ WriterCount(n)' \in Nat
  <2>1. n + c \in Nat /\ c <= n + c
    BY <1>2
  <2> QED
    BY <2>1, <1>1, <1>2, WriterOrder DEF CountFacts, AllocInv
<1>5. WriterCount(n)' + w = WriterCount(n + c)
  BY WriterShift
<1>6. AllocPtr(n)' = Ahead(Toggle(frlTail', FRL_DEPTH), WriterCount(n)', FRL_DEPTH)
  BY DEF AllocPtr, FirstAllocated, WriterCount
<1>7. AllocPtr(n + c) = Ahead(Toggle(frlTail, FRL_DEPTH), WriterCount(n + c), FRL_DEPTH)
  BY DEF AllocPtr, FirstAllocated, WriterCount
<1>8. frlTail \in Pointers(FRL_DEPTH) /\ FRL_DEPTH \in Nat \ {0}
  BY SizeAssumption DEF TypeOK, FrlTypeOK
<1> HIDE DEF w, c
<1>9. w <= WriterCount(n + c) /\ WriterCount(n + c) \in 0 .. FRL_DEPTH
  BY <1>4, <1>8 DEF w
<1>10. ASSUME w = 0 PROVE AllocPtr(n)' = AllocPtr(n + c)
  <2>1. WriterCount(n)' = WriterCount(n + c)
    BY <1>4, <1>5, <1>10
  <2> QED
    BY <2>1, <1>3, <1>6, <1>7, <1>10
<1>11. ASSUME w = 1 PROVE AllocPtr(n)' = AllocPtr(n + c)
  <2>1. WriterCount(n)' = WriterCount(n + c) - 1
    BY <1>4, <1>5, <1>11
  <2>2. Ahead(Toggle(Succ(frlTail, FRL_DEPTH), FRL_DEPTH), WriterCount(n + c) - 1,
              FRL_DEPTH)
        = Ahead(Toggle(frlTail, FRL_DEPTH), WriterCount(n + c), FRL_DEPTH)
    BY <1>8, <1>9, <1>11, TurnBehind
  <2> QED
    BY <2>1, <2>2, <1>3, <1>6, <1>7, <1>9, <1>11
<1> QED
  BY <1>3, <1>9, <1>10, <1>11 DEF w, c

(* A slot between the head of the ROB and stage 1 is not the one that      *)
(* commit overwrites.                                                      *)
LEMMA SlotKept ==
  ASSUME TypeOK, SerialInv, AllocInv,
         NEW fetch \in FetchInputs, NEW cdb \in CdbInputs, NEW mem \in MemInputs,
         Cycle(fetch, cdb, mem), NEW j \in Nat, Out(mem) <= j,
         WriterCount(j) < FRL_DEPTH
  PROVE  LET s == Slot(AllocPtr(j), FRL_DEPTH) IN frlArray'[s] = frlArray[s]
<1> DEFINE w == WriterCount(Out(mem))
           s == Slot(AllocPtr(j), FRL_DEPTH)
<1>1. /\ frlTail \in Pointers(FRL_DEPTH) /\ FRL_DEPTH \in Nat \ {0}
      /\ frlArray \in [FrlSlots -> PhyRegs]
  BY SizeAssumption DEF TypeOK, FrlTypeOK
<1>2. WriterCount(j) \in Nat /\ Out(mem) \in Nat
  BY WriterCountSteps DEF CountFacts, Out
<1>3. w <= WriterCount(j)
  BY <1>2, WriterOrder
<1>4. s = Slot(Ahead(Toggle(frlTail, FRL_DEPTH), WriterCount(j), FRL_DEPTH), FRL_DEPTH)
  BY DEF AllocPtr, FirstAllocated, WriterCount
<1> HIDE DEF s
<1>5. s \in FrlSlots
  BY <1>1, <1>2, <1>4, TurnBehind DEF FrlSlots
<1>6. CASE w = 1
  <2>1. WriterCount(j) \in 1 .. FRL_DEPTH - 1
    BY <1>1, <1>2, <1>3, <1>6
  <2>2. s # Slot(frlTail, FRL_DEPTH)
    BY <2>1, <1>1, <1>4, TurnBehind
  <2>3. frlArray' = [frlArray EXCEPT ![Slot(frlTail, FRL_DEPTH)] = RobHead.prev]
    BY <1>6, CommitFrees
  <2>4. frlArray'[s] = frlArray[s]
    BY <2>2, <2>3, <1>1, <1>5
  <2> QED
    BY <2>4 DEF s
<1>7. CASE w # 1
  <2>1. frlArray'[s] = frlArray[s]
    BY <1>7, CommitFrees
  <2> QED
    BY <2>1 DEF s
<1> QED
  BY <1>6, <1>7

(* A cycle preserves AllocInv: registers are taken from the free list in   *)
(* program order, and a flush or trap gives them back.                     *)
LEMMA AllocInvStep ==
  ASSUME TypeOK, SerialInv, WriterInv, JrInv, AllocInv, MapInv, CkptInv,
         NEW fetch \in FetchInputs, NEW cdb \in CdbInputs, NEW mem \in MemInputs,
         Cycle(fetch, cdb, mem)
  PROVE  AllocInv'
<1> DEFINE c == Out(mem)
           m == Kept(cdb)
           accept == Accepts(fetch, cdb, mem)
           read == accept /\ RegWrite(fetch.instr)
           cflush == CombinedFlush(cdb, mem)
<1>1. /\ c \in {0, 1} /\ RobCount' = m - c /\ RobCount' \in Nat
      /\ m \in Nat /\ c <= m /\ m <= FlightCount
      /\ FlightCount \in Nat
      /\ FlightCount' = RobCount' + (IF accept THEN 1 ELSE 0)
  BY CycleCounts, CountRange, CycleEntry, SizeAssumption
<1>2. CountFacts /\ CountFacts'
  <2>1. CountFacts'
    BY WriterCountSteps, PTL
  <2> QED
    BY <2>1, WriterCountSteps
<1>3. accept => ~cflush
  BY DEF Accepts, Stage1Valid, DispatchFlush
<1>4. ~cflush => m = FlightCount
  BY DEF CombinedFlush, Kept
<1>5. /\ FRL_DEPTH \in Nat \ {0} /\ frlTail \in Pointers(FRL_DEPTH)
      /\ frlArray \in [FrlSlots -> PhyRegs]
  BY SizeAssumption DEF TypeOK, FrlTypeOK
<1>6. /\ frlHead = AllocPtr(FlightCount)
      /\ WriterCount(FlightCount) \in 0 .. FRL_DEPTH
  BY <1>1, <1>2, <1>5 DEF AllocInv, CountFacts
<1>7. read => ~FrlEmpty
  BY DEF Accepts, Stage1Valid, NormalStall, ToDispatch
<1>8. ~FrlEmpty => WriterCount(FlightCount) < FRL_DEPTH
  <2>1. AllocPtr(FlightCount) =
          Ahead(Toggle(frlTail, FRL_DEPTH), WriterCount(FlightCount), FRL_DEPTH)
    BY DEF AllocPtr, FirstAllocated, WriterCount
  <2> QED
    BY <2>1, <1>5, <1>6, TurnBehind DEF FrlEmpty, IsEmpty
<1>9. /\ frlHead' = IF read THEN Succ(frlHead, FRL_DEPTH)
                    ELSE IF cflush THEN RestoredHead(cdb.tag, frlHead) ELSE frlHead
      /\ read => frlRead' = frlArray[Slot(frlHead, FRL_DEPTH)]
  <2>1. FrlClock(Commits(mem) /\ RobHead.rw, RobHead.prev, cflush,
                 RestoredHead(cdb.tag, frlHead), read)
    BY DEF Cycle, Accepts
  <2>2. FrlDoRead(read, cflush) <=> read
    BY <1>3, <1>7 DEF FrlDoRead
  <2> HIDE DEF read, cflush
  <2> QED
    BY <2>1, <2>2 DEF FrlClock
<1>10. PICK n \in Nat : n = RobCount'
  BY <1>1
<1>11. /\ AllocPtr(n)' = AllocPtr(m)
       /\ WriterCount(m) \in WriterCount(c) .. FRL_DEPTH
       /\ WriterCount(n)' + WriterCount(c) = WriterCount(m)
       /\ WriterCount(c) \in Nat /\ WriterCount(n)' \in Nat /\ WriterCount(m) \in Nat
  <2>1. n + c = m /\ n <= RobCount' /\ c \in Nat
    BY <1>1, <1>10
  <2>2. /\ AllocPtr(n)' = AllocPtr(n + c)
        /\ WriterCount(n + c) \in WriterCount(c) .. FRL_DEPTH
    BY <2>1, AllocShift
  <2>3. WriterCount(n)' + WriterCount(c) = WriterCount(n + c)
    BY <2>1, WriterShift
  <2> HIDE DEF c, m
  <2> QED
    BY <2>1, <2>2, <2>3, <1>1, <1>2 DEF CountFacts
<1>12. ~read => frlHead' = AllocPtr(m)
  <2>1. CASE cflush
    BY <2>1, <1>3, <1>9, FlushRestores
  <2>2. CASE ~cflush
    BY <2>2, <1>4, <1>6, <1>9
  <2> QED
    BY <2>1, <2>2
<1>13. read => /\ m = FlightCount /\ WriterCount(m) < FRL_DEPTH
               /\ frlHead' = Succ(AllocPtr(m), FRL_DEPTH)
               /\ frlRead' = frlArray[Slot(AllocPtr(m), FRL_DEPTH)]
  BY <1>3, <1>4, <1>6, <1>7, <1>8, <1>9
<1>14. accept => /\ FlightCount' = n + 1 /\ (Flight(n)'.rw <=> read)
                 /\ Flight(n)'.curr = frlRead'
  <2> SUFFICES ASSUME accept
               PROVE  /\ FlightCount' = n + 1 /\ (Flight(n)'.rw <=> read)
                      /\ Flight(n)'.curr = frlRead'
    OBVIOUS
  <2>1. Flight(n)' = [kind |-> fetch.instr.kind, rd |-> fetch.instr.rd,
                      rs |-> fetch.instr.rs, rw |-> RegWrite(fetch.instr),
                      curr |-> frlRead',
                      prev |-> Forward(fetch.instr.rd, frat, frlRead),
                      src |-> Forward(fetch.instr.rs, frat, frlRead)]
    BY <1>10, CycleEntry
  <2> QED
    BY <2>1, <1>1, <1>10
<1>15. ~accept => FlightCount' = n
  BY <1>1, <1>10
<1>16. AllocPtr(n)' = Ahead(FirstAllocated', WriterCount(n)', FRL_DEPTH)
       /\ AllocPtr(n + 1)' = Ahead(FirstAllocated', WriterCount(n + 1)', FRL_DEPTH)
       /\ FirstAllocated' = Toggle(frlTail', FRL_DEPTH)
  BY DEF AllocPtr, FirstAllocated, WriterCount
<1>17. frlTail' \in Pointers(FRL_DEPTH)
  BY <1>5, CommitFrees, PointerTypes
<1>18. WriterCount(n + 1)' = WriterCount(n)' + (IF Flight(n)'.rw THEN 1 ELSE 0)
  BY <1>2, <1>10 DEF CountFacts
<1> HIDE DEF m, c, accept, read, cflush
<1>19. WriterCount(n)' <= FRL_DEPTH /\ (read => WriterCount(n)' < FRL_DEPTH)
  BY <1>5, <1>11, <1>13
<1>20. ASSUME NEW k \in Nat, k = FlightCount'
       PROVE  frlHead' = AllocPtr(k)' /\ WriterCount(k)' <= FRL_DEPTH
  <2>1. CASE read
    <3>1. k = n + 1 /\ WriterCount(n + 1)' = WriterCount(n)' + 1
      BY <2>1, <1>14, <1>18, <1>20 DEF read
    <3>2. Succ(Ahead(Toggle(frlTail', FRL_DEPTH), WriterCount(n)', FRL_DEPTH), FRL_DEPTH)
          = Ahead(Toggle(frlTail', FRL_DEPTH), WriterCount(n)' + 1, FRL_DEPTH)
      BY <2>1, <1>5, <1>11, <1>17, <1>19, TurnBehind
    <3>3. AllocPtr(n + 1)' = Succ(AllocPtr(n)', FRL_DEPTH)
      BY <3>1, <3>2, <1>16
    <3>4. frlHead' = AllocPtr(n + 1)' /\ WriterCount(n + 1)' <= FRL_DEPTH
      BY <2>1, <3>1, <3>3, <1>5, <1>11, <1>13, <1>19
    <3> QED
      BY <3>1, <3>4
  <2>2. CASE ~read /\ accept
    <3>1. k = n + 1 /\ WriterCount(n + 1)' = WriterCount(n)'
      BY <2>2, <1>11, <1>14, <1>18, <1>20
    <3>2. frlHead' = AllocPtr(n + 1)' /\ WriterCount(n + 1)' <= FRL_DEPTH
      BY <2>2, <3>1, <1>11, <1>12, <1>16, <1>19
    <3> QED
      BY <3>1, <3>2
  <2>3. CASE ~accept
    <3>1. k = n /\ ~read
      BY <2>3, <1>15, <1>20 DEF read
    <3> QED
      BY <3>1, <1>11, <1>12, <1>19
  <2> QED
    BY <2>1, <2>2, <2>3
<1>21. ASSUME NEW k \in Nat, k < FlightCount', Flight(k)'.rw
       PROVE  Flight(k)'.curr = frlArray'[Slot(AllocPtr(k)', FRL_DEPTH)]
  <2>1. CASE k < n
    <3>1. k < RobCount' /\ k + c < m /\ k + c \in Nat
      BY <2>1, <1>1, <1>10
    <3>2. Flight(k + c).rw /\ Flight(k)'.curr = Flight(k + c).curr
      BY <3>1, <1>21, CycleFlight DEF SameInstr, c
    <3>3. AllocPtr(k)' = AllocPtr(k + c)
      BY <3>1, <1>10, AllocShift DEF c
    <3>4. Flight(k + c).curr = frlArray[Slot(AllocPtr(k + c), FRL_DEPTH)]
      BY <3>1, <3>2, <1>1 DEF AllocInv
    <3>5. WriterCount(k + c) < WriterCount(m) /\ WriterCount(k + c) \in Nat
      <4> DEFINE j == k + c
      <4>1. j \in Nat /\ j < m /\ m \in Nat /\ Flight(j).rw
        BY <3>1, <3>2, <1>1
      <4> HIDE DEF j
      <4>2. j <= m => (j < m /\ Flight(j).rw => WriterCount(j) < WriterCount(m))
        BY <4>1, WriterOrder
      <4>3. WriterCount(j) \in Nat
        BY <4>1, <1>2 DEF CountFacts
      <4> QED
        BY <4>1, <4>2, <4>3 DEF j
    <3>6. WriterCount(k + c) < FRL_DEPTH
      BY <3>5, <1>5, <1>11
    <3>7. frlArray'[Slot(AllocPtr(k + c), FRL_DEPTH)]
            = frlArray[Slot(AllocPtr(k + c), FRL_DEPTH)]
      BY <3>1, <3>6, <1>1, SlotKept DEF c
    <3> QED
      BY <3>2, <3>3, <3>4, <3>7
  <2>2. CASE ~(k < n)
    <3>1. accept /\ k = n
      BY <2>2, <1>14, <1>15, <1>21, <1>10
    <3>2. read /\ Flight(n)'.curr = frlRead'
      BY <3>1, <1>14, <1>21
    <3>3. frlArray'[Slot(AllocPtr(m), FRL_DEPTH)] = frlArray[Slot(AllocPtr(m), FRL_DEPTH)]
      BY <3>2, <1>1, <1>13, SlotKept DEF c
    <3> QED
      BY <3>1, <3>2, <3>3, <1>11, <1>13
  <2> QED
    BY <2>1, <2>2
<1> QED
  BY <1>20, <1>21 DEF AllocInv

(* What stage 1 and the checkpoints see: the FRAT with the write of stage  *)
(* 2 on top is the map behind the youngest instruction.                    *)
LEMMA YoungestMap ==
  ASSUME TypeOK, SerialInv, WriterInv, MapInv
  PROVE  /\ \A r \in ArchRegs :
              Forward(r, frat, frlRead) = MapBefore(FlightCount)[r]
         /\ stage2.valid =>
              MapBefore(FlightCount) =
                IF stage2.rw THEN [frat EXCEPT ![stage2.rd] = frlRead] ELSE frat
         /\ ~stage2.valid => MapBefore(FlightCount) = frat
<1>1. frat \in [ArchRegs -> PhyRegs] /\ RobCount \in Nat /\ stage2.rd \in ArchRegs
  BY CountRange, SizeAssumption
     DEF TypeOK, FratTypeOK, DispatchTypeOK, Stage2Entry
<1>2. frat = MapBefore(RobCount)
  BY <1>1 DEF MapInv
<1>3. CASE ~stage2.valid
  <2>1. FlightCount = RobCount
    BY <1>3, CountRange
  <2> QED
    BY <2>1, <1>2, <1>3 DEF Forward
<1>4. CASE stage2.valid
  <2>1. FlightCount = RobCount + 1
    BY <1>4, CountRange
  <2>2. MapBefore(RobCount + 1) =
          [r \in ArchRegs |->
             IF Flight(RobCount).rw /\ Flight(RobCount).rd = r
               THEN Flight(RobCount).curr ELSE MapBefore(RobCount)[r]]
    BY <1>1, MapSteps DEF MapFacts
  <2>3. /\ Flight(RobCount).rw = stage2.rw /\ Flight(RobCount).rd = stage2.rd
        /\ Flight(RobCount).curr = frlRead
    <3>1. ~(RobCount < RobCount)
      BY <1>1
    <3> QED
      BY <3>1 DEF Flight
  <2>4. MapBefore(FlightCount) =
          [r \in ArchRegs |-> IF stage2.rw /\ stage2.rd = r THEN frlRead ELSE frat[r]]
    BY <2>1, <2>2, <2>3, <1>2
  <2> QED
    BY <2>4, <1>1, <1>4 DEF Forward
<1> QED
  BY <1>3, <1>4

(* The FRAT after the edge is the map behind the last instruction kept.    *)
LEMMA FratFollows ==
  ASSUME TypeOK, SerialInv, WriterInv, JrInv, AllocInv, MapInv, CkptInv,
         NEW fetch \in FetchInputs, NEW cdb \in CdbInputs, NEW mem \in MemInputs,
         Cycle(fetch, cdb, mem)
  PROVE  frat' = MapBefore(Kept(cdb))
<1> DEFINE new == Dispatched(Fires(cdb, mem))
           cflush == CombinedFlush(cdb, mem)
           restore == cdb.valid /\ cflush /\ Found(cdb.tag)
           base == IF restore THEN MatchCkpt(cdb.tag).map ELSE frat
<1>1. frat' = IF new.rw THEN [base EXCEPT ![stage2.rd] = frlRead] ELSE base
  BY DEF Cycle, FratClock, Renamed, Dispatched, Fires
<1>2. new.rw <=> Fires(cdb, mem) /\ stage2.rw
  BY DEF Dispatched
<1>3. CASE cflush
  <2>1. base = MapBefore(Kept(cdb))
    <3>1. base = IF cdb.valid /\ Found(cdb.tag) THEN MatchCkpt(cdb.tag).map ELSE frat
      BY <1>3
    <3> QED
      BY <3>1, <1>3, FlushRestores
  <2>2. ~Fires(cdb, mem)
    BY <1>3 DEF Fires, Stage2Fires, DispatchFlush
  <2> HIDE DEF base, new
  <2> QED
    BY <2>1, <2>2, <1>1, <1>2
<1>4. CASE ~cflush
  <2>1. base = frat /\ Kept(cdb) = FlightCount
    BY <1>4 DEF CombinedFlush, Kept
  <2>2. Fires(cdb, mem) <=> stage2.valid
    BY <2>1, CycleCounts, CountRange
       DEF TypeOK, DispatchTypeOK, Stage2Entry
  <2>3. stage2.rw => stage2.valid
    BY DEF WriterInv
  <2> HIDE DEF base, new
  <2> QED
    BY <2>1, <2>2, <2>3, <1>1, <1>2, YoungestMap
       DEF TypeOK, DispatchTypeOK, Stage2Entry
<1> QED
  BY <1>3, <1>4

(* A cycle preserves MapInv: the map is updated by dispatch and restored   *)
(* from the branch that flushes, or from the committed map.                *)
LEMMA MapInvStep ==
  ASSUME TypeOK, TypeOK', SerialInv, WriterInv, JrInv, AllocInv, MapInv, CkptInv,
         NEW fetch \in FetchInputs, NEW cdb \in CdbInputs, NEW mem \in MemInputs,
         Cycle(fetch, cdb, mem)
  PROVE  MapInv'
<1> DEFINE c == Out(mem)
           m == Kept(cdb)
           accept == Accepts(fetch, cdb, mem)
<1>1. /\ c \in {0, 1} /\ RobCount' = m - c /\ RobCount' \in Nat
      /\ m \in Nat /\ c <= m /\ m <= FlightCount /\ FlightCount \in Nat
      /\ FlightCount' = RobCount' + (IF accept THEN 1 ELSE 0)
      /\ accept => m = FlightCount
  BY CycleCounts, CountRange, CycleEntry, SizeAssumption DEF Kept
<1>2. ASSUME NEW n \in Nat, n = RobCount'
      PROVE  frat' = MapBefore(n)'
  <2>1. n + c = m /\ n <= RobCount'
    BY <1>1, <1>2
  <2>2. MapBefore(n)' = MapBefore(n + c)
    BY <2>1, MapShift
  <2> QED
    BY <2>1, <2>2, FratFollows
<1>3. ASSUME NEW k \in Nat, k < FlightCount'
      PROVE  /\ Flight(k)'.src = MapBefore(k)'[Flight(k)'.rs]
             /\ Flight(k)'.rw => Flight(k)'.prev = MapBefore(k)'[Flight(k)'.rd]
  <2>1. MapBefore(k)' = MapBefore(k + c)
    <3>1. k <= RobCount'
      BY <1>1, <1>3
    <3> QED
      BY <3>1, MapShift
  <2>2. CASE k < RobCount'
    <3>1. k + c \in Nat /\ k + c < FlightCount /\ SameInstr(Flight(k)', Flight(k + c))
      BY <2>2, <1>1, CycleFlight
    <3>2. /\ Flight(k + c).src = MapBefore(k + c)[Flight(k + c).rs]
          /\ Flight(k + c).rw =>
               Flight(k + c).prev = MapBefore(k + c)[Flight(k + c).rd]
      BY <3>1 DEF MapInv
    <3> HIDE DEF c
    <3> QED
      BY <3>1, <3>2, <2>1 DEF SameInstr
  <2>3. CASE ~(k < RobCount')
    <3>1. accept /\ k = RobCount' /\ k + c = FlightCount
      BY <2>3, <1>1, <1>3
    <3>2. /\ Flight(k)'.src = Forward(fetch.instr.rs, frat, frlRead)
          /\ Flight(k)'.prev = Forward(fetch.instr.rd, frat, frlRead)
          /\ Flight(k)'.rs = fetch.instr.rs /\ Flight(k)'.rd = fetch.instr.rd
      BY <3>1, CycleEntry
    <3>3. fetch.instr.rs \in ArchRegs /\ fetch.instr.rd \in ArchRegs
      BY InputTypes DEF Instrs
    <3> QED
      BY <3>1, <3>2, <3>3, <2>1, YoungestMap
  <2> QED
    BY <2>2, <2>3
<1> QED
  BY <1>2, <1>3 DEF MapInv

-----------------------------------------------------------------------------
(* The checkpoints.                                                        *)
CkptCount == Dist(ckptHead, ckptTail, NUM_CHECKPOINT)

(* The k-th checkpoint belongs to the k-th branch or a later place, so     *)
(* there are at most as many as entries in the ROB.                        *)
LEMMA CkptRanks ==
  ASSUME TypeOK, SerialInv, CkptInv
  PROVE  /\ CkptCount \in Nat /\ CkptCount <= RobCount
         /\ FratEmpty <=> CkptCount = 0
         /\ FratFull <=> CkptCount = NUM_CHECKPOINT
         /\ CkptCount > 0 => ckptTail \in ActiveCkpts
         /\ \A p \in ActiveCkpts :
              /\ p \in Pointers(NUM_CHECKPOINT)
              /\ CkptAt(p).tag \in RobTags /\ TagAt(Owner(p)) = CkptAt(p).tag
              /\ Rank(p) \in Nat /\ Rank(p) < CkptCount
              /\ Owner(p) \in Nat /\ Owner(p) < RobCount
              /\ Rank(p) <= Owner(p)
              /\ CkptCount - Rank(p) <= RobCount - Owner(p)
              /\ Rank(p) = 0 <=> p = ckptTail
<1> DEFINE N == NUM_CHECKPOINT
<1>1. /\ N \in Nat \ {0} /\ ckptHead \in Pointers(N) /\ ckptTail \in Pointers(N)
      /\ RobCount \in Nat /\ CkptCount <= N
      /\ ckpt \in [CkptSlots -> Checkpoint]
  BY SizeAssumption, CountRange DEF TypeOK, FratTypeOK, CkptInv, CkptCount
<1>2. CkptCount \in Nat
  BY <1>1 DEF CkptCount, Dist, Pointers
<1>3. (FratEmpty <=> CkptCount = 0) /\ (FratFull <=> CkptCount = N)
  BY <1>1, WindowSize DEF FratEmpty, FratFull, CkptCount
<1>4. ASSUME NEW p \in ActiveCkpts
      PROVE  /\ p \in Pointers(N)
             /\ CkptAt(p).tag \in RobTags /\ TagAt(Owner(p)) = CkptAt(p).tag
             /\ Rank(p) \in Nat /\ Rank(p) < CkptCount
             /\ Owner(p) \in Nat /\ Owner(p) < RobCount
             /\ Rank(p) = 0 <=> p = ckptTail
  <2>1. p \in Pointers(N) /\ Rank(p) < CkptCount
    BY DEF ActiveCkpts, Window, Rank, CkptCount
  <2>2. CkptAt(p).tag \in RobTags
    BY <1>1, <2>1, PointerTypes DEF CkptAt, CkptSlots, Checkpoint
  <2>3. TagAt(Owner(p)) = CkptAt(p).tag /\ Owner(p) \in Nat
    BY <2>2, TagPlaces, SizeAssumption DEF Owner
  <2>4. Rank(p) \in Nat /\ (Rank(p) = 0 <=> p = ckptTail)
    BY <1>1, <2>1 DEF Rank, Dist, Pointers
  <2> QED
    BY <2>1, <2>2, <2>3, <2>4 DEF CkptInv
<1>5. CkptCount > 0 => ckptTail \in ActiveCkpts /\ Rank(ckptTail) = 0
  BY <1>1 DEF CkptCount, ActiveCkpts, Window, Rank, Dist, Pointers
<1> DEFINE l == Ahead(ckptTail, CkptCount - 1, N)
<1>6. CkptCount > 0 => l \in ActiveCkpts /\ Rank(l) = CkptCount - 1
  <2>1. CkptCount > 0 => CkptCount - 1 \in 0 .. CkptCount - 1
    BY <1>2
  <2> QED
    BY <2>1, <1>1, PlacesOfWindow DEF CkptCount, ActiveCkpts, Rank
<1> HIDE DEF l, N
<1>7. ASSUME NEW p \in ActiveCkpts
      PROVE  Rank(p) <= Owner(p) /\ CkptCount - Rank(p) <= RobCount - Owner(p)
  <2>1. CkptCount > 0 /\ Rank(p) \in Nat /\ Rank(p) < CkptCount
    BY <1>2, <1>4
  <2>2. /\ ckptTail \in ActiveCkpts /\ Rank(ckptTail) = 0 /\ Owner(ckptTail) \in Nat
        /\ l \in ActiveCkpts /\ Rank(l) = CkptCount - 1
        /\ Owner(l) \in Nat /\ Owner(l) < RobCount /\ Owner(p) \in Nat
    BY <2>1, <1>4, <1>5, <1>6
  <2>3. Rank(p) - Rank(ckptTail) <= Owner(p) - Owner(ckptTail)
    BY <2>1, <2>2 DEF CkptInv
  <2>4. Rank(l) - Rank(p) <= Owner(l) - Owner(p)
    <3>1. Rank(p) <= Rank(l)
      BY <1>2, <2>1, <2>2
    <3> QED
      BY <3>1, <2>2 DEF CkptInv
  <2> QED
    BY <2>1, <2>2, <2>3, <2>4, <1>1, <1>2
<1>8. CkptCount <= RobCount
  <2>1. CASE CkptCount = 0
    BY <2>1, <1>1
  <2>2. CASE CkptCount > 0
    <3>1. ckptTail \in ActiveCkpts /\ Rank(ckptTail) = 0 /\ Owner(ckptTail) \in Nat
      BY <2>2, <1>4, <1>5
    <3>2. CkptCount - 0 <= RobCount - Owner(ckptTail)
      BY <3>1, <1>7
    <3> QED
      BY <3>1, <3>2, <1>1, <1>2
  <2> QED
    BY <2>1, <2>2, <1>2
<1> QED
  BY <1>2, <1>3, <1>4, <1>5, <1>7, <1>8 DEF N

(* The distance of a tag from the head shrinks by what leaves.             *)
LEMMA DepthShift ==
  ASSUME TypeOK, SerialInv,
         NEW fetch \in FetchInputs, NEW cdb \in CdbInputs, NEW mem \in MemInputs,
         Cycle(fetch, cdb, mem), NEW t \in RobTags, Out(mem) <= Depth(t)
  PROVE  Depth(t)' = Depth(t) - Out(mem)
<1>1. robRead' = IF Out(mem) = 1 THEN Succ(robRead, ROB_DEPTH) ELSE robRead
  BY DEF Cycle, RobClock, Out
<1>2. Out(mem) \in {0, 1}
  BY DEF Out
<1>3. robRead \in Pointers(ROB_DEPTH) /\ ROB_DEPTH \in Nat \ {0}
  BY SizeAssumption DEF TypeOK, RobTypeOK
<1> QED
  BY <1>1, <1>2, <1>3 DEF Depth, RobTop, RobTags, Pointers, Slot, Succ

Takes(cdb, mem) == Fires(cdb, mem) /\ stage2.kind \in CheckpointKinds
Frees(mem) == Commits(mem) /\ ~FratEmpty /\ RobTop = CkptAt(ckptTail).tag

(* The checkpoint pointers after the edge.                                 *)
LEMMA CkptPointers ==
  ASSUME TypeOK, SerialInv, JrInv, AllocInv, MapInv, CkptInv,
         NEW fetch \in FetchInputs, NEW cdb \in CdbInputs, NEW mem \in MemInputs,
         Cycle(fetch, cdb, mem), Takes(cdb, mem) => ~FratFull
  PROVE  LET restore == cdb.flush /\ Found(cdb.tag)
             b == MatchPtr(cdb.tag)
         IN /\ Takes(cdb, mem) => CkptCount < NUM_CHECKPOINT /\ ~cdb.flush
                                  /\ Kept(cdb) = RobCount + 1
            /\ ckptTail' = IF Frees(mem) THEN Succ(ckptTail, NUM_CHECKPOINT) ELSE ckptTail
            /\ ckptHead' = IF Takes(cdb, mem) THEN Succ(ckptHead, NUM_CHECKPOINT)
                           ELSE IF restore THEN b ELSE ckptHead
            /\ ckpt' = IF Takes(cdb, mem)
                         THEN [ckpt EXCEPT ![Slot(ckptHead, NUM_CHECKPOINT)] =
                                 [map |-> IF stage2.rw
                                            THEN [frat EXCEPT ![stage2.rd] = frlRead]
                                            ELSE frat,
                                  tag |-> RobBottom, head |-> frlHead]]
                         ELSE ckpt
            /\ restore => /\ b \in ActiveCkpts /\ Owner(b) = Kept(cdb) - 1
                          /\ Frees(mem) => b # ckptTail
            /\ cdb.flush /\ ~restore => Kept(cdb) >= RobCount
            /\ Frees(mem) => /\ CkptCount > 0 /\ Out(mem) = 1
                             /\ ckptTail \in ActiveCkpts /\ Owner(ckptTail) = 0
<1> DEFINE restore == cdb.flush /\ Found(cdb.tag)
           b == MatchPtr(cdb.tag)
           new == Dispatched(Fires(cdb, mem))
           cflush == CombinedFlush(cdb, mem)
<1>1. /\ FratClock(new, frlHead, cdb.valid /\ cflush, cdb.tag, Commits(mem), RobTop)
  BY DEF Cycle, Fires
<1>2. cdb.valid /\ cflush <=> cdb.flush
  <2>1. TrapCommit(mem) => ~cdb.valid
    BY CycleCounts
  <2> QED
    BY <2>1, InputTypes DEF CombinedFlush
<1>3. Takes(cdb, mem) => CkptCount < NUM_CHECKPOINT /\ ~FratFull /\ ~cdb.flush
                         /\ Kept(cdb) = RobCount + 1
  <2> SUFFICES ASSUME Takes(cdb, mem)
               PROVE  CkptCount < NUM_CHECKPOINT /\ ~FratFull /\ ~cdb.flush
                      /\ Kept(cdb) = RobCount + 1
    OBVIOUS
  <2>1. stage2.valid /\ ~cdb.flush
    BY DEF Takes, Fires, Stage2Fires, DispatchFlush, CombinedFlush
  <2>3. CkptCount < NUM_CHECKPOINT
    BY CkptRanks, SizeAssumption DEF CkptInv, CkptCount
  <2>4. ~FratFull
    OBVIOUS
  <2>5. Kept(cdb) = RobCount + 1
    BY CycleCounts DEF Takes
  <2> QED
    BY <2>1, <2>3, <2>4, <2>5
<1>4. new.branch /\ ~FratFull <=> Takes(cdb, mem)
  BY <1>3 DEF Takes, Dispatched
<1>5. ckptTail' = IF Frees(mem) THEN Succ(ckptTail, NUM_CHECKPOINT) ELSE ckptTail
  BY <1>1 DEF FratClock, Frees, CkptAt
<1>6. ckptHead' = IF Takes(cdb, mem) THEN Succ(ckptHead, NUM_CHECKPOINT)
                  ELSE IF restore THEN b ELSE ckptHead
  BY <1>1, <1>2, <1>4 DEF FratClock
<1>7. ckpt' = IF Takes(cdb, mem)
                THEN [ckpt EXCEPT ![Slot(ckptHead, NUM_CHECKPOINT)] =
                        [map |-> IF stage2.rw THEN [frat EXCEPT ![stage2.rd] = frlRead]
                                 ELSE frat,
                         tag |-> RobBottom, head |-> frlHead]]
                ELSE ckpt
  <2>1. ckpt' = IF Takes(cdb, mem)
                THEN [ckpt EXCEPT ![Slot(ckptHead, NUM_CHECKPOINT)] =
                        [map |-> Renamed(frat, new), tag |-> new.tag, head |-> frlHead]]
                ELSE ckpt
    BY <1>1, <1>4 DEF FratClock
  <2>2. Takes(cdb, mem) =>
          /\ Renamed(frat, new) = IF stage2.rw THEN [frat EXCEPT ![stage2.rd] = frlRead]
                                  ELSE frat
          /\ new.tag = RobBottom
    BY DEF Takes, Renamed, Dispatched
  <2> HIDE DEF new
  <2> QED
    BY <2>1, <2>2
<1>8. Frees(mem) => /\ CkptCount > 0 /\ Out(mem) = 1
                    /\ ckptTail \in ActiveCkpts /\ Owner(ckptTail) = 0
  <2> SUFFICES ASSUME Frees(mem)
               PROVE  /\ CkptCount > 0 /\ Out(mem) = 1
                      /\ ckptTail \in ActiveCkpts /\ Owner(ckptTail) = 0
    OBVIOUS
  <2>1. CkptCount > 0 /\ Out(mem) = 1
    BY CkptRanks DEF Frees, Out
  <2>2. ckptTail \in ActiveCkpts
    BY <2>1, CkptRanks
  <2>3. Owner(ckptTail) = Depth(TagAt(0))
    BY TagPlaces DEF Owner, Frees
  <2>4. Depth(TagAt(0)) = 0
    BY TagPlaces, SizeAssumption
  <2> QED
    BY <2>1, <2>2, <2>3, <2>4
<1>9. cdb.flush => cflush
  BY DEF CombinedFlush
<1>10. restore => b \in ActiveCkpts /\ Owner(b) = Kept(cdb) - 1
  BY <1>9, InputTypes, FlushRestores
<1>11. cdb.flush /\ ~restore => Kept(cdb) >= RobCount
  BY <1>9, InputTypes, FlushRestores
<1>12. restore /\ Frees(mem) => b # ckptTail
  <2> SUFFICES ASSUME restore, Frees(mem), b = ckptTail PROVE FALSE
    OBVIOUS
  <2>1. Kept(cdb) - 1 = 0 /\ Kept(cdb) > Out(mem) /\ Out(mem) = 1
    BY <1>8, <1>10, CycleCounts
  <2>2. Kept(cdb) \in Int
    BY CycleCounts, CountRange, SizeAssumption
  <2> QED
    BY <2>1, <2>2
<1> QED
  BY <1>3, <1>5, <1>6, <1>7, <1>8, <1>10, <1>11, <1>12

(* The active checkpoints after the edge: those of the branches that stay  *)
(* in flight, less the one a misprediction uses up, and the new one.       *)
Surviving(cdb, mem) ==
  {p \in ActiveCkpts : /\ Out(mem) <= Owner(p)
                       /\ Owner(p) < IF cdb.flush THEN Kept(cdb) - 1 ELSE Kept(cdb)}
FreedCount(mem) == IF Frees(mem) THEN 1 ELSE 0

(* One cycle of the checkpoints: which stay in use, and where they stand.  *)
LEMMA CkptCycle ==
  ASSUME TypeOK, SerialInv, JrInv, AllocInv, MapInv, CkptInv,
         NEW fetch \in FetchInputs, NEW cdb \in CdbInputs, NEW mem \in MemInputs,
         Cycle(fetch, cdb, mem), Takes(cdb, mem) => ~FratFull
  PROVE  /\ ActiveCkpts' = Surviving(cdb, mem) \cup
                           (IF Takes(cdb, mem) THEN {ckptHead} ELSE {})
         /\ Dist(ckptHead', ckptTail', NUM_CHECKPOINT) <= NUM_CHECKPOINT
         /\ ckptHead \notin ActiveCkpts
         /\ \A p \in Surviving(cdb, mem) :
              Dist(p, ckptTail', NUM_CHECKPOINT) = Rank(p) - FreedCount(mem)
         /\ Takes(cdb, mem) =>
              Dist(ckptHead, ckptTail', NUM_CHECKPOINT) = CkptCount - FreedCount(mem)
<1> DEFINE N == NUM_CHECKPOINT
           restore == cdb.flush /\ Found(cdb.tag)
           b == MatchPtr(cdb.tag)
           c == Out(mem)
           m == Kept(cdb)
<1>1. /\ N \in Nat \ {0} /\ ckptHead \in Pointers(N) /\ ckptTail \in Pointers(N)
      /\ RobCount \in Nat /\ c \in {0, 1} /\ m \in Nat
      /\ m <= RobCount \/ m = FlightCount
      /\ FlightCount \in Nat /\ FlightCount >= RobCount
      /\ CkptCount = Dist(ckptHead, ckptTail, N)
  BY SizeAssumption, CountRange, CycleCounts
     DEF TypeOK, FratTypeOK, CkptCount, DispatchTypeOK, Stage2Entry
<1>2. /\ CkptCount \in Nat /\ CkptCount <= RobCount /\ CkptCount <= N
      /\ FratEmpty <=> CkptCount = 0
      /\ \A p \in ActiveCkpts :
           /\ p \in Pointers(N)
           /\ Rank(p) \in Nat /\ Rank(p) < CkptCount
           /\ Owner(p) \in Nat /\ Owner(p) < RobCount
           /\ Rank(p) <= Owner(p)
           /\ Rank(p) = 0 <=> p = ckptTail
  BY CkptRanks DEF CkptInv, CkptCount
<1>3. /\ Takes(cdb, mem) => CkptCount < N /\ ~cdb.flush /\ m = RobCount + 1
      /\ ckptTail' = IF Frees(mem) THEN Succ(ckptTail, N) ELSE ckptTail
      /\ ckptHead' = IF Takes(cdb, mem) THEN Succ(ckptHead, N)
                     ELSE IF restore THEN b ELSE ckptHead
      /\ restore => /\ b \in ActiveCkpts /\ Owner(b) = m - 1
                    /\ Frees(mem) => b # ckptTail
      /\ cdb.flush /\ ~restore => m >= RobCount
      /\ Frees(mem) => /\ CkptCount > 0 /\ c = 1
                       /\ ckptTail \in ActiveCkpts /\ Owner(ckptTail) = 0
  BY CkptPointers
<1>4. \A p \in Pointers(N) : p \in ActiveCkpts <=> Rank(p) < CkptCount
  BY DEF ActiveCkpts, Window, Rank, CkptCount
<1>5. \A p \in Pointers(N) : Rank(p) = Dist(p, ckptTail, N)
  BY DEF Rank
<1>6. \A p \in Pointers(N) :
        p \in ActiveCkpts' <=> Dist(p, ckptTail', N) < Dist(ckptHead', ckptTail', N)
  BY DEF ActiveCkpts, Window
<1>7. ActiveCkpts' \subseteq Pointers(N) /\ ActiveCkpts \subseteq Pointers(N)
  BY DEF ActiveCkpts, Window
<1>8. ~cdb.flush => m >= RobCount
  BY <1>1 DEF Kept
<1> DEFINE freed == FreedCount(mem)
           bound == IF cdb.flush THEN m - 1 ELSE m
<1>9. freed \in {0, 1} /\ (freed = 1 <=> Frees(mem))
  BY DEF FreedCount
<1>10. \A p \in ActiveCkpts : c <= Owner(p) <=> freed <= Rank(p)
  <2> SUFFICES ASSUME NEW p \in ActiveCkpts PROVE c <= Owner(p) <=> freed <= Rank(p)
    OBVIOUS
  <2>1. CASE Frees(mem)
    BY <2>1, <1>2, <1>3, <1>9
  <2>2. CASE ~Frees(mem)
    <3>1. c <= Owner(p)
      <4> SUFFICES ASSUME c = 1, Owner(p) = 0 PROVE FALSE
        BY <1>1, <1>2
      <4>1. p = ckptTail /\ CkptCount > 0
        BY <1>2
      <4>2. CkptAt(p).tag = RobTop
        BY CkptRanks, TagPlaces
      <4>3. Commits(mem)
        BY DEF Out
      <4> QED
        BY <4>1, <4>2, <4>3, <2>2, <1>2 DEF Frees
    <3> QED
      BY <3>1, <2>2, <1>2, <1>9
  <2> QED
    BY <2>1, <2>2
<1>11. \A p \in ActiveCkpts :
         Owner(p) < bound <=> (restore => Rank(p) < Rank(b))
  <2> SUFFICES ASSUME NEW p \in ActiveCkpts
               PROVE  Owner(p) < bound <=> (restore => Rank(p) < Rank(b))
    OBVIOUS
  <2>1. CASE ~cdb.flush
    BY <2>1, <1>1, <1>2, <1>8
  <2>2. CASE restore
    <3>1. /\ b \in ActiveCkpts /\ Owner(b) = m - 1 /\ Rank(b) \in Nat
          /\ Rank(p) \in Nat /\ Owner(p) \in Nat
      BY <2>2, <1>2, <1>3
    <3> HIDE DEF b
    <3>2. /\ Rank(p) <= Rank(b) => Rank(b) - Rank(p) <= Owner(b) - Owner(p)
          /\ Rank(b) <= Rank(p) => Rank(p) - Rank(b) <= Owner(p) - Owner(b)
      BY <3>1 DEF CkptInv
    <3> QED
      BY <3>1, <3>2, <2>2, <1>1
  <2>3. CASE cdb.flush /\ ~restore
    <3>1. Owner(p) # m - 1
      <4> SUFFICES ASSUME Owner(p) = m - 1 PROVE FALSE
        OBVIOUS
      <4>1. cdb.tag \in LiveTags
        BY <2>3, InputTypes, CompletionIsLive
      <4>2. m = Depth(cdb.tag) + 1 /\ Depth(cdb.tag) \in Nat
            /\ TagAt(Depth(cdb.tag)) = cdb.tag
        BY <4>1, <2>3, <1>1, LiveDepth, TagPlaces DEF Kept, BranchPlace
      <4>3. Owner(p) = Depth(cdb.tag)
        BY <4>2
      <4>4. CkptAt(p).tag = cdb.tag
        BY <4>2, <4>3, CkptRanks
      <4> QED
        BY <4>4, <2>3 DEF Found, Matching, CkptAt
    <3> QED
      BY <3>1, <2>3, <1>1, <1>2, <1>3
  <2> QED
    BY <2>1, <2>2, <2>3
<1>12. Surviving(cdb, mem) =
         {p \in ActiveCkpts : freed <= Rank(p) /\ (restore => Rank(p) < Rank(b))}
  BY <1>10, <1>11 DEF Surviving
<1> HIDE DEF restore, b, c, m, freed, bound
<1>13. \A p \in Pointers(N) :
         Dist(p, ckptTail', N) =
           IF freed <= Rank(p) THEN Rank(p) - freed ELSE 2*N - 1
  BY <1>1, <1>3, <1>5, <1>9 DEF Dist, Succ, Pointers
<1>14. Rank(ckptHead) = CkptCount /\ freed <= CkptCount
  BY <1>1, <1>2, <1>3, <1>5, <1>9
<1>15. Dist(ckptHead', ckptTail', N) =
         (IF Takes(cdb, mem) THEN CkptCount + 1
          ELSE IF restore THEN Rank(b) ELSE CkptCount) - freed
  <2>1. CASE Takes(cdb, mem)
    <3>1. ckptHead' = Succ(ckptHead, N) /\ CkptCount < N
      BY <2>1, <1>3
    <3>2. Rank(Succ(ckptHead, N)) = CkptCount + 1
      BY <3>1, <1>1, <1>2 DEF Rank, Dist, Succ, Pointers
    <3>3. Succ(ckptHead, N) \in Pointers(N)
      BY <1>1, PointerTypes
    <3> QED
      BY <2>1, <3>1, <3>2, <3>3, <1>2, <1>9, <1>13, <1>14
  <2>2. CASE ~Takes(cdb, mem) /\ restore
    <3>1. ckptHead' = b /\ b \in ActiveCkpts /\ (Frees(mem) => b # ckptTail)
      BY <2>2, <1>3
    <3>2. b \in Pointers(N) /\ Rank(b) \in Nat /\ freed <= Rank(b)
      BY <3>1, <1>2, <1>9
    <3> QED
      BY <2>2, <3>1, <3>2, <1>13
  <2>3. CASE ~Takes(cdb, mem) /\ ~restore
    BY <2>3, <1>1, <1>3, <1>13, <1>14
  <2> QED
    BY <2>1, <2>2, <2>3
<1>16. Dist(ckptHead', ckptTail', N) <= N
  <2>1. restore => Rank(b) \in Nat /\ Rank(b) < CkptCount
    BY <1>2, <1>3
  <2> QED
    BY <2>1, <1>1, <1>2, <1>3, <1>9, <1>15
<1>17. ckptHead \notin ActiveCkpts
  BY <1>1, <1>2, <1>14
<1>18. \A p \in Pointers(N) : /\ Rank(p) \in 0 .. 2*N - 1
                              /\ Rank(p) = CkptCount <=> p = ckptHead
  BY <1>1, <1>5 DEF Dist, Pointers
<1>19. ASSUME NEW p \in Pointers(N)
       PROVE  p \in ActiveCkpts' <=>
                \/ /\ p \in ActiveCkpts
                   /\ freed <= Rank(p) /\ (restore => Rank(p) < Rank(b))
                \/ Takes(cdb, mem) /\ p = ckptHead
  <2>1. p \in ActiveCkpts' <=> Dist(p, ckptTail', N) < Dist(ckptHead', ckptTail', N)
    BY <1>6
  <2>2. restore => Rank(b) \in Nat /\ Rank(b) < CkptCount /\ ~Takes(cdb, mem)
    BY <1>2, <1>3 DEF restore
  <2>3. /\ Rank(p) \in 0 .. 2*N - 1 /\ (Rank(p) = CkptCount <=> p = ckptHead)
        /\ p \in ActiveCkpts <=> Rank(p) < CkptCount
    BY <1>4, <1>18
  <2>4. Dist(p, ckptTail', N) = IF freed <= Rank(p) THEN Rank(p) - freed ELSE 2*N - 1
    BY <1>13
  <2>5. CASE Takes(cdb, mem)
    <3>1. p \in ActiveCkpts' <=> freed <= Rank(p) /\ Rank(p) < CkptCount + 1
      BY <2>1, <2>3, <2>4, <2>5, <1>1, <1>2, <1>3, <1>9, <1>15
    <3> QED
      BY <3>1, <2>2, <2>3, <2>5, <1>2, <1>9, <1>14
  <2>6. CASE restore
    <3>1. p \in ActiveCkpts' <=> freed <= Rank(p) /\ Rank(p) < Rank(b)
      BY <2>1, <2>2, <2>3, <2>4, <2>6, <1>1, <1>2, <1>9, <1>15
    <3> QED
      BY <3>1, <2>2, <2>3, <2>6, <1>2
  <2>7. CASE ~Takes(cdb, mem) /\ ~restore
    <3>1. p \in ActiveCkpts' <=> freed <= Rank(p) /\ Rank(p) < CkptCount
      BY <2>1, <2>3, <2>4, <2>7, <1>1, <1>2, <1>9, <1>15
    <3> QED
      BY <3>1, <2>3, <2>7
  <2> QED
    BY <2>5, <2>6, <2>7
<1>20. ActiveCkpts' = Surviving(cdb, mem) \cup
                      (IF Takes(cdb, mem) THEN {ckptHead} ELSE {})
  BY <1>1, <1>7, <1>12, <1>19
<1>21. \A p \in Surviving(cdb, mem) : Dist(p, ckptTail', N) = Rank(p) - freed
  BY <1>2, <1>12, <1>13
<1>22. Dist(ckptHead, ckptTail', N) = CkptCount - freed
  BY <1>1, <1>13, <1>14
<1> QED
  BY <1>16, <1>17, <1>20, <1>21, <1>22 DEF freed

(* A cycle preserves CkptInv, if a checkpoint that is taken is free.       *)
LEMMA CkptInvStep ==
  ASSUME TypeOK, TypeOK', SerialInv, WriterInv, JrInv, AllocInv, MapInv, CkptInv,
         NEW fetch \in FetchInputs, NEW cdb \in CdbInputs, NEW mem \in MemInputs,
         Cycle(fetch, cdb, mem), Takes(cdb, mem) => ~FratFull
  PROVE  CkptInv'
<1> DEFINE N == NUM_CHECKPOINT
           c == Out(mem)
           m == Kept(cdb)
           freed == FreedCount(mem)
           old == Surviving(cdb, mem)
           takes == Takes(cdb, mem)
<1>1. /\ c \in {0, 1} /\ m \in Nat /\ RobCount' = m - c /\ RobCount' \in Nat
      /\ RobCount \in Nat /\ FlightCount \in Nat /\ m <= FlightCount
      /\ N \in Nat \ {0} /\ freed \in {0, 1}
      /\ m <= RobCount + 1 /\ RobCount <= ROB_DEPTH /\ ROB_DEPTH \in Nat
      /\ c <= RobCount
      /\ cdb.flush => m > c
  BY SizeAssumption, CountRange, CycleCounts
     DEF FreedCount, TypeOK, DispatchTypeOK, Stage2Entry
<1> PICK h \in Pointers(N) : h = ckptHead
  BY DEF TypeOK, FratTypeOK
<1>2. /\ ActiveCkpts' = old \cup (IF takes THEN {h} ELSE {})
      /\ Dist(ckptHead', ckptTail', N) <= N
      /\ h \notin ActiveCkpts
      /\ \A p \in old : Rank(p)' = Rank(p) - freed
      /\ takes => Rank(h)' = CkptCount - freed
  BY CkptCycle DEF Rank
<1>3. /\ takes => CkptCount < N /\ ~cdb.flush /\ m = RobCount + 1
      /\ ckpt' = IF takes
                   THEN [ckpt EXCEPT ![Slot(ckptHead, N)] =
                           [map |-> IF stage2.rw
                                      THEN [frat EXCEPT ![stage2.rd] = frlRead]
                                      ELSE frat,
                            tag |-> RobBottom, head |-> frlHead]]
                   ELSE ckpt
  BY CkptPointers
<1>4. /\ CkptCount \in Nat
      /\ \A p \in ActiveCkpts :
           /\ p \in Pointers(N) /\ CkptAt(p).tag \in RobTags
           /\ Rank(p) \in Nat /\ Rank(p) < CkptCount
           /\ Owner(p) \in Nat /\ Owner(p) < RobCount
           /\ CkptCount - Rank(p) <= RobCount - Owner(p)
  BY CkptRanks
<1>5. old = {p \in ActiveCkpts : c <= Owner(p) /\ Owner(p) < IF cdb.flush THEN m - 1 ELSE m}
  BY DEF Surviving
<1>6. \A p \in old : /\ p \in ActiveCkpts /\ c <= Owner(p) /\ Owner(p) < m
                     /\ Owner(p) \in Nat
  BY <1>1, <1>4, <1>5
<1>7. \A p \in old : CkptAt(p)' = CkptAt(p)
  <2> SUFFICES ASSUME NEW p \in old PROVE CkptAt(p)' = CkptAt(p)
    OBVIOUS
  <2>1. p \in ActiveCkpts /\ p \in Pointers(N)
    BY <1>4, <1>6
  <2>2. /\ ckptHead \in Pointers(N) /\ ckptTail \in Pointers(N)
        /\ ckpt \in [CkptSlots -> Checkpoint]
    BY DEF TypeOK, FratTypeOK
  <2>3. CASE takes
    <3>1. Slot(p, N) # Slot(ckptHead, N)
      BY <2>1, <2>2, <2>3, <1>1, <1>3, AppendSlotFree DEF CkptCount, ActiveCkpts
    <3>2. Slot(p, N) \in CkptSlots
      BY <2>1, <1>1, PointerTypes DEF CkptSlots
    <3>3. ckpt'[Slot(p, N)] = ckpt[Slot(p, N)]
      BY <3>1, <3>2, <2>2, <2>3, <1>3
    <3> QED
      BY <3>3 DEF CkptAt
  <2>4. CASE ~takes
    BY <2>4, <1>3 DEF CkptAt
  <2> QED
    BY <2>3, <2>4
<1>8. \A p \in old : Owner(p)' = Owner(p) - c
  <2> SUFFICES ASSUME NEW p \in old PROVE Owner(p)' = Owner(p) - c
    OBVIOUS
  <2>1. PICK t \in RobTags : t = CkptAt(p).tag
    BY <1>4, <1>6
  <2>2. CkptAt(p)'.tag = t
    BY <2>1, <1>7
  <2>3. Owner(p) = Depth(t) /\ Owner(p)' = Depth(t)'
    BY <2>1, <2>2 DEF Owner, Depth
  <2>4. Depth(t)' = Depth(t) - c
    BY <2>3, <1>6, DepthShift
  <2> QED
    BY <2>3, <2>4
<1>9. takes => /\ CkptAt(h)' =
                    [map |-> IF stage2.rw THEN [frat EXCEPT ![stage2.rd] = frlRead]
                             ELSE frat,
                     tag |-> RobBottom, head |-> frlHead]
               /\ Owner(h)' = RobCount - c
  <2> SUFFICES ASSUME takes
               PROVE  /\ CkptAt(h)' =
                           [map |-> IF stage2.rw
                                      THEN [frat EXCEPT ![stage2.rd] = frlRead]
                                      ELSE frat,
                            tag |-> RobBottom, head |-> frlHead]
                      /\ Owner(h)' = RobCount - c
    OBVIOUS
  <2>1. ckpt \in [CkptSlots -> Checkpoint] /\ Slot(h, N) \in CkptSlots
    BY <1>1, PointerTypes DEF TypeOK, FratTypeOK, CkptSlots
  <2>2. CkptAt(h)' =
          [map |-> IF stage2.rw THEN [frat EXCEPT ![stage2.rd] = frlRead] ELSE frat,
           tag |-> RobBottom, head |-> frlHead]
    BY <2>1, <1>3 DEF CkptAt
  <2>3. PICK t \in RobTags : t = RobBottom
    BY RobSlotTypes DEF TypeOK
  <2>4. Owner(h)' = Depth(t)'
    BY <2>2, <2>3 DEF Owner, Depth
  <2>5. Depth(t) = RobCount
    <3>1. stage2.valid
      BY DEF Takes, Fires, Stage2Fires
    <3>2. RobCount < ROB_DEPTH /\ t = TagAt(RobCount)
      BY <2>3, <3>1, TagPlaces DEF SerialInv
    <3> QED
      BY <3>2, <1>1, TagPlaces
  <2>6. Depth(t)' = Depth(t) - c
    BY <2>5, <1>1, DepthShift
  <2> QED
    BY <2>2, <2>4, <2>5, <2>6
<1>10. takes => /\ stage2.valid /\ FlightCount = RobCount + 1
                /\ Flight(RobCount).kind \in CheckpointKinds
  <2> SUFFICES ASSUME takes
               PROVE  /\ stage2.valid /\ FlightCount = RobCount + 1
                      /\ Flight(RobCount).kind \in CheckpointKinds
    OBVIOUS
  <2>1. stage2.valid /\ stage2.kind \in CheckpointKinds
    BY DEF Takes, Fires, Stage2Fires
  <2>2. FlightCount = RobCount + 1
    BY <2>1, CountRange
  <2>3. Flight(RobCount).kind = stage2.kind
    BY <1>1 DEF Flight
  <2> QED
    BY <2>1, <2>2, <2>3
<1>11. ASSUME NEW k \in Nat, k < RobCount'
       PROVE  /\ (Flight(k)').kind = Flight(k + c).kind
              /\ MapBefore(k + 1)' = MapBefore(k + 1 + c)
              /\ AllocPtr(k + 1)' = AllocPtr(k + 1 + c)
  <2>1. k + 1 \in Nat /\ k + 1 <= RobCount'
    BY <1>1, <1>11
  <2> QED
    BY <2>1, <1>11, CycleFlight, MapShift, AllocShift DEF SameInstr
<1> HIDE DEF c, m, freed, old, takes
<1>12. ASSUME NEW p \in ActiveCkpts'
       PROVE  Owner(p)' \in Nat /\ Owner(p)' < RobCount'
  <2>1. CASE p \in old
    BY <2>1, <1>1, <1>6, <1>8
  <2>2. CASE p \notin old
    BY <2>2, <1>1, <1>2, <1>3, <1>9
  <2> QED
    BY <2>1, <2>2
<1>13. ASSUME NEW p \in ActiveCkpts', NEW k \in Nat, k = Owner(p)'
       PROVE  /\ (Flight(k)').kind \in CheckpointKinds
              /\ (CkptAt(p)').map = MapBefore(k + 1)'
              /\ (CkptAt(p)').head = AllocPtr(k + 1)'
  <2>1. k < RobCount'
    BY <1>12, <1>13
  <2>2. CASE p \in old
    <3>1. k + c = Owner(p) /\ k + c \in Nat /\ k + 1 + c = k + c + 1
      BY <2>2, <1>1, <1>6, <1>8, <1>13
    <3>2. /\ Flight(k + c).kind \in CheckpointKinds
          /\ CkptAt(p).map = MapBefore(k + c + 1)
          /\ CkptAt(p).head = AllocPtr(k + c + 1)
      BY <2>2, <3>1, <1>6 DEF CkptInv
    <3> QED
      BY <2>1, <2>2, <3>1, <3>2, <1>7, <1>11
  <2>3. CASE p \notin old
    <3>1. takes /\ p = h
      BY <2>3, <1>2
    <3>2. k + c = RobCount /\ k + 1 + c = FlightCount
      BY <3>1, <1>1, <1>9, <1>10, <1>13
    <3>3. /\ (CkptAt(p)').map = IF stage2.rw THEN [frat EXCEPT ![stage2.rd] = frlRead]
                                ELSE frat
          /\ (CkptAt(p)').head = frlHead
      BY <3>1, <1>9
    <3>4. /\ MapBefore(FlightCount) = IF stage2.rw
                                        THEN [frat EXCEPT ![stage2.rd] = frlRead]
                                        ELSE frat
          /\ AllocPtr(FlightCount) = frlHead
      BY <3>1, <1>1, <1>10, YoungestMap DEF AllocInv
    <3> QED
      BY <2>1, <3>1, <3>2, <3>3, <3>4, <1>10, <1>11
  <2> QED
    BY <2>2, <2>3
<1>14. ASSUME NEW p \in ActiveCkpts', NEW q \in ActiveCkpts', Rank(p)' <= Rank(q)'
       PROVE  Rank(q)' - Rank(p)' <= Owner(q)' - Owner(p)'
  <2>1. CASE p \in old /\ q \in old
    <3>1. /\ Rank(p)' = Rank(p) - freed /\ Rank(q)' = Rank(q) - freed
          /\ Owner(p)' = Owner(p) - c /\ Owner(q)' = Owner(q) - c
          /\ p \in ActiveCkpts /\ q \in ActiveCkpts
      BY <2>1, <1>2, <1>6, <1>8
    <3>2. /\ Rank(p) \in Nat /\ Rank(q) \in Nat /\ Owner(p) \in Nat /\ Owner(q) \in Nat
      BY <3>1, <1>4
    <3>3. Rank(p) <= Rank(q) => Rank(q) - Rank(p) <= Owner(q) - Owner(p)
      BY <3>1 DEF CkptInv
    <3> QED
      BY <3>1, <3>2, <3>3, <1>1, <1>14
  <2>2. CASE p \in old /\ q \notin old
    <3>1. /\ Rank(p)' = Rank(p) - freed /\ Rank(q)' = CkptCount - freed
          /\ Owner(p)' = Owner(p) - c /\ Owner(q)' = RobCount - c
          /\ p \in ActiveCkpts
      BY <2>2, <1>2, <1>6, <1>8, <1>9
    <3> QED
      BY <3>1, <1>1, <1>4
  <2>3. CASE p \notin old /\ q \in old
    <3>1. /\ Rank(q)' = Rank(q) - freed /\ Rank(p)' = CkptCount - freed
          /\ q \in ActiveCkpts
      BY <2>3, <1>2, <1>6
    <3> QED
      BY <3>1, <1>1, <1>4, <1>14
  <2>4. CASE p \notin old /\ q \notin old
    <3>1. p = h /\ q = h /\ Rank(h)' = CkptCount - freed /\ Owner(h)' = RobCount - c
      BY <2>4, <1>2, <1>9
    <3> QED
      BY <3>1, <1>1, <1>4
  <2> QED
    BY <2>1, <2>2, <2>3, <2>4
<1>15. ASSUME NEW k \in Nat, k < RobCount', (Flight(k)').kind \in CheckpointKinds,
              ~Done(k)'
       PROVE  \E p \in ActiveCkpts' : Owner(p)' = k
  <2>1. /\ k + c \in Nat /\ k + c < m /\ Flight(k + c).kind \in CheckpointKinds
        /\ ~(cdb.valid /\ cdb.tag = TagAt(k + c))
        /\ k + c < RobCount => ~Done(k + c)
    BY <1>1, <1>11, <1>15, CycleFlight DEF c
  <2>2. CASE k + c < RobCount
    <3>1. PICK p \in ActiveCkpts : Owner(p) = k + c
      BY <2>1, <2>2 DEF CkptInv
    <3>2. cdb.flush => k + c # m - 1
      <4> SUFFICES ASSUME cdb.flush, k + c = m - 1 PROVE FALSE
        OBVIOUS
      <4>1. cdb.valid /\ cdb.tag \in LiveTags
        BY InputTypes, CompletionIsLive
      <4>2. m = Depth(cdb.tag) + 1 /\ Depth(cdb.tag) \in Nat
            /\ TagAt(Depth(cdb.tag)) = cdb.tag
        BY <4>1, <1>1, LiveDepth, TagPlaces DEF Kept, BranchPlace, m
      <4>3. k + c = Depth(cdb.tag)
        BY <4>2
      <4> QED
        BY <4>1, <4>2, <4>3, <2>1
    <3>3. p \in old
      BY <3>1, <3>2, <2>1, <1>1, <1>5
    <3>4. Owner(p)' = k
      BY <3>1, <3>3, <1>1, <1>8
    <3> QED
      BY <3>3, <3>4, <1>2
  <2>3. CASE ~(k + c < RobCount)
    <3>1. k + c = RobCount /\ m = RobCount + 1
      BY <2>1, <2>3, <1>1
    <3>2. Flight(RobCount).kind = stage2.kind /\ Fires(cdb, mem)
      BY <3>1, <1>1, CycleCounts DEF Flight, m
    <3>3. takes
      BY <3>1, <3>2, <2>1 DEF Takes, takes
    <3>4. Owner(h)' = k
      BY <3>1, <3>3, <1>1, <1>9
    <3> QED
      BY <3>3, <3>4, <1>2
  <2> QED
    BY <2>2, <2>3
<1> QED
  BY <1>2, <1>12, <1>13, <1>14, <1>15 DEF CkptInv, N

-----------------------------------------------------------------------------
(* Room for the checkpoint of a branch that enters the ROB.  A machine     *)
(* with a checkpoint for every entry of the ROB always has it; in any      *)
(* machine, a branch that enters without one is in the ROB without one     *)
(* after the edge.                                                         *)
CheckpointsSuffice == NUM_CHECKPOINT >= ROB_DEPTH

(* With a checkpoint for every ROB entry there is always a free one.       *)
LEMMA RoomBySize ==
  ASSUME CheckpointsSuffice, TypeOK, SerialInv, CkptInv,
         NEW cdb, NEW mem, Takes(cdb, mem)
  PROVE  ~FratFull
<1>1. stage2.valid
  BY DEF Takes, Fires, Stage2Fires
<1>2. RobCount < ROB_DEPTH /\ RobCount \in Nat
  BY <1>1, CountRange, SizeAssumption DEF SerialInv
<1>3. CkptCount < NUM_CHECKPOINT
  BY <1>2, CkptRanks, SizeAssumption DEF CheckpointsSuffice
<1> QED
  BY <1>3, CkptRanks, SizeAssumption

(* If every branch has a checkpoint after the cycle, the one it took was   *)
(* free.                                                                   *)
LEMMA RoomByCheck ==
  ASSUME TypeOK, TypeOK', SerialInv, SerialInv', WriterInv, CkptInv,
         NEW fetch \in FetchInputs, NEW cdb \in CdbInputs, NEW mem \in MemInputs,
         Cycle(fetch, cdb, mem), Takes(cdb, mem), BranchHasCheckpoint'
  PROVE  ~FratFull
<1> SUFFICES ASSUME FratFull PROVE FALSE
  OBVIOUS
<1> DEFINE N == NUM_CHECKPOINT
<1>1. stage2.valid /\ Fires(cdb, mem) /\ ~cdb.flush /\ ~TrapCommit(mem)
      /\ stage2.kind \in CheckpointKinds
  BY DEF Takes, Fires, Stage2Fires, DispatchFlush, CombinedFlush
<1>2. /\ Out(mem) \in {0, 1} /\ RobCount' = RobCount + 1 - Out(mem)
      /\ RobCount \in Nat /\ RobCount < ROB_DEPTH /\ Out(mem) <= RobCount
      /\ ROB_DEPTH \in Nat \ {0}
  BY <1>1, CycleCounts, CountRange, SizeAssumption DEF SerialInv
<1> PICK k \in Nat : k = RobCount - Out(mem)
  BY <1>2
<1>3. k < RobCount' /\ k + Out(mem) = RobCount
  BY <1>2
<1>4. TagAt(k)' = RobBottom /\ RobBottom \in RobTags
  BY <1>3, CycleCounts, TagPlaces, RobSlotTypes DEF TypeOK
<1>5. (Flight(k)').kind \in CheckpointKinds
  <2>1. Flight(RobCount).kind = stage2.kind
    BY <1>2 DEF Flight
  <2> QED
    BY <2>1, <1>1, <1>3, CycleFlight DEF SameInstr
<1>6. Depth(RobBottom) = RobCount
  BY <1>2, TagPlaces
<1>7. ~Done(k)'
  <2>1. cdb.valid => cdb.tag # RobBottom
    <3> SUFFICES ASSUME cdb.valid PROVE Depth(cdb.tag) # RobCount
      BY <1>6
    <3>1. Depth(cdb.tag) \in 0 .. RobCount - 1
      BY CompletionIsLive, LiveDepth
    <3> QED
      BY <3>1, <1>2
  <2>2. stage2.kind \notin RobOnlyKinds
    BY <1>1 DEF CheckpointKinds, RobOnlyKinds, SerializingKinds
  <2>3. TagAt(k + Out(mem)) = RobBottom
    BY <1>3, TagPlaces
  <2> QED
    BY <2>1, <2>2, <2>3, <1>2, <1>3, CycleFlight
<1>8. ~Found(RobBottom)
  <2> SUFFICES ASSUME NEW p \in Matching(RobBottom) PROVE FALSE
    BY DEF Found
  <2>1. p \in ActiveCkpts /\ Owner(p) = Depth(RobBottom)
    BY DEF Matching, Owner, CkptAt
  <2> QED
    BY <2>1, <1>2, <1>6 DEF CkptInv
<1>9. \A p \in ActiveCkpts' : p \in ActiveCkpts
  <2>1. /\ ckptHead' = ckptHead
        /\ ckptTail' \in {ckptTail, Succ(ckptTail, N)}
        /\ ckptHead \in Pointers(N) /\ ckptTail \in Pointers(N) /\ N \in Nat \ {0}
    BY <1>1, SizeAssumption, CycleCounts
       DEF Cycle, FratClock, CombinedFlush, TypeOK, FratTypeOK
  <2>2. Dist(ckptHead, ckptTail, N) = N
    BY <2>1 DEF FratFull, IsFull, Toggle, Dist, Pointers
  <2>3. ActiveCkpts' = Window(ckptTail', ckptHead, N)
    BY <2>1 DEF ActiveCkpts
  <2>4. Window(Succ(ckptTail, N), ckptHead, N) = ActiveCkpts \ {ckptTail}
    <3>1. ckptHead # ckptTail
      BY <2>1, <2>2 DEF Dist, Pointers
    <3> QED
      BY <2>1, <2>2, <3>1, WindowStep DEF ActiveCkpts
  <2> QED
    BY <2>1, <2>3, <2>4 DEF ActiveCkpts
<1>10. ckpt' = ckpt
  BY DEF Cycle, FratClock
<1>11. \E p \in ActiveCkpts' : ckpt'[Slot(p, N)].tag = RobBottom
  <2>1. (k \in Unresolved)'
    <3>1. rob'[TagAt(k)'].kind = (Flight(k)').kind /\ ~rob'[TagAt(k)'].compl
      BY <1>3, <1>7 DEF Flight, Done
    <3>2. RobCount' \in Nat
      BY <1>2
    <3> QED
      BY <1>3, <1>5, <1>7, <3>1, <3>2 DEF Unresolved, Done
  <2>2. Found(TagAt(k))'
    BY <2>1 DEF BranchHasCheckpoint
  <2> QED
    BY <2>2, <1>4 DEF Found, Matching
<1> QED
  BY <1>8, <1>9, <1>10, <1>11 DEF Found, Matching

-----------------------------------------------------------------------------
(* Nothing is in flight at first.                                          *)
LEMMA RenameInit == Init /\ TypeOK => RenameInv
<1> SUFFICES ASSUME Init, TypeOK PROVE RenameInv
  OBVIOUS
<1>1. RobCount = 0 /\ FlightCount = 0 /\ ~stage2.valid /\ ~stage2.rw
  BY DEF Init, RobInit, DispatchInit, Bubble, RobCount, FlightCount, Dist
<1>2. WriterInv /\ JrInv
  BY <1>1 DEF WriterInv, JrInv
<1>3. WriterCount(0) = 0 /\ MapBefore(0) = rrat
  BY WriterCountSteps, MapSteps DEF CountFacts, MapFacts
<1>4. AllocInv
  <2>1. AllocPtr(0) = frlHead
    BY <1>3, SizeAssumption
       DEF AllocPtr, FirstAllocated, WriterCount, Init, FrlInit, Toggle, Ahead
  <2> QED
    BY <2>1, <1>1, <1>3, SizeAssumption DEF AllocInv
<1>5. MapInv
  BY <1>1, <1>3 DEF MapInv, Init, FratInit
<1>6. CkptInv
  <2>1. ActiveCkpts = {} /\ Dist(ckptHead, ckptTail, NUM_CHECKPOINT) = 0
    BY SizeAssumption DEF ActiveCkpts, Window, Init, FratInit, Dist, Pointers
  <2> QED
    BY <2>1, <1>1, SizeAssumption DEF CkptInv
<1> QED
  BY <1>2, <1>4, <1>5, <1>6 DEF RenameInv

(* A step that changes nothing preserves the invariant.                    *)
LEMMA RenameStutter == RenameInv /\ UNCHANGED vars => RenameInv'
<1> SUFFICES ASSUME RenameInv, UNCHANGED vars PROVE RenameInv'
  OBVIOUS
<1> USE DEF vars, frlVars, fratVars, robVars, dispatchVars
<1>1. RobCount' = RobCount /\ FlightCount' = FlightCount
  BY DEF RobCount, FlightCount
<1>0. MapFacts /\ MapFacts'
  <2>1. MapFacts'
    BY MapSteps, PTL
  <2> QED
    BY <2>1, MapSteps
<1>2. \A k \in Nat : /\ Flight(k)' = Flight(k) /\ (Done(k)' <=> Done(k))
  BY DEF Flight, Done, TagAt, RobCount
<1>3. \A k \in Nat : Writers(k)' = Writers(k)
  BY DEF Writers, Flight, TagAt, RobCount
<1>4. \A k \in Nat : WriterCount(k)' = WriterCount(k) /\ AllocPtr(k)' = AllocPtr(k)
  BY <1>3 DEF WriterCount, AllocPtr, FirstAllocated
<1>5. \A k \in Nat : MapBefore(k)' = MapBefore(k)
  <2> DEFINE S == {k \in Nat : MapBefore(k)' = MapBefore(k)}
  <2>1. MapBefore(0) = [r \in ArchRegs |-> rrat[r]]
    BY DEF MapBefore, Writers
  <2>2. MapBefore(0)' = [r \in ArchRegs |-> rrat'[r]]
    BY DEF MapBefore, Writers
  <2>3. 0 \in S
    BY <2>1, <2>2
  <2>4. ASSUME NEW n \in Nat, n \in S PROVE n + 1 \in S
    <3>1. /\ MapBefore(n + 1) = [r \in ArchRegs |->
               IF Flight(n).rw /\ Flight(n).rd = r
                 THEN Flight(n).curr ELSE MapBefore(n)[r]]
          /\ MapBefore(n + 1)' = [r \in ArchRegs |->
               IF Flight(n)'.rw /\ Flight(n)'.rd = r
                 THEN Flight(n)'.curr ELSE MapBefore(n)'[r]]
      BY <1>0 DEF MapFacts
    <3>2. Flight(n)' = Flight(n)
      BY <1>2
    <3> QED
      BY <2>4, <3>1, <3>2
  <2> QED
    <3> HIDE DEF S
    <3>1. \A n \in Nat : n \in S
      BY <2>3, <2>4, NatSetInduction
    <3> QED
      BY <3>1 DEF S
<1>6. ActiveCkpts' = ActiveCkpts
  BY DEF ActiveCkpts
<1>7. \A p : CkptAt(p)' = CkptAt(p) /\ Owner(p)' = Owner(p) /\ Rank(p)' = Rank(p)
  BY DEF CkptAt, Owner, Rank, Depth, RobTop
<1>8. WriterInv' /\ JrInv'
  BY <1>1, <1>2 DEF RenameInv, WriterInv, JrInv
<1>9. AllocInv'
  BY <1>1, <1>2, <1>4 DEF RenameInv, AllocInv
<1>10. MapInv'
  BY <1>1, <1>2, <1>5 DEF RenameInv, MapInv
<1>11. CkptInv'
  <2>1. ASSUME NEW p \in ActiveCkpts', NEW k \in Nat, k = Owner(p)'
        PROVE  /\ Flight(k)'.kind \in CheckpointKinds
               /\ CkptAt(p)'.map = MapBefore(k + 1)'
               /\ CkptAt(p)'.head = AllocPtr(k + 1)'
    <3>1. /\ Flight(k).kind \in CheckpointKinds
          /\ CkptAt(p).map = MapBefore(k + 1)
          /\ CkptAt(p).head = AllocPtr(k + 1)
      BY <2>1, <1>6, <1>7 DEF RenameInv, CkptInv
    <3> QED
      BY <3>1, <1>2, <1>4, <1>5, <1>7
  <2> QED
    BY <2>1, <1>1, <1>2, <1>6, <1>7 DEF RenameInv, CkptInv
<1> QED
  BY <1>8, <1>9, <1>10, <1>11 DEF RenameInv

(* A cycle preserves the invariant.                                        *)
LEMMA RenameStep ==
  ASSUME TypeOK, TypeOK', SerialInv, SerialInv', RenameInv, [Next]_vars,
         CheckpointsSuffice \/ BranchHasCheckpoint'
  PROVE  RenameInv'
<1>1. CASE UNCHANGED vars
  BY <1>1, RenameStutter
<1>2. CASE Next
  <2>1. PICK fetch \in FetchInputs, cdb \in CdbInputs, mem \in MemInputs :
          Cycle(fetch, cdb, mem)
    BY <1>2 DEF Next
  <2>2. WriterInv /\ JrInv /\ AllocInv /\ MapInv /\ CkptInv
    BY DEF RenameInv
  <2>3. Takes(cdb, mem) => ~FratFull
    BY <2>1, <2>2, RoomBySize, RoomByCheck
  <2>4. WriterInv' /\ JrInv' /\ AllocInv' /\ MapInv' /\ CkptInv'
    BY <2>1, <2>2, <2>3, WriterInvStep, JrInvStep, AllocInvStep, MapInvStep,
       CkptInvStep
  <2> QED
    BY <2>4 DEF RenameInv
<1> QED
  BY <1>1, <1>2

(* Renaming is right in every run in which no unresolved branch is in the  *)
(* ROB without its checkpoint, whatever the sizes of the buffers.          *)
THEOREM RenameInvariant ==
  Spec /\ []BranchHasCheckpoint => [](TypeOK /\ SerialInv /\ RenameInv)
<1>1. Init /\ TypeOK => RenameInv
  BY RenameInit
<1>2. /\ TypeOK /\ TypeOK' /\ SerialInv /\ SerialInv' /\ RenameInv
      /\ BranchHasCheckpoint' /\ [Next]_vars
      => RenameInv'
  BY RenameStep
<1> QED
  BY <1>1, <1>2, SerialInvariant, PTL DEF Spec

(* With as many checkpoints as ROB entries nothing is assumed of the       *)
(* behaviour.                                                              *)
THEOREM RenameInvariantBySize ==
  CheckpointsSuffice => (Spec => [](TypeOK /\ SerialInv /\ RenameInv))
<1> SUFFICES ASSUME CheckpointsSuffice
             PROVE  Spec => [](TypeOK /\ SerialInv /\ RenameInv)
  OBVIOUS
<1>1. Init /\ TypeOK => RenameInv
  BY RenameInit
<1>2. /\ TypeOK /\ TypeOK' /\ SerialInv /\ SerialInv' /\ RenameInv
      /\ [Next]_vars
      => RenameInv'
  BY RenameStep
<1> QED
  BY <1>1, <1>2, SerialInvariant, PTL DEF Spec

-----------------------------------------------------------------------------
(* The properties that are parts of the invariant.                         *)
LEMMA AllocationFromInv ==
  ASSUME TypeOK, SerialInv, RenameInv
  PROVE  AllocationOrder
<1>1. FlightCount \in Nat
  BY CountRange, SizeAssumption
<1>2. frlHead = AllocPtr(FlightCount)
  BY <1>1 DEF RenameInv, AllocInv
<1>3. ASSUME NEW k \in Writers(FlightCount)
      PROVE  Flight(k).curr = frlArray[Slot(AllocPtr(k), FRL_DEPTH)]
  BY <1>1, <1>3 DEF Writers, RenameInv, AllocInv
<1> QED
  BY <1>2, <1>3 DEF AllocationOrder

(* The map that FRAT shows, and the sources that stage 2 carries, are the  *)
(* ones program order gives.                                               *)
LEMMA RenamingFromInv ==
  ASSUME TypeOK, SerialInv, RenameInv
  PROVE  RenamingFollowsProgramOrder
<1>1. RobCount \in Nat /\ FlightCount \in Nat
  BY CountRange, SizeAssumption
<1>2. frat = MapBefore(RobCount)
  BY <1>1 DEF RenameInv, MapInv
<1>3. ASSUME NEW k \in Places
      PROVE  /\ Flight(k).src = MapBefore(k)[Flight(k).rs]
             /\ Flight(k).rw => Flight(k).prev = MapBefore(k)[Flight(k).rd]
  <2>1. k \in Nat /\ k < FlightCount
    BY <1>1 DEF Places
  <2> QED
    BY <2>1 DEF RenameInv, MapInv
<1> QED
  BY <1>2, <1>3 DEF RenamingFollowsProgramOrder

(* An open branch owns a checkpoint: the one of its place.                 *)
LEMMA OwnerMatches ==
  ASSUME TypeOK, SerialInv, CkptInv, NEW k \in Unresolved
  PROVE  \E p \in ActiveCkpts : /\ Owner(p) = k
                                /\ Matching(TagAt(k)) = {p}
<1>1. k \in Nat /\ k < RobCount /\ k < ROB_DEPTH
  BY CountRange, SizeAssumption DEF Unresolved
<1>2. PICK p \in ActiveCkpts : Owner(p) = k
  BY <1>1 DEF Unresolved, CkptInv, Done
<1>3. p \in Matching(TagAt(k))
  BY <1>2, CkptRanks DEF Matching, CkptAt
<1>4. ASSUME NEW q \in Matching(TagAt(k)) PROVE q = p
  <2>1. q \in ActiveCkpts /\ CkptAt(q).tag = TagAt(k)
    BY DEF Matching, CkptAt
  <2>2. Owner(q) = k
    BY <2>1, <1>1, TagPlaces, SizeAssumption DEF Owner
  <2>3. /\ Rank(p) \in Nat /\ Rank(q) \in Nat
        /\ p \in Pointers(NUM_CHECKPOINT) /\ q \in Pointers(NUM_CHECKPOINT)
    BY <2>1, CkptRanks
  <2>4. Rank(p) = Rank(q)
    <3>1. Rank(p) <= Rank(q) => Rank(q) - Rank(p) <= 0
      BY <1>1, <1>2, <2>1, <2>2 DEF CkptInv
    <3>2. Rank(q) <= Rank(p) => Rank(p) - Rank(q) <= 0
      BY <1>1, <1>2, <2>1, <2>2 DEF CkptInv
    <3> QED
      BY <3>1, <3>2, <2>3
  <2> QED
    BY <2>3, <2>4, SizeAssumption
       DEF Rank, Dist, Pointers, TypeOK, FratTypeOK
<1> QED
  BY <1>2, <1>3, <1>4

(* Each unresolved branch or jump has exactly one checkpoint, with the map *)
(* as it was behind it.                                                    *)
LEMMA CheckpointsFromInv ==
  ASSUME TypeOK, SerialInv, RenameInv
  PROVE  BranchHasCheckpoint /\ CheckpointOfBranch
<1>1. ASSUME NEW k \in Unresolved
      PROVE  /\ Found(TagAt(k))
             /\ Cardinality(Matching(TagAt(k))) = 1
             /\ MatchCkpt(TagAt(k)).map = MapBefore(k + 1)
             /\ MatchCkpt(TagAt(k)).head = AllocPtr(k + 1)
  <2>1. PICK p \in ActiveCkpts : Owner(p) = k /\ Matching(TagAt(k)) = {p}
    BY OwnerMatches DEF RenameInv
  <2>2. Cardinality({p}) = 1
    BY FS_Singleton
  <2>3. MatchPtr(TagAt(k)) = p
    <3>1. Slot(p, NUM_CHECKPOINT) <= Slot(p, NUM_CHECKPOINT)
      BY CkptRanks, SizeAssumption DEF RenameInv, Slot, Pointers
    <3> QED
      BY <2>1, <3>1 DEF MatchPtr
  <2>4. k \in Nat
    BY CountRange, SizeAssumption DEF Unresolved
  <2>5. CkptAt(p).map = MapBefore(k + 1) /\ CkptAt(p).head = AllocPtr(k + 1)
    BY <2>1, <2>4 DEF RenameInv, CkptInv
  <2> QED
    BY <2>1, <2>2, <2>3, <2>5 DEF Found, MatchCkpt, CkptAt
<1> QED
  BY <1>1 DEF BranchHasCheckpoint, CheckpointOfBranch

-----------------------------------------------------------------------------
(* Every physical register is in one place: a slot of the free list or the *)
(* committed map.  (The slots behind the head hold the registers of the    *)
(* writers in flight.)  RegistersConserved alone is not inductive: that    *)
(* commit loses no register depends on the two registers it exchanges      *)
(* being owned by nobody else.                                             *)
RegisterOwners ==
  /\ \A i, j \in FrlSlots : frlArray[i] = frlArray[j] => i = j
  /\ \A r, s \in ArchRegs : rrat[r] = rrat[s] => r = s
  /\ \A i \in FrlSlots, r \in ArchRegs : frlArray[i] # rrat[r]
  /\ RegistersConserved

(* The commit of a writer exchanges two registers: the tail slot of the    *)
(* free list holds the new register of the instruction until it gets the   *)
(* old one, and the committed map the other way round.                     *)
LEMMA CommitSwaps ==
  ASSUME TypeOK, SerialInv, RenameInv,
         NEW fetch \in FetchInputs, NEW cdb \in CdbInputs, NEW mem \in MemInputs,
         Cycle(fetch, cdb, mem)
  PROVE  LET s == Slot(frlTail, FRL_DEPTH)
             d == RobHead.rd
         IN /\ s \in FrlSlots /\ d \in ArchRegs
            /\ \/ frlArray' = frlArray /\ rrat' = rrat
               \/ /\ frlArray' = [frlArray EXCEPT ![s] = rrat[d]]
                  /\ rrat' = [rrat EXCEPT ![d] = frlArray[s]]
<1> DEFINE s == Slot(frlTail, FRL_DEPTH)
           d == RobHead.rd
           freeing == Commits(mem) /\ RobHead.rw
<1>1. /\ frlTail \in Pointers(FRL_DEPTH) /\ FRL_DEPTH \in Nat \ {0}
      /\ d \in ArchRegs
  BY SizeAssumption, RobSlotTypes
     DEF TypeOK, FrlTypeOK, RobHead, RobTypeOK, RobEntry
<1>2. s \in FrlSlots
  BY <1>1 DEF Slot, Pointers, FrlSlots
<1>3. /\ frlArray' = IF freeing THEN [frlArray EXCEPT ![s] = RobHead.prev]
                     ELSE frlArray
      /\ rrat' = IF freeing THEN [rrat EXCEPT ![d] = RobHead.curr] ELSE rrat
  <2>1. rrat' = IF freeing THEN [rrat EXCEPT ![d] = RobHead.curr] ELSE rrat
    BY DEF Cycle, RratClock
  <2>2. WriterCount(Out(mem)) = 1 <=> freeing
    BY CommitFrees DEF RenameInv
  <2>3. frlArray' = IF WriterCount(Out(mem)) = 1
                      THEN [frlArray EXCEPT ![s] = RobHead.prev] ELSE frlArray
    BY CommitFrees DEF RenameInv
  <2> HIDE DEF freeing, s, d
  <2> QED
    BY <2>1, <2>2, <2>3
<1>4. freeing => RobHead.prev = rrat[d] /\ RobHead.curr = frlArray[s]
  <2> SUFFICES ASSUME freeing
               PROVE  RobHead.prev = rrat[d] /\ RobHead.curr = frlArray[s]
    OBVIOUS
  <2>1. RobCount > 0 /\ RobCount \in Nat /\ 0 < FlightCount
    BY CycleCounts, CountRange, SizeAssumption
       DEF Out, TypeOK, DispatchTypeOK, Stage2Entry
  <2>2. /\ Flight(0).rw /\ Flight(0).rd = d
        /\ Flight(0).curr = RobHead.curr /\ Flight(0).prev = RobHead.prev
    BY <2>1, TagPlaces DEF Flight, RobHead
  <2>3. Flight(0).prev = MapBefore(0)[d]
    BY <2>1, <2>2 DEF RenameInv, MapInv
  <2>4. MapBefore(0) = rrat /\ WriterCount(0) = 0
    BY MapSteps, WriterCountSteps DEF MapFacts, CountFacts
  <2>5. Flight(0).curr = frlArray[Slot(AllocPtr(0), FRL_DEPTH)]
    BY <2>1, <2>2 DEF RenameInv, AllocInv
  <2>6. Slot(AllocPtr(0), FRL_DEPTH) = s
    BY <1>1, <2>4
       DEF AllocPtr, FirstAllocated, WriterCount, Ahead, Toggle, Slot, Pointers
  <2> QED
    BY <2>2, <2>3, <2>4, <2>5, <2>6
<1> HIDE DEF freeing, s, d
<1>5. \/ frlArray' = frlArray /\ rrat' = rrat
      \/ /\ frlArray' = [frlArray EXCEPT ![s] = rrat[d]]
         /\ rrat' = [rrat EXCEPT ![d] = frlArray[s]]
  BY <1>3, <1>4
<1> QED
  BY <1>1, <1>2, <1>5 DEF s, d

(* At reset the committed map and the free list share out the registers.   *)
LEMMA OwnersInit == Init => RegisterOwners
<1> SUFFICES ASSUME Init PROVE RegisterOwners
  OBVIOUS
<1>1. /\ frlArray = [i \in FrlSlots |-> ARCH_REG_COUNT + i]
      /\ rrat = [r \in ArchRegs |-> r]
      /\ ARCH_REG_COUNT \in Nat /\ FRL_DEPTH \in Nat
  BY SizeAssumption DEF Init, FrlInit
<1>2. ASSUME NEW p \in PhyRegs
      PROVE  p \in {frlArray[i] : i \in FrlSlots} \cup {rrat[r] : r \in ArchRegs}
  <2>1. CASE p < ARCH_REG_COUNT
    <3>1. p \in ArchRegs /\ rrat[p] = p
      BY <2>1, <1>1 DEF PhyRegs, ArchRegs
    <3> QED
      BY <3>1
  <2>2. CASE ~(p < ARCH_REG_COUNT)
    <3>1. p - ARCH_REG_COUNT \in FrlSlots /\ frlArray[p - ARCH_REG_COUNT] = p
      BY <2>2, <1>1 DEF PhyRegs, FrlSlots
    <3> QED
      BY <3>1
  <2> QED
    BY <2>1, <2>2
<1>3. \A i \in FrlSlots : frlArray[i] = ARCH_REG_COUNT + i /\ frlArray[i] \in PhyRegs
  BY <1>1 DEF PhyRegs, FrlSlots
<1>4. \A r \in ArchRegs : rrat[r] = r /\ rrat[r] \in PhyRegs
  BY <1>1 DEF PhyRegs, ArchRegs
<1>5. RegistersConserved
  BY <1>2, <1>3, <1>4 DEF RegistersConserved
<1> QED
  BY <1>1, <1>3, <1>4, <1>5 DEF RegisterOwners, FrlSlots, ArchRegs

(* A commit hands the register that was overwritten to the free list and   *)
(* takes the new one into the committed map.                               *)
LEMMA OwnersStep ==
  ASSUME TypeOK, SerialInv, RenameInv, RegisterOwners,
         NEW fetch \in FetchInputs, NEW cdb \in CdbInputs, NEW mem \in MemInputs,
         Cycle(fetch, cdb, mem)
  PROVE  RegisterOwners'
<1>1. CASE frlArray' = frlArray /\ rrat' = rrat
  BY <1>1 DEF RegisterOwners, RegistersConserved
<1>2. CASE ~(frlArray' = frlArray /\ rrat' = rrat)
  <2>1. PICK s \in FrlSlots, d \in ArchRegs :
          /\ frlArray' = [frlArray EXCEPT ![s] = rrat[d]]
          /\ rrat' = [rrat EXCEPT ![d] = frlArray[s]]
    BY <1>2, CommitSwaps
  <2>2. /\ frlArray \in [FrlSlots -> PhyRegs] /\ rrat \in [ArchRegs -> PhyRegs]
    BY DEF TypeOK, FrlTypeOK
  <2>3. \A i \in FrlSlots : frlArray'[i] = IF i = s THEN rrat[d] ELSE frlArray[i]
    BY <2>1, <2>2
  <2>4. \A r \in ArchRegs : rrat'[r] = IF r = d THEN frlArray[s] ELSE rrat[r]
    BY <2>1, <2>2
  <2>5. {frlArray'[i] : i \in FrlSlots} \cup {rrat'[r] : r \in ArchRegs} = PhyRegs
    <3>1. ASSUME NEW p \in PhyRegs
          PROVE  p \in {frlArray'[i] : i \in FrlSlots} \cup {rrat'[r] : r \in ArchRegs}
      <4>1. CASE p \in {frlArray[i] : i \in FrlSlots}
        <5>1. PICK i \in FrlSlots : p = frlArray[i]
          BY <4>1
        <5> QED
          BY <5>1, <2>3, <2>4
      <4>2. CASE p \in {rrat[r] : r \in ArchRegs}
        <5>1. PICK r \in ArchRegs : p = rrat[r]
          BY <4>2
        <5> QED
          BY <5>1, <2>3, <2>4
      <4> QED
        BY <4>1, <4>2 DEF RegisterOwners, RegistersConserved
    <3>2. \A i \in FrlSlots : frlArray'[i] \in PhyRegs
      BY <2>2, <2>3
    <3>3. \A r \in ArchRegs : rrat'[r] \in PhyRegs
      BY <2>2, <2>4
    <3> QED
      BY <3>1, <3>2, <3>3
  <2>6. \A i, j \in FrlSlots : frlArray'[i] = frlArray'[j] => i = j
    BY <2>3 DEF RegisterOwners
  <2>7. \A q, r \in ArchRegs : rrat'[q] = rrat'[r] => q = r
    BY <2>4 DEF RegisterOwners
  <2>8. \A i \in FrlSlots, r \in ArchRegs : frlArray'[i] # rrat'[r]
    BY <2>3, <2>4 DEF RegisterOwners
  <2> QED
    BY <2>5, <2>6, <2>7, <2>8 DEF RegisterOwners, RegistersConserved
<1> QED
  BY <1>1, <1>2

-----------------------------------------------------------------------------
(* The slot of a writer in flight is neither free nor that of another one. *)
LEMMA SlotsApart ==
  ASSUME NEW D \in Nat \ {0}, NEW t \in Pointers(D), NEW n \in 0 .. D,
         NEW v \in 0 .. n - 1
  PROVE  /\ \A w \in 0 .. n - 1 :
              Slot(Ahead(Toggle(t, D), v, D), D) = Slot(Ahead(Toggle(t, D), w, D), D)
                => v = w
         /\ \A p \in Window(Ahead(Toggle(t, D), n, D), t, D) :
              Slot(p, D) # Slot(Ahead(Toggle(t, D), v, D), D)
BY DEF Pointers, Slot, Ahead, Toggle, Window, Dist

(* The register of an instruction in flight is not free, not committed,    *)
(* and not that of another instruction in flight.                          *)
LEMMA WriterSlots ==
  ASSUME TypeOK, SerialInv, RenameInv, RegisterOwners,
         NEW k \in Nat, k < FlightCount, Flight(k).rw
  PROVE  /\ Flight(k).curr \in PhyRegs \ FreeRegs
         /\ \A r \in ArchRegs : Flight(k).curr # rrat[r]
         /\ \A j \in Nat :
              /\ j < FlightCount
              /\ Flight(j).rw
              /\ Flight(j).curr = Flight(k).curr
              => j = k
<1> DEFINE D == FRL_DEPTH
           t == frlTail
           n == WriterCount(FlightCount)
           At(w) == Slot(Ahead(Toggle(t, D), w, D), D)
<1>1. /\ D \in Nat \ {0} /\ t \in Pointers(D) /\ FlightCount \in Nat
      /\ frlArray \in [FrlSlots -> PhyRegs]
  BY SizeAssumption, CountRange DEF TypeOK, FrlTypeOK
<1>2. n \in 0 .. D /\ frlHead = Ahead(Toggle(t, D), n, D)
  <2>1. n \in Nat /\ n <= FRL_DEPTH /\ frlHead = AllocPtr(FlightCount)
    BY <1>1, WriterCountSteps DEF CountFacts, RenameInv, AllocInv
  <2> QED
    BY <2>1, <1>1 DEF AllocPtr, FirstAllocated, WriterCount
<1>3. ASSUME NEW j \in Nat, j < FlightCount, Flight(j).rw
      PROVE  /\ WriterCount(j) \in 0 .. n - 1
             /\ Flight(j).curr = frlArray[At(WriterCount(j))]
             /\ At(WriterCount(j)) \in FrlSlots
  <2>1. WriterCount(j) \in Nat /\ WriterCount(j) < n
    BY <1>1, <1>3, WriterCountSteps, WriterOrder DEF CountFacts
  <2>2. WriterCount(j) \in 0 .. n - 1 /\ WriterCount(j) \in 0 .. D
    BY <2>1, <1>1, <1>2
  <2>3. Flight(j).curr = frlArray[Slot(AllocPtr(j), FRL_DEPTH)]
    BY <1>3 DEF RenameInv, AllocInv
  <2>4. AllocPtr(j) = Ahead(Toggle(t, D), WriterCount(j), D)
    BY DEF AllocPtr, FirstAllocated, WriterCount
  <2>5. At(WriterCount(j)) \in FrlSlots
    BY <2>2, <1>1, TurnBehind DEF FrlSlots
  <2> QED
    BY <2>2, <2>3, <2>4, <2>5
<1> HIDE DEF n
<1> DEFINE v == WriterCount(k)
<1>4. v \in 0 .. n - 1 /\ Flight(k).curr = frlArray[At(v)] /\ At(v) \in FrlSlots
  BY <1>3
<1>5. /\ \A w \in 0 .. n - 1 : At(v) = At(w) => v = w
      /\ \A p \in Window(frlHead, t, D) : Slot(p, D) # At(v)
  BY <1>1, <1>2, <1>4, SlotsApart
<1>6. Flight(k).curr \in PhyRegs
  BY <1>1, <1>4
<1>7. Flight(k).curr \notin FreeRegs
  <2> SUFFICES ASSUME NEW p \in Window(frlHead, t, D),
                      frlArray[Slot(p, D)] = frlArray[At(v)]
               PROVE  FALSE
    BY <1>4 DEF FreeRegs
  <2>1. Slot(p, D) \in FrlSlots
    BY <1>1 DEF Window, Slot, Pointers, FrlSlots
  <2>2. Slot(p, D) # At(v)
    BY <1>5
  <2> HIDE DEF At
  <2> QED
    BY <2>1, <2>2, <1>4 DEF RegisterOwners
<1>8. ASSUME NEW r \in ArchRegs PROVE Flight(k).curr # rrat[r]
  BY <1>4 DEF RegisterOwners
<1>9. ASSUME NEW j \in Nat, j < FlightCount, Flight(j).rw,
             Flight(j).curr = Flight(k).curr
      PROVE  j = k
  <2>1. WriterCount(j) \in 0 .. n - 1 /\ Flight(j).curr = frlArray[At(WriterCount(j))]
        /\ At(WriterCount(j)) \in FrlSlots
    BY <1>3, <1>9
  <2>2. At(WriterCount(j)) = At(v)
    <3> HIDE DEF At
    <3> QED
      BY <2>1, <1>4, <1>9 DEF RegisterOwners
  <2>3. WriterCount(j) = WriterCount(k)
    BY <2>1, <2>2, <1>5
  <2>4. j < k => WriterCount(j) < WriterCount(k)
    BY <1>9, WriterOrder
  <2>5. k < j => WriterCount(k) < WriterCount(j)
    BY <1>9, WriterOrder
  <2>6. WriterCount(j) \in Nat /\ WriterCount(k) \in Nat
    BY WriterCountSteps DEF CountFacts
  <2> QED
    BY <2>3, <2>4, <2>5, <2>6
<1> QED
  BY <1>6, <1>7, <1>8, <1>9

(* What program order gives for a register is committed or the register of *)
(* an older writer in flight.                                              *)
LEMMA MapValues ==
  ASSUME TypeOK
  PROVE  \A n \in Nat : \A r \in ArchRegs :
           \/ \E q \in ArchRegs : MapBefore(n)[r] = rrat[q]
           \/ \E j \in Nat : /\ j < n /\ Flight(j).rw
                             /\ MapBefore(n)[r] = Flight(j).curr
<1> DEFINE S == {n \in Nat : \A r \in ArchRegs :
                   \/ \E q \in ArchRegs : MapBefore(n)[r] = rrat[q]
                   \/ \E j \in Nat : /\ j < n /\ Flight(j).rw
                                     /\ MapBefore(n)[r] = Flight(j).curr}
<1>1. 0 \in S
  BY MapSteps DEF MapFacts
<1>2. ASSUME NEW n \in Nat, n \in S PROVE n + 1 \in S
  <2> SUFFICES ASSUME NEW r \in ArchRegs
               PROVE  \/ \E q \in ArchRegs : MapBefore(n + 1)[r] = rrat[q]
                      \/ \E j \in Nat : /\ j < n + 1 /\ Flight(j).rw
                                        /\ MapBefore(n + 1)[r] = Flight(j).curr
    OBVIOUS
  <2>1. MapBefore(n + 1)[r] = IF Flight(n).rw /\ Flight(n).rd = r
                                THEN Flight(n).curr ELSE MapBefore(n)[r]
    BY MapSteps DEF MapFacts
  <2>2. CASE Flight(n).rw /\ Flight(n).rd = r
    BY <2>1, <2>2
  <2>3. CASE ~(Flight(n).rw /\ Flight(n).rd = r)
    <3>1. \/ \E q \in ArchRegs : MapBefore(n)[r] = rrat[q]
          \/ \E j \in Nat : /\ j < n /\ Flight(j).rw
                            /\ MapBefore(n)[r] = Flight(j).curr
      BY <1>2
    <3>2. \A j \in Nat : j < n => j < n + 1
      OBVIOUS
    <3>3. MapBefore(n + 1)[r] = MapBefore(n)[r]
      BY <2>1, <2>3
    <3> QED
      BY <3>1, <3>2, <3>3
  <2> QED
    BY <2>2, <2>3
<1>3. \A n \in Nat : n \in S
  <2> HIDE DEF S
  <2> QED
    BY <1>1, <1>2, NatSetInduction
<1> QED
  BY <1>3

(* A source of the instruction in stage 2 is the register of an older      *)
(* writer or a committed one, so it is not free.                           *)
LEMMA SourcesFromInv ==
  ASSUME TypeOK, SerialInv, RenameInv, RegisterOwners
  PROVE  SourceNotFree
<1> SUFFICES ASSUME NEW k \in Places PROVE Flight(k).src \notin FreeRegs
  BY DEF SourceNotFree
<1>1. k \in Nat /\ k < FlightCount
  BY CountRange, SizeAssumption DEF Places
<1>2. Flight(k).src = MapBefore(k)[Flight(k).rs]
  BY <1>1 DEF RenameInv, MapInv
<1>3. Flight(k).rs \in ArchRegs
  <2>1. CASE k < RobCount
    <3>1. TagAt(k) \in RobTags
      BY <1>1, <2>1, CountRange, TagPlaces, SizeAssumption
    <3> QED
      BY <2>1, <3>1 DEF Flight, TypeOK, RobTypeOK, RobEntry
  <2>2. CASE ~(k < RobCount)
    BY <2>2 DEF Flight, TypeOK, DispatchTypeOK, Stage2Entry
  <2> QED
    BY <2>1, <2>2
<1>4. CASE \E q \in ArchRegs : Flight(k).src = rrat[q]
  <2>1. PICK q \in ArchRegs : Flight(k).src = rrat[q]
    BY <1>4
  <2> SUFFICES ASSUME NEW p \in Window(frlHead, frlTail, FRL_DEPTH),
                      frlArray[Slot(p, FRL_DEPTH)] = rrat[q]
               PROVE  FALSE
    BY <2>1 DEF FreeRegs
  <2>2. Slot(p, FRL_DEPTH) \in FrlSlots
    BY SizeAssumption DEF Window, Slot, Pointers, FrlSlots
  <2> QED
    BY <2>2 DEF RegisterOwners
<1>5. CASE \E j \in Nat : j < k /\ Flight(j).rw /\ Flight(k).src = Flight(j).curr
  <2>1. PICK j \in Nat : j < k /\ Flight(j).rw /\ Flight(k).src = Flight(j).curr
    BY <1>5
  <2>2. j < FlightCount
    BY <2>1, <1>1, CountRange, SizeAssumption
  <2> QED
    BY <2>1, <2>2, WriterSlots
<1> QED
  BY <1>1, <1>2, <1>3, <1>4, <1>5, MapValues

-----------------------------------------------------------------------------
(* The ready bits, place by place.                                         *)
ReadyInv ==
  /\ \A r \in ArchRegs : rdy[rrat[r]]
  /\ \A k \in Nat : k < RobCount /\ Flight(k).rw =>
       (rdy[Flight(k).curr] <=> Done(k) /\ Flight(k).kind # "CSR")

(* The ready bit of a register after the edge.  The CSR write and the CDB  *)
(* never want the write port at once.                                      *)
LEMMA ReadyBit ==
  ASSUME TypeOK, SerialInv, RenameInv,
         NEW fetch \in FetchInputs, NEW cdb \in CdbInputs, NEW mem \in MemInputs,
         Cycle(fetch, cdb, mem), NEW p \in PhyRegs
  PROVE  /\ rdy'[p] <=>
              \/ CsrWrite(mem) /\ p = RobHead.curr
              \/ cdb.valid /\ rob[cdb.tag].rw /\ p = rob[cdb.tag].curr
              \/ rdy[p] /\ ~(Fires(cdb, mem) /\ stage2.rw /\ p = frlRead)
         /\ CsrWrite(mem) => ~cdb.valid
<1> DEFINE clears == Fires(cdb, mem) /\ stage2.rw
           cleared == IF clears THEN [rdy EXCEPT ![frlRead] = FALSE] ELSE rdy
           sets == cdb.valid /\ rob[cdb.tag].rw
<1>1. /\ rdy \in [PhyRegs -> BOOLEAN] /\ frlRead \in PhyRegs
      /\ cdb.tag \in RobTags /\ rob[cdb.tag].curr \in PhyRegs
      /\ RobHead.curr \in PhyRegs
  BY RobSlotTypes, InputTypes
     DEF TypeOK, FrlTypeOK, RobTypeOK, RobEntry, RobHead
<1>2. rdy' = IF CsrWrite(mem) THEN [cleared EXCEPT ![RobHead.curr] = TRUE]
             ELSE IF sets THEN [cleared EXCEPT ![rob[cdb.tag].curr] = TRUE]
             ELSE cleared
  BY DEF Cycle, RbaClock, Dispatched, Fires
<1>3. CsrWrite(mem) => ~cdb.valid
  <2> SUFFICES ASSUME CsrWrite(mem), cdb.valid PROVE FALSE
    OBVIOUS
  <2>1. ~RobEmpty /\ RobHead.kind \in SerializingKinds
    BY DEF CsrWrite, Commits, SerializingKinds
  <2>2. Completable = {}
    BY <2>1, SerializingHeadAlone
  <2>3. cdb # Idle
    BY DEF Idle
  <2> QED
    BY <2>2, <2>3 DEF CdbInputs
<1>4. cleared \in [PhyRegs -> BOOLEAN]
      /\ (cleared[p] <=> rdy[p] /\ ~(clears /\ p = frlRead))
  <2>1. CASE clears
    BY <2>1, <1>1
  <2>2. CASE ~clears
    BY <2>2, <1>1
  <2> QED
    BY <2>1, <2>2
<1> HIDE DEF cleared, clears
<1>5. CASE CsrWrite(mem)
  <2>1. rdy'[p] <=> p = RobHead.curr \/ cleared[p]
    BY <1>1, <1>2, <1>4, <1>5
  <2> QED
    BY <2>1, <1>3, <1>4, <1>5 DEF clears
<1>6. CASE ~CsrWrite(mem) /\ sets
  <2>1. rdy'[p] <=> p = rob[cdb.tag].curr \/ cleared[p]
    BY <1>1, <1>2, <1>4, <1>6
  <2> QED
    BY <2>1, <1>3, <1>4, <1>6 DEF clears
<1>7. CASE ~CsrWrite(mem) /\ ~sets
  BY <1>2, <1>3, <1>4, <1>7 DEF clears
<1> QED
  BY <1>5, <1>6, <1>7

(* The entry of a tag, seen as a place.                                    *)
LEMMA PlaceOfTag ==
  ASSUME TypeOK, SerialInv, NEW tag \in LiveTags
  PROVE  \E n \in Nat : /\ n < RobCount /\ n < FlightCount
                        /\ TagAt(n) = tag
                        /\ Flight(n).kind = rob[tag].kind
                        /\ Flight(n).rw = rob[tag].rw
                        /\ Flight(n).curr = rob[tag].curr
<1>1. PICK n \in Nat : n = Depth(tag)
  BY LiveDepth, CountRange, SizeAssumption
<1>2. n < RobCount /\ TagAt(n) = tag
  <2>1. tag \in RobTags /\ Depth(tag) \in 0 .. RobCount - 1 /\ RobCount \in Nat
    BY LiveDepth, CountRange, SizeAssumption
  <2>2. TagAt(Depth(tag)) = tag
    BY <2>1, TagPlaces
  <2> QED
    BY <1>1, <2>1, <2>2
<1>3. n < FlightCount
  BY <1>2, CountRange, SizeAssumption DEF TypeOK, DispatchTypeOK, Stage2Entry
<1> QED
  BY <1>2, <1>3 DEF Flight

(* At reset every committed register is ready.                             *)
LEMMA ReadyInit == Init /\ TypeOK => ReadyInv
<1> SUFFICES ASSUME Init, TypeOK PROVE ReadyInv
  OBVIOUS
<1>1. RobCount = 0
  BY DEF Init, RobInit, RobCount, Dist
<1>2. ASSUME NEW r \in ArchRegs PROVE rrat[r] = r /\ rdy[r]
  <2>1. r \in PhyRegs /\ r < ARCH_REG_COUNT
    BY SizeAssumption DEF ArchRegs, PhyRegs
  <2>2. rrat[r] = r
    BY DEF Init
  <2>3. rdy[r] = (r < ARCH_REG_COUNT)
    BY <2>1, Zenon DEF Init
  <2> QED
    BY <2>1, <2>2, <2>3, Zenon
<1> QED
  BY <1>1, <1>2 DEF ReadyInv

(* A register becomes unready when it is allocated and ready when its      *)
(* writer is broadcast.                                                    *)
LEMMA ReadyStep ==
  ASSUME TypeOK, TypeOK', SerialInv, RenameInv, RegisterOwners, ReadyInv,
         NEW fetch \in FetchInputs, NEW cdb \in CdbInputs, NEW mem \in MemInputs,
         Cycle(fetch, cdb, mem)
  PROVE  ReadyInv'
<1> DEFINE c == Out(mem)
<1>1. /\ c \in {0, 1} /\ (c = 1 <=> Commits(mem)) /\ (c = 1 => RobCount > 0)
      /\ RobCount \in Nat /\ FlightCount \in Nat /\ RobCount <= FlightCount
      /\ Kept(cdb) \in Nat /\ Kept(cdb) <= FlightCount
      /\ RobCount' = Kept(cdb) - c
      /\ Fires(cdb, mem) <=> Kept(cdb) = RobCount + 1
  BY CycleCounts, CountRange, SizeAssumption
     DEF Out, TypeOK, DispatchTypeOK, Stage2Entry
<1> HIDE DEF c
<1>2. RobCount > 0 => /\ Flight(0).curr = RobHead.curr /\ Flight(0).rw = RobHead.rw
                      /\ Flight(0).kind = RobHead.kind
                      /\ (Done(0) <=> RobHead.compl)
  BY TagPlaces DEF Flight, RobHead, Done
<1>3. cdb.valid =>
        \E n \in Nat : /\ n < RobCount /\ n < FlightCount
                       /\ TagAt(n) = cdb.tag
                       /\ Flight(n).kind = rob[cdb.tag].kind
                       /\ Flight(n).rw = rob[cdb.tag].rw
                       /\ Flight(n).curr = rob[cdb.tag].curr
  BY CompletionIsLive, PlaceOfTag
<1>4. Fires(cdb, mem) => /\ RobCount < FlightCount
                         /\ Flight(RobCount).rw = stage2.rw
                         /\ Flight(RobCount).curr = frlRead
  BY <1>1 DEF Flight
<1>5. ASSUME NEW r \in ArchRegs PROVE rdy'[rrat'[r]]
  <2>1. CASE rrat'[r] = rrat[r]
    <3>1. rrat[r] \in PhyRegs /\ rdy[rrat[r]]
      BY DEF TypeOK, ReadyInv
    <3>2. Fires(cdb, mem) /\ stage2.rw => rrat[r] # frlRead
      BY <1>1, <1>4, WriterSlots
    <3> QED
      BY <2>1, <3>1, <3>2, ReadyBit
  <2>2. CASE rrat'[r] # rrat[r]
    <3>1. Commits(mem) /\ RobHead.rw /\ rrat'[r] = RobHead.curr
      <4>1. rrat' = IF Commits(mem) /\ RobHead.rw
                      THEN [rrat EXCEPT ![RobHead.rd] = RobHead.curr] ELSE rrat
        BY DEF Cycle, RratClock
      <4> QED
        BY <2>2, <4>1 DEF TypeOK
    <3>2. RobCount > 0 /\ Flight(0).rw /\ 0 < FlightCount /\ Done(0)
          /\ Flight(0).curr = RobHead.curr
      <4>1. RobCount > 0 /\ 0 < FlightCount /\ RobHead.compl
        BY <3>1, <1>1 DEF Commits
      <4> QED
        BY <3>1, <4>1, <1>2
    <3>3. RobHead.curr \in PhyRegs
      BY <3>2, WriterSlots
    <3>4. CASE RobHead.kind = "CSR"
      BY <3>1, <3>3, <3>4, ReadyBit DEF CsrWrite
    <3>5. CASE RobHead.kind # "CSR"
      <4>1. rdy[RobHead.curr]
        BY <3>2, <3>5, <1>2 DEF ReadyInv
      <4>2. Fires(cdb, mem) /\ stage2.rw => RobHead.curr # frlRead
        <5> SUFFICES ASSUME Fires(cdb, mem), stage2.rw, RobHead.curr = frlRead
                     PROVE  FALSE
          OBVIOUS
        <5>1. RobCount < FlightCount /\ Flight(RobCount).rw
              /\ Flight(RobCount).curr = Flight(0).curr
          BY <1>4, <3>2
        <5>2. RobCount = 0
          BY <5>1, <3>2, <1>1, WriterSlots
        <5> QED
          BY <5>2, <3>2
      <4> QED
        BY <3>1, <3>3, <4>1, <4>2, ReadyBit
    <3> QED
      BY <3>4, <3>5
  <2> QED
    BY <2>1, <2>2
<1>6. ASSUME NEW k \in Nat, k < RobCount', Flight(k)'.rw
      PROVE  rdy'[Flight(k)'.curr] <=> Done(k)' /\ Flight(k)'.kind # "CSR"
  <2> PICK j \in Nat : j = k + c
    BY <1>1
  <2>1. /\ j < FlightCount /\ c <= j /\ Flight(j).rw
        /\ Flight(k)'.curr = Flight(j).curr /\ Flight(k)'.kind = Flight(j).kind
        /\ Done(k)' <=> \/ cdb.valid /\ cdb.tag = TagAt(j)
                        \/ IF j < RobCount THEN Done(j)
                           ELSE stage2.kind \in RobOnlyKinds
        /\ j <= RobCount /\ (j = RobCount => Fires(cdb, mem))
    <3>1. /\ k + c \in 0 .. FlightCount - 1
          /\ SameInstr(Flight(k)', Flight(k + c))
          /\ Done(k)' <=> \/ cdb.valid /\ cdb.tag = TagAt(k + c)
                          \/ IF k + c < RobCount THEN Done(k + c)
                             ELSE stage2.kind \in RobOnlyKinds
      BY <1>6, CycleFlight DEF c, RenameInv
    <3>2. j < FlightCount /\ c <= j
      BY <1>1, <3>1
    <3>3. /\ Flight(j).rw
          /\ Flight(k)'.curr = Flight(j).curr /\ Flight(k)'.kind = Flight(j).kind
      BY <1>6, <3>1 DEF SameInstr
    <3>4. j <= RobCount /\ (j = RobCount => Fires(cdb, mem))
      <4>1. Kept(cdb) <= RobCount \/ Kept(cdb) = FlightCount
        BY CycleCounts
      <4>2. FlightCount <= RobCount + 1
        BY <1>1 DEF FlightCount
      <4> QED
        BY <4>1, <4>2, <1>1, <1>6
    <3> QED
      BY <3>1, <3>2, <3>3, <3>4
  <2>2. Flight(j).curr \in PhyRegs
    BY <2>1, WriterSlots
  <2>3. ~(CsrWrite(mem) /\ Flight(j).curr = RobHead.curr)
    <3> SUFFICES ASSUME CsrWrite(mem), Flight(j).curr = RobHead.curr PROVE FALSE
      OBVIOUS
    <3>1. c = 1 /\ RobCount > 0 /\ Flight(0).rw /\ Flight(0).curr = Flight(j).curr
          /\ 0 < FlightCount
      <4>1. Commits(mem) /\ RobHead.rw
        BY DEF CsrWrite
      <4>2. c = 1 /\ RobCount > 0 /\ 0 < FlightCount
        BY <4>1, <1>1
      <4> QED
        BY <4>1, <4>2, <1>2
    <3>2. j = 0
      BY <3>1, <2>1, WriterSlots
    <3> QED
      BY <3>1, <3>2, <2>1
  <2>4. cdb.valid /\ rob[cdb.tag].rw /\ Flight(j).curr = rob[cdb.tag].curr
          <=> cdb.valid /\ cdb.tag = TagAt(j)
    <3> SUFFICES ASSUME cdb.valid
                 PROVE  rob[cdb.tag].rw /\ Flight(j).curr = rob[cdb.tag].curr
                          <=> cdb.tag = TagAt(j)
      OBVIOUS
    <3>1. PICK n \in Nat : /\ n < RobCount /\ n < FlightCount
                           /\ TagAt(n) = cdb.tag
                           /\ Flight(n).kind = rob[cdb.tag].kind
                           /\ Flight(n).rw = rob[cdb.tag].rw
                           /\ Flight(n).curr = rob[cdb.tag].curr
      BY <1>3
    <3>2. rob[cdb.tag].rw /\ Flight(j).curr = rob[cdb.tag].curr => n = j
      BY <3>1, <2>1, WriterSlots
    <3>3. cdb.tag = TagAt(j) => n = j
      <4>1. n < ROB_DEPTH /\ j < ROB_DEPTH /\ ROB_DEPTH \in Nat
        BY <3>1, <2>1, CountRange, SizeAssumption
      <4> QED
        BY <3>1, <4>1, TagPlaces
    <3> QED
      BY <3>1, <3>2, <3>3, <2>1
  <2>5. cdb.valid /\ cdb.tag = TagAt(j) => Flight(j).kind # "CSR"
    <3> SUFFICES ASSUME cdb.valid, cdb.tag = TagAt(j)
                 PROVE  Flight(j).kind # "CSR"
      OBVIOUS
    <3>1. PICK n \in Nat : /\ n < RobCount /\ n < FlightCount
                           /\ TagAt(n) = cdb.tag
                           /\ Flight(n).kind = rob[cdb.tag].kind
                           /\ Flight(n).rw = rob[cdb.tag].rw
                           /\ Flight(n).curr = rob[cdb.tag].curr
      BY <1>3
    <3>2. n < ROB_DEPTH /\ j < ROB_DEPTH /\ ROB_DEPTH \in Nat
      BY <3>1, <2>1, CountRange, SizeAssumption
    <3>3. n = j
      BY <3>1, <3>2, TagPlaces
    <3>4. rob[cdb.tag].kind \notin RobOnlyKinds
      BY CompletionIsLive
    <3> QED
      BY <3>1, <3>3, <3>4 DEF RobOnlyKinds, SerializingKinds
  <2>6. CASE j < RobCount
    <3>1. ~(Fires(cdb, mem) /\ stage2.rw /\ Flight(j).curr = frlRead)
      <4> SUFFICES ASSUME Fires(cdb, mem), stage2.rw, Flight(j).curr = frlRead
                   PROVE  FALSE
        OBVIOUS
      <4>1. RobCount = j
        BY <1>1, <1>4, <2>1, WriterSlots
      <4> QED
        BY <4>1, <2>6, <1>1
    <3>2. rdy[Flight(j).curr] <=> Done(j) /\ Flight(j).kind # "CSR"
      BY <2>1, <2>6 DEF ReadyInv
    <3> QED
      BY <3>1, <3>2, <2>1, <2>2, <2>3, <2>4, <2>5, <2>6, ReadyBit
  <2>7. CASE ~(j < RobCount)
    <3>1. j = RobCount /\ Fires(cdb, mem)
      BY <2>1, <2>7, <1>1
    <3>2. Flight(j).curr = frlRead /\ stage2.rw /\ Flight(j).kind = stage2.kind
      BY <3>1, <2>1, <2>7, <1>4 DEF Flight
    <3>3. ~(cdb.valid /\ cdb.tag = TagAt(j))
      <4> SUFFICES ASSUME cdb.valid, cdb.tag = TagAt(j) PROVE FALSE
        OBVIOUS
      <4>1. PICK n \in Nat : /\ n < RobCount /\ n < FlightCount
                             /\ TagAt(n) = cdb.tag
        BY <1>3
      <4>2. n < ROB_DEPTH /\ j < ROB_DEPTH /\ ROB_DEPTH \in Nat
        BY <4>1, <2>1, CountRange, SizeAssumption
      <4>3. n = j
        BY <4>1, <4>2, TagPlaces
      <4> QED
        BY <4>1, <4>3, <2>7
    <3>4. stage2.kind \in RobOnlyKinds => stage2.kind = "CSR"
      BY <3>2
         DEF RenameInv, WriterInv, WriterKinds, RobOnlyKinds, SerializingKinds
    <3>5. ~rdy'[Flight(j).curr]
      BY <3>1, <3>2, <3>3, <2>2, <2>3, <2>4, ReadyBit
    <3> QED
      BY <3>2, <3>3, <3>4, <3>5, <2>1, <2>7
  <2> QED
    BY <2>6, <2>7
<1> QED
  BY <1>5, <1>6 DEF ReadyInv

(* The ready bits read in stage 2 are the truth about the writers in       *)
(* flight.                                                                 *)
LEMMA ReadyFromInv ==
  ASSUME TypeOK, SerialInv, ReadyInv
  PROVE  ReadyBitsTruthful
<1>1. ASSUME NEW k \in 0 .. RobCount - 1
      PROVE  LET e == rob[TagAt(k)]
             IN e.rw => (rdy[e.curr] <=> e.compl /\ e.kind # "CSR")
  <2>1. k \in Nat /\ k < RobCount
    BY CountRange, SizeAssumption
  <2> QED
    BY <2>1 DEF ReadyInv, Flight, Done
<1> QED
  BY <1>1 DEF ReadyBitsTruthful, ReadyInv

-----------------------------------------------------------------------------
RegisterInv == RenameInv /\ RegisterOwners /\ ReadyInv

(* A step that changes nothing preserves the invariant.                    *)
LEMMA RegisterStutter == RegisterInv /\ UNCHANGED vars => RegisterInv'
<1> SUFFICES ASSUME RegisterInv, UNCHANGED vars PROVE RegisterInv'
  OBVIOUS
<1>1. RenameInv'
  BY RenameStutter DEF RegisterInv
<1>2. RegisterOwners'
  BY DEF RegisterInv, RegisterOwners, RegistersConserved, vars, frlVars
<1>3. ReadyInv'
  <2>1. /\ RobCount' = RobCount /\ rdy' = rdy /\ rrat' = rrat
        /\ \A k \in Nat : Flight(k)' = Flight(k) /\ (Done(k)' <=> Done(k))
    BY DEF vars, robVars, frlVars, dispatchVars, RobCount, Flight, Done, TagAt
  <2> QED
    BY <2>1 DEF RegisterInv, ReadyInv
<1> QED
  BY <1>1, <1>2, <1>3 DEF RegisterInv

(* A cycle preserves the register invariant.                               *)
LEMMA RegisterStep ==
  ASSUME TypeOK, TypeOK', SerialInv, SerialInv', RegisterInv, [Next]_vars,
         CheckpointsSuffice \/ BranchHasCheckpoint'
  PROVE  RegisterInv'
<1>1. CASE UNCHANGED vars
  BY <1>1, RegisterStutter
<1>2. CASE Next
  <2>1. PICK fetch \in FetchInputs, cdb \in CdbInputs, mem \in MemInputs :
          Cycle(fetch, cdb, mem)
    BY <1>2 DEF Next
  <2>2. RenameInv /\ RegisterOwners /\ ReadyInv
    BY DEF RegisterInv
  <2>3. RenameInv'
    BY <2>2, RenameStep
  <2>4. RegisterOwners' /\ ReadyInv'
    BY <2>1, <2>2, OwnersStep, ReadyStep
  <2> QED
    BY <2>3, <2>4 DEF RegisterInv
<1> QED
  BY <1>1, <1>2

(* The register invariant holds at reset.                                  *)
LEMMA RegisterInit == Init /\ TypeOK => RegisterInv
BY RenameInit, OwnersInit, ReadyInit DEF RegisterInv

(* Renaming is right in every run in which dispatch keeps the promise of   *)
(* its stall rules: no branch is open in the ROB without a checkpoint.     *)
THEOREM RegisterInvariant ==
  Spec /\ []BranchHasCheckpoint => [](TypeOK /\ SerialInv /\ RegisterInv)
<1>1. Init /\ TypeOK => RegisterInv
  BY RegisterInit
<1>2. /\ TypeOK /\ TypeOK' /\ SerialInv /\ SerialInv' /\ RegisterInv
      /\ BranchHasCheckpoint' /\ [Next]_vars
      => RegisterInv'
  BY RegisterStep
<1> QED
  BY <1>1, <1>2, SerialInvariant, PTL DEF Spec

(* With a checkpoint for every entry of the ROB the promise keeps itself.  *)
THEOREM BranchesHaveCheckpoints ==
  CheckpointsSuffice => (Spec => []BranchHasCheckpoint)
<1> SUFFICES ASSUME CheckpointsSuffice PROVE Spec => []BranchHasCheckpoint
  OBVIOUS
<1>1. Init /\ TypeOK => RegisterInv
  BY RegisterInit
<1>2. /\ TypeOK /\ TypeOK' /\ SerialInv /\ SerialInv' /\ RegisterInv
      /\ [Next]_vars
      => RegisterInv'
  BY RegisterStep
<1>3. TypeOK /\ SerialInv /\ RegisterInv => BranchHasCheckpoint
  BY CheckpointsFromInv DEF RegisterInv
<1> QED
  BY <1>1, <1>2, <1>3, SerialInvariant, PTL DEF Spec

-----------------------------------------------------------------------------
(* Commit and squash return every register: none is lost, none has two     *)
(* owners.                                                                 *)
THEOREM RegistersAreConserved ==
  Spec /\ []BranchHasCheckpoint => []RegistersConserved
<1>1. RegisterInv => RegistersConserved
  BY DEF RegisterInv, RegisterOwners
<1> QED
  BY <1>1, RegisterInvariant, PTL

(* Allocation runs through the free list in program order, whatever is     *)
(* flushed.                                                                *)
THEOREM AllocationInOrder ==
  Spec /\ []BranchHasCheckpoint => []AllocationOrder
<1>1. TypeOK /\ SerialInv /\ RegisterInv => AllocationOrder
  BY AllocationFromInv DEF RegisterInv
<1> QED
  BY <1>1, RegisterInvariant, PTL

(* Every lookup of stage 1 is the one program order gives.                 *)
THEOREM RenamingIsRight ==
  Spec /\ []BranchHasCheckpoint => []RenamingFollowsProgramOrder
<1>1. TypeOK /\ SerialInv /\ RegisterInv => RenamingFollowsProgramOrder
  BY RenamingFromInv DEF RegisterInv
<1> QED
  BY <1>1, RegisterInvariant, PTL

(* Having a checkpoint at all, an open branch has exactly one, and it      *)
(* restores the state right behind the branch.                             *)
THEOREM CheckpointsRestore ==
  Spec /\ []BranchHasCheckpoint => []CheckpointOfBranch
<1>1. TypeOK /\ SerialInv /\ RegisterInv => CheckpointOfBranch
  BY CheckpointsFromInv DEF RegisterInv
<1> QED
  BY <1>1, RegisterInvariant, PTL

(* No source of an instruction in flight can be allocated again.           *)
THEOREM SourcesStay ==
  Spec /\ []BranchHasCheckpoint => []SourceNotFree
<1>1. TypeOK /\ SerialInv /\ RegisterInv => SourceNotFree
  BY SourcesFromInv DEF RegisterInv
<1> QED
  BY <1>1, RegisterInvariant, PTL

(* The ready bits tell the truth.                                          *)
THEOREM ReadyBitsAreTruthful ==
  Spec /\ []BranchHasCheckpoint => []ReadyBitsTruthful
<1>1. TypeOK /\ SerialInv /\ RegisterInv => ReadyBitsTruthful
  BY ReadyFromInv DEF RegisterInv
<1> QED
  BY <1>1, RegisterInvariant, PTL

-----------------------------------------------------------------------------
(* With nothing in flight the speculative state is the committed one.      *)
EmptyFacts ==
  TypeOK /\ SerialInv /\ RenameInv /\ FlightCount = 0
    => ActiveCkpts = {} /\ FrlFull /\ frat = rrat

(* With nothing in flight the front map is the committed one.              *)
LEMMA EmptyIsCommitted == EmptyFacts
<1> SUFFICES ASSUME TypeOK, SerialInv, RenameInv, FlightCount = 0
             PROVE  ActiveCkpts = {} /\ FrlFull /\ frat = rrat
  BY DEF EmptyFacts
<1>1. RobCount = 0 /\ WriterCount(0) = 0 /\ MapBefore(0) = rrat
  <2>1. RobCount = 0
    BY CountRange, SizeAssumption DEF TypeOK, DispatchTypeOK, Stage2Entry
  <2> QED
    BY <2>1, WriterCountSteps, MapSteps DEF CountFacts, MapFacts
<1>2. ActiveCkpts = {}
  <2> SUFFICES ASSUME NEW p \in ActiveCkpts PROVE FALSE
    OBVIOUS
  <2>1. Owner(p) \in Nat /\ Owner(p) < RobCount
    BY CkptRanks DEF RenameInv
  <2> QED
    BY <2>1, <1>1
<1>3. frlHead = Toggle(frlTail, FRL_DEPTH)
  <2>1. frlHead = AllocPtr(0)
    BY DEF RenameInv, AllocInv
  <2> QED
    BY <2>1, <1>1, SizeAssumption
       DEF AllocPtr, FirstAllocated, WriterCount, Ahead, Toggle, Pointers,
           TypeOK, FrlTypeOK
<1>4. FrlFull
  BY <1>3, SizeAssumption
     DEF FrlFull, IsFull, Toggle, Pointers, TypeOK, FrlTypeOK
<1>5. frat = rrat
  BY <1>1 DEF RenameInv, MapInv
<1> QED
  BY <1>2, <1>4, <1>5

(* The commit of a trap or MRET leaves nothing in flight.                  *)
LEMMA TrapEmpties ==
  ASSUME TypeOK, SerialInv, [Next]_vars,
         robRead' # robRead, RobHead.kind \in {"TRAP", "MRET"}
  PROVE  FlightCount' = 0
<1>1. Next
  BY DEF vars, robVars
<1>2. PICK fetch \in FetchInputs, cdb \in CdbInputs, mem \in MemInputs :
        Cycle(fetch, cdb, mem)
  BY <1>1 DEF Next
<1>3. TrapCommit(mem)
  BY <1>2 DEF Cycle, RobClock, TrapCommit
<1>4. RobCount = 1 /\ ~stage2.valid /\ ~cdb.valid /\ Out(mem) = 1
  BY <1>2, <1>3, CycleCounts
<1>5. Kept(cdb) = 1
  <2>1. ~cdb.flush
    BY <1>4, InputTypes
  <2> QED
    BY <2>1, <1>4, CountRange DEF Kept
<1>6. ~Accepts(fetch, cdb, mem)
  BY <1>3 DEF Accepts, Stage1Valid, DispatchFlush, CombinedFlush
<1>7. RobCount' = Kept(cdb) - Out(mem)
  BY <1>2, CycleCounts
<1>8. FlightCount' = RobCount' + 0
  BY <1>2, <1>6, CycleEntry
<1> QED
  BY <1>4, <1>5, <1>7, <1>8

(* The trap is precise, although nothing is restored for it.               *)
THEOREM TrapsArePrecise ==
  Spec /\ []BranchHasCheckpoint => TrapIsPrecise
<1>1. TypeOK /\ SerialInv /\ [Next]_vars
      => [robRead' # robRead /\ RobHead.kind \in {"TRAP", "MRET"}
            => FlightCount' = 0]_vars
  BY TrapEmpties
<1>2. EmptyFacts'
  BY EmptyIsCommitted, PTL
<1>3. /\ TypeOK /\ SerialInv /\ TypeOK' /\ SerialInv' /\ RegisterInv'
      /\ [Next]_vars
      => [robRead' # robRead /\ RobHead.kind \in {"TRAP", "MRET"}
            => /\ FlightCount' = 0
               /\ ActiveCkpts' = {}
               /\ FrlFull'
               /\ frat' = rrat']_vars
  BY <1>1, <1>2 DEF EmptyFacts, RegisterInv
<1> QED
  BY <1>3, RegisterInvariant, PTL DEF Spec, TrapIsPrecise

(* Where the checkpoints suffice, all of it holds of every run.            *)
THEOREM RegistersBySize ==
  CheckpointsSuffice =>
    (Spec => /\ [](RegistersConserved /\ AllocationOrder /\ CheckpointOfBranch)
             /\ [](RenamingFollowsProgramOrder /\ SourceNotFree)
             /\ []ReadyBitsTruthful
             /\ TrapIsPrecise)
<1> SUFFICES ASSUME CheckpointsSuffice
             PROVE  Spec =>
                      /\ [](RegistersConserved /\ AllocationOrder /\ CheckpointOfBranch)
                      /\ [](RenamingFollowsProgramOrder /\ SourceNotFree)
                      /\ []ReadyBitsTruthful
                      /\ TrapIsPrecise
  OBVIOUS
<1>1. Spec => []BranchHasCheckpoint
  BY BranchesHaveCheckpoints
<1> QED
  BY <1>1, RegistersAreConserved, AllocationInOrder, RenamingIsRight,
     CheckpointsRestore, SourcesStay, ReadyBitsAreTruthful, TrapsArePrecise, PTL

=============================================================================
