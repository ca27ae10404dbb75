---------------------------- MODULE PointerFifo ----------------------------
(***************************************************************************)
(* The asynchronous FIFO of BasicModules with its pointers as numbers.     *)
(* Each side sees the other side's pointer through two registers of its    *)
(* own clock.  A pointer that is sampled while it changes is seen as it    *)
(* was or as it will be, and with skew as anything.                        *)
(***************************************************************************)
EXTENDS FifoParams, Sequences

VARIABLES
  wrPtr, mem, rdSeen1, rdSeen, almostFull,  (* Registers on wclk.          *)
  rdPtr, rdData, wrSeen1, wrSeen, almostEmpty  (* Registers on rclk.       *)

writeVars == <<wrPtr, mem, rdSeen1, rdSeen, almostFull>>
readVars == <<rdPtr, rdData, wrSeen1, wrSeen, almostEmpty>>
vars == <<writeVars, readVars>>

Ptrs == Pointers(FIFO_DEPTH)
MemSlots == 0 .. FIFO_DEPTH - 1

(* What a synchronizer may catch of a pointer that goes from p to q.       *)
Caught(p, q) == IF p # q /\ SKEW THEN Ptrs ELSE {p, q}

TypeOK ==
  /\ wrPtr \in Ptrs /\ rdSeen1 \in Ptrs /\ rdSeen \in Ptrs
  /\ rdPtr \in Ptrs /\ wrSeen1 \in Ptrs /\ wrSeen \in Ptrs
  /\ mem \in [MemSlots -> Data]
  /\ rdData \in Data
  /\ almostFull \in BOOLEAN /\ almostEmpty \in BOOLEAN

(* Both resets are given together; the memory has none.                    *)
Init ==
  /\ wrPtr = 0 /\ rdSeen1 = 0 /\ rdSeen = 0 /\ almostFull = FALSE
  /\ rdPtr = 0 /\ wrSeen1 = 0 /\ wrSeen = 0 /\ almostEmpty = FALSE
  /\ mem \in [MemSlots -> Data]
  /\ rdData = Zero

Used(w, r) == Dist(w, r, FIFO_DEPTH)

Full == IsFull(wrPtr, rdSeen, FIFO_DEPTH)
Empty == IsEmpty(wrSeen, rdPtr)

NextWrite(push) == IF push /\ ~Full THEN Succ(wrPtr, FIFO_DEPTH) ELSE wrPtr
NextRead(pop) == IF pop /\ ~Empty THEN Succ(rdPtr, FIFO_DEPTH) ELSE rdPtr

(* One edge of wclk, at which the synchronizer samples the read pointer.   *)
WriteSide(push, d, sample) ==
  /\ wrPtr' = NextWrite(push)
  /\ mem' = IF push /\ ~Full THEN [mem EXCEPT ![Slot(wrPtr, FIFO_DEPTH)] = d] ELSE mem
  /\ rdSeen1' = sample
  /\ rdSeen' = rdSeen1
  /\ almostFull' = (/\ ALMOST_FULL_GAP # 0
                    /\ Used(wrPtr, rdSeen) >= FIFO_DEPTH - ALMOST_FULL_GAP)

(* One edge of rclk.                                                       *)
ReadSide(pop, sample) ==
  /\ rdPtr' = NextRead(pop)
  /\ rdData' = IF pop /\ ~Empty THEN mem[Slot(rdPtr, FIFO_DEPTH)] ELSE rdData
  /\ wrSeen1' = sample
  /\ wrSeen' = wrSeen1
  /\ almostEmpty' = (ALMOST_EMPTY_GAP # 0 /\ Used(wrSeen, rdPtr) <= ALMOST_EMPTY_GAP)

WriteEdge == /\ \E push \in BOOLEAN : \E d \in Offered(push) : WriteSide(push, d, rdPtr)
             /\ UNCHANGED readVars

ReadEdge == /\ \E pop \in BOOLEAN : ReadSide(pop, wrPtr)
            /\ UNCHANGED writeVars

(* The clocks are unrelated: their edges may fall together.                *)
BothEdges ==
  \E push \in BOOLEAN, pop \in BOOLEAN :
    \E d \in Offered(push),
       r \in Caught(rdPtr, NextRead(pop)), w \in Caught(wrPtr, NextWrite(push)) :
      WriteSide(push, d, r) /\ ReadSide(pop, w)

Next == WriteEdge \/ ReadEdge \/ BothEdges

Spec == Init /\ [][Next]_vars

-----------------------------------------------------------------------------
(* The words inside, oldest first, and the queue they make.                *)
Contents ==
  [i \in 1 .. Used(wrPtr, rdPtr) |->
     mem[Slot(Ahead(rdPtr, i - 1, FIFO_DEPTH), FIFO_DEPTH)]]

Q == INSTANCE BoundedQueue WITH queue <- Contents, out <- rdData,
                                Capacity <- FIFO_DEPTH

(* The FIFO is a bounded queue, whatever the phases of its two clocks.     *)
WordsInOrder == Q!Spec

(* The chain of what each side knows: every view lags behind the pointer   *)
(* it follows, and neither side overtakes what it sees of the other.       *)
ViewsLag ==
  /\ Used(rdSeen1, rdSeen) <= Used(rdPtr, rdSeen)
  /\ Used(rdPtr, rdSeen) <= Used(wrSeen, rdSeen)
  /\ Used(wrSeen, rdSeen) <= Used(wrSeen1, rdSeen)
  /\ Used(wrSeen1, rdSeen) <= Used(wrPtr, rdSeen)
  /\ Used(wrPtr, rdSeen) <= FIFO_DEPTH

(* While almost_full is low at least ALMOST_FULL_GAP slots are free, and   *)
(* the writer may go on without looking at full: the flag is a cycle late  *)
(* and judges an old read pointer, and neither makes it wrong.             *)
AlmostFullInTime ==
  ~almostFull /\ ALMOST_FULL_GAP # 0 =>
    Used(wrPtr, rdPtr) <= FIFO_DEPTH - ALMOST_FULL_GAP

=============================================================================
