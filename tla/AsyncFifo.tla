----------------------------- MODULE AsyncFifo -----------------------------
(***************************************************************************)
(* The asynchronous FIFO of BasicModules bit by bit: fifo.sv with its      *)
(* pointer handlers, memory and synchronizers.  The pointers cross the     *)
(* clocks in Gray code, which the pointer handlers form from the binary    *)
(* register by combinational logic: no register holds the code.            *)
(***************************************************************************)
EXTENDS FifoParams

CONSTANT ADDR_WIDTH

(* The full test of the Gray codes needs two bits of address.              *)
ASSUME AddrAssumption ==
  ADDR_WIDTH \in Nat /\ ADDR_WIDTH >= 2 /\ FIFO_DEPTH = 2 ^ ADDR_WIDTH

VARIABLES
  wrPtr, mem, rdSync1, rdSync, almostFull,
  rdPtr, rdData, wrSync1, wrSync, almostEmpty

writeVars == <<wrPtr, mem, rdSync1, rdSync, almostFull>>
readVars == <<rdPtr, rdData, wrSync1, wrSync, almostEmpty>>
vars == <<writeVars, readVars>>

Bits == 0 .. ADDR_WIDTH
GrayCodes == [Bits -> BOOLEAN]

Bit(p, i) == (p \div 2^i) % 2 = 1

(* Mutant of Gray: the pointers cross the clocks as binary numbers.        *)
GrayAsBinary == [p \in Pointers(FIFO_DEPTH) |-> [i \in Bits |-> Bit(p, i)]]

(* (ptr >> 1) ^ ptr                                                        *)
Gray ==
  [p \in Pointers(FIFO_DEPTH) |-> [i \in Bits |-> Bit(p, i) # Bit(p, i + 1)]]

(* gray_to_bin: the number each of whose bits is the next upper one        *)
(* inverted where the code has a 1; above the top bit there is a 0.        *)
GrayToBin ==
  [g \in GrayCodes |-> CHOOSE p \in Pointers(FIFO_DEPTH) :
                         \A i \in Bits : Bit(p, i) = (Bit(p, i + 1) # g[i])]

(* What a synchronizer can catch of a pointer that changes from p to q:    *)
(* the exclusive or of neighbouring bits of a binary register of which     *)
(* some bits, or with no skew all or none, are the new ones.  With skew    *)
(* this may be the code of a third pointer, such as of 3 between 1 and 2.  *)
Sampled(p, q) ==
  {[i \in Bits |-> Bit(IF i \in new THEN q ELSE p, i)
                   # Bit(IF i + 1 \in new THEN q ELSE p, i + 1)] :
     new \in IF SKEW THEN SUBSET Bits ELSE {{}, Bits}}

TypeOK ==
  /\ wrPtr \in Pointers(FIFO_DEPTH) /\ rdPtr \in Pointers(FIFO_DEPTH)
  /\ {rdSync1, rdSync, wrSync1, wrSync} \subseteq GrayCodes
  /\ mem \in [0 .. FIFO_DEPTH - 1 -> Data]
  /\ rdData \in Data
  /\ almostFull \in BOOLEAN /\ almostEmpty \in BOOLEAN

Init ==
  /\ wrPtr = 0 /\ rdSync1 = Gray[0] /\ rdSync = Gray[0] /\ almostFull = FALSE
  /\ rdPtr = 0 /\ wrSync1 = Gray[0] /\ wrSync = Gray[0] /\ almostEmpty = FALSE
  /\ mem \in [0 .. FIFO_DEPTH - 1 -> Data]
  /\ rdData = Zero

(* Mutants of Full: only the upper bit is compared inverted, or all bits.  *)
FullOneBit == Gray[wrPtr] = [rdSync EXCEPT ![ADDR_WIDTH] = ~@]
FullAllBits == Gray[wrPtr] = [i \in Bits |-> ~rdSync[i]]

(* The write pointer equals the read pointer seen, up to the upper two     *)
(* bits, which are inverted.                                               *)
Full == Gray[wrPtr] = [i \in Bits |-> IF i >= ADDR_WIDTH - 1 THEN ~rdSync[i]
                                      ELSE rdSync[i]]
Empty == Gray[rdPtr] = wrSync

NextWrite(push) == IF push /\ ~Full THEN Succ(wrPtr, FIFO_DEPTH) ELSE wrPtr
NextRead(pop) == IF pop /\ ~Empty THEN Succ(rdPtr, FIFO_DEPTH) ELSE rdPtr

(* Mutant of NearlyFull: the threshold itself is left out.                 *)
NearlyFullLate ==
  /\ ALMOST_FULL_GAP # 0
  /\ Dist(wrPtr, GrayToBin[rdSync], FIFO_DEPTH) > FIFO_DEPTH - ALMOST_FULL_GAP

NearlyFull ==
  /\ ALMOST_FULL_GAP # 0
  /\ Dist(wrPtr, GrayToBin[rdSync], FIFO_DEPTH) >= FIFO_DEPTH - ALMOST_FULL_GAP
NearlyEmpty ==
  /\ ALMOST_EMPTY_GAP # 0
  /\ Dist(GrayToBin[wrSync], rdPtr, FIFO_DEPTH) <= ALMOST_EMPTY_GAP

(* One edge of wclk, with wr_en, wr_data and what the synchronizer catches.*)
WriteSide(push, d, sample) ==
  /\ wrPtr' = NextWrite(push)
  /\ mem' = IF push /\ ~Full THEN [mem EXCEPT ![Slot(wrPtr, FIFO_DEPTH)] = d] ELSE mem
  /\ rdSync1' = sample
  /\ rdSync' = rdSync1
  /\ almostFull' = NearlyFull

(* One edge of rclk, with rd_en and what the synchronizer catches.         *)
ReadSide(pop, sample) ==
  /\ rdPtr' = NextRead(pop)
  /\ rdData' = IF pop /\ ~Empty THEN mem[Slot(rdPtr, FIFO_DEPTH)] ELSE rdData
  /\ wrSync1' = sample
  /\ wrSync' = wrSync1
  /\ almostEmpty' = NearlyEmpty

WriteEdge == /\ \E push \in BOOLEAN : \E d \in Offered(push) : WriteSide(push, d, Gray[rdPtr])
             /\ UNCHANGED readVars

ReadEdge == /\ \E pop \in BOOLEAN : ReadSide(pop, Gray[wrPtr])
            /\ UNCHANGED writeVars

(* The clocks are unrelated: their edges may fall together.                *)
BothEdges ==
  \E push \in BOOLEAN, pop \in BOOLEAN :
    \E d \in Offered(push),
       r \in Sampled(rdPtr, NextRead(pop)), w \in Sampled(wrPtr, NextWrite(push)) :
      WriteSide(push, d, r) /\ ReadSide(pop, w)

Next == WriteEdge \/ ReadEdge \/ BothEdges

Spec == Init /\ [][Next]_vars

(* Both clocks run, which is needed as long as a view lags behind.         *)
FairSpec ==
  /\ Spec
  /\ WF_vars(/\ rdSync # rdSync1 \/ rdSync1 # Gray[rdPtr]
             /\ WriteEdge \/ BothEdges)
  /\ WF_vars(/\ wrSync # wrSync1 \/ wrSync1 # Gray[wrPtr]
             /\ ReadEdge \/ BothEdges)

-----------------------------------------------------------------------------
P == INSTANCE PointerFifo WITH
       rdSeen1 <- GrayToBin[rdSync1], rdSeen <- GrayToBin[rdSync],
       wrSeen1 <- GrayToBin[wrSync1], wrSeen <- GrayToBin[wrSync]

(* The tests and the decoding of the Gray codes (full with its two         *)
(* inverted bits, empty, the fill levels of the flags) judge the pointers  *)
(* the codes stand for: the FIFO implements PointerFifo.                   *)
ImplementsPointerFifo == P!Spec

(* The words come out as they went in, with none lost at either limit: the *)
(* FIFO implements a bounded queue.                                        *)
WordsInOrder == P!WordsInOrder

(* What each side sees of the other lags behind in the right order, and    *)
(* the writer never has more than FIFO_DEPTH words out as it sees them.    *)
ViewsLag == P!ViewsLag

(* While almost_full is low there is the room it stands for.               *)
AlmostFullInTime == P!AlmostFullInTime

(* Each side learns what the other has done: a word that is inside is      *)
(* offered to the reader, and a full FIFO with a free slot takes words.    *)
EachSideLearns ==
  /\ wrPtr # rdPtr ~> ~Empty
  /\ Dist(wrPtr, rdPtr, FIFO_DEPTH) < FIFO_DEPTH ~> ~Full

=============================================================================
