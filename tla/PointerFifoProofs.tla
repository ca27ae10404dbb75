------------------------- MODULE PointerFifoProofs -------------------------
(***************************************************************************)
(* The asynchronous FIFO on pointers is a bounded queue, for every depth,  *)
(* every kind of word and every interleaving of the two clocks, whatever   *)
(* is caught of a pointer that changes.  What each side sees is in order,  *)
(* and almost_full in time, if a changing pointer is caught as a whole.    *)
(***************************************************************************)
EXTENDS PointerFifo, SequenceTheorems, TLAPS

USE FifoAssumption

(* Near its two limits each side sees the other as it is: both registers   *)
(* of a synchronizer hold the true pointer when the FIFO is empty, or for  *)
(* the other side full, and the first of them does so already when there   *)
(* is one word, or one free slot, left and the side takes it.  So nothing  *)
(* that is caught between two pointers is there to be judged at a limit.   *)
EndsSeen ==
  /\ Used(wrPtr, rdPtr) <= FIFO_DEPTH
  /\ wrPtr = rdPtr => wrSeen1 = wrPtr /\ wrSeen = wrPtr
  /\ wrPtr = Succ(rdPtr, FIFO_DEPTH) /\ wrSeen # rdPtr => wrSeen1 = wrPtr
  /\ wrPtr = Toggle(rdPtr, FIFO_DEPTH) => rdSeen1 = rdPtr /\ rdSeen = rdPtr
  /\ /\ Succ(wrPtr, FIFO_DEPTH) = Toggle(rdPtr, FIFO_DEPTH)
     /\ wrPtr # Toggle(rdSeen, FIFO_DEPTH)
     => rdSeen1 = rdPtr

EndInv == TypeOK /\ EndsSeen

(* What the write side relies on while almost_full is low: a bound on the  *)
(* words inside as it sees them itself.                                    *)
RoomSeen ==
  ~almostFull /\ ALMOST_FULL_GAP # 0 =>
    Used(wrPtr, rdSeen) <= FIFO_DEPTH - ALMOST_FULL_GAP

FifoInv == TypeOK /\ ViewsLag /\ RoomSeen

(* One step of the FIFO in a single form: each side ticks or keeps its     *)
(* registers, and samples what can be caught of the other's pointer.       *)
LEMMA StepForm ==
  ASSUME [Next]_vars
  PROVE  \/ UNCHANGED vars
         \/ \E push \in BOOLEAN, pop \in BOOLEAN :
              \E d \in Offered(push) :
                 \/ WriteSide(push, d, rdPtr) /\ UNCHANGED readVars
                 \/ ReadSide(pop, wrPtr) /\ UNCHANGED writeVars
                 \/ \E r \in Caught(rdPtr, NextRead(pop)), w \in Caught(wrPtr, NextWrite(push)) :
                      WriteSide(push, d, r) /\ ReadSide(pop, w)
  BY DEF Next, WriteEdge, ReadEdge, BothEdges, Offered

(* A pointer that stays is seen as it is, one that moves as some pointer;  *)
(* without skew it is seen as it was or as it will be.                     *)
LEMMA CaughtFacts ==
  ASSUME NEW p \in Ptrs, NEW q \in Ptrs
  PROVE  /\ Caught(p, q) \subseteq Ptrs
         /\ p = q => Caught(p, q) = {p}
         /\ ~SKEW => Caught(p, q) = {p, q}
  BY DEF Caught

(* The pointers stay in their range.                                       *)
LEMMA MoveTypes ==
  ASSUME TypeOK
  PROVE  /\ \A push \in BOOLEAN : NextWrite(push) \in Ptrs
         /\ \A pop \in BOOLEAN : NextRead(pop) \in Ptrs
  BY DEF TypeOK, NextWrite, NextRead, Succ, Ptrs, Pointers

(* What the writer offers is a word.                                       *)
LEMMA OfferedData == \A push \in BOOLEAN : Offered(push) \subseteq Data
  BY DEF Offered

(* The invariant holds at reset.                                           *)
LEMMA InitFifo == Init => FifoInv
<1> SUFFICES ASSUME Init PROVE FifoInv
  OBVIOUS
<1>1. 0 \in Ptrs
  BY DEF Ptrs, Pointers
<1>2. TypeOK
  BY <1>1 DEF Init, TypeOK
<1>3. Dist(0, 0, FIFO_DEPTH) = 0
  BY DEF Dist
<1>4. ViewsLag
  BY <1>3 DEF Init, ViewsLag, Used
<1>5. RoomSeen
  BY <1>3 DEF Init, RoomSeen, Used
<1> QED BY <1>2, <1>4, <1>5 DEF FifoInv

(* The pointers keep their range and the words are words.                  *)
LEMMA StepTyping ==
  ASSUME TypeOK, [Next]_vars
  PROVE  TypeOK'
<1>1. ASSUME NEW push \in BOOLEAN, NEW d \in Data, NEW r \in Ptrs,
             WriteSide(push, d, r)
      PROVE  /\ wrPtr' \in Ptrs /\ rdSeen1' \in Ptrs /\ rdSeen' \in Ptrs
             /\ mem' \in [MemSlots -> Data] /\ almostFull' \in BOOLEAN
  <2>1. wrPtr' \in Ptrs /\ rdSeen1' \in Ptrs /\ rdSeen' \in Ptrs
    BY <1>1 DEF TypeOK, WriteSide, NextWrite, Succ, Ptrs, Pointers
  <2>2. mem' \in [MemSlots -> Data]
    BY <1>1 DEF TypeOK, WriteSide
  <2>3. almostFull' \in BOOLEAN
    BY <1>1 DEF WriteSide
  <2> QED BY <2>1, <2>2, <2>3
<1>2. ASSUME NEW pop \in BOOLEAN, NEW w \in Ptrs, ReadSide(pop, w)
      PROVE  /\ rdPtr' \in Ptrs /\ wrSeen1' \in Ptrs /\ wrSeen' \in Ptrs
             /\ rdData' \in Data /\ almostEmpty' \in BOOLEAN
  BY <1>2 DEF TypeOK, ReadSide, NextRead, Succ, Ptrs, Pointers, MemSlots, Slot
<1>4. CASE UNCHANGED vars
  BY <1>4 DEF TypeOK, vars, writeVars, readVars
<1>5. ASSUME NEW push \in BOOLEAN, NEW pop \in BOOLEAN, NEW d \in Data,
             \/ WriteSide(push, d, rdPtr) /\ UNCHANGED readVars
             \/ ReadSide(pop, wrPtr) /\ UNCHANGED writeVars
             \/ \E r \in Caught(rdPtr, NextRead(pop)), w \in Caught(wrPtr, NextWrite(push)) :
                  WriteSide(push, d, r) /\ ReadSide(pop, w)
      PROVE  TypeOK'
  <2>1. rdPtr \in Ptrs /\ wrPtr \in Ptrs
    BY DEF TypeOK
  <2>2. CASE WriteSide(push, d, rdPtr) /\ UNCHANGED readVars
    BY <1>1, <2>1, <2>2 DEF TypeOK, readVars
  <2>3. CASE ReadSide(pop, wrPtr) /\ UNCHANGED writeVars
    BY <1>2, <2>1, <2>3 DEF TypeOK, writeVars
  <2>4. CASE \E r \in Caught(rdPtr, NextRead(pop)), w \in Caught(wrPtr, NextWrite(push)) :
               WriteSide(push, d, r) /\ ReadSide(pop, w)
    <3>1. PICK r \in Caught(rdPtr, NextRead(pop)), w \in Caught(wrPtr, NextWrite(push)) :
            WriteSide(push, d, r) /\ ReadSide(pop, w)
      BY <2>4
    <3>2. r \in Ptrs /\ w \in Ptrs
      BY <2>1, CaughtFacts, MoveTypes
    <3> QED BY <1>1, <1>2, <3>1, <3>2 DEF TypeOK
  <2> QED BY <1>5, <2>2, <2>3, <2>4
<1> QED BY <1>4, <1>5, StepForm, OfferedData

(* The heart of the matter, as arithmetic: views that lag in the right     *)
(* order still do after both sides have ticked.                            *)
LEMMA LagStep ==
  ASSUME TypeOK, ViewsLag,
         NEW push \in BOOLEAN, NEW pop \in BOOLEAN,
         NEW r \in {rdPtr, NextRead(pop)}, NEW w \in {wrPtr, NextWrite(push)}
  PROVE  LET U(p, q) == Dist(p, q, FIFO_DEPTH)
             wp == NextWrite(push)
             rp == NextRead(pop)
         IN /\ /\ U(r, rdSeen1) <= U(rp, rdSeen1)
               /\ U(rp, rdSeen1) <= U(wrSeen1, rdSeen1)
               /\ U(wrSeen1, rdSeen1) <= U(w, rdSeen1)
               /\ U(w, rdSeen1) <= U(wp, rdSeen1)
               /\ U(wp, rdSeen1) <= FIFO_DEPTH
            /\ /\ U(rdPtr, rdSeen1) <= U(wrSeen, rdSeen1)
               /\ U(wrSeen, rdSeen1) <= U(wrSeen1, rdSeen1)
               /\ U(wrSeen1, rdSeen1) <= U(wp, rdSeen1)
            /\ /\ U(rdSeen1, rdSeen) <= U(rp, rdSeen)
               /\ U(rp, rdSeen) <= U(wrSeen1, rdSeen)
               /\ U(wrPtr, rdSeen) <= FIFO_DEPTH
  BY DEF TypeOK, ViewsLag, Used, Dist, NextWrite, NextRead, Full, Empty, IsFull,
         IsEmpty, Toggle, Succ, Ptrs, Pointers

(* A step of either clock keeps each side's view of the other behind the   *)
(* truth.                                                                  *)
LEMMA StepLag ==
  ASSUME ~SKEW, TypeOK, ViewsLag, [Next]_vars
  PROVE  ViewsLag'
<1>1. CASE UNCHANGED vars
  BY <1>1 DEF ViewsLag, Used, vars, writeVars, readVars
<1>2. ASSUME NEW push \in BOOLEAN, NEW pop \in BOOLEAN, NEW d \in Data,
             \/ WriteSide(push, d, rdPtr) /\ UNCHANGED readVars
             \/ ReadSide(pop, wrPtr) /\ UNCHANGED writeVars
             \/ \E r \in Caught(rdPtr, NextRead(pop)), w \in Caught(wrPtr, NextWrite(push)) :
                  WriteSide(push, d, r) /\ ReadSide(pop, w)
      PROVE  ViewsLag'
  <2>1. CASE WriteSide(push, d, rdPtr) /\ UNCHANGED readVars
    <3>1. NextRead(FALSE) = rdPtr
      BY DEF NextRead
    <3>2. /\ wrPtr' = NextWrite(push) /\ rdSeen1' = rdPtr /\ rdSeen' = rdSeen1
          /\ rdPtr' = rdPtr /\ wrSeen1' = wrSeen1 /\ wrSeen' = wrSeen
      BY <2>1 DEF WriteSide, readVars
    <3> QED BY <3>1, <3>2, LagStep DEF ViewsLag, Used
  <2>2. CASE ReadSide(pop, wrPtr) /\ UNCHANGED writeVars
    <3>1. /\ rdPtr' = NextRead(pop) /\ wrSeen1' = wrPtr /\ wrSeen' = wrSeen1
          /\ wrPtr' = wrPtr /\ rdSeen1' = rdSeen1 /\ rdSeen' = rdSeen
      BY <2>2 DEF ReadSide, writeVars
    <3>2. /\ Used(rdSeen1, rdSeen) <= Used(NextRead(pop), rdSeen)
          /\ Used(NextRead(pop), rdSeen) <= Used(wrSeen1, rdSeen)
          /\ Used(wrSeen1, rdSeen) <= Used(wrPtr, rdSeen)
          /\ Used(wrPtr, rdSeen) <= FIFO_DEPTH
      BY LagStep DEF Used, ViewsLag
    <3>3. Used(wrPtr, rdSeen) <= Used(wrPtr, rdSeen)
      BY DEF TypeOK, Used, Dist, Ptrs, Pointers
    <3> QED BY <3>1, <3>2, <3>3 DEF ViewsLag, Used
  <2>3. CASE \E r \in Caught(rdPtr, NextRead(pop)), w \in Caught(wrPtr, NextWrite(push)) :
               WriteSide(push, d, r) /\ ReadSide(pop, w)
    <3>0. /\ Caught(rdPtr, NextRead(pop)) = {rdPtr, NextRead(pop)}
          /\ Caught(wrPtr, NextWrite(push)) = {wrPtr, NextWrite(push)}
      BY MoveTypes, CaughtFacts DEF TypeOK
    <3>1. PICK r \in {rdPtr, NextRead(pop)}, w \in {wrPtr, NextWrite(push)} :
            WriteSide(push, d, r) /\ ReadSide(pop, w)
      BY <2>3, <3>0
    <3>2. /\ wrPtr' = NextWrite(push) /\ rdSeen1' = r /\ rdSeen' = rdSeen1
          /\ rdPtr' = NextRead(pop) /\ wrSeen1' = w /\ wrSeen' = wrSeen1
      BY <3>1 DEF WriteSide, ReadSide
    <3>3. /\ Used(r, rdSeen1) <= Used(NextRead(pop), rdSeen1)
          /\ Used(NextRead(pop), rdSeen1) <= Used(wrSeen1, rdSeen1)
          /\ Used(wrSeen1, rdSeen1) <= Used(w, rdSeen1)
          /\ Used(w, rdSeen1) <= Used(NextWrite(push), rdSeen1)
          /\ Used(NextWrite(push), rdSeen1) <= FIFO_DEPTH
      BY <3>1, LagStep DEF Used
    <3> QED BY <3>2, <3>3 DEF ViewsLag, Used
  <2> QED BY <1>2, <2>1, <2>2, <2>3
<1> QED BY <1>1, <1>2, StepForm, OfferedData

(* The write side sees its own push in time: almost_full was computed from *)
(* the pointers of the cycle before, and at most one word came since.      *)
LEMMA StepRoom ==
  ASSUME TypeOK, ViewsLag, RoomSeen, [Next]_vars
  PROVE  RoomSeen'
<1>1. ASSUME NEW push \in BOOLEAN, NEW d, NEW r, WriteSide(push, d, r)
      PROVE  RoomSeen'
  <2>1. /\ wrPtr' = NextWrite(push) /\ rdSeen' = rdSeen1
        /\ almostFull' = (/\ ALMOST_FULL_GAP # 0
                          /\ Used(wrPtr, rdSeen) >= FIFO_DEPTH - ALMOST_FULL_GAP)
    BY <1>1 DEF WriteSide
  <2>2. Used(NextWrite(push), rdSeen1) <= Used(wrPtr, rdSeen) + 1
    BY DEF TypeOK, ViewsLag, Used, Dist, NextWrite, Full, IsFull, Toggle, Succ, Ptrs,
           Pointers
  <2>3. Used(wrPtr, rdSeen) \in Int /\ Used(NextWrite(push), rdSeen1) \in Int
    BY DEF TypeOK, Used, Dist, NextWrite, Succ, Ptrs, Pointers
  <2>4. Used(wrPtr, rdSeen)' = Used(NextWrite(push), rdSeen1)
    BY <2>1 DEF Used
  <2> QED BY <2>1, <2>2, <2>3, <2>4 DEF RoomSeen
<1>2. CASE UNCHANGED <<wrPtr, rdSeen, almostFull>>
  BY <1>2 DEF RoomSeen, Used
<1> QED BY <1>1, <1>2, StepForm DEF ReadSide, vars, writeVars

(* The same five facts of given pointers and views.                        *)
EndsOf(wp, rp, ws1, ws, rs1, rs) ==
  /\ Used(wp, rp) <= FIFO_DEPTH
  /\ wp = rp => ws1 = wp /\ ws = wp
  /\ wp = Succ(rp, FIFO_DEPTH) /\ ws # rp => ws1 = wp
  /\ wp = Toggle(rp, FIFO_DEPTH) => rs1 = rp /\ rs = rp
  /\ Succ(wp, FIFO_DEPTH) = Toggle(rp, FIFO_DEPTH) /\ wp # Toggle(rs, FIFO_DEPTH)
     => rs1 = rp

(* Near the limits, as arithmetic: an edge of either clock, and one of     *)
(* both, at which each side catches the other's pointer as it is, if it    *)
(* stays, and otherwise anything.                                          *)
LEMMA EndsStep ==
  ASSUME EndInv, NEW push \in BOOLEAN, NEW pop \in BOOLEAN,
         NEW r \in Ptrs, NEW w \in Ptrs,
         NextRead(pop) = rdPtr => r = rdPtr, NextWrite(push) = wrPtr => w = wrPtr
  PROVE  /\ EndsOf(NextWrite(push), rdPtr, wrSeen1, wrSeen, rdPtr, rdSeen1)
         /\ EndsOf(wrPtr, NextRead(pop), wrPtr, wrSeen1, rdSeen1, rdSeen)
         /\ EndsOf(NextWrite(push), NextRead(pop), w, wrSeen1, r, rdSeen1)
<1> USE DEF EndInv, TypeOK, EndsSeen, EndsOf, Used, Dist, NextWrite, NextRead, Full,
            Empty, IsFull, IsEmpty, Toggle, Succ, Ptrs, Pointers
<1>1. EndsOf(NextWrite(push), rdPtr, wrSeen1, wrSeen, rdPtr, rdSeen1)
  OBVIOUS
<1>2. EndsOf(wrPtr, NextRead(pop), wrPtr, wrSeen1, rdSeen1, rdSeen)
  OBVIOUS
<1>3. EndsOf(NextWrite(push), NextRead(pop), w, wrSeen1, r, rdSeen1)
  OBVIOUS
<1> QED BY <1>1, <1>2, <1>3

(* What a side sees when it is about to reach a limit is no pointer caught *)
(* on its way: a pointer changes by one, a side takes one step on what it  *)
(* caught, and by the next edge the pointer has settled.                   *)
LEMMA StepEnds ==
  ASSUME EndInv, [Next]_vars
  PROVE  EndsSeen'
<1>1. CASE UNCHANGED vars
  BY <1>1 DEF EndInv, EndsSeen, Used, vars, writeVars, readVars
<1>2. EndsOf(wrPtr', rdPtr', wrSeen1', wrSeen', rdSeen1', rdSeen') => EndsSeen'
  BY DEF EndsOf, EndsSeen, Used
<1>3. ASSUME NEW push \in BOOLEAN, NEW pop \in BOOLEAN, NEW d \in Data,
             \/ WriteSide(push, d, rdPtr) /\ UNCHANGED readVars
             \/ ReadSide(pop, wrPtr) /\ UNCHANGED writeVars
             \/ \E r \in Caught(rdPtr, NextRead(pop)), w \in Caught(wrPtr, NextWrite(push)) :
                  WriteSide(push, d, r) /\ ReadSide(pop, w)
      PROVE  EndsSeen'
  <2>1. wrPtr \in Ptrs /\ rdPtr \in Ptrs
    BY DEF EndInv, TypeOK
  <2>2. CASE WriteSide(push, d, rdPtr) /\ UNCHANGED readVars
    <3>1. EndsOf(NextWrite(push), rdPtr, wrSeen1, wrSeen, rdPtr, rdSeen1)
      <4>1. NextRead(FALSE) = rdPtr /\ NextWrite(push) \in Ptrs
        BY MoveTypes DEF EndInv, NextRead
      <4> QED BY <2>1, <4>1, EndsStep
    <3>2. /\ wrPtr' = NextWrite(push) /\ rdSeen1' = rdPtr /\ rdSeen' = rdSeen1
          /\ rdPtr' = rdPtr /\ wrSeen1' = wrSeen1 /\ wrSeen' = wrSeen
      BY <2>2 DEF WriteSide, readVars
    <3> QED BY <1>2, <3>1, <3>2
  <2>3. CASE ReadSide(pop, wrPtr) /\ UNCHANGED writeVars
    <3>1. EndsOf(wrPtr, NextRead(pop), wrPtr, wrSeen1, rdSeen1, rdSeen)
      <4>1. NextWrite(FALSE) = wrPtr /\ NextRead(pop) \in Ptrs
        BY MoveTypes DEF EndInv, NextWrite
      <4> QED BY <2>1, <4>1, EndsStep
    <3>2. /\ rdPtr' = NextRead(pop) /\ wrSeen1' = wrPtr /\ wrSeen' = wrSeen1
          /\ wrPtr' = wrPtr /\ rdSeen1' = rdSeen1 /\ rdSeen' = rdSeen
      BY <2>3 DEF ReadSide, writeVars
    <3> QED BY <1>2, <3>1, <3>2
  <2>4. CASE \E r \in Caught(rdPtr, NextRead(pop)), w \in Caught(wrPtr, NextWrite(push)) :
               WriteSide(push, d, r) /\ ReadSide(pop, w)
    <3>1. PICK r \in Caught(rdPtr, NextRead(pop)), w \in Caught(wrPtr, NextWrite(push)) :
            WriteSide(push, d, r) /\ ReadSide(pop, w)
      BY <2>4
    <3>2. /\ r \in Ptrs /\ w \in Ptrs
          /\ NextRead(pop) = rdPtr => r = rdPtr
          /\ NextWrite(push) = wrPtr => w = wrPtr
      <4>1. NextRead(pop) \in Ptrs /\ NextWrite(push) \in Ptrs
        BY MoveTypes DEF EndInv
      <4> QED BY <2>1, <3>1, <4>1, CaughtFacts
    <3>3. EndsOf(NextWrite(push), NextRead(pop), w, wrSeen1, r, rdSeen1)
      BY <3>2, EndsStep
    <3>4. /\ wrPtr' = NextWrite(push) /\ rdSeen1' = r /\ rdSeen' = rdSeen1
          /\ rdPtr' = NextRead(pop) /\ wrSeen1' = w /\ wrSeen' = wrSeen1
      BY <3>1 DEF WriteSide, ReadSide
    <3> QED BY <1>2, <3>3, <3>4
  <2> QED BY <1>3, <2>2, <2>3, <2>4
<1> QED BY <1>1, <1>3, StepForm, OfferedData

(* EndInv is inductive, whatever is caught of a pointer that changes.      *)
THEOREM EndInvariant == Spec => []EndInv
<1>1. Init => EndInv
  <2> SUFFICES ASSUME Init PROVE EndInv
    OBVIOUS
  <2>1. TypeOK /\ Used(wrPtr, rdPtr) <= FIFO_DEPTH
    BY InitFifo DEF FifoInv, ViewsLag, Init, Used, Dist
  <2> QED BY <2>1 DEF EndInv, EndsSeen, Init, Succ, Toggle
<1>2. EndInv /\ [Next]_vars => EndInv'
  BY StepTyping, StepEnds DEF EndInv
<1> QED BY <1>1, <1>2, PTL DEF Spec

(* The registers keep their types.                                         *)
THEOREM FifoTypes == Spec => []TypeOK
<1>1. EndInv => TypeOK
  BY DEF EndInv
<1> QED BY <1>1, EndInvariant, PTL

(* If pointers are caught as a whole, FifoInv is inductive.                *)
LEMMA FifoInvariant ==
  ASSUME ~SKEW
  PROVE  Spec => []FifoInv
<1>1. FifoInv /\ [Next]_vars => FifoInv'
  BY StepTyping, StepLag, StepRoom DEF FifoInv
<1> QED BY InitFifo, <1>1, PTL DEF Spec

(* Whatever the phases of the two clocks, each view lags behind the        *)
(* pointer it follows, and neither side overtakes what it sees.            *)
THEOREM ViewsAlwaysLag ==
  ASSUME ~SKEW
  PROVE  Spec => []ViewsLag
<1>1. FifoInv => ViewsLag
  BY DEF FifoInv
<1> QED BY <1>1, FifoInvariant, PTL

(* While almost_full is low the writer has ALMOST_FULL_GAP free slots,     *)
(* for every gap the code admits.                                          *)
THEOREM AlmostFullKeepsRoom ==
  ASSUME ~SKEW
  PROVE  Spec => []AlmostFullInTime
<1>1. FifoInv => AlmostFullInTime
  BY DEF FifoInv, TypeOK, ViewsLag, RoomSeen, AlmostFullInTime, Used, Dist, Ptrs,
         Pointers
<1> QED BY <1>1, FifoInvariant, PTL

-----------------------------------------------------------------------------
(* The words of a buffer m from the pointer r up to the pointer w.         *)
Words(w, r, m) ==
  [i \in 1 .. Used(w, r) |-> m[Slot(Ahead(r, i - 1, FIFO_DEPTH), FIFO_DEPTH)]]

Mems == [MemSlots -> Data]

(* The words between two pointers are a sequence of words.                 *)
LEMMA WordsType ==
  ASSUME NEW w \in Ptrs, NEW r \in Ptrs, NEW m \in Mems
  PROVE  /\ Used(w, r) \in Nat
         /\ Words(w, r, m) \in Seq(Data)
         /\ Len(Words(w, r, m)) = Used(w, r)
         /\ \A i \in 1 .. Used(w, r) :
              /\ Slot(Ahead(r, i - 1, FIFO_DEPTH), FIFO_DEPTH) \in MemSlots
              /\ Words(w, r, m)[i] = m[Slot(Ahead(r, i - 1, FIFO_DEPTH), FIFO_DEPTH)]
<1>1. Used(w, r) \in Nat
  BY DEF Used, Dist, Ptrs, Pointers
<1>2. \A i \in 1 .. Used(w, r) :
        Slot(Ahead(r, i - 1, FIFO_DEPTH), FIFO_DEPTH) \in MemSlots
  BY DEF Used, Dist, Ahead, Slot, Ptrs, Pointers, MemSlots
<1>3. Words(w, r, m) \in [1 .. Used(w, r) -> Data]
  BY <1>2 DEF Words, Mems
<1>4. Words(w, r, m) \in Seq(Data) /\ Len(Words(w, r, m)) = Used(w, r)
  BY <1>1, <1>3
<1> QED BY <1>1, <1>2, <1>4 DEF Words

(* A push appends: the slot it writes is none of the occupied ones.        *)
LEMMA PushAppends ==
  ASSUME NEW w \in Ptrs, NEW r \in Ptrs, NEW m \in Mems, NEW d \in Data,
         Used(w, r) < FIFO_DEPTH
  PROVE  Words(Succ(w, FIFO_DEPTH), r, [m EXCEPT ![Slot(w, FIFO_DEPTH)] = d])
           = Append(Words(w, r, m), d)
<1> DEFINE w2 == Succ(w, FIFO_DEPTH)
           m2 == [m EXCEPT ![Slot(w, FIFO_DEPTH)] = d]
           At(i) == Slot(Ahead(r, i - 1, FIFO_DEPTH), FIFO_DEPTH)
<1>1. w2 \in Ptrs /\ m2 \in Mems /\ Slot(w, FIFO_DEPTH) \in MemSlots
  BY DEF Succ, Slot, Ptrs, Pointers, Mems, MemSlots
<1>2. Used(w2, r) = Used(w, r) + 1
  BY DEF Used, Dist, Succ, Ptrs, Pointers
<1>3. At(Used(w, r) + 1) = Slot(w, FIFO_DEPTH)
  BY DEF Used, Dist, Ahead, Slot, Ptrs, Pointers
<1>4. \A i \in 1 .. Used(w, r) : At(i) # Slot(w, FIFO_DEPTH)
  BY DEF Used, Dist, Ahead, Slot, Ptrs, Pointers
<1> HIDE DEF w2, m2, At
<1>5. \A i \in 1 .. Used(w, r) : At(i) \in MemSlots /\ Words(w, r, m)[i] = m[At(i)]
  BY WordsType DEF At
<1>6. \A i \in 1 .. Used(w2, r) : Words(w2, r, m2)[i] = m2[At(i)]
  BY <1>1, WordsType DEF At
<1>7. \A i \in 1 .. Used(w, r) : Words(w2, r, m2)[i] = Words(w, r, m)[i]
  <2>1. ASSUME NEW i \in 1 .. Used(w, r)
        PROVE  Words(w2, r, m2)[i] = Words(w, r, m)[i]
    <3>1. i \in 1 .. Used(w2, r)
      BY <1>2, WordsType
    <3>2. m2[At(i)] = m[At(i)]
      BY <1>4, <1>5 DEF m2, Mems
    <3> QED BY <1>5, <1>6, <3>1, <3>2
  <2> QED BY <2>1
<1>8. Words(w2, r, m2)[Used(w, r) + 1] = d
  <2>1. Used(w, r) + 1 \in 1 .. Used(w2, r)
    BY <1>2, WordsType
  <2>2. m2[Slot(w, FIFO_DEPTH)] = d
    BY <1>1 DEF m2, Mems
  <2> QED BY <1>3, <1>6, <2>1, <2>2
<1>9. /\ Words(w2, r, m2) \in Seq(Data) /\ Len(Words(w2, r, m2)) = Used(w, r) + 1
      /\ Words(w, r, m) \in Seq(Data) /\ Len(Words(w, r, m)) = Used(w, r)
      /\ Used(w, r) \in Nat
  BY <1>1, <1>2, WordsType
<1>10. /\ Append(Words(w, r, m), d) \in Seq(Data)
       /\ Len(Append(Words(w, r, m), d)) = Used(w, r) + 1
       /\ \A i \in 1 .. Used(w, r) : Append(Words(w, r, m), d)[i] = Words(w, r, m)[i]
       /\ Append(Words(w, r, m), d)[Used(w, r) + 1] = d
  BY <1>9, AppendProperties
<1>11. \A i \in 1 .. Used(w, r) + 1 :
         Words(w2, r, m2)[i] = Append(Words(w, r, m), d)[i]
  BY <1>7, <1>8, <1>9, <1>10
<1>12. Words(w2, r, m2) = Append(Words(w, r, m), d)
  BY <1>9, <1>10, <1>11, SeqEqual
<1> QED BY <1>12 DEF w2, m2

(* A pop takes the oldest word and leaves the others as they are.          *)
LEMMA PopTakesHead ==
  ASSUME NEW w \in Ptrs, NEW r \in Ptrs, NEW m \in Mems, w # r
  PROVE  /\ Words(w, r, m) # <<>>
         /\ Head(Words(w, r, m)) = m[Slot(r, FIFO_DEPTH)]
         /\ Tail(Words(w, r, m)) = Words(w, Succ(r, FIFO_DEPTH), m)
<1> DEFINE r2 == Succ(r, FIFO_DEPTH)
           At(i) == Slot(Ahead(r, i - 1, FIFO_DEPTH), FIFO_DEPTH)
           At2(i) == Slot(Ahead(r2, i - 1, FIFO_DEPTH), FIFO_DEPTH)
<1>1. r2 \in Ptrs /\ Used(w, r2) = Used(w, r) - 1 /\ Used(w, r) > 0
  BY DEF Used, Dist, Succ, Ptrs, Pointers
<1>2. At(1) = Slot(r, FIFO_DEPTH)
  BY DEF Ahead, Ptrs, Pointers
<1>3. \A i \in 1 .. Used(w, r) - 1 : At2(i) = At(i + 1)
  BY DEF Used, Dist, Succ, Ahead, Slot, Ptrs, Pointers
<1> HIDE DEF r2, At, At2
<1>4. /\ Words(w, r, m) \in Seq(Data) /\ Len(Words(w, r, m)) = Used(w, r)
      /\ Used(w, r) \in Nat
      /\ \A i \in 1 .. Used(w, r) : Words(w, r, m)[i] = m[At(i)]
  BY WordsType DEF At
<1>5. /\ Words(w, r2, m) \in Seq(Data) /\ Len(Words(w, r2, m)) = Used(w, r) - 1
      /\ \A i \in 1 .. Used(w, r) - 1 : Words(w, r2, m)[i] = m[At2(i)]
  BY <1>1, WordsType DEF At2
<1>6. Words(w, r, m) # <<>>
  BY <1>1, <1>4
<1>7. Head(Words(w, r, m)) = m[Slot(r, FIFO_DEPTH)]
  BY <1>1, <1>2, <1>4
<1>8. /\ Tail(Words(w, r, m)) \in Seq(Data)
      /\ Len(Tail(Words(w, r, m))) = Used(w, r) - 1
      /\ \A i \in 1 .. Used(w, r) - 1 :
           Tail(Words(w, r, m))[i] = Words(w, r, m)[i + 1]
  BY <1>4, <1>6, HeadTailProperties
<1>9. \A i \in 1 .. Used(w, r) - 1 : Tail(Words(w, r, m))[i] = Words(w, r2, m)[i]
  BY <1>3, <1>4, <1>5, <1>8
<1>10. Tail(Words(w, r, m)) = Words(w, r2, m)
  BY <1>5, <1>8, <1>9, SeqEqual
<1> QED BY <1>6, <1>7, <1>10 DEF r2

(* The flags judge by late pointers, or by ones that never were, and are   *)
(* right all the same: the writer that is not held back has room, the      *)
(* reader that is not has a word.                                          *)
LEMMA FlagsSafe ==
  ASSUME EndInv
  PROVE  /\ Used(wrPtr, rdPtr) <= FIFO_DEPTH
         /\ ~Full => Used(wrPtr, rdPtr) < FIFO_DEPTH
         /\ ~Empty => wrPtr # rdPtr
  BY DEF EndInv, TypeOK, EndsSeen, Full, Empty, IsFull, IsEmpty, Toggle, Used, Dist, Ptrs,
         Pointers

(* What one step does to the buffer, without the registers that only carry *)
(* the views: the write side pushes or not, the read side pops or not.     *)
LEMMA StepEffect ==
  ASSUME EndInv, [Next]_vars
  PROVE  \E push \in BOOLEAN, pop \in BOOLEAN, d \in Data :
           /\ push => Used(wrPtr, rdPtr) < FIFO_DEPTH
           /\ pop => wrPtr # rdPtr
           /\ wrPtr' = IF push THEN Succ(wrPtr, FIFO_DEPTH) ELSE wrPtr
           /\ mem' = IF push THEN [mem EXCEPT ![Slot(wrPtr, FIFO_DEPTH)] = d] ELSE mem
           /\ rdPtr' = IF pop THEN Succ(rdPtr, FIFO_DEPTH) ELSE rdPtr
           /\ rdData' = IF pop THEN mem[Slot(rdPtr, FIFO_DEPTH)] ELSE rdData
<1> DEFINE Effect(push, pop, d) ==
             /\ push => Used(wrPtr, rdPtr) < FIFO_DEPTH
             /\ pop => wrPtr # rdPtr
             /\ wrPtr' = IF push THEN Succ(wrPtr, FIFO_DEPTH) ELSE wrPtr
             /\ mem' = IF push THEN [mem EXCEPT ![Slot(wrPtr, FIFO_DEPTH)] = d] ELSE mem
             /\ rdPtr' = IF pop THEN Succ(rdPtr, FIFO_DEPTH) ELSE rdPtr
             /\ rdData' = IF pop THEN mem[Slot(rdPtr, FIFO_DEPTH)] ELSE rdData
<1>1. CASE UNCHANGED vars
  <2>1. Effect(FALSE, FALSE, Zero)
    BY <1>1 DEF vars, writeVars, readVars
  <2> HIDE DEF Effect
  <2>2. \E push \in BOOLEAN, pop \in BOOLEAN, d \in Data : Effect(push, pop, d)
    BY <2>1
  <2> QED BY <2>2 DEF Effect
<1>2. ASSUME NEW push \in BOOLEAN, NEW pop \in BOOLEAN, NEW d \in Data,
             \/ WriteSide(push, d, rdPtr) /\ UNCHANGED readVars
             \/ ReadSide(pop, wrPtr) /\ UNCHANGED writeVars
             \/ \E r \in Caught(rdPtr, NextRead(pop)), w \in Caught(wrPtr, NextWrite(push)) :
                  WriteSide(push, d, r) /\ ReadSide(pop, w)
      PROVE  \E p \in BOOLEAN, q \in BOOLEAN, e \in Data : Effect(p, q, e)
  <2>1. CASE WriteSide(push, d, rdPtr) /\ UNCHANGED readVars
    <3>1. Effect(push /\ ~Full, FALSE, d)
      BY <2>1, FlagsSafe DEF WriteSide, NextWrite, readVars
    <3>2. (push /\ ~Full) \in BOOLEAN
      OBVIOUS
    <3> HIDE DEF Effect
    <3> QED BY <3>1, <3>2
  <2>2. CASE ReadSide(pop, wrPtr) /\ UNCHANGED writeVars
    <3>1. Effect(FALSE, pop /\ ~Empty, Zero)
      BY <2>2, FlagsSafe DEF ReadSide, NextRead, writeVars
    <3>2. (pop /\ ~Empty) \in BOOLEAN
      OBVIOUS
    <3> HIDE DEF Effect
    <3> QED BY <3>1, <3>2
  <2>3. CASE \E r \in Caught(rdPtr, NextRead(pop)), w \in Caught(wrPtr, NextWrite(push)) :
               WriteSide(push, d, r) /\ ReadSide(pop, w)
    <3>1. Effect(push /\ ~Full, pop /\ ~Empty, d)
      BY <2>3, FlagsSafe DEF WriteSide, NextWrite, ReadSide, NextRead
    <3>2. (push /\ ~Full) \in BOOLEAN /\ (pop /\ ~Empty) \in BOOLEAN
      OBVIOUS
    <3> HIDE DEF Effect
    <3> QED BY <3>1, <3>2
  <2> QED BY <1>2, <2>1, <2>2, <2>3
<1> QED BY <1>1, <1>2, StepForm, OfferedData

(* Contents of PointerFifo, as a function of the two pointers and the      *)
(* memory.                                                                 *)
LEMMA ContentsWords == Contents = Words(wrPtr, rdPtr, mem)
  BY DEF Contents, Words

(* Every step of the FIFO is a step of the queue or leaves it alone.       *)
LEMMA StepImplements ==
  ASSUME EndInv, TypeOK', [Next]_vars
  PROVE  [Q!Next]_<<Contents, rdData>>
<1>1. PICK push \in BOOLEAN, pop \in BOOLEAN, d \in Data :
        /\ push => Used(wrPtr, rdPtr) < FIFO_DEPTH
        /\ pop => wrPtr # rdPtr
        /\ wrPtr' = IF push THEN Succ(wrPtr, FIFO_DEPTH) ELSE wrPtr
        /\ mem' = IF push THEN [mem EXCEPT ![Slot(wrPtr, FIFO_DEPTH)] = d] ELSE mem
        /\ rdPtr' = IF pop THEN Succ(rdPtr, FIFO_DEPTH) ELSE rdPtr
        /\ rdData' = IF pop THEN mem[Slot(rdPtr, FIFO_DEPTH)] ELSE rdData
  BY StepEffect
<1> DEFINE before == Words(wrPtr, rdPtr, mem)
           after == Words(wrPtr', rdPtr', mem')
<1>2. Contents = before /\ Contents' = after
  BY ContentsWords DEF Contents, Words, Used
<1>3. /\ wrPtr \in Ptrs /\ rdPtr \in Ptrs /\ mem \in Mems
      /\ wrPtr' \in Ptrs /\ rdPtr' \in Ptrs /\ mem' \in Mems
  BY DEF EndInv, TypeOK, Mems
<1>4. Len(before) = Used(wrPtr, rdPtr)
  BY <1>3, WordsType
<1>5. CASE ~push /\ ~pop
  <2>1. after = before /\ rdData' = rdData
    BY <1>1, <1>5
  <2> QED BY <1>2, <2>1
<1>6. CASE push /\ ~pop
  <2>1. Len(before) < FIFO_DEPTH /\ rdData' = rdData
    BY <1>1, <1>4, <1>6
  <2>2. after = Append(before, d)
    <3>1. Used(wrPtr, rdPtr) < FIFO_DEPTH
      BY <1>1, <1>6
    <3>2. Words(Succ(wrPtr, FIFO_DEPTH), rdPtr, [mem EXCEPT ![Slot(wrPtr, FIFO_DEPTH)] = d])
            = Append(before, d)
      BY <1>3, <3>1, PushAppends
    <3>3. /\ wrPtr' = Succ(wrPtr, FIFO_DEPTH) /\ rdPtr' = rdPtr
          /\ mem' = [mem EXCEPT ![Slot(wrPtr, FIFO_DEPTH)] = d]
      BY <1>1, <1>6
    <3> QED BY <3>2, <3>3
  <2> HIDE DEF before, after
  <2>3. Q!Push(d)
    BY <1>2, <2>1, <2>2 DEF Q!Push
  <2> QED BY <2>3 DEF Q!Next
<1>7. CASE ~push /\ pop
  <2>1. after = Words(wrPtr, Succ(rdPtr, FIFO_DEPTH), mem) /\ wrPtr # rdPtr
    BY <1>1, <1>7
  <2>2. before # <<>> /\ Head(before) = rdData' /\ Tail(before) = after
    BY <1>1, <1>3, <1>7, <2>1, PopTakesHead
  <2> HIDE DEF before, after
  <2>3. Q!Pop
    BY <1>2, <2>2 DEF Q!Pop
  <2> QED BY <2>3 DEF Q!Next
<1>8. CASE push /\ pop
  <2> DEFINE rest == Words(wrPtr, Succ(rdPtr, FIFO_DEPTH), mem)
  <2>1. /\ Succ(rdPtr, FIFO_DEPTH) \in Ptrs
        /\ Used(wrPtr, Succ(rdPtr, FIFO_DEPTH)) < FIFO_DEPTH
    BY <1>1, <1>3, <1>8 DEF Used, Dist, Succ, Ptrs, Pointers
  <2>2. before # <<>> /\ Head(before) = rdData' /\ Tail(before) = rest
    BY <1>1, <1>3, <1>8, PopTakesHead
  <2>3. after = Append(rest, d)
    <3>1. Words(Succ(wrPtr, FIFO_DEPTH), Succ(rdPtr, FIFO_DEPTH),
                [mem EXCEPT ![Slot(wrPtr, FIFO_DEPTH)] = d])
            = Append(rest, d)
      BY <1>3, <2>1, PushAppends
    <3>2. /\ wrPtr' = Succ(wrPtr, FIFO_DEPTH) /\ rdPtr' = Succ(rdPtr, FIFO_DEPTH)
          /\ mem' = [mem EXCEPT ![Slot(wrPtr, FIFO_DEPTH)] = d]
      BY <1>1, <1>8
    <3> QED BY <3>1, <3>2
  <2>4. Len(before) < FIFO_DEPTH
    BY <1>1, <1>4, <1>8
  <2> HIDE DEF before, after, rest
  <2>5. Q!PushPop(d)
    BY <1>2, <2>2, <2>3, <2>4 DEF Q!PushPop
  <2> QED BY <2>5 DEF Q!Next
<1> QED BY <1>5, <1>6, <1>7, <1>8

(* Reset is the initial state of the bounded queue.                        *)
LEMMA InitImplements == Init => Q!Init
<1> SUFFICES ASSUME Init PROVE Q!Init
  OBVIOUS
<1>1. wrPtr \in Ptrs /\ rdPtr \in Ptrs /\ mem \in Mems
  BY DEF Init, Ptrs, Pointers, Mems
<1>2. Used(wrPtr, rdPtr) = 0
  BY DEF Init, Used, Dist
<1>3. Contents \in Seq(Data) /\ Len(Contents) = 0
  BY <1>1, <1>2, WordsType, ContentsWords
<1>4. Contents = <<>>
  BY <1>3, EmptySeq
<1> QED BY <1>4 DEF Init, Q!Init

(* The FIFO is a bounded queue for every depth, every kind of word, every  *)
(* interleaving of its clocks and whatever is caught of a pointer that     *)
(* changes: fifo.sv hands the words over in the order in which they came   *)
(* and never loses or repeats one.                                         *)
THEOREM FifoIsAQueue == Spec => WordsInOrder
<1>1. EndInv /\ EndInv' /\ [Next]_vars => [Q!Next]_<<Contents, rdData>>
  BY StepImplements DEF EndInv
<1>2. Init => Q!Init
  BY InitImplements
<1>3. Spec => Init /\ [][Next]_vars /\ []EndInv
  BY EndInvariant DEF Spec
<1>4. Q!Init /\ [][Q!Next]_<<Contents, rdData>> => WordsInOrder
  BY DEF WordsInOrder, Q!Spec
<1> QED BY <1>1, <1>2, <1>3, <1>4, PTL

=============================================================================
