------------------------- MODULE ReorderBufferProofs -------------------------
(***************************************************************************)
(* Facts about wrap-bit pointers, about the reorder buffer and about the   *)
(* compaction of the load/store buffer that hold for every depth and for   *)
(* whatever surrounds them.                                                *)
(***************************************************************************)
EXTENDS ReorderBuffer, Compaction, FiniteSetTheorems, WellFoundedInduction, TLAPS

(* Wrap-bit pointers.                                                      *)

(* Every pointer operation of the queues stays within the pointer range,   *)
(* and a pointer always addresses one of the D slots.                      *)
THEOREM PointerTypes ==
  ASSUME NEW D \in Nat \ {0}, NEW p \in Pointers(D)
  PROVE  /\ Slot(p, D) \in 0 .. D - 1
         /\ Toggle(p, D) \in Pointers(D)
         /\ Succ(p, D) \in Pointers(D)
         /\ \A q \in Pointers(D) : Dist(p, q, D) \in 0 .. 2*D - 1
         /\ \A k \in 0 .. 2*D : Ahead(p, k, D) \in Pointers(D)
  BY DEF Pointers, Slot, Toggle, Succ, Dist, Ahead

(* Moving one end of the window by one place changes its size by one; the  *)
(* size is the whole buffer exactly when the pointers differ in the wrap   *)
(* bit alone, which is how the queues tell full from empty.                *)
THEOREM WindowSize ==
  ASSUME NEW D \in Nat \ {0}, NEW w \in Pointers(D), NEW r \in Pointers(D),
         Dist(w, r, D) <= D
  PROVE  /\ IsEmpty(w, r) <=> Dist(w, r, D) = 0
         /\ IsFull(w, r, D) <=> Dist(w, r, D) = D
         /\ ~IsFull(w, r, D) => Dist(Succ(w, D), r, D) = Dist(w, r, D) + 1
         /\ ~IsEmpty(w, r) => Dist(w, Succ(r, D), D) = Dist(w, r, D) - 1
         /\ Dist(Succ(w, D), Succ(r, D), D) = Dist(w, r, D)
  BY DEF Pointers, Toggle, Succ, Dist, IsEmpty, IsFull

(* No two occupied places share a slot, so an entry is identified by its   *)
(* slot number alone: the tag needs no wrap bit.                           *)
THEOREM SlotsDistinct ==
  ASSUME NEW D \in Nat \ {0}, NEW w \in Pointers(D), NEW r \in Pointers(D),
         Dist(w, r, D) <= D,
         NEW p \in Window(r, w, D), NEW q \in Window(r, w, D),
         Slot(p, D) = Slot(q, D)
  PROVE  p = q
  BY DEF Pointers, Slot, Dist, Window

(* The place a full-or-less buffer appends to has a slot of its own.       *)
THEOREM AppendSlotFree ==
  ASSUME NEW D \in Nat \ {0}, NEW w \in Pointers(D), NEW r \in Pointers(D),
         Dist(w, r, D) < D, NEW p \in Window(r, w, D)
  PROVE  Slot(p, D) # Slot(w, D)
  BY DEF Pointers, Slot, Dist, Window

(* The places of the window, counted from the read pointer.                *)
THEOREM PlacesOfWindow ==
  ASSUME NEW D \in Nat \ {0}, NEW w \in Pointers(D), NEW r \in Pointers(D),
         Dist(w, r, D) <= D
  PROVE  /\ \A k \in 0 .. Dist(w, r, D) - 1 :
              Ahead(r, k, D) \in Window(r, w, D) /\ Dist(Ahead(r, k, D), r, D) = k
         /\ \A p \in Window(r, w, D) : Ahead(r, Dist(p, r, D), D) = p
  BY DEF Pointers, Ahead, Dist, Window

(* How the window changes when an entry is appended or removed.            *)
THEOREM WindowStep ==
  ASSUME NEW D \in Nat \ {0}, NEW w \in Pointers(D), NEW r \in Pointers(D),
         Dist(w, r, D) <= D
  PROVE  /\ Dist(w, r, D) < D =>
              Window(r, Succ(w, D), D) = Window(r, w, D) \cup {w}
         /\ w # r => Window(Succ(r, D), w, D) = Window(r, w, D) \ {r}
         /\ \A p \in Window(r, w, D) :
              Window(r, Succ(p, D), D) \subseteq Window(r, w, D)
  BY DEF Pointers, Succ, Dist, Window

-----------------------------------------------------------------------------
(* Induction over the natural numbers, for a set instead of a predicate.   *)
LEMMA NatSetInduction ==
  ASSUME NEW S, 0 \in S, \A n \in Nat : n \in S => n + 1 \in S
  PROVE  \A n \in Nat : n \in S
<1> SUFFICES ASSUME NEW m \in Nat, m \notin S PROVE FALSE
  OBVIOUS
<1> DEFINE T == Nat \ S
           R == OpToRel(<, Nat)
<1>1. T \subseteq Nat /\ T # {}
  OBVIOUS
<1>2. IsWellFoundedOn(R, Nat)
  BY NatLessThanWellFounded
<1>3. \E t \in T : \A y \in T : ~(<<y, t>> \in R)
  <2> HIDE DEF R, T
  <2> QED
    BY <1>1, <1>2, WFMin
<1>4. PICK t \in T : \A y \in T : ~(<<y, t>> \in R)
  BY <1>3
<1>5. t \in Nat /\ t \notin S /\ t # 0
  OBVIOUS
<1>6. t - 1 \in T
  <2>1. t - 1 \in Nat /\ t - 1 + 1 = t
    BY <1>5
  <2> QED
    BY <2>1, <1>5
<1>7. <<t - 1, t>> \in R
  BY <1>5, <1>6 DEF OpToRel
<1> QED
  BY <1>4, <1>6, <1>7

(* A nonempty set of numbers has a least member: the slot that a queue     *)
(* selects to issue or to fill.                                            *)
LEMMA LeastExists ==
  ASSUME NEW S \in SUBSET Nat, S # {}
  PROVE  \E m \in S : \A x \in S : m <= x
<1> DEFINE R == OpToRel(<, Nat)
<1>1. IsWellFoundedOn(R, Nat)
  BY NatLessThanWellFounded
<1>2. \E m \in S : \A y \in S : ~(<<y, m>> \in R)
  <2> HIDE DEF R
  <2> QED
    BY <1>1, WFMin
<1>3. PICK m \in S : \A y \in S : ~(<<y, m>> \in R)
  BY <1>2
<1>4. \A y \in S : m <= y
  <2> TAKE y \in S
  <2>1. ~(y < m)
    BY <1>3 DEF OpToRel
  <2> QED
    BY <2>1
<1> QED
  BY <1>3, <1>4

(* A nonempty set of numbers with an upper bound has a greatest member:    *)
(* the checkpoint comparison of FRAT.sv has a winner, and a set of         *)
(* instructions in flight has a youngest one.                              *)
LEMMA MaxExists ==
  ASSUME NEW n \in Nat, NEW S \in SUBSET (0 .. n), S # {}
  PROVE  \E m \in S : \A x \in S : x <= m
<1> DEFINE T == {i \in Nat : \E x \in S : i = n - x}
<1>1. T \subseteq Nat
  OBVIOUS
<1>2. ASSUME NEW x \in S PROVE n - x \in T
  OBVIOUS
<1>3. T # {}
  <2>1. PICK x \in S : TRUE
    OBVIOUS
  <2> HIDE DEF T
  <2> QED
    BY <2>1, <1>2
<1>4. \E t \in T : \A y \in T : ~(y < t)
  <2> DEFINE R == OpToRel(<, Nat)
  <2>1. IsWellFoundedOn(R, Nat)
    BY NatLessThanWellFounded
  <2>2. \E t \in T : \A y \in T : ~(<<y, t>> \in R)
    <3> HIDE DEF R, T
    <3> QED
      BY <1>1, <1>3, <2>1, WFMin
  <2>3. PICK t \in T : \A y \in T : ~(<<y, t>> \in R)
    BY <2>2
  <2>4. \A y \in T : ~(y < t)
    BY <2>3, <1>1 DEF OpToRel
  <2> HIDE DEF R, T
  <2> QED
    BY <2>4
<1>5. PICK t \in T : \A y \in T : ~(y < t)
  BY <1>4
<1>6. PICK m \in S : t = n - m
  BY <1>5
<1>7. ASSUME NEW x \in S PROVE x <= m
  <2>1. ~(n - x < n - m)
    BY <1>5, <1>6, <1>2
  <2> QED
    BY <2>1
<1> QED
  BY <1>7

-----------------------------------------------------------------------------
RobWindow == Window(robRead, robWrite, ROB_DEPTH)

(* The tag that stage 2 dispatches to is one of the ROB.                   *)
LEMMA RobSlotTypes ==
  ASSUME RobTypeOK
  PROVE  /\ RobBottom \in RobTags
         /\ RobTop \in RobTags
         /\ RobHead \in RobEntry
BY SizeAssumption, PointerTypes DEF RobTypeOK, RobBottom, RobTop, RobHead, RobTags

(* A clock edge leaves the queue and its pointers in their ranges.          *)
LEMMA RobClockTypes ==
  ASSUME RobTypeOK, NEW fires \in BOOLEAN,
         NEW new, new.kind \in Kinds, new.rd \in ArchRegs, new.rs \in ArchRegs,
         new.rw \in BOOLEAN, new.phy \in PhyRegs, new.src \in PhyRegs,
         new.prev \in PhyRegs,
         NEW cdb, cdb.tag \in RobTags, cdb.valid \in BOOLEAN, cdb.flush \in BOOLEAN,
         NEW mem, RobClock(fires, new, cdb, mem)
  PROVE  RobTypeOK'
<1>1. /\ Succ(robRead, ROB_DEPTH) \in Pointers(ROB_DEPTH)
      /\ Succ(robWrite, ROB_DEPTH) \in Pointers(ROB_DEPTH)
  BY SizeAssumption, PointerTypes DEF RobTypeOK
<1>2. Succ(FlushPtr(cdb.tag), ROB_DEPTH) \in Pointers(ROB_DEPTH)
  <2>1. FlushPtr(cdb.tag) \in Pointers(ROB_DEPTH)
    BY SizeAssumption DEF FlushPtr, RobTags, Pointers
  <2> QED
    BY <2>1, SizeAssumption, PointerTypes
<1>3. robRead' \in Pointers(ROB_DEPTH) /\ robWrite' \in Pointers(ROB_DEPTH)
  BY <1>1, <1>2 DEF RobClock, RobTypeOK
<1> DEFINE entry == [kind |-> new.kind, rd |-> new.rd, rs |-> new.rs, rw |-> new.rw,
              curr |-> IF new.kind = "STORE" THEN new.src ELSE new.phy,
              prev |-> new.prev, compl |-> new.kind \in RobOnlyKinds]
           appended == IF fires /\ ~RobFull
                         THEN [rob EXCEPT ![RobBottom] = entry] ELSE rob
<1>4. appended \in [RobTags -> RobEntry]
  <2>1. entry \in RobEntry
    BY DEF RobEntry
  <2> HIDE DEF entry
  <2> QED
    BY <2>1 DEF RobTypeOK
<1>5. rob' = IF cdb.valid THEN [appended EXCEPT ![cdb.tag].compl = TRUE]
             ELSE appended
  BY DEF RobClock
<1>6. rob' \in [RobTags -> RobEntry]
  <2> HIDE DEF appended
  <2> QED
    BY <1>4, <1>5 DEF RobEntry
<1> QED
  BY <1>3, <1>6 DEF RobTypeOK

(* The flush pointer that ROB.sv computes from a tag and the position of   *)
(* its write pointer is the place of the tagged entry.                     *)
LEMMA FlushPtrLive ==
  ASSUME RobTypeOK, RobCount <= ROB_DEPTH, NEW tag \in LiveTags
  PROVE  FlushPtr(tag) \in RobWindow /\ Slot(FlushPtr(tag), ROB_DEPTH) = tag
<1>1. PICK p \in RobWindow : tag = Slot(p, ROB_DEPTH)
  BY DEF LiveTags, RobWindow
<1> QED
  BY <1>1, SizeAssumption
     DEF FlushPtr, RobWindow, Window, Slot, Dist, Pointers, RobTypeOK, RobCount,
         RobBottom

(* The head of a ROB that is not empty is one of its places.               *)
LEMMA HeadInWindow ==
  ASSUME RobTypeOK, ~RobEmpty
  PROVE  robRead \in RobWindow
BY SizeAssumption DEF RobTypeOK, RobEmpty, IsEmpty, RobWindow, Window, Dist, Pointers


-----------------------------------------------------------------------------
(* Tags and their distance from the head: a tag is known by its depth, and *)
(* the occupied entries are those whose depth is below the number of       *)
(* entries.                                                                *)
LEMMA DepthFacts ==
  ASSUME RobTypeOK, RobCount <= ROB_DEPTH
  PROVE  /\ RobCount \in 0 .. ROB_DEPTH
         /\ \A t \in RobTags : Depth(t) \in 0 .. ROB_DEPTH - 1
         /\ \A s, t \in RobTags : Depth(s) = Depth(t) => s = t
         /\ LiveTags = {t \in RobTags : Depth(t) < RobCount}
         /\ RobTop \in RobTags /\ Depth(RobTop) = 0
         /\ RobBottom \in RobTags
         /\ RobCount < ROB_DEPTH => Depth(RobBottom) = RobCount
         /\ RobEmpty <=> RobCount = 0
         /\ RobFull <=> RobCount = ROB_DEPTH
<1>1. /\ robRead \in Pointers(ROB_DEPTH) /\ robWrite \in Pointers(ROB_DEPTH)
      /\ ROB_DEPTH \in Nat \ {0, 1}
      /\ RobCount = Dist(robWrite, robRead, ROB_DEPTH)
  BY SizeAssumption DEF RobTypeOK, RobCount
<1>2. RobCount \in 0 .. ROB_DEPTH
  BY <1>1 DEF Dist, Pointers
<1>3. /\ \A t \in RobTags : Depth(t) \in 0 .. ROB_DEPTH - 1
      /\ \A s, t \in RobTags : Depth(s) = Depth(t) => s = t
  BY <1>1 DEF RobTags, Depth, RobTop, Slot, Pointers
<1>4. LiveTags = {t \in RobTags : Depth(t) < RobCount}
  <2>1. ASSUME NEW t \in LiveTags PROVE t \in RobTags /\ Depth(t) < RobCount
    <3>1. PICK p \in Window(robRead, robWrite, ROB_DEPTH) : t = Slot(p, ROB_DEPTH)
      BY DEF LiveTags
    <3> QED
      BY <3>1, <1>1, <1>2 DEF Window, Slot, Dist, Pointers, RobTags, Depth, RobTop
  <2>2. ASSUME NEW t \in RobTags, Depth(t) < RobCount PROVE t \in LiveTags
    <3> DEFINE p == Ahead(robRead, Depth(t), ROB_DEPTH)
    <3>1. p \in Window(robRead, robWrite, ROB_DEPTH) /\ Slot(p, ROB_DEPTH) = t
      BY <2>2, <1>1, <1>2
         DEF Ahead, Window, Slot, Dist, Pointers, RobTags, Depth, RobTop
    <3> QED
      BY <3>1 DEF LiveTags
  <2> QED
    BY <2>1, <2>2
<1>5. /\ RobTop \in RobTags /\ Depth(RobTop) = 0
      /\ RobBottom \in RobTags
      /\ RobCount < ROB_DEPTH => Depth(RobBottom) = RobCount
  BY <1>1 DEF Dist, Pointers, RobTop, RobBottom, RobTags, Slot, Depth
<1>6. /\ RobEmpty <=> RobCount = 0
      /\ RobFull <=> RobCount = ROB_DEPTH
  BY <1>1, <1>2, WindowSize DEF RobEmpty, RobFull
<1> QED
  BY <1>2, <1>3, <1>4, <1>5, <1>6

(* One clock edge in numbers, when no trap commits.  The head leaves if it *)
(* commits; a flush keeps the entries up to its branch, and otherwise the  *)
(* dispatched instruction joins.                                           *)
RobOut(mem) == IF Commits(mem) THEN 1 ELSE 0
RobKept(fires, cdb) == IF cdb.flush THEN Depth(cdb.tag) + 1
                       ELSE IF fires THEN RobCount + 1 ELSE RobCount

(* One clock edge of the ROB in numbers: the head leaves or not, a flush   *)
(* cuts the tail, and all distances from the head shift together.          *)
LEMMA RobClockCounts ==
  ASSUME RobTypeOK, RobCount <= ROB_DEPTH,
         NEW fires \in BOOLEAN, fires => RobCount < ROB_DEPTH,
         NEW new, NEW mem, ~TrapCommit(mem),
         NEW cdb, cdb.flush \in BOOLEAN,
         cdb.flush => cdb.tag \in LiveTags /\ ~rob[cdb.tag].compl /\ ~fires,
         RobClock(fires, new, cdb, mem)
  PROVE  /\ RobOut(mem) \in {0, 1}
         /\ RobOut(mem) = 1 => RobCount > 0 /\ rob[RobTop].compl
         /\ RobKept(fires, cdb) \in RobOut(mem) .. ROB_DEPTH
         /\ RobCount' = RobKept(fires, cdb) - RobOut(mem)
         /\ \A t \in RobTags : Depth(t) >= RobOut(mem) =>
                                 Depth(t)' = Depth(t) - RobOut(mem)
         /\ \A t \in RobTags : Depth(t) < RobOut(mem) => Depth(t)' = ROB_DEPTH - 1
<1> DEFINE D == ROB_DEPTH
           c == RobOut(mem)
           m == RobKept(fires, cdb)
<1>1. /\ robRead \in Pointers(D) /\ robWrite \in Pointers(D) /\ D \in Nat \ {0, 1}
      /\ RobCount = Dist(robWrite, robRead, D) /\ RobCount \in 0 .. D
      /\ RobEmpty <=> RobCount = 0
      /\ RobFull <=> RobCount = D
  BY DepthFacts, SizeAssumption DEF RobTypeOK, RobCount
<1>2. /\ robRead' = IF Commits(mem) THEN Succ(robRead, D) ELSE robRead
      /\ robWrite' = IF cdb.flush THEN Succ(FlushPtr(cdb.tag), D)
                     ELSE IF fires /\ ~RobFull THEN Succ(robWrite, D)
                     ELSE robWrite
  BY DEF RobClock
<1>3. c \in {0, 1} /\ (c = 1 <=> Commits(mem)) /\ (c = 1 => RobCount > 0)
  BY <1>1 DEF RobOut, Commits
<1>4. c = 1 => rob[RobTop].compl
  BY DEF RobOut, Commits, RobHead
<1>5. cdb.flush => /\ FlushPtr(cdb.tag) \in Window(robRead, robWrite, D)
                   /\ m = Dist(FlushPtr(cdb.tag), robRead, D) + 1
                   /\ m \in 1 .. RobCount
                   /\ c = 1 => m > 1
  <2> SUFFICES ASSUME cdb.flush
               PROVE  /\ FlushPtr(cdb.tag) \in Window(robRead, robWrite, D)
                      /\ m = Dist(FlushPtr(cdb.tag), robRead, D) + 1
                      /\ m \in 1 .. RobCount
                      /\ c = 1 => m > 1
    OBVIOUS
  <2>1. /\ FlushPtr(cdb.tag) \in Window(robRead, robWrite, D)
        /\ Slot(FlushPtr(cdb.tag), D) = cdb.tag
    BY FlushPtrLive DEF RobWindow
  <2>2. m = Depth(cdb.tag) + 1
    BY DEF RobKept
  <2>3. Depth(cdb.tag) = Dist(FlushPtr(cdb.tag), robRead, D)
    BY <2>1, <1>1 DEF Window, Dist, Pointers, Depth, RobTop, Slot
  <2>4. m \in 1 .. RobCount
    BY <2>1, <2>2, <2>3, <1>1 DEF Window, Dist, Pointers
  <2>5. c = 1 => cdb.tag # RobTop
    BY <1>4
  <2>6. c = 1 => Depth(cdb.tag) # 0
    <3>1. cdb.tag \in RobTags
      BY DepthFacts
    <3> QED
      BY <2>5, <3>1, DepthFacts
  <2>7. Depth(cdb.tag) \in 0 .. D - 1
    BY DepthFacts
  <2>8. c = 1 => m > 1
    <3> HIDE DEF c, m
    <3> QED
      BY <2>2, <2>6, <2>7, <1>1
  <2> HIDE DEF c, m
  <2> QED
    BY <2>1, <2>2, <2>3, <2>4, <2>8
<1>6. ~cdb.flush => m = IF fires THEN RobCount + 1 ELSE RobCount
  BY DEF RobKept
<1> HIDE DEF c, m
<1>7. m \in c .. D
  BY <1>1, <1>3, <1>5, <1>6
<1>8. RobCount' = m - c
  <2>1. RobCount' = Dist(robWrite', robRead', D)
    BY DEF RobCount
  <2>2. CASE cdb.flush
    <3>1. robWrite' = Succ(FlushPtr(cdb.tag), D)
      BY <2>2, <1>2
    <3> QED
      BY <3>1, <2>1, <2>2, <1>1, <1>2, <1>3, <1>5 DEF Dist, Succ, Window, Pointers
  <2>3. CASE ~cdb.flush
    <3>1. robWrite' = IF fires THEN Succ(robWrite, D) ELSE robWrite
      BY <2>3, <1>1, <1>2
    <3> QED
      BY <3>1, <2>1, <2>3, <1>1, <1>2, <1>3, <1>6, <1>7 DEF Dist, Succ, Pointers
  <2> QED
    BY <2>2, <2>3
<1>9. ASSUME NEW t \in RobTags
      PROVE  Depth(t)' = IF Depth(t) >= c THEN Depth(t) - c ELSE D - 1
  <2>1. /\ robRead' = IF c = 1 THEN Succ(robRead, D) ELSE robRead
        /\ Depth(t)' = IF t >= Slot(robRead', D) THEN t - Slot(robRead', D)
                       ELSE t + D - Slot(robRead', D)
    BY <1>2, <1>3 DEF Depth, RobTop
  <2> QED
    BY <2>1, <1>1, <1>3 DEF RobTags, Pointers, Succ, Slot, Depth, RobTop
<1>10. \A t \in RobTags : /\ Depth(t) >= c => Depth(t)' = Depth(t) - c
                          /\ Depth(t) < c => Depth(t)' = D - 1
  <2> TAKE t \in RobTags
  <2>1. Depth(t) \in 0 .. D - 1
    BY DepthFacts
  <2> QED
    BY <2>1, <1>3, <1>9
<1> QED
  BY <1>3, <1>4, <1>7, <1>8, <1>10 DEF c, m

-----------------------------------------------------------------------------
(* The compaction of the load/store buffer: the entries that stay are      *)
(* numbered in order and without gaps.                                     *)
LEMMA KeepCounts ==
  ASSUME NEW stays
  PROVE  /\ KeepCount(0, stays) = 0
         /\ \A n \in Nat :
              /\ KeepCount(n, stays) \in Nat /\ KeepCount(n + 1, stays) \in Nat
              /\ KeepCount(n, stays) <= KeepCount(n + 1, stays)
              /\ KeepCount(n + 1, stays) <= KeepCount(n, stays) + 1
              /\ n + 1 \in stays => KeepCount(n + 1, stays) = KeepCount(n, stays) + 1
              /\ n + 1 \notin stays => KeepCount(n + 1, stays) = KeepCount(n, stays)
<1> DEFINE K(n) == {j \in 1 .. n : j \in stays}
<1>1. ASSUME NEW n \in Nat PROVE IsFiniteSet(K(n))
  <2>1. IsFiniteSet(1 .. n) /\ K(n) \in SUBSET (1 .. n)
    BY FS_Interval
  <2> HIDE DEF K
  <2> QED
    BY <2>1, FS_Subset
<1>2. KeepCount(0, stays) = 0
  <2>1. K(0) = {}
    OBVIOUS
  <2> QED
    BY <2>1, FS_EmptySet DEF KeepCount
<1>3. ASSUME NEW n \in Nat
      PROVE  /\ KeepCount(n, stays) \in Nat /\ KeepCount(n + 1, stays) \in Nat
             /\ KeepCount(n, stays) <= KeepCount(n + 1, stays)
             /\ KeepCount(n + 1, stays) <= KeepCount(n, stays) + 1
             /\ n + 1 \in stays => KeepCount(n + 1, stays) = KeepCount(n, stays) + 1
             /\ n + 1 \notin stays => KeepCount(n + 1, stays) = KeepCount(n, stays)
  <2>1. Cardinality(K(n)) \in Nat
    <3> HIDE DEF K
    <3> QED
      BY <1>1, FS_CardinalityType
  <2>2. CASE n + 1 \in stays
    <3>1. K(n + 1) = K(n) \cup {n + 1} /\ n + 1 \notin K(n)
      BY <2>2
    <3>2. Cardinality(K(n + 1)) = Cardinality(K(n)) + 1
      <4> HIDE DEF K
      <4> QED
        BY <3>1, <1>1, FS_AddElement
    <3> QED
      BY <2>1, <2>2, <3>2 DEF KeepCount
  <2>3. CASE n + 1 \notin stays
    <3>1. K(n + 1) = K(n)
      BY <2>3
    <3>2. KeepCount(n + 1, stays) = Cardinality(K(n + 1))
      BY DEF KeepCount
    <3>3. KeepCount(n, stays) = Cardinality(K(n))
      BY DEF KeepCount
    <3> HIDE DEF K
    <3> QED
      BY <2>1, <2>3, <3>1, <3>2, <3>3
  <2> QED
    BY <2>2, <2>3
<1> QED
  BY <1>2, <1>3

(* Entries that stay keep their order: a later one has a greater count.    *)
LEMMA KeepOrder ==
  ASSUME NEW stays, NEW i \in Nat, NEW j \in Nat, i < j, j \in stays
  PROVE  KeepCount(i, stays) < KeepCount(j, stays)
<1> DEFINE C(n) == KeepCount(n, stays)
           S == {d \in Nat : C(i) <= C(i + d)}
<1>1. /\ \A n \in Nat : C(n) \in Nat /\ C(n) <= C(n + 1)
      /\ \A n \in Nat : n + 1 \in stays => C(n) < C(n + 1)
  <2>1. ASSUME NEW n \in Nat
        PROVE  /\ C(n) \in Nat /\ C(n) <= C(n + 1)
               /\ n + 1 \in stays => C(n + 1) = C(n) + 1
    BY KeepCounts, Zenon
  <2> HIDE DEF C
  <2> QED
    BY <2>1
<1> HIDE DEF C
<1>2. \A d \in Nat : d \in S
  <2>1. 0 \in S
    BY <1>1
  <2>2. ASSUME NEW n \in Nat, n \in S PROVE n + 1 \in S
    <3> DEFINE x == i + n
    <3>1. x \in Nat /\ i + (n + 1) = x + 1 /\ C(i) <= C(x)
      BY <2>2
    <3> HIDE DEF x
    <3>2. C(i) \in Nat /\ C(x) \in Nat /\ C(x + 1) \in Nat /\ C(x) <= C(x + 1)
      BY <3>1, <1>1
    <3> QED
      BY <3>1, <3>2
  <2> HIDE DEF S
  <2> QED
    BY <2>1, <2>2, NatSetInduction
<1>3. C(i) <= C(j - 1)
  <2> DEFINE d == j - 1 - i
  <2>1. d \in Nat /\ i + d = j - 1
    OBVIOUS
  <2> HIDE DEF d
  <2> QED
    BY <2>1, <1>2
<1>4. C(j - 1) < C(j) /\ C(i) \in Nat /\ C(j - 1) \in Nat /\ C(j) \in Nat
  <2> DEFINE k == j - 1
  <2>1. k \in Nat /\ j = k + 1
    OBVIOUS
  <2> HIDE DEF k
  <2> QED
    BY <2>1, <1>1
<1> QED
  BY <1>3, <1>4 DEF C

(* Every position of the compacted buffer is the count of exactly the      *)
(* entry that moves there.                                                 *)
LEMMA KeepOnto ==
  ASSUME NEW stays, NEW n \in Nat, NEW k \in 1 .. KeepCount(n, stays)
  PROVE  \E i \in 1 .. n : i \in stays /\ KeepCount(i, stays) = k
<1> DEFINE C(m) == KeepCount(m, stays)
           S == {m \in Nat : \A x \in 1 .. C(m) :
                               \E i \in 1 .. m : i \in stays /\ C(i) = x}
<1>1. /\ C(0) = 0
      /\ \A m \in Nat : /\ C(m) \in Nat
                        /\ m + 1 \in stays => C(m + 1) = C(m) + 1
                        /\ m + 1 \notin stays => C(m + 1) = C(m)
  BY KeepCounts
<1> HIDE DEF C
<1>2. 0 \in S
  BY <1>1
<1>3. ASSUME NEW m \in Nat, m \in S PROVE m + 1 \in S
  <2> SUFFICES ASSUME NEW x \in 1 .. C(m + 1)
               PROVE  \E i \in 1 .. m + 1 : i \in stays /\ C(i) = x
    OBVIOUS
  <2>1. CASE x \in 1 .. C(m)
    <3>1. PICK i \in 1 .. m : i \in stays /\ C(i) = x
      BY <2>1, <1>3
    <3>2. i \in 1 .. m + 1
      OBVIOUS
    <3> QED
      BY <3>1, <3>2
  <2>2. CASE x \notin 1 .. C(m)
    <3>1. m + 1 \in stays /\ C(m + 1) = x
      BY <2>2, <1>1
    <3> QED
      BY <3>1
  <2> QED
    BY <2>1, <2>2
<1>4. n \in S
  <2> HIDE DEF S
  <2> QED
    BY <1>2, <1>3, NatSetInduction
<1> QED
  BY <1>4 DEF C

(* What the compacted buffer holds.                                        *)
LEMMA CompactedFacts ==
  ASSUME NEW E, NEW s \in Seq(E), NEW stays \in SUBSET DOMAIN s
  PROVE  /\ Compacted(s, stays) \in Seq(E)
         /\ Len(Compacted(s, stays)) = KeepCount(Len(s), stays)
         /\ Len(Compacted(s, stays)) <= Len(s)
         /\ \A k \in DOMAIN Compacted(s, stays) :
              \E i \in DOMAIN s : /\ i \in stays /\ KeepCount(i, stays) = k
                                    /\ Compacted(s, stays)[k] = s[i]
         /\ \A i \in DOMAIN s : i \in stays =>
              /\ KeepCount(i, stays) \in DOMAIN Compacted(s, stays)
              /\ Compacted(s, stays)[KeepCount(i, stays)] = s[i]
<1> DEFINE n == Len(s)
           C(i) == KeepCount(i, stays)
           pick(k) == CHOOSE i \in stays : C(i) = k
<1>1. n \in Nat /\ DOMAIN s = 1 .. n /\ \A i \in 1 .. n : s[i] \in E
  OBVIOUS
<1>2. \A i \in Nat : C(i) \in Nat
  BY KeepCounts
<1>3. ASSUME NEW k \in 1 .. C(n)
      PROVE  pick(k) \in 1 .. n /\ pick(k) \in stays /\ C(pick(k)) = k
  <2>1. \E i \in 1 .. n : i \in stays /\ C(i) = k
    BY KeepOnto, <1>1
  <2> QED
    BY <2>1, <1>1
<1>4. Compacted(s, stays) = [k \in 1 .. C(n) |-> s[pick(k)]]
  BY DEF Compacted
<1> HIDE DEF C, pick, n
<1>5. \A k \in 1 .. C(n) : s[pick(k)] \in E
  BY <1>1, <1>3
<1>6. /\ Compacted(s, stays) \in Seq(E)
      /\ Len(Compacted(s, stays)) = C(n)
      /\ DOMAIN Compacted(s, stays) = 1 .. C(n)
  <2> DEFINE m == C(n)
             f == [k \in 1 .. m |-> s[pick(k)]]
  <2>1. m \in Nat
    BY <1>1, <1>2
  <2>2. f \in [1 .. m -> E]
    BY <1>5
  <2> HIDE DEF m
  <2>3. f \in Seq(E) /\ Len(f) = m /\ DOMAIN f = 1 .. m
    <3> HIDE DEF f
    <3> QED
      BY <2>1, <2>2
  <2> QED
    BY <2>3, <1>4 DEF m
<1>7. ASSUME NEW i \in 1 .. n, i \in stays
      PROVE  C(i) \in 1 .. C(n) /\ pick(C(i)) = i
  <2>1. C(0) = 0 /\ C(0) < C(i)
    BY <1>7, <1>1, KeepOrder, KeepCounts DEF C
  <2>2. C(i) <= C(n)
    <3>1. CASE i = n
      BY <3>1, <1>1, <1>2
    <3>2. CASE i < n
      <4> DEFINE S == {d \in Nat : C(i) <= C(i + d)}
      <4>1. \A m \in Nat : C(m) <= C(m + 1)
        BY KeepCounts DEF C
      <4>2. \A d \in Nat : d \in S
        <5>1. 0 \in S
          BY <1>2
        <5>2. ASSUME NEW d \in Nat, d \in S PROVE d + 1 \in S
          <6> DEFINE x == i + d
          <6>1. x \in Nat /\ i + (d + 1) = x + 1 /\ C(i) <= C(x)
            BY <5>2
          <6> HIDE DEF x
          <6>2. C(i) \in Nat /\ C(x) \in Nat /\ C(x + 1) \in Nat /\ C(x) <= C(x + 1)
            BY <6>1, <1>2, <4>1
          <6> QED
            BY <6>1, <6>2
        <5> HIDE DEF S
        <5> QED
          BY <5>1, <5>2, NatSetInduction
      <4> DEFINE d == n - i
      <4>3. d \in Nat /\ i + d = n
        BY <1>1
      <4> HIDE DEF d
      <4> QED
        BY <4>2, <4>3
    <3> QED
      BY <3>1, <3>2, <1>1
  <2>3. C(i) \in 1 .. C(n)
    BY <2>1, <2>2, <1>1, <1>2
  <2>4. \A j \in 1 .. n : j \in stays /\ C(j) = C(i) => j = i
    <3> TAKE j \in 1 .. n
    <3>1. j < i => C(j) < C(i)
      BY <1>7, <1>1, KeepOrder DEF C
    <3>2. i < j /\ j \in stays => C(i) < C(j)
      BY <1>1, KeepOrder DEF C
    <3>3. C(i) \in Nat /\ C(j) \in Nat
      BY <1>2, <1>1
    <3> QED
      BY <3>1, <3>2, <3>3, <1>1
  <2> DEFINE k == C(i)
  <2>5. k \in 1 .. C(n)
    BY <2>3
  <2> HIDE DEF k
  <2>6. pick(k) \in 1 .. n /\ pick(k) \in stays /\ C(pick(k)) = k
    BY <2>5, <1>3
  <2> QED
    BY <2>3, <2>4, <2>6 DEF k
<1>8. C(n) <= n
  <2> DEFINE S == {m \in Nat : C(m) <= m}
  <2>1. 0 \in S
    BY KeepCounts DEF C
  <2>2. ASSUME NEW m \in Nat, m \in S PROVE m + 1 \in S
    <3>1. C(m) \in Nat /\ C(m + 1) \in Nat /\ C(m + 1) <= C(m) + 1
      BY KeepCounts DEF C
    <3> QED
      BY <2>2, <3>1
  <2>3. \A m \in Nat : m \in S
    <3> HIDE DEF S
    <3> QED
      BY <2>1, <2>2, NatSetInduction
  <2> QED
    BY <2>3, <1>1
<1>9. \A k \in 1 .. C(n) : Compacted(s, stays)[k] = s[pick(k)]
  BY <1>4
<1> QED
  <2>1. \A k \in 1 .. C(n) :
          \E i \in 1 .. n : i \in stays /\ C(i) = k /\ Compacted(s, stays)[k] = s[i]
    BY <1>3, <1>9
  <2>2. \A i \in 1 .. n : i \in stays =>
          C(i) \in 1 .. C(n) /\ Compacted(s, stays)[C(i)] = s[i]
    BY <1>7, <1>9
  <2> QED
    BY <2>1, <2>2, <1>1, <1>6, <1>8 DEF C, n

=============================================================================
