------------------------- MODULE MemoryOrderProofs -------------------------
(***************************************************************************)
(* The path of loads and stores, for every size of its buffers: it keeps   *)
(* its types, every access is in one place, answers of the cache are       *)
(* always taken, no load passes a fence, and memory gets the stores in     *)
(* program order.  While the address buffer has room for every store it    *)
(* knows exactly the stores on their way, loads count the younger of them  *)
(* exactly, and every load reads what the program order wants.             *)
(***************************************************************************)
EXTENDS MemoryOrderProperties, ReorderBufferProofs, SequenceTheorems

-----------------------------------------------------------------------------
(* The parts of one cycle, by name.                                        *)
Status == [sbFull |-> SbFull, sbDrained |-> SbDrained, cohDone |-> TRUE]
Fires(offer, cdb) == offer.kind # "NONE" /\ ~cdb.flush
ToQueue(offer, cdb) == Fires(offer, cdb) /\ offer.kind \in {"LOAD", "STORE"}
ToRob(offer) == [kind |-> offer.kind, rd |-> 0, rs |-> 0, rw |-> FALSE, phy |-> 0,
                 src |-> 0, prev |-> 0]
StoreCommits == Commits(Status) /\ RobHead.kind = "STORE"

(* Proved by expanding the cycle.                                          *)
LEMMA CycleParts ==
  ASSUME NEW offer, NEW calc, NEW cdb, NEW done, Cycle(offer, calc, cdb, done)
  PROVE  /\ RobClock(Fires(offer, cdb), ToRob(offer), cdb, Status)
         /\ memOp' = IF ToQueue(offer, cdb)
                       THEN [memOp EXCEPT ![RobBottom] = Operand(offer.kind, offer.addr)]
                     ELSE memOp
         /\ LsqClock(cdb, calc, Leaving(cdb), ToQueue(offer, cdb), RobBottom)
         /\ SabClock(cdb, Leaving(cdb))
         /\ SbClock(StoreCommits, memOp[RobTop], RobTop, StoreTaken(Leaving(cdb)),
                    StoreAnswered)
         /\ LsbClock(cdb, Leaving(cdb))
         /\ PortClock(Accepted(Leaving(cdb)), done, respReady)
  BY DEF Cycle, Status, Fires, ToQueue, ToRob, StoreCommits

-----------------------------------------------------------------------------
(* The invariant, part by part.                                            *)
LiveKinds == MemoryKinds \cup {"BRANCH", "FENCE"}

(* An access that has not completed.                                       *)
Pending(t) == t \in LiveTags /\ rob[t].kind \in MemoryKinds /\ ~rob[t].compl

(* The ROB holds the four kinds, and every access has its address.         *)
FlightInv ==
  /\ RobCount <= ROB_DEPTH
  /\ \A t \in LiveTags : /\ rob[t].kind \in LiveKinds
                         /\ rob[t].kind \in MemoryKinds => memOp[t].addr \in Addrs

(* The queue holds accesses that have not completed, each once.            *)
QueueInv ==
  /\ \A i \in LsqSlots : lsq[i].valid => Pending(lsq[i].tag)
  /\ \A i, j \in LsqSlots :
       lsq[i].valid /\ lsq[j].valid /\ lsq[i].tag = lsq[j].tag => i = j

(* So do the load slot and the buffer, and none that is still in the queue.*)
LsbInv ==
  /\ lw.valid => Pending(lw.tag) /\ rob[lw.tag].kind = "LOAD" /\ LeftQueue(lw.tag)
  /\ \A k \in DOMAIN lsb : /\ Pending(lsb[k].tag) /\ LeftQueue(lsb[k].tag)
                           /\ lw.valid => lsb[k].tag # lw.tag
  /\ \A k, l \in DOMAIN lsb : lsb[k].tag = lsb[l].tag => k = l

(* The store the cache works on is the oldest of the store buffer.         *)
Writing == cache.st \in {"WRITE", "WRESP"}
SbOldest == sbArray[Slot(sbTrail, SB_DEPTH)]
SbCount == Dist(sbWrite, sbTrail, SB_DEPTH)
SbInv ==
  /\ SbCount <= SB_DEPTH
  /\ sbLead = IF Writing THEN Succ(sbTrail, SB_DEPTH) ELSE sbTrail
  /\ Writing => /\ sbWrite # sbTrail
                /\ cache.addr = SbOldest.addr /\ cache.val = SbOldest.val
  /\ \A s \in SbLive : sbArray[s].addr \in Addrs
  /\ cache.st # "IDLE" => cache.addr \in Addrs

PathInv == TypeOK /\ FlightInv /\ QueueInv /\ LsbInv /\ SbInv

-----------------------------------------------------------------------------
(* What the inputs of a cycle may be.                                      *)
LEMMA OfferFacts ==
  ASSUME NEW offer \in Offers
  PROVE  \/ offer = NoOffer
         \/ /\ offer.kind \in LiveKinds /\ ~RobFull
            /\ offer.kind \in MemoryKinds => LsqVacant # {} /\ offer.addr \in Addrs
            /\ offer.kind = "STORE" => StoresInFlight < MAX_STORES
            /\ \E m \in Mixes : KindsInFlight \cup {offer.kind} \subseteq m
  BY DEF Offers, Dispatchable, LiveKinds, MemoryKinds

(* A broadcast completes a branch or the head of the buffer; a flush is    *)
(* the first of these.                                                     *)
LEMMA BroadcastFacts ==
  ASSUME TypeOK, FlightInv, LsbInv, NEW cdb \in Broadcasts
  PROVE  /\ cdb.tag \in RobTags
         /\ cdb.valid \in BOOLEAN /\ cdb.flush \in BOOLEAN /\ cdb.rw \in BOOLEAN
         /\ cdb.flush => cdb.valid /\ ~cdb.rw /\ cdb.tag \in Branches /\ MayFlush(cdb.tag)
         /\ cdb.rw => /\ cdb.valid /\ ~cdb.flush /\ lsb # <<>> /\ 1 \in DOMAIN lsb
                      /\ cdb.tag = lsb[1].tag
         /\ cdb.valid => cdb.tag \in LiveTags /\ ~rob[cdb.tag].compl
         /\ cdb.valid /\ ~cdb.rw => cdb.tag \in Branches
<1>1. 0 \in RobTags /\ LiveTags \subseteq RobTags /\ Branches \subseteq LiveTags
  BY DepthFacts, SizeAssumption DEF TypeOK, FlightInv, RobTags, Branches
<1>2. CASE cdb = NoBroadcast
  BY <1>1, <1>2 DEF NoBroadcast
<1>3. CASE cdb \in [valid : {TRUE}, tag : Branches, flush : {FALSE}, rw : {FALSE}]
  BY <1>1, <1>3 DEF Branches
<1>4. CASE cdb \in [valid : {TRUE}, tag : {b \in Branches : MayFlush(b)},
                    flush : {TRUE}, rw : {FALSE}]
  BY <1>1, <1>4 DEF Branches
<1>5. CASE /\ lsb # <<>>
           /\ cdb = [valid |-> TRUE, tag |-> Head(lsb).tag, flush |-> FALSE, rw |-> TRUE]
  <2>1. lsb # <<>> /\ 1 \in DOMAIN lsb /\ Head(lsb) = lsb[1]
    BY <1>5 DEF TypeOK
  <2>2. Pending(lsb[1].tag)
    BY <2>1 DEF LsbInv
  <2> QED
    BY <1>1, <1>5, <2>1, <2>2 DEF Pending
<1> QED
  BY <1>2, <1>3, <1>4, <1>5 DEF Broadcasts

-----------------------------------------------------------------------------
(* The instructions of the ROB that are still there after a cycle.         *)
Survivors(cdb) ==
  {t \in LiveTags : ~Flushed(t, cdb) /\ ~(Commits(Status) /\ t = RobTop)}

(* The facts about depths, after a step.                                   *)
DepthsOfLive ==
  RobTypeOK /\ RobCount <= ROB_DEPTH => LiveTags = {t \in RobTags : Depth(t) < RobCount}

(* DepthFacts in that form, and of the next state.                         *)
LEMMA DepthFactsNow == DepthsOfLive
  BY DepthFacts DEF DepthsOfLive

(* The live tags of the next state are those closer than its count.        *)
LEMMA DepthFactsNext ==
  ASSUME RobTypeOK', RobCount' <= ROB_DEPTH
  PROVE  LiveTags' = {t \in RobTags : Depth(t)' < RobCount'}
<1>1. DepthsOfLive'
  BY DepthFactsNow, PTL
<1> QED
  BY <1>1 DEF DepthsOfLive

(* What is dispatched has the type of an instruction.                      *)
LEMMA EntryTypes ==
  ASSUME NEW offer \in Offers, NEW cdb, Fires(offer, cdb)
  PROVE  LET new == ToRob(offer)
         IN /\ new.kind \in Kinds /\ new.rd \in ArchRegs /\ new.rs \in ArchRegs
            /\ new.rw \in BOOLEAN /\ new.phy \in PhyRegs /\ new.src \in PhyRegs
            /\ new.prev \in PhyRegs
<1>1. offer.kind \in LiveKinds
  BY OfferFacts DEF Fires, NoOffer
<1>2. 0 \in ArchRegs /\ 0 \in PhyRegs
  BY SizeAssumption DEF ArchRegs, PhyRegs
<1> QED
  BY <1>1, <1>2 DEF ToRob, LiveKinds, MemoryKinds, Kinds

(* What one cycle does to the instructions in flight: who stays, who is    *)
(* new, and that their order does not change.                              *)
LEMMA FlightStep ==
  ASSUME PathInv,
         NEW offer \in Offers, NEW calc \in Calculable, NEW cdb \in Broadcasts,
         NEW done \in BOOLEAN, Cycle(offer, calc, cdb, done)
  PROVE  /\ LiveTags' = Survivors(cdb)
                          \cup (IF Fires(offer, cdb) THEN {RobBottom} ELSE {})
         /\ RobTypeOK' /\ RobCount' <= ROB_DEPTH
         /\ Fires(offer, cdb) => /\ RobBottom \notin LiveTags
                                 /\ Depth(RobBottom) = RobCount
                                 /\ RobCount < ROB_DEPTH
         /\ \A t \in LiveTags : Depth(t) < RobCount
         /\ Commits(Status) => RobTop \in LiveTags /\ rob[RobTop].compl
         /\ \A s, t \in LiveTags' : Depth(s)' < Depth(t)' <=> Depth(s) < Depth(t)
<1> DEFINE fires == Fires(offer, cdb)
           c == RobOut(Status)
           m == RobKept(fires, cdb)
<1>1. RobTypeOK /\ RobCount <= ROB_DEPTH
  BY DEF PathInv, TypeOK, FlightInv
<1>2. fires \in BOOLEAN /\ (fires => RobCount < ROB_DEPTH /\ ~cdb.flush)
  <2>1. offer # NoOffer => ~RobFull
    BY OfferFacts
  <2>2. RobCount \in Nat /\ ROB_DEPTH \in Nat /\ (RobFull <=> RobCount = ROB_DEPTH)
    BY <1>1, DepthFacts, SizeAssumption
  <2> QED
    BY <1>1, <2>1, <2>2 DEF Fires, NoOffer
<1>3. ~TrapCommit(Status)
  <2>1. SUFFICES ASSUME Commits(Status) PROVE RobHead.kind \in LiveKinds
    BY DEF TrapCommit, LiveKinds, MemoryKinds
  <2>2. RobTop \in LiveTags
    BY <1>1, <2>1, DepthFacts DEF Commits
  <2> QED
    BY <2>2 DEF PathInv, FlightInv, RobHead
<1>4. /\ cdb.flush \in BOOLEAN
      /\ cdb.flush => cdb.tag \in LiveTags /\ ~rob[cdb.tag].compl /\ ~fires
  BY <1>2, BroadcastFacts DEF PathInv, Branches
<1>5. RobClock(fires, ToRob(offer), cdb, Status)
  BY CycleParts
<1>6. /\ c \in {0, 1}
      /\ c = 1 => RobCount > 0 /\ rob[RobTop].compl
      /\ m \in c .. ROB_DEPTH
      /\ RobCount' = m - c
      /\ \A t \in RobTags : Depth(t) >= c => Depth(t)' = Depth(t) - c
      /\ \A t \in RobTags : Depth(t) < c => Depth(t)' = ROB_DEPTH - 1
  <2>1. PICK f, new, st : /\ f \in BOOLEAN /\ f = fires
                           /\ new = ToRob(offer) /\ st = Status
    BY <1>2
  <2>2. /\ f \in BOOLEAN /\ (f => RobCount < ROB_DEPTH)
        /\ ~TrapCommit(st)
        /\ cdb.flush => cdb.tag \in LiveTags /\ ~rob[cdb.tag].compl /\ ~f
        /\ RobClock(f, new, cdb, st)
    BY <2>1, <1>2, <1>3, <1>4, <1>5
  <2>3. /\ RobOut(st) \in {0, 1}
        /\ RobOut(st) = 1 => RobCount > 0 /\ rob[RobTop].compl
        /\ RobKept(f, cdb) \in RobOut(st) .. ROB_DEPTH
        /\ RobCount' = RobKept(f, cdb) - RobOut(st)
        /\ \A t \in RobTags : Depth(t) >= RobOut(st) => Depth(t)' = Depth(t) - RobOut(st)
        /\ \A t \in RobTags : Depth(t) < RobOut(st) => Depth(t)' = ROB_DEPTH - 1
    BY <1>1, <1>4, <2>2, RobClockCounts
  <2> QED
    BY <2>1, <2>3
<1>7. /\ RobCount \in 0 .. ROB_DEPTH
      /\ \A t \in RobTags : Depth(t) \in 0 .. ROB_DEPTH - 1
      /\ \A s, t \in RobTags : Depth(s) = Depth(t) => s = t
      /\ LiveTags = {t \in RobTags : Depth(t) < RobCount}
      /\ RobTop \in RobTags /\ Depth(RobTop) = 0
      /\ RobBottom \in RobTags
      /\ RobCount < ROB_DEPTH => Depth(RobBottom) = RobCount
      /\ RobEmpty <=> RobCount = 0
  BY <1>1, DepthFacts
<1>8. (c = 1 <=> Commits(Status)) /\ ROB_DEPTH \in Nat \ {0, 1}
  BY SizeAssumption DEF RobOut
<1>9. /\ cdb.flush => m = Depth(cdb.tag) + 1
      /\ ~cdb.flush => m = IF fires THEN RobCount + 1 ELSE RobCount
  BY DEF RobKept
<1>10. cdb.flush => Depth(cdb.tag) \in 0 .. RobCount - 1
  BY <1>4, <1>7
<1>11. RobTypeOK'
  <2>1. /\ cdb.tag \in RobTags /\ cdb.valid \in BOOLEAN /\ cdb.flush \in BOOLEAN
    BY BroadcastFacts DEF PathInv
  <2>2. CASE fires
    <3> DEFINE new == ToRob(offer)
    <3>1. /\ new.kind \in Kinds /\ new.rd \in ArchRegs /\ new.rs \in ArchRegs
          /\ new.rw \in BOOLEAN /\ new.phy \in PhyRegs /\ new.src \in PhyRegs
          /\ new.prev \in PhyRegs
      BY <2>2, EntryTypes
    <3>2. RobClock(fires, new, cdb, Status)
      BY <1>5
    <3> HIDE DEF new, fires
    <3> QED
      BY <1>1, <1>2, <2>1, <3>1, <3>2, RobClockTypes
  <2>3. CASE ~fires
    <3> DEFINE new == ToRob([kind |-> "LOAD"])
    <3>1. /\ new.kind \in Kinds /\ new.rd \in ArchRegs /\ new.rs \in ArchRegs
          /\ new.rw \in BOOLEAN /\ new.phy \in PhyRegs /\ new.src \in PhyRegs
          /\ new.prev \in PhyRegs
      BY SizeAssumption DEF ToRob, Kinds, ArchRegs, PhyRegs
    <3>2. RobClock(FALSE, new, cdb, Status)
      BY <1>5, <2>3 DEF RobClock
    <3> HIDE DEF new
    <3> QED
      BY <1>1, <2>1, <3>1, <3>2, RobClockTypes
  <2> QED
    BY <2>2, <2>3
<1>12. RobCount' <= ROB_DEPTH
  <2> HIDE DEF c, m
  <2> QED
    BY <1>6, <1>8
<1>13. LiveTags' = {t \in RobTags : Depth(t)' < RobCount'}
  BY <1>11, <1>12, DepthFactsNext
<1> HIDE DEF c, m, fires
<1>14. \A t \in RobTags : t \in LiveTags' <=> c <= Depth(t) /\ Depth(t) < m
  <2> TAKE t \in RobTags
  <2>1. Depth(t) \in 0 .. ROB_DEPTH - 1
    BY <1>7
  <2>2. CASE Depth(t) >= c
    <3>1. Depth(t)' = Depth(t) - c
      BY <1>6, <2>2
    <3> QED
      BY <2>1, <2>2, <3>1, <1>6, <1>13
  <2>3. CASE Depth(t) < c
    <3>1. Depth(t)' = ROB_DEPTH - 1 /\ RobCount' <= ROB_DEPTH - 1
      BY <1>6, <1>8, <2>1, <2>3
    <3> QED
      BY <2>1, <2>3, <3>1, <1>6, <1>8, <1>13
  <2> QED
    BY <2>1, <2>2, <2>3, <1>6
<1>15. \A t \in RobTags : t \in Survivors(cdb) <=>
         Depth(t) < RobCount /\ (cdb.flush => Depth(t) < m) /\ c <= Depth(t)
  <2> TAKE t \in RobTags
  <2>1. t = RobTop <=> Depth(t) = 0
    BY <1>7
  <2>2. t \in LiveTags <=> Depth(t) < RobCount
    BY <1>7
  <2>3. cdb.flush => (Flushed(t, cdb) <=> ~(Depth(t) < m))
    BY <1>7, <1>9, <1>10 DEF Flushed
  <2>4. ~cdb.flush => ~Flushed(t, cdb)
    BY DEF Flushed
  <2>5. Depth(t) \in 0 .. ROB_DEPTH - 1
    BY <1>7
  <2>6. c <= Depth(t) <=> ~(Commits(Status) /\ t = RobTop)
    BY <2>1, <2>5, <1>6, <1>8
  <2> QED
    BY <2>2, <2>3, <2>4, <2>6 DEF Survivors
<1>16. fires => Depth(RobBottom) = RobCount /\ RobBottom \notin LiveTags
  BY <1>2, <1>7
<1>17. ASSUME NEW t \in RobTags
       PROVE  t \in LiveTags' <=> t \in Survivors(cdb) \/ (fires /\ t = RobBottom)
  <2>0. Depth(t) \in 0 .. ROB_DEPTH - 1
    BY <1>7
  <2>1. fires => (t = RobBottom <=> Depth(t) = RobCount)
    BY <1>7, <1>16
  <2>2. CASE cdb.flush
    <3>1. m <= RobCount
      BY <1>7, <1>9, <1>10, <2>2
    <3> QED
      BY <2>0, <2>2, <3>1, <1>2, <1>6, <1>7, <1>14, <1>15
  <2>3. CASE ~cdb.flush /\ ~fires
    BY <2>0, <2>3, <1>7, <1>9, <1>14, <1>15
  <2>4. CASE ~cdb.flush /\ fires
    <3>1. m = RobCount + 1 /\ c <= RobCount
      BY <2>4, <1>6, <1>7, <1>9
    <3> QED
      BY <2>0, <2>1, <2>4, <3>1, <1>6, <1>7, <1>14, <1>15
  <2> QED
    BY <2>2, <2>3, <2>4, <1>4
<1>18. LiveTags' \subseteq RobTags /\ Survivors(cdb) \subseteq RobTags
  BY <1>7, <1>13 DEF Survivors
<1>19. LiveTags' = Survivors(cdb) \cup (IF fires THEN {RobBottom} ELSE {})
  BY <1>7, <1>17, <1>18
<1>20. \A s, t \in LiveTags' : Depth(s)' < Depth(t)' <=> Depth(s) < Depth(t)
  <2> TAKE s, t \in LiveTags'
  <2>1. /\ s \in RobTags /\ t \in RobTags
        /\ Depth(s) \in Int /\ Depth(t) \in Int /\ c \in Int
        /\ Depth(s) >= c /\ Depth(t) >= c
    BY <1>6, <1>7, <1>14, <1>18
  <2>2. Depth(s)' = Depth(s) - c /\ Depth(t)' = Depth(t) - c
    BY <2>1, <1>6
  <2> QED
    BY <2>1, <2>2
<1>21. Commits(Status) => RobTop \in LiveTags /\ rob[RobTop].compl
  BY <1>6, <1>7, <1>8
<1> QED
  BY <1>2, <1>7, <1>11, <1>12, <1>16, <1>19, <1>20, <1>21 DEF fires

(* What one cycle does to the entries of these instructions.               *)
LEMMA EntryStep ==
  ASSUME PathInv,
         NEW offer \in Offers, NEW calc \in Calculable, NEW cdb \in Broadcasts,
         NEW done \in BOOLEAN, Cycle(offer, calc, cdb, done)
  PROVE  /\ \A t \in Survivors(cdb) :
              /\ t \in LiveTags
              /\ rob'[t].kind = rob[t].kind
              /\ rob'[t].compl <=> rob[t].compl \/ (cdb.valid /\ cdb.tag = t)
              /\ memOp'[t] = memOp[t]
         /\ Fires(offer, cdb) =>
              /\ rob'[RobBottom].kind = offer.kind /\ offer.kind \in LiveKinds
              /\ offer.kind \in MemoryKinds =>
                   /\ ~rob'[RobBottom].compl /\ ToQueue(offer, cdb)
                   /\ offer.addr \in Addrs
                   /\ memOp'[RobBottom] = Operand(offer.kind, offer.addr)
         /\ ~Fires(offer, cdb) => memOp' = memOp
<1> DEFINE fires == Fires(offer, cdb)
           entry == [kind |-> offer.kind, rd |-> 0, rs |-> 0, rw |-> FALSE,
                     curr |-> 0, prev |-> 0, compl |-> offer.kind \in RobOnlyKinds]
           appended == IF fires THEN [rob EXCEPT ![RobBottom] = entry] ELSE rob
<1>1. /\ rob \in [RobTags -> RobEntry] /\ RobCount <= ROB_DEPTH /\ RobTypeOK
      /\ memOp \in [RobTags -> [addr : Addrs \cup {NoAddr}, val : Values]]
  BY DEF PathInv, TypeOK, RobTypeOK, LsqTypeOK, FlightInv
<1>2. /\ fires => RobBottom \notin LiveTags /\ RobBottom \in RobTags /\ ~RobFull
      /\ LiveTags \subseteq RobTags
      /\ Survivors(cdb) \subseteq LiveTags
  BY <1>1, DepthFacts, FlightStep, SizeAssumption DEF Survivors
<1>3. rob' = IF cdb.valid THEN [appended EXCEPT ![cdb.tag].compl = TRUE] ELSE appended
  <2>1. RobClock(fires, ToRob(offer), cdb, Status)
    BY CycleParts
  <2> QED
    BY <1>2, <2>1 DEF RobClock, ToRob
<1>4. fires => offer.kind \in LiveKinds
  BY OfferFacts DEF Fires, NoOffer
<1>5. /\ fires => appended[RobBottom] = entry
      /\ \A t \in LiveTags : appended[t] = rob[t]
      /\ appended \in [RobTags -> RobEntry]
  <2>1. 0 \in ArchRegs /\ 0 \in PhyRegs
    BY SizeAssumption DEF ArchRegs, PhyRegs
  <2>2. fires => entry \in RobEntry
    BY <1>4, <2>1 DEF RobEntry, Kinds, LiveKinds, MemoryKinds
  <2> HIDE DEF entry, fires
  <2> QED
    BY <1>1, <1>2, <2>2
<1>6. cdb.valid => cdb.tag \in LiveTags
  BY BroadcastFacts DEF PathInv
<1>7. \A t \in RobTags : /\ rob'[t].kind = appended[t].kind
                         /\ rob'[t].compl <=> \/ appended[t].compl
                                              \/ cdb.valid /\ cdb.tag = t
  <2> HIDE DEF appended
  <2> QED
    BY <1>2, <1>3, <1>5, <1>6 DEF RobEntry
<1>8. memOp' = IF ToQueue(offer, cdb)
                 THEN [memOp EXCEPT ![RobBottom] = Operand(offer.kind, offer.addr)]
               ELSE memOp
  BY CycleParts
<1>9. ASSUME NEW t \in Survivors(cdb)
      PROVE  /\ t \in LiveTags
             /\ rob'[t].kind = rob[t].kind
             /\ rob'[t].compl <=> rob[t].compl \/ (cdb.valid /\ cdb.tag = t)
             /\ memOp'[t] = memOp[t]
  <2>1. t \in LiveTags /\ t \in RobTags /\ appended[t] = rob[t]
    BY <1>2, <1>5
  <2>2. memOp'[t] = memOp[t]
    BY <1>1, <1>2, <1>8, <2>1 DEF ToQueue
  <2> HIDE DEF appended
  <2> QED
    BY <1>7, <2>1, <2>2
<1>10. ASSUME fires
       PROVE  /\ rob'[RobBottom].kind = offer.kind
              /\ offer.kind \in MemoryKinds => ~rob'[RobBottom].compl
  <2>1. appended[RobBottom].kind = offer.kind
    BY <1>5, <1>10
  <2>2. offer.kind \in MemoryKinds => ~appended[RobBottom].compl
    <3>1. offer.kind \in MemoryKinds => offer.kind \notin RobOnlyKinds
      BY DEF MemoryKinds, RobOnlyKinds, SerializingKinds
    <3>2. entry.compl <=> offer.kind \in RobOnlyKinds
      OBVIOUS
    <3> HIDE DEF entry, appended
    <3> QED
      BY <1>5, <1>10, <3>1, <3>2
  <2> HIDE DEF appended
  <2> QED
    BY <1>2, <1>6, <1>7, <1>10, <2>1, <2>2
<1>11. ASSUME fires, offer.kind \in MemoryKinds
       PROVE  /\ ToQueue(offer, cdb) /\ offer.addr \in Addrs
              /\ memOp'[RobBottom] = Operand(offer.kind, offer.addr)
  <2>1. ToQueue(offer, cdb)
    BY <1>11 DEF ToQueue, MemoryKinds
  <2>2. offer.addr \in Addrs
    BY <1>11, OfferFacts DEF Fires, NoOffer
  <2> QED
    BY <1>1, <1>2, <1>8, <1>11, <2>1, <2>2
<1>12. ~fires => memOp' = memOp
  BY <1>8 DEF ToQueue
<1> QED
  BY <1>4, <1>9, <1>10, <1>11, <1>12

-----------------------------------------------------------------------------
(* The slot that the queue fills or selects is the least one.              *)
LEMMA MinFacts ==
  ASSUME NEW S \in SUBSET Nat, S # {}
  PROVE  Min(S) \in S /\ \A x \in S : Min(S) <= x
BY LeastExists DEF Min

(* What leaves the queue: a store in its turn or a load in its turn, one   *)
(* at a time and never during a flush.                                     *)
LEMMA LeavingFacts ==
  ASSUME PathInv, NEW cdb, NEW i \in Leaving(cdb)
  PROVE  /\ Leaving(cdb) = {i} /\ i \in LsqSlots
         /\ lsq[i].valid /\ lsq[i].ready /\ Pending(lsq[i].tag)
         /\ LsbEnabled(cdb) /\ ~cdb.flush
         /\ IsStore(lsq[i]) => StoreMayIssue(lsq[i])
         /\ ~IsStore(lsq[i]) => IsLoad(lsq[i]) /\ LoadMayIssue(lsq[i], CacheReady)
<1>1. /\ LsbEnabled(cdb) /\ Issuable(CacheReady) # {}
      /\ Leaving(cdb) = {Selected(CacheReady)} /\ i = Selected(CacheReady)
  BY DEF Leaving
<1>2. Issuable(CacheReady) \subseteq LsqSlots /\ LsqSlots \subseteq Nat
  BY LsqAssumption DEF Issuable, LsqSlots
<1>3. i \in Issuable(CacheReady)
  BY <1>1, <1>2, MinFacts DEF Selected
<1>4. Pending(lsq[i].tag)
  BY <1>3 DEF Issuable, PathInv, QueueInv
<1>5. IsStore(lsq[i]) \/ IsLoad(lsq[i])
  BY <1>3, <1>4 DEF Issuable, Pending, MemoryKinds, IsStore, IsLoad
<1> QED
  BY <1>1, <1>2, <1>3, <1>4, <1>5 DEF Issuable, LsbEnabled

(* The slot that a dispatched access gets is vacant.                       *)
LEMMA NewSlot ==
  ASSUME PathInv, NEW offer \in Offers, NEW cdb, ToQueue(offer, cdb)
  PROVE  /\ LsqVacant # {} /\ ~cdb.flush
         /\ Min(LsqVacant) \in LsqSlots /\ ~lsq[Min(LsqVacant)].valid
<1>1. LsqVacant # {}
  BY OfferFacts DEF ToQueue, NoOffer, MemoryKinds
<1>2. LsqVacant \subseteq LsqSlots /\ LsqSlots \subseteq Nat
  BY LsqAssumption DEF LsqVacant, LsqSlots
<1>3. Min(LsqVacant) \in LsqVacant
  BY <1>1, <1>2, MinFacts
<1> QED
  BY <1>1, <1>3 DEF ToQueue, Fires, LsqVacant

(* The load in slot i counts a store that leaves in this cycle; its        *)
(* address is known.                                                       *)
CountsNow(cdb, i) == Counts(i, Leaving(cdb), {})

(* The entry stays in the queue.                                           *)
Waits(cdb, i) == lsq[i].valid /\ i \notin Leaving(cdb) /\ ~Flushed(lsq[i].tag, cdb)

(* The queue after a cycle, slot by slot.                                  *)
LEMMA QueueStep ==
  ASSUME PathInv,
         NEW offer \in Offers, NEW calc \in Calculable, NEW cdb \in Broadcasts,
         NEW done \in BOOLEAN, Cycle(offer, calc, cdb, done),
         NEW i \in LsqSlots
  PROVE  \/ /\ ToQueue(offer, cdb) /\ i = Min(LsqVacant) /\ ~lsq[i].valid
            /\ lsq'[i] = [NoLsqEntry EXCEPT !.valid = TRUE, !.tag = RobBottom]
         \/ /\ ~lsq'[i].valid /\ lsq'[i] = NoLsqEntry
            /\ ~Waits(cdb, i)
         \/ /\ Waits(cdb, i)
            /\ lsq'[i].valid /\ lsq'[i].tag = lsq[i].tag
            /\ lsq'[i].ready <=> lsq[i].ready \/ i \in calc
            /\ ~SabFull =>
                 lsq'[i].junior = IF CountsNow(cdb, i) THEN Counter(lsq[i].junior + 1)
                                  ELSE lsq[i].junior
            /\ lsq'[i] \in LsqEntry
<1> DEFINE new == ToQueue(offer, cdb) /\ ~cdb.flush /\ LsqVacant # {} /\ i = Min(LsqVacant)
<1>1. PICK counted \in BOOLEAN :
        /\ lsq'[i] =
             IF new THEN [NoLsqEntry EXCEPT !.valid = TRUE, !.tag = RobBottom]
             ELSE IF ~lsq[i].valid \/ i \in Leaving(cdb) \/ Flushed(lsq[i].tag, cdb)
               THEN NoLsqEntry
             ELSE [lsq[i] EXCEPT !.ready = @ \/ i \in calc,
                                 !.junior = IF counted THEN Counter(@ + 1) ELSE @]
        /\ ~SabFull => (counted <=> CountsNow(cdb, i))
  <2>1. LsqClock(cdb, calc, Leaving(cdb), ToQueue(offer, cdb), RobBottom)
    BY CycleParts
  <2>2. PICK mistaken \in Mistaken :
          lsq'[i] =
            IF new THEN [NoLsqEntry EXCEPT !.valid = TRUE, !.tag = RobBottom]
            ELSE IF ~lsq[i].valid \/ i \in Leaving(cdb) \/ Flushed(lsq[i].tag, cdb)
              THEN NoLsqEntry
            ELSE [lsq[i] EXCEPT !.ready = @ \/ i \in calc,
                                !.junior = IF Counts(i, Leaving(cdb), mistaken)
                                             THEN Counter(@ + 1) ELSE @]
    BY <2>1 DEF LsqClock
  <2>3. ~SabFull => mistaken = {}
    BY DEF Mistaken
  <2>4. Counts(i, Leaving(cdb), mistaken) \in BOOLEAN
    BY DEF Counts
  <2> QED
    BY <2>2, <2>3, <2>4 DEF CountsNow
<1>2. lsq[i] \in LsqEntry
  BY DEF PathInv, TypeOK, LsqTypeOK
<1>3. CASE new
  BY <1>1, <1>3, NewSlot
<1>4. CASE ~new /\ ~Waits(cdb, i)
  BY <1>1, <1>4 DEF Waits, NoLsqEntry
<1>5. CASE ~new /\ Waits(cdb, i)
  <2> DEFINE r == lsq[i].ready \/ i \in calc
             n == IF counted THEN Counter(lsq[i].junior + 1) ELSE lsq[i].junior
  <2>1. lsq'[i] = [[lsq[i] EXCEPT !.ready = r] EXCEPT !.junior = n]
    BY <1>1, <1>2, <1>5 DEF Waits, LsqEntry
  <2>2. n \in SabSlots /\ r \in BOOLEAN
    BY <1>2, LsqAssumption DEF LsqEntry, SabSlots, Counter
  <2> HIDE DEF r, n
  <2>3. /\ lsq'[i].valid = lsq[i].valid /\ lsq'[i].tag = lsq[i].tag
        /\ lsq'[i].ready = r /\ lsq'[i].junior = n /\ lsq'[i] \in LsqEntry
    BY <1>2, <2>1, <2>2 DEF LsqEntry
  <2> QED
    BY <1>1, <1>5, <2>3 DEF Waits, r, n
<1> QED
  BY <1>3, <1>4, <1>5

(* An access in flight is out of the queue after a cycle when it was       *)
(* before or leaves now; a new one is in the queue.                        *)
LEMMA LeftStep ==
  ASSUME PathInv,
         NEW offer \in Offers, NEW calc \in Calculable, NEW cdb \in Broadcasts,
         NEW done \in BOOLEAN, Cycle(offer, calc, cdb, done)
  PROVE  /\ \A t \in Survivors(cdb) :
              LeftQueue(t)' <=> LeftQueue(t) \/ \E s \in Leaving(cdb) : lsq[s].tag = t
         /\ ToQueue(offer, cdb) =>
              \E i \in LsqSlots : lsq'[i].valid /\ lsq'[i].tag = RobBottom
<1>1. ASSUME NEW t \in Survivors(cdb)
      PROVE  LeftQueue(t)' <=> LeftQueue(t) \/ \E s \in Leaving(cdb) : lsq[s].tag = t
  <2>1. /\ t \in LiveTags /\ ~Flushed(t, cdb)
        /\ ToQueue(offer, cdb) => t # RobBottom
    BY FlightStep DEF Survivors, ToQueue
  <2>2. ASSUME ~LeftQueue(t), ~(\E s \in Leaving(cdb) : lsq[s].tag = t)
        PROVE  ~LeftQueue(t)'
    <3>1. PICK i \in LsqSlots : lsq[i].valid /\ lsq[i].tag = t
      BY <2>2 DEF LeftQueue
    <3>2. Waits(cdb, i)
      BY <2>1, <2>2, <3>1 DEF Waits
    <3>3. lsq'[i].valid /\ lsq'[i].tag = t
      BY <3>1, <3>2, QueueStep
    <3> QED
      BY <3>3 DEF LeftQueue
  <2>3. ASSUME LeftQueue(t) \/ \E s \in Leaving(cdb) : lsq[s].tag = t,
               NEW i \in LsqSlots, lsq'[i].valid, lsq'[i].tag = t
        PROVE  FALSE
    <3>1. CASE ToQueue(offer, cdb) /\ lsq'[i] = [NoLsqEntry EXCEPT !.valid = TRUE,
                                                                    !.tag = RobBottom]
      <4>1. lsq'[i].tag = RobBottom
        BY <3>1 DEF NoLsqEntry
      <4> QED
        BY <2>1, <2>3, <3>1, <4>1
    <3>2. CASE Waits(cdb, i) /\ lsq'[i].tag = lsq[i].tag
      <4>1. lsq[i].valid /\ lsq[i].tag = t /\ i \notin Leaving(cdb)
        BY <2>3, <3>2 DEF Waits
      <4>2. PICK s \in Leaving(cdb) : lsq[s].tag = t
        BY <2>3, <4>1 DEF LeftQueue
      <4>3. s \in LsqSlots /\ lsq[s].valid
        BY LeavingFacts
      <4> QED
        BY <4>1, <4>2, <4>3 DEF PathInv, QueueInv
    <3> QED
      BY <2>3, <3>1, <3>2, QueueStep
  <2> QED
    BY <2>2, <2>3 DEF LeftQueue
<1>2. ASSUME ToQueue(offer, cdb)
      PROVE  \E i \in LsqSlots : lsq'[i].valid /\ lsq'[i].tag = RobBottom
  <2>1. /\ LsqVacant # {} /\ ~cdb.flush /\ Min(LsqVacant) \in LsqSlots
    BY <1>2, NewSlot
  <2>2. LsqClock(cdb, calc, Leaving(cdb), ToQueue(offer, cdb), RobBottom)
    BY CycleParts
  <2>3. lsq'[Min(LsqVacant)] = [NoLsqEntry EXCEPT !.valid = TRUE, !.tag = RobBottom]
    BY <1>2, <2>1, <2>2 DEF LsqClock
  <2> QED
    BY <2>1, <2>3 DEF NoLsqEntry
<1> QED
  BY <1>1, <1>2, NewSlot

(* An access that has not completed is still there after a cycle, unless   *)
(* it is flushed or broadcast.                                             *)
LEMMA PendingStep ==
  ASSUME PathInv,
         NEW offer \in Offers, NEW calc \in Calculable, NEW cdb \in Broadcasts,
         NEW done \in BOOLEAN, Cycle(offer, calc, cdb, done),
         NEW t, Pending(t), ~Flushed(t, cdb), ~(cdb.valid /\ cdb.tag = t)
  PROVE  t \in Survivors(cdb) /\ Pending(t)' /\ rob'[t].kind = rob[t].kind
<1>1. t \in Survivors(cdb)
  BY FlightStep DEF Pending, Survivors
<1>2. t \in LiveTags'
  BY <1>1, FlightStep
<1>3. rob'[t].kind = rob[t].kind /\ ~rob'[t].compl
  BY <1>1, EntryStep DEF Pending
<1> QED
  BY <1>1, <1>2, <1>3 DEF Pending

(* What is broadcast is not in the queue.                                  *)
LEMMA NotBroadcast ==
  ASSUME PathInv, NEW cdb \in Broadcasts, NEW t, Pending(t), cdb.valid, cdb.tag = t
  PROVE  cdb.rw /\ 1 \in DOMAIN lsb /\ lsb[1].tag = t /\ LeftQueue(t)
<1>1. cdb.rw
  BY BroadcastFacts DEF PathInv, Pending, Branches, MemoryKinds
<1>2. 1 \in DOMAIN lsb /\ lsb[1].tag = t
  BY <1>1, BroadcastFacts DEF PathInv
<1> QED
  BY <1>1, <1>2 DEF PathInv, LsbInv

(* The queue still holds accesses that have not completed, each once.      *)
LEMMA QueueKept ==
  ASSUME PathInv,
         NEW offer \in Offers, NEW calc \in Calculable, NEW cdb \in Broadcasts,
         NEW done \in BOOLEAN, Cycle(offer, calc, cdb, done)
  PROVE  QueueInv'
<1>1. ASSUME NEW i \in LsqSlots, lsq'[i].valid
      PROVE  /\ \/ /\ ToQueue(offer, cdb) /\ i = Min(LsqVacant)
                   /\ lsq'[i].tag = RobBottom
                \/ /\ lsq[i].valid /\ lsq'[i].tag = lsq[i].tag
                   /\ lsq[i].tag \in LiveTags
             /\ Pending(lsq[i].tag)'
  <2>1. CASE /\ ToQueue(offer, cdb) /\ i = Min(LsqVacant)
             /\ lsq'[i] = [NoLsqEntry EXCEPT !.valid = TRUE, !.tag = RobBottom]
    <3>1. lsq'[i].tag = RobBottom
      BY <2>1 DEF NoLsqEntry
    <3>2. Fires(offer, cdb) /\ offer.kind \in MemoryKinds
      BY <2>1 DEF ToQueue, MemoryKinds
    <3>3. RobBottom \in LiveTags'
      BY <3>2, FlightStep
    <3>4. rob'[RobBottom].kind \in MemoryKinds /\ ~rob'[RobBottom].compl
      BY <3>2, EntryStep
    <3> QED
      BY <2>1, <3>1, <3>3, <3>4 DEF Pending
  <2>2. CASE Waits(cdb, i) /\ lsq'[i].tag = lsq[i].tag
    <3>1. PICK t : t = lsq[i].tag
      OBVIOUS
    <3>2. lsq[i].valid /\ Pending(t) /\ ~Flushed(t, cdb) /\ ~LeftQueue(t)
      BY <2>2, <3>1 DEF Waits, PathInv, QueueInv, LeftQueue
    <3>3. ~(cdb.valid /\ cdb.tag = t)
      BY <3>2, NotBroadcast
    <3>4. Pending(t)'
      BY <3>2, <3>3, PendingStep
    <3> QED
      BY <2>2, <3>1, <3>2, <3>4 DEF Pending
  <2> QED
    BY <1>1, <2>1, <2>2, QueueStep
<1>2. ToQueue(offer, cdb) => RobBottom \notin LiveTags
  BY FlightStep DEF ToQueue
<1>3. ASSUME NEW i \in LsqSlots, NEW j \in LsqSlots, lsq'[i].valid, lsq'[j].valid,
             lsq'[i].tag = lsq'[j].tag
      PROVE  i = j
  BY <1>1, <1>2, <1>3 DEF PathInv, QueueInv
<1> QED
  BY <1>1, <1>3 DEF QueueInv

-----------------------------------------------------------------------------
(* What the cache does in a cycle: it takes the load that leaves the       *)
(* queue, or else the store offered to it, or works on what it holds.      *)
LEMMA PortStep ==
  ASSUME PathInv,
         NEW offer \in Offers, NEW calc \in Calculable, NEW cdb \in Broadcasts,
         NEW done \in BOOLEAN, Cycle(offer, calc, cdb, done)
  PROVE  \/ \E i \in LsqSlots :
              /\ LoadSent(Leaving(cdb)) = {i} /\ Leaving(cdb) = {i} /\ ~cdb.flush
              /\ IsLoad(lsq[i]) /\ cache.st = "IDLE" /\ ~StoreTaken(Leaving(cdb))
              /\ Min({i}) = i /\ cache' = Load(AddrOf(lsq[i])) /\ mem' = mem
         \/ /\ LoadSent(Leaving(cdb)) = {} /\ StoreTaken(Leaving(cdb))
            /\ cache.st = "IDLE" /\ ~SbEmpty
            /\ cache' = Store(SbHead.addr, SbHead.val) /\ mem' = mem
         \/ /\ LoadSent(Leaving(cdb)) = {} /\ ~StoreTaken(Leaving(cdb))
            /\ \/ /\ cache.st = "READ" /\ mem' = mem
                  /\ cache' = [cache EXCEPT !.st = "RRESP", !.val = mem[cache.addr]]
               \/ /\ cache.st = "WRITE" /\ mem' = [mem EXCEPT ![cache.addr] = cache.val]
                  /\ cache' = [cache EXCEPT !.st = "WRESP"]
               \/ cache.st = "RRESP" /\ respReady /\ cache' = Idle /\ mem' = mem
               \/ cache.st = "WRESP" /\ cache' = Idle /\ mem' = mem
               \/ /\ cache' = cache /\ mem' = mem
                  /\ \/ cache.st = "IDLE" \/ cache.st = "READ" \/ cache.st = "WRITE"
                     \/ cache.st = "RRESP" /\ ~respReady
<1> DEFINE L == Leaving(cdb)
<1>1. PortClock(Accepted(L), done, respReady)
  BY CycleParts
<1>2. mem' = IF cache.st = "WRITE" /\ done THEN [mem EXCEPT ![cache.addr] = cache.val]
             ELSE mem
  BY <1>1 DEF PortClock
<1>3. cache.st \in {"IDLE", "READ", "WRITE", "RRESP", "WRESP"}
  BY DEF PathInv, TypeOK, PortTypeOK, CacheStates
<1>4. CASE LoadSent(L) # {}
  <2>1. PICK i \in L : IsLoad(lsq[i])
    BY <1>4 DEF LoadSent
  <2>2. /\ L = {i} /\ i \in LsqSlots /\ ~cdb.flush /\ LoadMayIssue(lsq[i], CacheReady)
    BY <2>1, LeavingFacts DEF IsLoad, IsStore
  <2>3. LoadSent(L) = {i} /\ cache.st = "IDLE"
    BY <2>1, <2>2 DEF LoadSent, LoadMayIssue, CacheReady
  <2>4. Min({i}) = i
    <3>1. {i} \in SUBSET Nat /\ {i} # {}
      BY <2>2, LsqAssumption DEF LsqSlots
    <3> QED
      BY <3>1, MinFacts
  <2>5. Accepted(L) = Load(AddrOf(lsq[i]))
    BY <2>3, <2>4 DEF Accepted
  <2>6. Accepted(L) # Idle
    <3>1. Load(AddrOf(lsq[i])).st = "READ" /\ Idle.st = "IDLE"
      BY DEF Load, Idle
    <3> QED
      BY <2>5, <3>1
  <2>7. cache' = Load(AddrOf(lsq[i]))
    BY <1>1, <2>3, <2>5, <2>6 DEF PortClock, LoadAnswered, StoreAnswered
  <2> QED
    BY <1>2, <2>1, <2>2, <2>3, <2>4, <2>7 DEF StoreTaken
<1>5. CASE LoadSent(L) = {} /\ StoreTaken(L)
  <2>1. Accepted(L) = Store(SbHead.addr, SbHead.val)
    BY <1>5 DEF Accepted
  <2>2. Accepted(L) # Idle
    <3>1. Store(SbHead.addr, SbHead.val).st = "WRITE" /\ Idle.st = "IDLE"
      BY DEF Store, Idle
    <3> QED
      BY <2>1, <3>1
  <2>3. cache.st = "IDLE" /\ ~SbEmpty
    BY <1>5 DEF StoreTaken, CacheReady
  <2>4. cache' = Store(SbHead.addr, SbHead.val)
    BY <1>1, <2>1, <2>2, <2>3 DEF PortClock, LoadAnswered, StoreAnswered
  <2> QED
    BY <1>2, <1>5, <2>3, <2>4
<1>6. CASE LoadSent(L) = {} /\ ~StoreTaken(L)
  <2>1. Accepted(L) = Idle
    BY <1>6 DEF Accepted
  <2>2. CASE cache.st = "IDLE"
    <3>1. cache' = cache
      BY <1>1, <2>1, <2>2 DEF PortClock, LoadAnswered, StoreAnswered
    <3> QED
      BY <1>2, <1>6, <2>2, <3>1
  <2>3. CASE cache.st = "READ"
    <3>1. cache' = IF done THEN [cache EXCEPT !.st = "RRESP", !.val = mem[cache.addr]]
                   ELSE cache
      BY <1>1, <2>1, <2>3 DEF PortClock, LoadAnswered, StoreAnswered
    <3> QED
      BY <1>2, <1>6, <2>3, <3>1
  <2>4. CASE cache.st = "WRITE"
    <3>1. cache' = IF done THEN [cache EXCEPT !.st = "WRESP"] ELSE cache
      BY <1>1, <2>1, <2>4 DEF PortClock, LoadAnswered, StoreAnswered
    <3> QED
      BY <1>2, <1>6, <2>4, <3>1
  <2>5. CASE cache.st = "RRESP"
    <3>1. cache' = IF respReady THEN Idle ELSE cache
      BY <1>1, <2>1, <2>5 DEF PortClock, LoadAnswered, StoreAnswered
    <3> QED
      BY <1>2, <1>6, <2>5, <3>1
  <2>6. CASE cache.st = "WRESP"
    <3>1. cache' = Idle
      BY <1>1, <2>1, <2>6 DEF PortClock, LoadAnswered, StoreAnswered
    <3> QED
      BY <1>2, <1>6, <2>6, <3>1
  <2> QED
    BY <1>3, <2>2, <2>3, <2>4, <2>5, <2>6
<1> QED
  BY <1>4, <1>5, <1>6

(* The LSB is ready for an answer from the cycle in which it sends a load  *)
(* until the answer comes.                                                 *)
LEMMA AnswersKept ==
  ASSUME PathInv, AnswersAreTaken,
         NEW offer \in Offers, NEW calc \in Calculable, NEW cdb \in Broadcasts,
         NEW done \in BOOLEAN, Cycle(offer, calc, cdb, done)
  PROVE  AnswersAreTaken'
<1> DEFINE loads == LoadSent(Leaving(cdb))
<1>1. /\ cdb.flush => (respReady' <=> respReady /\ cache.st # "RRESP")
      /\ ~cdb.flush => (respReady' <=> loads # {} \/ (respReady /\ cache.st # "RRESP"))
  <2>1. LsbClock(cdb, Leaving(cdb))
    BY CycleParts
  <2> QED
    BY <2>1 DEF LsbClock, LoadAnswered
<1>2. ASSUME cache'.st \in {"READ", "RRESP"} PROVE respReady'
  <2>1. CASE ~cdb.flush /\ loads # {}
    BY <1>1, <2>1
  <2>2. CASE cache.st = "READ"
    <3>1. respReady
      BY <2>2 DEF AnswersAreTaken
    <3> QED
      BY <1>1, <2>2, <3>1
  <2>3. \/ ~cdb.flush /\ loads # {}
        \/ cache'.st \in {"IDLE", "WRITE", "WRESP"}
        \/ cache.st = "READ"
        \/ cache' = cache /\ cache.st # "READ"
             /\ (cache.st = "RRESP" => ~respReady)
    <3>1. \/ \E i \in LsqSlots : LoadSent(Leaving(cdb)) = {i} /\ ~cdb.flush
          \/ cache' = Store(SbHead.addr, SbHead.val)
          \/ cache.st = "READ"
          \/ cache.st = "WRITE" /\ cache' = [cache EXCEPT !.st = "WRESP"]
          \/ cache' = Idle
          \/ cache' = cache /\ (cache.st = "RRESP" => ~respReady)
      BY PortStep
    <3>2. [cache EXCEPT !.st = "WRESP"].st = "WRESP"
      BY DEF PathInv, TypeOK, PortTypeOK
    <3>3. Idle.st = "IDLE" /\ Store(SbHead.addr, SbHead.val).st = "WRITE"
      BY DEF Idle, Store
    <3> QED
      BY <3>1, <3>2, <3>3
  <2>4. CASE cache' = cache /\ cache.st # "READ" /\ (cache.st = "RRESP" => ~respReady)
    BY <1>2, <2>4 DEF AnswersAreTaken
  <2> QED
    BY <1>2, <2>1, <2>2, <2>3, <2>4
<1> QED
  BY <1>2 DEF AnswersAreTaken

-----------------------------------------------------------------------------
(* The pointers of the stores that wait in the store buffer.               *)
Waiting == Window(sbTrail, sbWrite, SB_DEPTH)

(* What a cycle does to the store buffer: the store that commits enters at *)
(* one end, the one that the cache has answered leaves at the other.       *)
LEMMA BufferStep ==
  ASSUME PathInv,
         NEW offer \in Offers, NEW calc \in Calculable, NEW cdb \in Broadcasts,
         NEW done \in BOOLEAN, Cycle(offer, calc, cdb, done)
  PROVE  /\ StoreCommits => /\ SbCount < SB_DEPTH /\ RobTop \in LiveTags
                            /\ rob[RobTop].kind = "STORE" /\ rob[RobTop].compl
                            /\ memOp[RobTop].addr \in Addrs
         /\ StoreAnswered => sbWrite # sbTrail
         /\ sbArray' = IF StoreCommits
                         THEN [sbArray EXCEPT ![Slot(sbWrite, SB_DEPTH)] = memOp[RobTop]]
                       ELSE sbArray
         /\ sbWrite' = IF StoreCommits THEN Succ(sbWrite, SB_DEPTH) ELSE sbWrite
         /\ sbLead' = IF StoreTaken(Leaving(cdb)) THEN Succ(sbLead, SB_DEPTH) ELSE sbLead
         /\ sbTrail' = IF StoreAnswered THEN Succ(sbTrail, SB_DEPTH) ELSE sbTrail
         /\ sbEntry' = IF StoreCommits
                         THEN [valid |-> TRUE, slot |-> Slot(sbWrite, SB_DEPTH),
                               tag |-> RobTop]
                       ELSE NoSbEntry
         /\ sbFlush' = IF StoreAnswered
                         THEN [valid |-> TRUE, slot |-> Slot(sbTrail, SB_DEPTH)]
                       ELSE NoSbFlush
         /\ SbCount' \in 0 .. SB_DEPTH
         /\ Waiting' = (Waiting \cup (IF StoreCommits THEN {sbWrite} ELSE {}))
                         \ (IF StoreAnswered THEN {sbTrail} ELSE {})
         /\ {sbWrite', sbLead', sbTrail'} \subseteq Pointers(SB_DEPTH)
         /\ \A p \in Waiting : /\ p \in Pointers(SB_DEPTH)
                               /\ Slot(p, SB_DEPTH) \in SbSlots
                               /\ StoreCommits =>
                                    Slot(p, SB_DEPTH) # Slot(sbWrite, SB_DEPTH)
         /\ sbWrite # sbTrail => sbTrail \in Waiting
         /\ Slot(sbWrite, SB_DEPTH) \in SbSlots /\ Slot(sbTrail, SB_DEPTH) \in SbSlots
<1> DEFINE D == SB_DEPTH
<1>1. /\ sbWrite \in Pointers(D) /\ sbLead \in Pointers(D) /\ sbTrail \in Pointers(D)
      /\ D \in Nat \ {0} /\ Dist(sbWrite, sbTrail, D) <= D
      /\ RobTypeOK /\ RobCount <= ROB_DEPTH
  BY StoreBufferAssumption
     DEF PathInv, TypeOK, SbTypeOK, SbInv, SbCount, FlightInv
<1>2. StoreCommits => /\ ~SbFull /\ RobTop \in LiveTags
                      /\ rob[RobTop].kind = "STORE" /\ rob[RobTop].compl
  BY <1>1, DepthFacts DEF StoreCommits, Commits, Status, RobHead
<1>3. StoreCommits => memOp[RobTop].addr \in Addrs
  BY <1>2 DEF PathInv, FlightInv, MemoryKinds
<1>4. StoreAnswered => sbWrite # sbTrail
  BY DEF PathInv, SbInv, StoreAnswered, Writing
<1>5. SbClock(StoreCommits, memOp[RobTop], RobTop, StoreTaken(Leaving(cdb)),
              StoreAnswered)
  BY CycleParts
<1>6. /\ sbArray' = IF StoreCommits
                      THEN [sbArray EXCEPT ![Slot(sbWrite, D)] = memOp[RobTop]]
                    ELSE sbArray
      /\ sbWrite' = IF StoreCommits THEN Succ(sbWrite, D) ELSE sbWrite
      /\ sbLead' = IF StoreTaken(Leaving(cdb)) THEN Succ(sbLead, D) ELSE sbLead
      /\ sbTrail' = IF StoreAnswered THEN Succ(sbTrail, D) ELSE sbTrail
      /\ sbEntry' = IF StoreCommits
                      THEN [valid |-> TRUE, slot |-> Slot(sbWrite, D), tag |-> RobTop]
                    ELSE NoSbEntry
      /\ sbFlush' = IF StoreAnswered THEN [valid |-> TRUE, slot |-> Slot(sbTrail, D)]
                    ELSE NoSbFlush
  BY <1>2, <1>5 DEF SbClock
<1>7. StoreCommits => Dist(sbWrite, sbTrail, D) < D
  BY <1>1, <1>2, WindowSize DEF SbFull, Pointers, Dist
<1>8. \A p \in Waiting : /\ p \in Pointers(D) /\ Slot(p, D) \in SbSlots
                         /\ StoreCommits => Slot(p, D) # Slot(sbWrite, D)
  BY <1>1, <1>7, AppendSlotFree, PointerTypes DEF Waiting, Window, SbSlots
<1>9. sbWrite # sbTrail => sbTrail \in Waiting
  BY <1>1 DEF Waiting, Window, Dist, Pointers
<1>10. Slot(sbWrite, D) \in SbSlots /\ Slot(sbTrail, D) \in SbSlots
  BY <1>1, PointerTypes DEF SbSlots
<1>11. {sbWrite', sbLead', sbTrail'} \subseteq Pointers(D)
  BY <1>1, <1>6, PointerTypes
<1>12. Waiting' = (Waiting \cup (IF StoreCommits THEN {sbWrite} ELSE {}))
                    \ (IF StoreAnswered THEN {sbTrail} ELSE {})
  BY <1>1, <1>4, <1>6, <1>7 DEF Waiting, Window, Dist, Pointers, Succ
<1>13. SbCount' \in 0 .. D
  BY <1>1, <1>4, <1>6, <1>7 DEF SbCount, Dist, Pointers, Succ
<1> QED
  BY <1>2, <1>3, <1>4, <1>6, <1>7, <1>8, <1>9, <1>10, <1>11, <1>12, <1>13 DEF SbCount

(* The store buffer and the cache keep agreeing on the store that is       *)
(* written.                                                                *)
LEMMA BufferKept ==
  ASSUME PathInv,
         NEW offer \in Offers, NEW calc \in Calculable, NEW cdb \in Broadcasts,
         NEW done \in BOOLEAN, Cycle(offer, calc, cdb, done)
  PROVE  SbInv'
<1> DEFINE D == SB_DEPTH
<1>1. /\ sbWrite \in Pointers(D) /\ sbLead \in Pointers(D) /\ sbTrail \in Pointers(D)
      /\ D \in Nat \ {0}
      /\ sbArray \in [SbSlots -> [addr : Addrs \cup {NoAddr}, val : Values]]
      /\ cache \in [st : CacheStates, addr : Addrs \cup {NoAddr}, val : Values]
      /\ SbInv
  BY StoreBufferAssumption DEF PathInv, TypeOK, SbTypeOK, PortTypeOK
<1>2. SbCount' <= D
  BY <1>1, BufferStep
<1>3. ASSUME NEW p \in Waiting
      PROVE  sbArray'[Slot(p, D)] = sbArray[Slot(p, D)]
  BY <1>1, BufferStep
<1>4. sbWrite # sbTrail /\ ~StoreAnswered => /\ sbTrail' = sbTrail /\ sbWrite' # sbTrail'
                                             /\ SbOldest' = SbOldest
  <2>1. SUFFICES ASSUME sbWrite # sbTrail, ~StoreAnswered
                 PROVE  /\ sbTrail' = sbTrail /\ sbWrite' # sbTrail'
                        /\ SbOldest' = SbOldest
    OBVIOUS
  <2>2. sbTrail' = sbTrail /\ sbTrail \in Waiting /\ sbTrail \in Waiting'
    BY <2>1, BufferStep
  <2>3. SbOldest' = SbOldest
    BY <2>2, <1>3 DEF SbOldest
  <2>4. sbWrite' # sbTrail'
    BY <1>1, <2>2 DEF Waiting, Window, Dist, Pointers
  <2> QED
    BY <2>2, <2>3, <2>4
<1>5. \A s \in SbLive' : sbArray'[s].addr \in Addrs
  <2>1. SUFFICES ASSUME NEW p \in Waiting' PROVE sbArray'[Slot(p, D)].addr \in Addrs
    BY DEF SbLive, Waiting
  <2>2. CASE p \in Waiting
    BY <2>2, <1>1, <1>3 DEF SbInv, SbLive, Waiting
  <2>3. CASE StoreCommits /\ p = sbWrite
    <3>1. /\ sbArray' = [sbArray EXCEPT ![Slot(sbWrite, D)] = memOp[RobTop]]
          /\ Slot(sbWrite, D) \in SbSlots /\ memOp[RobTop].addr \in Addrs
      BY <2>3, BufferStep
    <3> QED
      BY <1>1, <2>3, <3>1
  <2> QED
    BY <2>1, <2>2, <2>3, BufferStep
<1>6. /\ sbLead' = IF Writing' THEN Succ(sbTrail', D) ELSE sbTrail'
      /\ Writing' => /\ sbWrite' # sbTrail'
                     /\ cache'.addr = SbOldest'.addr /\ cache'.val = SbOldest'.val
      /\ cache'.st # "IDLE" => cache'.addr \in Addrs
  <2>1. CASE /\ cache.st = "IDLE" /\ ~StoreTaken(Leaving(cdb))
             /\ \E i \in LsqSlots : IsLoad(lsq[i]) /\ cache' = Load(AddrOf(lsq[i]))
    <3>1. PICK i \in LsqSlots : IsLoad(lsq[i]) /\ cache' = Load(AddrOf(lsq[i]))
      BY <2>1
    <3>2. cache'.st = "READ" /\ cache'.addr = AddrOf(lsq[i])
      BY <3>1 DEF Load
    <3>3. AddrOf(lsq[i]) \in Addrs
      BY <3>1 DEF IsLoad, AddrOf, PathInv, QueueInv, FlightInv, Pending
    <3>4. sbLead' = sbLead /\ sbTrail' = sbTrail /\ sbLead = sbTrail
      BY <1>1, <2>1, BufferStep DEF SbInv, Writing, StoreAnswered
    <3> QED
      BY <3>2, <3>3, <3>4 DEF Writing
  <2>2. CASE /\ cache.st = "IDLE" /\ StoreTaken(Leaving(cdb)) /\ ~SbEmpty
             /\ cache' = Store(SbHead.addr, SbHead.val)
    <3>1. sbLead = sbTrail /\ sbWrite # sbTrail /\ SbHead = SbOldest /\ ~StoreAnswered
      BY <1>1, <2>2 DEF SbInv, Writing, SbEmpty, IsEmpty, SbHead, SbOldest, StoreAnswered
    <3>2. SbOldest.addr \in Addrs
      <4>1. Slot(sbTrail, D) \in SbLive
        BY <3>1, BufferStep DEF SbLive, Waiting
      <4> QED
        BY <1>1, <4>1 DEF SbOldest, SbInv
    <3>3. /\ cache'.st = "WRITE" /\ cache'.addr = SbOldest.addr
          /\ cache'.val = SbOldest.val
      BY <2>2, <3>1 DEF Store
    <3>4. sbLead' = Succ(sbLead, D)
      BY <2>2, BufferStep
    <3> QED
      BY <1>4, <3>1, <3>2, <3>3, <3>4 DEF Writing
  <2>3. CASE /\ ~StoreTaken(Leaving(cdb))
             /\ cache.st = "READ" /\ cache' = [cache EXCEPT !.st = "RRESP",
                                                            !.val = mem[cache.addr]]
    <3>1. cache'.st = "RRESP" /\ cache'.addr = cache.addr
      BY <1>1, <2>3
    <3>2. sbLead' = sbLead /\ sbTrail' = sbTrail
      BY <2>3, BufferStep DEF StoreAnswered
    <3> QED
      BY <1>1, <2>3, <3>1, <3>2 DEF SbInv, Writing
  <2>4. CASE /\ ~StoreTaken(Leaving(cdb))
             /\ cache.st = "WRITE" /\ cache' = [cache EXCEPT !.st = "WRESP"]
    <3>1. cache'.st = "WRESP" /\ cache'.addr = cache.addr /\ cache'.val = cache.val
      BY <1>1, <2>4
    <3>2. sbLead' = sbLead /\ ~StoreAnswered
      BY <2>4, BufferStep DEF StoreAnswered
    <3> QED
      BY <1>1, <1>4, <2>4, <3>1, <3>2 DEF SbInv, Writing
  <2>5. CASE ~StoreTaken(Leaving(cdb)) /\ cache.st = "RRESP" /\ cache' = Idle
    BY <1>1, <2>5, BufferStep DEF SbInv, Writing, StoreAnswered, Idle
  <2>6. CASE ~StoreTaken(Leaving(cdb)) /\ cache.st = "WRESP" /\ cache' = Idle
    BY <1>1, <2>6, BufferStep DEF SbInv, Writing, StoreAnswered, Idle
  <2>7. CASE ~StoreTaken(Leaving(cdb)) /\ cache' = cache /\ cache.st # "WRESP"
    BY <1>1, <1>4, <2>7, BufferStep DEF SbInv, Writing, StoreAnswered
  <2> QED
    BY <2>1, <2>2, <2>3, <2>4, <2>5, <2>6, <2>7, PortStep
<1> QED
  BY <1>2, <1>5, <1>6 DEF SbInv

-----------------------------------------------------------------------------
(* The buffer without the entry that is broadcast, and the load slot with  *)
(* the answer that arrives.                                                *)
Rest(cdb) == IF cdb.rw THEN Tail(lsb) ELSE lsb
Answered == IF LoadAnswered /\ lw.valid /\ ~lw.data
              THEN [lw EXCEPT !.data = TRUE, !.val = cache.val]
            ELSE lw

(* What a cycle does to the load slot and the buffer: a flush, or a load   *)
(* enters the slot, a store enters the buffer, the load moves from the     *)
(* slot to the buffer, or neither gets anything new.                       *)
LEMMA LsbStep ==
  ASSUME PathInv,
         NEW offer \in Offers, NEW calc \in Calculable, NEW cdb \in Broadcasts,
         NEW done \in BOOLEAN, Cycle(offer, calc, cdb, done)
  PROVE  \/ /\ cdb.flush /\ Leaving(cdb) = {}
            /\ lsb' = Compacted(lsb, Staying(cdb))
            /\ lw' = IF lw.valid /\ Flushed(lw.tag, cdb) THEN NoLoad ELSE Answered
         \/ /\ ~cdb.flush /\ ~lw.valid
            /\ \E i \in LsqSlots :
                 /\ Leaving(cdb) = {i} /\ IsLoad(lsq[i])
                 /\ lsb' = Rest(cdb)
                 /\ lw' = [NoLoad EXCEPT !.valid = TRUE, !.tag = lsq[i].tag]
         \/ /\ ~cdb.flush /\ ~lw.valid /\ Len(lsb) < LSB_DEPTH
            /\ \E i \in LsqSlots :
                 /\ Leaving(cdb) = {i} /\ IsStore(lsq[i])
                 /\ lsb' = Rest(cdb) \o << [tag |-> lsq[i].tag, val |-> 0] >>
                 /\ lw' = lw
         \/ /\ ~cdb.flush /\ Leaving(cdb) = {} /\ Len(lsb) < LSB_DEPTH
            /\ lw.valid /\ Answered.data
            /\ lsb' = Rest(cdb) \o << [tag |-> lw.tag, val |-> Answered.val] >>
            /\ lw' = NoLoad
         \/ /\ ~cdb.flush /\ Leaving(cdb) = {}
            /\ lsb' = Rest(cdb)
            /\ lw' = Answered
<1> DEFINE L == Leaving(cdb)
           arrives == LoadAnswered /\ lw.valid /\ ~lw.data
           loads == LoadSent(L)
           stores == L \ loads
           moves == lw.valid /\ (arrives \/ lw.data) /\ Len(lsb) < LSB_DEPTH
           head == IF moves THEN << [tag |-> lw.tag,
                                     val |-> IF arrives THEN cache.val ELSE lw.val] >>
                   ELSE <<>>
           tail == IF stores # {} THEN << [tag |-> lsq[Min(stores)].tag, val |-> 0] >>
                   ELSE <<>>
<1>1. /\ lw \in [valid : BOOLEAN, tag : RobTags, data : BOOLEAN, val : Values]
      /\ lsb \in Seq([tag : RobTags, val : Values])
      /\ Rest(cdb) \in Seq([tag : RobTags, val : Values])
  <2>1. lsb \in Seq([tag : RobTags, val : Values]) /\ (cdb.rw => lsb # <<>>)
    BY BroadcastFacts DEF PathInv, TypeOK
  <2> QED
    BY <2>1 DEF PathInv, TypeOK, Rest
<1>2. LsbClock(cdb, L)
  BY CycleParts
<1>3. /\ cdb.flush => /\ lsb' = Compacted(lsb, Staying(cdb))
                      /\ lw' = IF lw.valid /\ Flushed(lw.tag, cdb) THEN NoLoad
                               ELSE Answered
      /\ ~cdb.flush => /\ lsb' = Rest(cdb) \o head \o tail
                       /\ lw' = IF loads # {} THEN [NoLoad EXCEPT !.valid = TRUE,
                                                             !.tag = lsq[Min(loads)].tag]
                                ELSE IF moves THEN NoLoad
                                ELSE Answered
  BY <1>2 DEF LsbClock, Rest, Answered
<1>4. /\ Answered.data <=> arrives \/ lw.data
      /\ Answered.val = IF arrives THEN cache.val ELSE lw.val
      /\ ~lw.valid => Answered = lw
  BY <1>1 DEF Answered
<1>5. CASE cdb.flush
  <2>1. L = {}
    BY <1>5, LeavingFacts
  <2> QED
    BY <1>3, <1>5, <2>1
<1>6. CASE ~cdb.flush /\ L # {}
  <2>1. PICK i \in L : TRUE
    BY <1>6
  <2>2. /\ L = {i} /\ i \in LsqSlots /\ lsq[i].valid /\ ~lw.valid /\ Len(lsb) < LSB_DEPTH
        /\ IsStore(lsq[i]) \/ IsLoad(lsq[i])
    BY <2>1, LeavingFacts DEF LsbEnabled
  <2>3. ~moves /\ head = <<>>
    BY <2>2
  <2>4. Min({i}) = i
    <3>1. {i} \in SUBSET Nat /\ {i} # {}
      BY <2>2, LsqAssumption DEF LsqSlots
    <3> QED
      BY <3>1, MinFacts
  <2>5. CASE IsLoad(lsq[i])
    <3>1. loads = {i} /\ stores = {} /\ tail = <<>>
      BY <2>2, <2>5 DEF LoadSent
    <3> HIDE DEF head, tail, loads, L
    <3>2. Rest(cdb) \o head \o tail = Rest(cdb)
      BY <1>1, <2>3, <3>1
    <3> QED
      BY <1>3, <1>6, <2>2, <2>4, <2>5, <3>1, <3>2 DEF L
  <2>6. CASE IsStore(lsq[i]) /\ ~IsLoad(lsq[i])
    <3>1. loads = {} /\ stores = {i}
      BY <2>2, <2>6 DEF LoadSent
    <3>2. tail = << [tag |-> lsq[i].tag, val |-> 0] >>
      BY <2>4, <3>1
    <3> HIDE DEF head, tail, loads, L
    <3>3. Rest(cdb) \o head \o tail = Rest(cdb) \o tail
      BY <1>1, <2>3
    <3> HIDE DEF moves
    <3> QED
      BY <1>3, <1>4, <1>6, <2>2, <2>3, <2>6, <3>1, <3>2, <3>3 DEF L
  <2> QED
    BY <2>2, <2>5, <2>6
<1>7. CASE ~cdb.flush /\ L = {}
  <2>1. loads = {} /\ stores = {} /\ tail = <<>>
    BY <1>7 DEF LoadSent
  <2>2. CASE moves
    <3>1. head = << [tag |-> lw.tag, val |-> Answered.val] >>
      BY <1>4, <2>2
    <3>2. lw.valid /\ Answered.data /\ Len(lsb) < LSB_DEPTH
      BY <1>4, <2>2
    <3> HIDE DEF head, tail, loads, L, moves
    <3>3. Rest(cdb) \o head \o tail = Rest(cdb) \o head
      BY <1>1, <2>1, <3>1
    <3> QED
      BY <1>3, <1>7, <2>1, <2>2, <3>1, <3>2, <3>3 DEF L
  <2>3. CASE ~moves
    <3>1. head = <<>>
      BY <2>3
    <3> HIDE DEF head, tail, loads, L, moves
    <3>2. Rest(cdb) \o head \o tail = Rest(cdb)
      BY <1>1, <2>1, <3>1
    <3> QED
      BY <1>3, <1>7, <2>1, <2>3, <3>2 DEF L
  <2> QED
    BY <2>2, <2>3
<1> QED
  BY <1>5, <1>6, <1>7

(* A sequence with one more element.                                       *)
LEMMA Appended ==
  ASSUME NEW E, NEW r \in Seq(E), NEW x \in E
  PROVE  /\ r \o <<x>> \in Seq(E) /\ Len(r \o <<x>>) = Len(r) + 1
         /\ \A k \in 1 .. Len(r) : (r \o <<x>>)[k] = r[k]
         /\ (r \o <<x>>)[Len(r) + 1] = x
  OBVIOUS

(* The entries of the buffer and the slot have their types.                *)
LsbEntry == [tag : RobTags, val : Values]
LwEntry == [valid : BOOLEAN, tag : RobTags, data : BOOLEAN, val : Values]

(* What is left of the buffer when its head is broadcast.                  *)
LEMMA RestFacts ==
  ASSUME PathInv, NEW cdb \in Broadcasts
  PROVE  \E o \in {0, 1} :
           /\ o = 1 <=> cdb.rw
           /\ Rest(cdb) \in Seq(LsbEntry) /\ Len(Rest(cdb)) = Len(lsb) - o
           /\ \A k \in 1 .. Len(Rest(cdb)) :
                k + o \in DOMAIN lsb /\ Rest(cdb)[k] = lsb[k + o]
<1>1. lsb \in Seq(LsbEntry) /\ (cdb.rw => lsb # <<>>)
  BY BroadcastFacts DEF PathInv, TypeOK, LsbEntry
<1>2. CASE cdb.rw
  <2>1. /\ Tail(lsb) \in Seq(LsbEntry) /\ Len(Tail(lsb)) = Len(lsb) - 1
        /\ \A k \in 1 .. Len(Tail(lsb)) : k + 1 \in DOMAIN lsb /\ Tail(lsb)[k] = lsb[k + 1]
    BY <1>1, <1>2
  <2> QED
    BY <1>2, <2>1 DEF Rest
<1>3. CASE ~cdb.rw
  BY <1>1, <1>3 DEF Rest
<1> QED
  BY <1>2, <1>3

(* Where an entry of the next buffer comes from: it was there and is       *)
(* neither flushed nor broadcast, or it is the load of the slot, or the    *)
(* store that leaves the queue.  No other entry has its tag.               *)
OnlyTag(k, t) == \A l \in DOMAIN lsb' : lsb'[l].tag = t => l = k
FromBuffer(k, cdb) ==
  \E j \in DOMAIN lsb : /\ lsb'[k] = lsb[j] /\ ~Flushed(lsb[j].tag, cdb)
                        /\ ~(cdb.rw /\ j = 1) /\ OnlyTag(k, lsb[j].tag)
FromSlot(k, cdb) ==
  /\ lw.valid /\ ~cdb.flush /\ Answered.data /\ ~lw'.valid
  /\ lsb'[k].tag = lw.tag /\ lsb'[k].val = Answered.val /\ OnlyTag(k, lw.tag)
FromQueue(k, cdb) ==
  /\ ~lw.valid /\ lw' = lw
  /\ \E i \in Leaving(cdb) : /\ Leaving(cdb) = {i} /\ IsStore(lsq[i])
                             /\ lsb'[k] = [tag |-> lsq[i].tag, val |-> 0]
                             /\ OnlyTag(k, lsq[i].tag)

(* Every entry of the buffer has one of these origins.                     *)
LEMMA LsbMembers ==
  ASSUME PathInv,
         NEW offer \in Offers, NEW calc \in Calculable, NEW cdb \in Broadcasts,
         NEW done \in BOOLEAN, Cycle(offer, calc, cdb, done)
  PROVE  /\ lsb' \in Seq(LsbEntry) /\ Len(lsb') <= LSB_DEPTH
         /\ lw' \in LwEntry
         /\ \A k \in DOMAIN lsb' :
              FromBuffer(k, cdb) \/ FromSlot(k, cdb) \/ FromQueue(k, cdb)
<1>1. /\ lsb \in Seq(LsbEntry) /\ Len(lsb) <= LSB_DEPTH /\ lw \in LwEntry
      /\ LSB_DEPTH \in Nat /\ cache.val \in Values /\ 0 \in RobTags /\ 0 \in Values
      /\ lsq \in [LsqSlots -> LsqEntry]
  BY MemoryOrderAssumption, SizeAssumption
     DEF PathInv, TypeOK, LsqTypeOK, LsbEntry, LwEntry, PortTypeOK, RobTags, Values
<1>2. Answered \in LwEntry /\ NoLoad \in LwEntry
      /\ \A t \in RobTags : [NoLoad EXCEPT !.valid = TRUE, !.tag = t] \in LwEntry
  BY <1>1 DEF Answered, NoLoad, LwEntry
<1>3. PICK o \in {0, 1} :
        /\ o = 1 <=> cdb.rw
        /\ Rest(cdb) \in Seq(LsbEntry) /\ Len(Rest(cdb)) = Len(lsb) - o
        /\ \A k \in 1 .. Len(Rest(cdb)) :
             k + o \in DOMAIN lsb /\ Rest(cdb)[k] = lsb[k + o]
  BY RestFacts
<1>4. /\ \A k, l \in DOMAIN lsb : lsb[k].tag = lsb[l].tag => k = l
      /\ \A k \in DOMAIN lsb : /\ LeftQueue(lsb[k].tag)
                               /\ lw.valid => lsb[k].tag # lw.tag
  BY DEF PathInv, LsbInv
<1>5. CASE /\ cdb.flush /\ lsb' = Compacted(lsb, Staying(cdb))
           /\ lw' = IF lw.valid /\ Flushed(lw.tag, cdb) THEN NoLoad ELSE Answered
  <2> DEFINE S == Staying(cdb)
             n(j) == KeepCount(j, S)
  <2>1. S \in SUBSET DOMAIN lsb /\ ~cdb.rw /\ \A j \in S : ~Flushed(lsb[j].tag, cdb)
    BY <1>5, BroadcastFacts DEF Staying, PathInv
  <2> HIDE DEF S
  <2>2. /\ lsb' \in Seq(LsbEntry) /\ Len(lsb') <= Len(lsb)
        /\ \A k \in DOMAIN lsb' :
             \E j \in DOMAIN lsb : j \in S /\ n(j) = k /\ lsb'[k] = lsb[j]
    BY <1>1, <1>5, <2>1, CompactedFacts DEF S
  <2> HIDE DEF n
  <2>3. Len(lsb') <= LSB_DEPTH
    BY <1>1, <2>2
  <2>4. ASSUME NEW k \in DOMAIN lsb'
        PROVE  FromBuffer(k, cdb)
    <3>1. PICK j \in DOMAIN lsb : j \in S /\ n(j) = k /\ lsb'[k] = lsb[j]
      BY <2>2
    <3>2. ASSUME NEW l \in DOMAIN lsb', lsb'[l].tag = lsb[j].tag PROVE l = k
      <4>1. PICK i \in DOMAIN lsb : i \in S /\ n(i) = l /\ lsb'[l] = lsb[i]
        BY <2>2
      <4> QED
        BY <1>4, <3>1, <3>2, <4>1
    <3> QED
      BY <2>1, <3>1, <3>2 DEF FromBuffer, OnlyTag
  <2> QED
    BY <1>2, <1>5, <2>2, <2>3, <2>4
<1>6. ASSUME ~cdb.flush, lsb' = Rest(cdb)
      PROVE  /\ lsb' \in Seq(LsbEntry) /\ Len(lsb') <= LSB_DEPTH
             /\ \A k \in DOMAIN lsb' : FromBuffer(k, cdb)
  <2>1. DOMAIN lsb' = 1 .. Len(Rest(cdb)) /\ Len(Rest(cdb)) \in Nat
    BY <1>3, <1>6
  <2>2. ASSUME NEW k \in DOMAIN lsb', NEW l \in DOMAIN lsb'
        PROVE  /\ k + o \in DOMAIN lsb /\ lsb'[k] = lsb[k + o]
               /\ ~(cdb.rw /\ k + o = 1)
               /\ lsb'[l].tag = lsb[k + o].tag => l = k
    <3>1. /\ k + o \in DOMAIN lsb /\ lsb'[k] = lsb[k + o]
          /\ l + o \in DOMAIN lsb /\ lsb'[l] = lsb[l + o]
      BY <1>3, <1>6, <2>1
    <3>2. lsb'[l].tag = lsb[k + o].tag => l + o = k + o
      BY <1>4, <3>1
    <3> QED
      BY <1>3, <2>1, <3>1, <3>2
  <2>3. \A t : ~Flushed(t, cdb)
    BY <1>6 DEF Flushed
  <2> QED
    BY <1>1, <1>3, <1>6, <2>2, <2>3 DEF FromBuffer, OnlyTag
<1>7. ASSUME ~cdb.flush, Len(lsb) < LSB_DEPTH, NEW x \in LsbEntry,
             lsb' = Rest(cdb) \o <<x>>,
             \A j \in DOMAIN lsb : lsb[j].tag # x.tag
      PROVE  /\ lsb' \in Seq(LsbEntry) /\ Len(lsb') <= LSB_DEPTH
             /\ \A k \in DOMAIN lsb' :
                  FromBuffer(k, cdb) \/ (lsb'[k] = x /\ OnlyTag(k, x.tag))
  <2> DEFINE m == Len(Rest(cdb))
  <2>1. /\ lsb' \in Seq(LsbEntry) /\ Len(lsb') = m + 1 /\ m \in Nat /\ m <= Len(lsb)
        /\ \A k \in 1 .. m : lsb'[k] = Rest(cdb)[k]
        /\ lsb'[m + 1] = x
    <3>1. PICK r : r = Rest(cdb)
      OBVIOUS
    <3>2. r \in Seq(LsbEntry) /\ lsb' = r \o <<x>>
      BY <1>3, <1>7, <3>1
    <3>3. /\ lsb' \in Seq(LsbEntry) /\ Len(lsb') = Len(r) + 1
          /\ \A k \in 1 .. Len(r) : lsb'[k] = r[k]
          /\ lsb'[Len(r) + 1] = x
      <4>1. x \in LsbEntry
        BY <1>7
      <4>2. /\ r \o <<x>> \in Seq(LsbEntry) /\ Len(r \o <<x>>) = Len(r) + 1
            /\ \A k \in 1 .. Len(r) : (r \o <<x>>)[k] = r[k]
            /\ (r \o <<x>>)[Len(r) + 1] = x
        BY <3>2, <4>1, Appended, Zenon
      <4> QED
        BY <3>2, <4>2, Zenon
    <3>4. Len(r) \in Nat /\ Len(r) <= Len(lsb)
      BY <1>1, <1>3, <3>1
    <3> QED
      BY <3>1, <3>3, <3>4
  <2>2. \A k \in 1 .. m : k + o \in DOMAIN lsb /\ lsb'[k] = lsb[k + o]
    BY <1>3, <2>1
  <2> HIDE DEF m
  <2>3. DOMAIN lsb' = 1 .. m + 1
    BY <2>1
  <2>4. \A t : ~Flushed(t, cdb)
    BY <1>7 DEF Flushed
  <2>5. ASSUME NEW k \in 1 .. m, NEW l \in DOMAIN lsb', lsb'[l].tag = lsb[k + o].tag
        PROVE  l = k
    <3>1. CASE l = m + 1
      BY <1>7, <2>1, <2>2, <2>5, <3>1
    <3>2. CASE l \in 1 .. m
      <4>1. l + o = k + o
        BY <1>4, <2>2, <2>5, <3>2
      <4> QED
        BY <1>3, <2>1, <3>2, <4>1
    <3> QED
      BY <2>1, <2>3, <3>1, <3>2
  <2>6. ASSUME NEW k \in 1 .. m
        PROVE  FromBuffer(k, cdb)
    <3>1. ~(cdb.rw /\ k + o = 1)
      BY <1>3, <2>1
    <3> QED
      BY <2>2, <2>4, <2>5, <3>1 DEF FromBuffer, OnlyTag
  <2>7. ASSUME NEW l \in DOMAIN lsb', lsb'[l].tag = x.tag PROVE l = m + 1
    BY <1>7, <2>1, <2>2, <2>3, <2>7
  <2>8. Len(lsb') <= LSB_DEPTH
    BY <1>1, <1>7, <2>1
  <2>9. ASSUME NEW k \in DOMAIN lsb' PROVE k \in 1 .. m \/ k = m + 1
    BY <2>1, <2>3
  <2> QED
    BY <2>1, <2>6, <2>7, <2>8, <2>9 DEF OnlyTag
<1>8. CASE /\ ~cdb.flush /\ ~lw.valid
           /\ \E i \in LsqSlots :
                /\ Leaving(cdb) = {i} /\ IsLoad(lsq[i])
                /\ lsb' = Rest(cdb)
                /\ lw' = [NoLoad EXCEPT !.valid = TRUE, !.tag = lsq[i].tag]
  <2>1. PICK i \in LsqSlots : lw' = [NoLoad EXCEPT !.valid = TRUE, !.tag = lsq[i].tag]
    BY <1>8
  <2>2. lw' \in LwEntry
    BY <1>1, <1>2, <2>1 DEF LsqEntry
  <2> QED
    BY <1>6, <1>8, <2>2
<1>9. CASE /\ ~cdb.flush /\ ~lw.valid /\ Len(lsb) < LSB_DEPTH
           /\ \E i \in LsqSlots :
                /\ Leaving(cdb) = {i} /\ IsStore(lsq[i])
                /\ lsb' = Rest(cdb) \o << [tag |-> lsq[i].tag, val |-> 0] >>
                /\ lw' = lw
  <2>1. PICK i \in LsqSlots :
          /\ Leaving(cdb) = {i} /\ IsStore(lsq[i])
          /\ lsb' = Rest(cdb) \o << [tag |-> lsq[i].tag, val |-> 0] >>
    BY <1>9
  <2>2. PICK x : x = [tag |-> lsq[i].tag, val |-> 0]
    OBVIOUS
  <2>3. x \in LsbEntry /\ x.tag = lsq[i].tag
    BY <1>1, <2>2 DEF LsbEntry, LsqEntry
  <2>4. \A j \in DOMAIN lsb : lsb[j].tag # x.tag
    BY <1>4, <2>1, <2>3 DEF LeftQueue, IsStore
  <2>5. /\ lsb' \in Seq(LsbEntry) /\ Len(lsb') <= LSB_DEPTH
        /\ \A k \in DOMAIN lsb' :
             FromBuffer(k, cdb) \/ (lsb'[k] = x /\ OnlyTag(k, x.tag))
    BY <1>7, <1>9, <2>1, <2>2, <2>3, <2>4
  <2>6. \A k : lsb'[k] = x /\ OnlyTag(k, x.tag) => FromQueue(k, cdb)
    BY <1>9, <2>1, <2>2, <2>3 DEF FromQueue
  <2> QED
    BY <1>1, <1>9, <2>5, <2>6
<1>10. CASE /\ ~cdb.flush /\ Leaving(cdb) = {} /\ Len(lsb) < LSB_DEPTH
            /\ lw.valid /\ Answered.data
            /\ lsb' = Rest(cdb) \o << [tag |-> lw.tag, val |-> Answered.val] >>
            /\ lw' = NoLoad
  <2>1. PICK x : x = [tag |-> lw.tag, val |-> Answered.val]
    OBVIOUS
  <2>2. x \in LsbEntry /\ x.tag = lw.tag /\ x.val = Answered.val
    BY <1>1, <1>2, <2>1 DEF LsbEntry, LwEntry
  <2>3. \A j \in DOMAIN lsb : lsb[j].tag # x.tag
    BY <1>4, <1>10, <2>2
  <2>4. ~lw'.valid /\ lw' \in LwEntry
    BY <1>2, <1>10 DEF NoLoad
  <2>5. /\ lsb' \in Seq(LsbEntry) /\ Len(lsb') <= LSB_DEPTH
        /\ \A k \in DOMAIN lsb' :
             FromBuffer(k, cdb) \/ (lsb'[k] = x /\ OnlyTag(k, x.tag))
    BY <1>7, <1>10, <2>1, <2>2, <2>3
  <2>6. \A k : lsb'[k] = x /\ OnlyTag(k, x.tag) => FromSlot(k, cdb)
    BY <1>10, <2>2, <2>4 DEF FromSlot
  <2> QED
    BY <2>4, <2>5, <2>6
<1>11. CASE ~cdb.flush /\ Leaving(cdb) = {} /\ lsb' = Rest(cdb) /\ lw' = Answered
  BY <1>2, <1>6, <1>11
<1> QED
  BY <1>5, <1>8, <1>9, <1>10, <1>11, LsbStep

(* The load in the slot was there and is not flushed, or leaves the queue  *)
(* now.                                                                    *)
LEMMA SlotStep ==
  ASSUME PathInv,
         NEW offer \in Offers, NEW calc \in Calculable, NEW cdb \in Broadcasts,
         NEW done \in BOOLEAN, Cycle(offer, calc, cdb, done)
  PROVE  \/ ~lw'.valid
         \/ lw.valid /\ ~Flushed(lw.tag, cdb) /\ lw' = Answered /\ lw'.tag = lw.tag
         \/ \E i \in LsqSlots :
              /\ Leaving(cdb) = {i} /\ IsLoad(lsq[i]) /\ ~lw.valid
              /\ lw'.tag = lsq[i].tag /\ ~lw'.data
<1>1. lw \in LwEntry
  BY DEF PathInv, TypeOK, LwEntry
<1>2. (Answered.valid <=> lw.valid) /\ Answered.tag = lw.tag
  BY <1>1 DEF Answered, LwEntry
<1>3. \/ lw' = NoLoad
      \/ lw' = Answered /\ ~Flushed(lw.tag, cdb)
      \/ lw' = lw /\ ~lw.valid
      \/ \E i \in LsqSlots :
           /\ Leaving(cdb) = {i} /\ IsLoad(lsq[i]) /\ ~lw.valid
           /\ lw' = [NoLoad EXCEPT !.valid = TRUE, !.tag = lsq[i].tag]
      \/ lw' = Answered /\ ~lw.valid
  <2>1. ~cdb.flush => ~Flushed(lw.tag, cdb)
    BY DEF Flushed
  <2> QED
    BY <2>1, LsbStep
<1>4. ~NoLoad.valid /\ \A t : [NoLoad EXCEPT !.valid = TRUE, !.tag = t].tag = t
  BY DEF NoLoad
<1>5. \A t : ~[NoLoad EXCEPT !.valid = TRUE, !.tag = t].data
  BY DEF NoLoad
<1> QED
  BY <1>2, <1>3, <1>4, <1>5

(* An access outside the queue that is neither flushed nor broadcast stays *)
(* outside the queue, and so does one that leaves it.                      *)
LEMMA OutStep ==
  ASSUME PathInv,
         NEW offer \in Offers, NEW calc \in Calculable, NEW cdb \in Broadcasts,
         NEW done \in BOOLEAN, Cycle(offer, calc, cdb, done),
         NEW t, Pending(t), ~Flushed(t, cdb), ~(cdb.valid /\ cdb.tag = t),
         LeftQueue(t) \/ \E s \in Leaving(cdb) : lsq[s].tag = t
  PROVE  /\ t \in Survivors(cdb) /\ Pending(t)' /\ LeftQueue(t)'
         /\ rob'[t].kind = rob[t].kind
<1>1. t \in Survivors(cdb) /\ Pending(t)' /\ rob'[t].kind = rob[t].kind
  BY PendingStep
<1>2. LeftQueue(t)'
  BY <1>1, LeftStep
<1> QED
  BY <1>1, <1>2

(* The load slot and the buffer still hold accesses that have left the     *)
(* queue and have not completed, each once.                                *)
LEMMA LsbKept ==
  ASSUME PathInv,
         NEW offer \in Offers, NEW calc \in Calculable, NEW cdb \in Broadcasts,
         NEW done \in BOOLEAN, Cycle(offer, calc, cdb, done)
  PROVE  LsbInv'
<1>1. ASSUME NEW i \in Leaving(cdb)
      PROVE  /\ Pending(lsq[i].tag) /\ ~LeftQueue(lsq[i].tag)
             /\ ~Flushed(lsq[i].tag, cdb) /\ ~(cdb.valid /\ cdb.tag = lsq[i].tag)
  <2>1. Pending(lsq[i].tag) /\ ~LeftQueue(lsq[i].tag) /\ ~cdb.flush
    BY LeavingFacts DEF LeftQueue
  <2> QED
    BY <2>1, NotBroadcast DEF Flushed
<1>2. ASSUME lw'.valid
      PROVE  Pending(lw.tag)' /\ rob'[lw'.tag].kind = "LOAD" /\ LeftQueue(lw.tag)'
  <2>1. CASE lw.valid /\ ~Flushed(lw.tag, cdb) /\ lw'.tag = lw.tag
    <3>1. PICK t : t = lw.tag
      OBVIOUS
    <3>2. Pending(t) /\ LeftQueue(t) /\ rob[t].kind = "LOAD" /\ ~Flushed(t, cdb)
      BY <2>1, <3>1 DEF PathInv, LsbInv
    <3>3. ~(cdb.valid /\ cdb.tag = t)
      BY <2>1, <3>1, <3>2, NotBroadcast DEF PathInv, LsbInv
    <3>4. Pending(t)' /\ LeftQueue(t)' /\ rob'[t].kind = "LOAD"
      BY <3>2, <3>3, OutStep
    <3> QED
      BY <2>1, <3>1, <3>4 DEF Pending, LeftQueue
  <2>2. ASSUME NEW i \in LsqSlots, Leaving(cdb) = {i}, IsLoad(lsq[i]),
               lw'.tag = lsq[i].tag
        PROVE  Pending(lw.tag)' /\ rob'[lw'.tag].kind = "LOAD" /\ LeftQueue(lw.tag)'
    <3>1. PICK t : t = lsq[i].tag
      OBVIOUS
    <3>2. /\ Pending(t) /\ rob[t].kind = "LOAD" /\ ~Flushed(t, cdb)
          /\ ~(cdb.valid /\ cdb.tag = t) /\ \E s \in Leaving(cdb) : lsq[s].tag = t
      BY <1>1, <2>2, <3>1 DEF IsLoad
    <3>3. Pending(t)' /\ LeftQueue(t)' /\ rob'[t].kind = "LOAD"
      BY <3>2, OutStep
    <3> QED
      BY <2>2, <3>1, <3>3 DEF Pending, LeftQueue
  <2>3. \/ lw.valid /\ ~Flushed(lw.tag, cdb) /\ lw'.tag = lw.tag
        \/ \E i \in LsqSlots : /\ Leaving(cdb) = {i} /\ IsLoad(lsq[i])
                                /\ lw'.tag = lsq[i].tag
    BY <1>2, SlotStep
  <2> QED
    BY <2>1, <2>2, <2>3
<1>3. ASSUME NEW k \in DOMAIN lsb'
      PROVE  /\ Pending(lsb[k].tag)' /\ LeftQueue(lsb[k].tag)'
             /\ lw'.valid => lsb'[k].tag # lw'.tag
             /\ OnlyTag(k, lsb'[k].tag)
  <2>1. CASE FromBuffer(k, cdb)
    <3>1. PICK j \in DOMAIN lsb : /\ lsb'[k] = lsb[j] /\ ~Flushed(lsb[j].tag, cdb)
                                  /\ ~(cdb.rw /\ j = 1) /\ OnlyTag(k, lsb[j].tag)
      BY <2>1 DEF FromBuffer
    <3>2. PICK t : t = lsb[j].tag
      OBVIOUS
    <3>3. Pending(t) /\ LeftQueue(t) /\ ~Flushed(t, cdb) /\ (lw.valid => t # lw.tag)
      BY <3>1, <3>2 DEF PathInv, LsbInv
    <3>4. ~(cdb.valid /\ cdb.tag = t)
      BY <3>1, <3>2, <3>3, NotBroadcast DEF PathInv, LsbInv
    <3>5. Pending(t)' /\ LeftQueue(t)'
      BY <3>3, <3>4, OutStep
    <3>6. lw'.valid => lw'.tag # t
      <4>1. SUFFICES ASSUME lw'.valid PROVE lw'.tag # t
        OBVIOUS
      <4>2. \/ lw.valid /\ lw'.tag = lw.tag
            \/ \E i \in LsqSlots : Leaving(cdb) = {i} /\ lw'.tag = lsq[i].tag
        BY <4>1, SlotStep
      <4>3. ASSUME NEW i \in LsqSlots, Leaving(cdb) = {i} PROVE lsq[i].tag # t
        BY <1>1, <3>3, <4>3
      <4> QED
        BY <3>3, <4>2, <4>3
    <3>7. Pending(lsb[k].tag)' /\ LeftQueue(lsb[k].tag)'
      BY <3>1, <3>2, <3>5 DEF Pending, LeftQueue
    <3> QED
      BY <3>1, <3>2, <3>6, <3>7
  <2>2. CASE FromSlot(k, cdb)
    <3>1. PICK t : t = lw.tag
      OBVIOUS
    <3>2. /\ lw.valid /\ ~cdb.flush /\ ~lw'.valid /\ lsb'[k].tag = t /\ OnlyTag(k, t)
          /\ Pending(t) /\ LeftQueue(t) /\ ~Flushed(t, cdb)
      BY <2>2, <3>1 DEF FromSlot, PathInv, LsbInv, Flushed
    <3>3. ~(cdb.valid /\ cdb.tag = t)
      BY <3>1, <3>2, NotBroadcast DEF PathInv, LsbInv
    <3>4. Pending(t)' /\ LeftQueue(t)'
      BY <3>2, <3>3, OutStep
    <3>5. Pending(lsb[k].tag)' /\ LeftQueue(lsb[k].tag)'
      BY <3>2, <3>4 DEF Pending, LeftQueue
    <3> QED
      BY <3>2, <3>5
  <2>3. CASE FromQueue(k, cdb)
    <3>1. PICK i \in Leaving(cdb) : /\ lsb'[k] = [tag |-> lsq[i].tag, val |-> 0]
                                    /\ OnlyTag(k, lsq[i].tag)
      BY <2>3 DEF FromQueue
    <3>2. PICK t : t = lsq[i].tag
      OBVIOUS
    <3>3. lsb'[k].tag = t /\ ~lw'.valid
      BY <2>3, <3>1, <3>2 DEF FromQueue
    <3>4. Pending(t)' /\ LeftQueue(t)'
      BY <1>1, <3>2, OutStep
    <3>5. Pending(lsb[k].tag)' /\ LeftQueue(lsb[k].tag)'
      BY <3>3, <3>4 DEF Pending, LeftQueue
    <3> QED
      BY <3>1, <3>2, <3>3, <3>5
  <2> QED
    BY <2>1, <2>2, <2>3, LsbMembers
<1> QED
  <2>1. ASSUME NEW k \in DOMAIN lsb', NEW l \in DOMAIN lsb', lsb'[k].tag = lsb'[l].tag
        PROVE  k = l
    BY <1>3, <2>1 DEF OnlyTag
  <2>2. LsbInv' <=>
          /\ lw'.valid => /\ Pending(lw.tag)' /\ LeftQueue(lw.tag)'
                          /\ rob'[lw'.tag].kind = "LOAD"
          /\ \A k \in DOMAIN lsb' : /\ Pending(lsb[k].tag)' /\ LeftQueue(lsb[k].tag)'
                                    /\ lw'.valid => lsb'[k].tag # lw'.tag
          /\ \A k, l \in DOMAIN lsb' : lsb'[k].tag = lsb'[l].tag => k = l
    BY DEF LsbInv
  <2> QED
    BY <1>2, <1>3, <2>1, <2>2

(* The ROB still holds the four kinds, and every access has its address.   *)
LEMMA FlightKept ==
  ASSUME PathInv,
         NEW offer \in Offers, NEW calc \in Calculable, NEW cdb \in Broadcasts,
         NEW done \in BOOLEAN, Cycle(offer, calc, cdb, done)
  PROVE  FlightInv'
<1>1. RobCount' <= ROB_DEPTH
  BY FlightStep
<1>2. ASSUME NEW t \in LiveTags'
      PROVE  /\ rob'[t].kind \in LiveKinds
             /\ rob'[t].kind \in MemoryKinds => memOp'[t].addr \in Addrs
  <2>1. CASE t \in Survivors(cdb)
    BY <2>1, EntryStep DEF PathInv, FlightInv
  <2>2. CASE Fires(offer, cdb) /\ t = RobBottom
    <3>1. Operand(offer.kind, offer.addr).addr = offer.addr
      BY DEF Operand
    <3> QED
      BY <2>2, <3>1, EntryStep
  <2> QED
    BY <2>1, <2>2, FlightStep
<1> QED
  BY <1>1, <1>2 DEF FlightInv

-----------------------------------------------------------------------------
(* What ProgramValue stands for: the youngest store in the ROB, or else    *)
(* the youngest in the store buffer, or else memory.                       *)
YoungestStore(t, a) ==
  t \in LiveStores(a) /\ \A u \in LiveStores(a) : Depth(u) <= Depth(t)
Position(p) == Dist(p, sbTrail, SB_DEPTH)
Buffered(p) == sbArray[Slot(p, SB_DEPTH)].val
YoungestBuffered(p, a) ==
  p \in BufferedStores(a) /\ \A q \in BufferedStores(a) : Position(q) <= Position(p)

(* ProgramValue is the value of the youngest store in these terms.         *)
LEMMA ProgramValueFacts ==
  ASSUME PathInv, NEW a \in Addrs
  PROVE  /\ ProgramValue(a) \in Values
         /\ \A t : YoungestStore(t, a) => ProgramValue(a) = memOp[t].val
         /\ LiveStores(a) # {} => \E t : YoungestStore(t, a)
         /\ LiveStores(a) = {} =>
              /\ \A p : YoungestBuffered(p, a) => ProgramValue(a) = Buffered(p)
              /\ BufferedStores(a) # {} => \E p : YoungestBuffered(p, a)
              /\ BufferedStores(a) = {} => ProgramValue(a) = mem[a]
<1>1. /\ RobTypeOK /\ RobCount <= ROB_DEPTH /\ ROB_DEPTH \in Nat \ {0, 1}
      /\ sbTrail \in Pointers(SB_DEPTH) /\ SB_DEPTH \in Nat \ {0}
      /\ memOp \in [RobTags -> [addr : Addrs \cup {NoAddr}, val : Values]]
      /\ sbArray \in [SbSlots -> [addr : Addrs \cup {NoAddr}, val : Values]]
      /\ mem \in [Addrs -> Values]
  BY SizeAssumption, StoreBufferAssumption
     DEF PathInv, TypeOK, FlightInv, LsqTypeOK, SbTypeOK, PortTypeOK
<1>2. /\ LiveStores(a) \subseteq RobTags
      /\ \A t \in RobTags : Depth(t) \in 0 .. ROB_DEPTH - 1
      /\ \A s, t \in RobTags : Depth(s) = Depth(t) => s = t
  BY <1>1, DepthFacts DEF LiveStores
<1>3. /\ BufferedStores(a) \subseteq Pointers(SB_DEPTH)
      /\ \A p \in Pointers(SB_DEPTH) : /\ Position(p) \in 0 .. 2*SB_DEPTH - 1
                                       /\ Slot(p, SB_DEPTH) \in SbSlots
      /\ \A p, q \in Pointers(SB_DEPTH) : Position(p) = Position(q) => p = q
  BY <1>1 DEF BufferedStores, Window, Pointers, Position, Dist, Slot, SbSlots
<1>4. ASSUME LiveStores(a) # {} PROVE \E t : YoungestStore(t, a)
  <2> DEFINE S == {Depth(t) : t \in LiveStores(a)}
  <2>1. ROB_DEPTH - 1 \in Nat /\ S \in SUBSET (0 .. ROB_DEPTH - 1) /\ S # {}
    BY <1>1, <1>2, <1>4
  <2> HIDE DEF S
  <2>2. PICK m \in S : \A x \in S : x <= m
    BY <2>1, MaxExists
  <2> USE DEF S
  <2>3. PICK t \in LiveStores(a) : Depth(t) = m
    BY <2>2
  <2> QED
    BY <2>2, <2>3 DEF YoungestStore
<1>5. ASSUME BufferedStores(a) # {} PROVE \E p : YoungestBuffered(p, a)
  <2> DEFINE S == {Position(p) : p \in BufferedStores(a)}
  <2>1. 2*SB_DEPTH - 1 \in Nat /\ S \in SUBSET (0 .. 2*SB_DEPTH - 1) /\ S # {}
    BY <1>1, <1>3, <1>5
  <2> HIDE DEF S
  <2>2. PICK m \in S : \A x \in S : x <= m
    BY <2>1, MaxExists
  <2> USE DEF S
  <2>3. PICK p \in BufferedStores(a) : Position(p) = m
    BY <2>2
  <2> QED
    BY <2>2, <2>3 DEF YoungestBuffered
<1>6. ASSUME NEW t, YoungestStore(t, a) PROVE ProgramValue(a) = memOp[t].val
  <2> DEFINE c == CHOOSE t_1 \in LiveStores(a) :
                    \A u \in LiveStores(a) : Depth(u) <= Depth(t_1)
  <2>1. LiveStores(a) # {} /\ ProgramValue(a) = memOp[c].val
    BY <1>6 DEF YoungestStore, ProgramValue
  <2>2. YoungestStore(c, a)
    BY <1>6 DEF YoungestStore
  <2> HIDE DEF c
  <2>3. c = t
    <3>1. /\ Depth(c) <= Depth(t) /\ Depth(t) <= Depth(c)
          /\ c \in RobTags /\ t \in RobTags
      BY <1>2, <1>6, <2>2 DEF YoungestStore
    <3> QED
      BY <1>2, <3>1
  <2> QED
    BY <2>1, <2>3
<1>7. ASSUME NEW p, LiveStores(a) = {}, YoungestBuffered(p, a)
      PROVE  ProgramValue(a) = Buffered(p)
  <2> DEFINE c == CHOOSE q \in BufferedStores(a) :
                    \A r \in BufferedStores(a) : Position(r) <= Position(q)
  <2>1. BufferedStores(a) # {} /\ ProgramValue(a) = Buffered(c)
    BY <1>7 DEF YoungestBuffered, ProgramValue, Position, Buffered
  <2>2. YoungestBuffered(c, a)
    BY <1>7 DEF YoungestBuffered
  <2> HIDE DEF c
  <2>3. c = p
    <3>1. /\ Position(c) <= Position(p) /\ Position(p) <= Position(c)
          /\ c \in Pointers(SB_DEPTH) /\ p \in Pointers(SB_DEPTH)
      BY <1>3, <1>7, <2>2 DEF YoungestBuffered
    <3> QED
      BY <1>3, <3>1
  <2> QED
    BY <2>1, <2>3
<1>8. LiveStores(a) = {} /\ BufferedStores(a) = {} => ProgramValue(a) = mem[a]
  BY DEF ProgramValue
<1>9. ProgramValue(a) \in Values
  <2>1. CASE LiveStores(a) # {}
    <3>1. PICK t : YoungestStore(t, a)
      BY <1>4, <2>1
    <3>2. t \in RobTags
      BY <1>2, <3>1 DEF YoungestStore
    <3> QED
      BY <1>1, <1>6, <3>1, <3>2
  <2>2. CASE LiveStores(a) = {} /\ BufferedStores(a) # {}
    <3>1. PICK p : YoungestBuffered(p, a)
      BY <1>5, <2>2
    <3>2. Slot(p, SB_DEPTH) \in SbSlots
      BY <1>3, <3>1 DEF YoungestBuffered
    <3> QED
      BY <1>1, <1>7, <2>2, <3>1, <3>2 DEF Buffered
  <2>3. CASE LiveStores(a) = {} /\ BufferedStores(a) = {}
    BY <1>1, <1>8, <2>3
  <2> QED
    BY <2>1, <2>2, <2>3
<1> QED
  BY <1>4, <1>5, <1>6, <1>7, <1>8, <1>9
-----------------------------------------------------------------------------
(* An entry of the address buffer after a cycle: dropped, or the address   *)
(* of a store that leaves the queue now, or what was there, and from the   *)
(* cycle after the commit with its slot.                                   *)
Released(j) ==
  sbFlush.valid /\ sab[j].valid /\ sab[j].sel /\ sab[j].slot = sbFlush.slot
Cut(j, cdb) == cdb.flush /\ SabDepth(sab[j]) > Depth(cdb.tag)
Renamed(j) == sbEntry.valid /\ sab[j].valid /\ ~sab[j].sel /\ sab[j].tag = sbEntry.tag
Entered(i) ==
  [NoSabEntry EXCEPT !.valid = TRUE, !.addr = AddrOf(lsq[i]), !.tag = lsq[i].tag]
Rename(e) == [e EXCEPT !.sel = TRUE, !.slot = sbEntry.slot]

(* Those are all the changes of an entry.                                  *)
LEMMA SabStep ==
  ASSUME PathInv,
         NEW offer \in Offers, NEW calc \in Calculable, NEW cdb \in Broadcasts,
         NEW done \in BOOLEAN, Cycle(offer, calc, cdb, done), NEW j \in SabSlots
  PROVE  \/ (Released(j) \/ Cut(j, cdb)) /\ sab'[j] = NoSabEntry
         \/ /\ ~Released(j) /\ ~Cut(j, cdb)
            /\ \/ \E i \in LsqSlots :
                    /\ Leaving(cdb) = {i} /\ IsStore(lsq[i]) /\ j = SabFree
                    /\ sab'[j] = IF Renamed(j) THEN Rename(Entered(i)) ELSE Entered(i)
               \/ /\ \A i \in Leaving(cdb) : IsStore(lsq[i]) => j # SabFree
                  /\ sab'[j] = IF Renamed(j) THEN Rename(sab[j]) ELSE sab[j]
<1> DEFINE stored == {s \in Leaving(cdb) : IsStore(lsq[s])}
           new == stored # {} /\ j = SabFree
           s == CHOOSE s \in stored : TRUE
           base == IF new THEN Entered(s) ELSE sab[j]
<1>1. sab'[j] = IF Released(j) \/ Cut(j, cdb) THEN NoSabEntry
                ELSE IF Renamed(j) THEN Rename(base) ELSE base
  <2>1. SabClock(cdb, Leaving(cdb))
    BY CycleParts
  <2> QED
    BY <2>1 DEF SabClock, Released, Cut, Renamed, Entered, Rename
<1>2. CASE new
  <2>1. PICK i \in Leaving(cdb) : IsStore(lsq[i])
    BY <1>2
  <2>2. Leaving(cdb) = {i} /\ i \in LsqSlots
    BY LeavingFacts
  <2>3. stored = {i} /\ s = i
    BY <2>1, <2>2
  <2> HIDE DEF stored, s
  <2> QED
    BY <1>1, <1>2, <2>1, <2>2, <2>3
<1>3. CASE ~new
  <2>1. \A i \in Leaving(cdb) : IsStore(lsq[i]) => j # SabFree
    BY <1>3
  <2>2. base = sab[j]
    BY <1>3
  <2> HIDE DEF base, new
  <2> QED
    BY <1>1, <2>1, <2>2
<1> QED
  BY <1>2, <1>3

(* Every register keeps its type.                                          *)
LEMMA TypesKept ==
  ASSUME PathInv,
         NEW offer \in Offers, NEW calc \in Calculable, NEW cdb \in Broadcasts,
         NEW done \in BOOLEAN, Cycle(offer, calc, cdb, done)
  PROVE  TypeOK'
<1>1. /\ memOp \in [RobTags -> [addr : Addrs \cup {NoAddr}, val : Values]]
      /\ lsq \in [LsqSlots -> LsqEntry] /\ sab \in [SabSlots -> SabEntry]
      /\ sbArray \in [SbSlots -> [addr : Addrs \cup {NoAddr}, val : Values]]
      /\ sbEntry \in [valid : BOOLEAN, slot : SbSlots, tag : RobTags]
      /\ cache \in [st : CacheStates, addr : Addrs \cup {NoAddr}, val : Values]
      /\ mem \in [Addrs -> Values] /\ respReady \in BOOLEAN
      /\ RobTypeOK /\ RobCount <= ROB_DEPTH
      /\ 0 \in RobTags /\ 0 \in SbSlots /\ 0 \in SabSlots /\ 0 \in Values
  BY SizeAssumption, StoreBufferAssumption, LsqAssumption
     DEF PathInv, TypeOK, LsqTypeOK, SbTypeOK, PortTypeOK, FlightInv, RobTags, SbSlots,
         SabSlots, Values
<1>2. RobTop \in RobTags /\ RobBottom \in RobTags
  BY <1>1, DepthFacts
<1>3. RobTypeOK'
  BY FlightStep
<1>4. memOp' \in [RobTags -> [addr : Addrs \cup {NoAddr}, val : Values]]
  <2>1. memOp' = IF ToQueue(offer, cdb)
                   THEN [memOp EXCEPT ![RobBottom] = Operand(offer.kind, offer.addr)]
                 ELSE memOp
    BY CycleParts
  <2>2. ASSUME ToQueue(offer, cdb)
        PROVE  Operand(offer.kind, offer.addr)
                 \in [addr : Addrs \cup {NoAddr}, val : Values]
    <3>1. offer.addr \in Addrs
      BY <2>2, OfferFacts DEF ToQueue, NoOffer, MemoryKinds
    <3>2. ProgramValue(offer.addr) \in {0, 1}
      BY <3>1, ProgramValueFacts DEF Values
    <3>3. 1 - ProgramValue(offer.addr) \in {0, 1}
      BY <3>2
    <3> QED
      BY <3>1, <3>2, <3>3 DEF Operand, Values
  <2> QED
    BY <1>1, <1>2, <2>1, <2>2
<1>5. lsq' \in [LsqSlots -> LsqEntry]
  <2>1. ASSUME NEW i \in LsqSlots PROVE lsq'[i] \in LsqEntry
    <3>1. NoLsqEntry \in LsqEntry
          /\ [NoLsqEntry EXCEPT !.valid = TRUE, !.tag = RobBottom] \in LsqEntry
      BY <1>1, <1>2 DEF NoLsqEntry, LsqEntry
    <3> QED
      BY <3>1, QueueStep
  <2>2. \E f : lsq' = [i \in LsqSlots |-> f[i]]
    <3>1. LsqClock(cdb, calc, Leaving(cdb), ToQueue(offer, cdb), RobBottom)
      BY CycleParts
    <3>2. lsq' = [i \in LsqSlots |-> lsq'[i]]
      BY <3>1 DEF LsqClock
    <3> QED
      BY <3>2
  <2> QED
    BY <2>1, <2>2
<1>6. sab' \in [SabSlots -> SabEntry]
  <2>1. ASSUME NEW j \in SabSlots PROVE sab'[j] \in SabEntry
    <3>1. NoSabEntry \in SabEntry
      BY <1>1 DEF NoSabEntry, SabEntry
    <3>2. \A i \in LsqSlots : Entered(i) \in SabEntry
      <4> TAKE i \in LsqSlots
      <4>1. lsq[i].tag \in RobTags
        BY <1>1 DEF LsqEntry
      <4>2. AddrOf(lsq[i]) \in Addrs \cup {NoAddr}
        BY <1>1, <4>1 DEF AddrOf
      <4> QED
        BY <3>1, <4>1, <4>2 DEF Entered, SabEntry
    <3>3. \A e \in SabEntry : Rename(e) \in SabEntry
      BY <1>1 DEF Rename, SabEntry
    <3> QED
      BY <1>1, <3>1, <3>2, <3>3, SabStep
  <2>2. sab' = [j \in SabSlots |-> sab'[j]]
    <3>1. SabClock(cdb, Leaving(cdb))
      BY CycleParts
    <3> QED
      BY <3>1 DEF SabClock
  <2> QED
    BY <2>1, <2>2
<1>7. SbTypeOK(RobTags)'
  <2>1. memOp[RobTop] \in [addr : Addrs \cup {NoAddr}, val : Values]
    BY <1>1, <1>2
  <2>2. /\ sbArray' \in [SbSlots -> [addr : Addrs \cup {NoAddr}, val : Values]]
        /\ {sbWrite', sbLead', sbTrail'} \subseteq Pointers(SB_DEPTH)
    BY <1>1, <2>1, BufferStep
  <2>3. /\ sbEntry' \in [valid : BOOLEAN, slot : SbSlots, tag : RobTags]
        /\ sbFlush' \in [valid : BOOLEAN, slot : SbSlots]
    <3>1. Slot(sbWrite, SB_DEPTH) \in SbSlots /\ Slot(sbTrail, SB_DEPTH) \in SbSlots
      BY BufferStep
    <3>2. /\ \/ sbEntry' = NoSbEntry
             \/ sbEntry' = [valid |-> TRUE, slot |-> Slot(sbWrite, SB_DEPTH),
                            tag |-> RobTop]
          /\ \/ sbFlush' = NoSbFlush
             \/ sbFlush' = [valid |-> TRUE, slot |-> Slot(sbTrail, SB_DEPTH)]
      BY BufferStep
    <3>3. /\ NoSbEntry \in [valid : BOOLEAN, slot : SbSlots, tag : RobTags]
          /\ NoSbFlush \in [valid : BOOLEAN, slot : SbSlots]
      BY <1>1 DEF NoSbEntry, NoSbFlush
    <3>4. /\ [valid |-> TRUE, slot |-> Slot(sbWrite, SB_DEPTH), tag |-> RobTop]
               \in [valid : BOOLEAN, slot : SbSlots, tag : RobTags]
          /\ [valid |-> TRUE, slot |-> Slot(sbTrail, SB_DEPTH)]
               \in [valid : BOOLEAN, slot : SbSlots]
      BY <1>2, <3>1
    <3> QED
      BY <3>2, <3>3, <3>4
  <2> QED
    BY <2>2, <2>3 DEF SbTypeOK, SbSlots, RobTags
<1>8. PortTypeOK'
  <2>1. cache.st # "IDLE" => cache.addr \in Addrs
    BY DEF PathInv, SbInv
  <2>2. mem' \in [Addrs -> Values]
    <3>1. \/ mem' = mem
          \/ cache.st = "WRITE" /\ mem' = [mem EXCEPT ![cache.addr] = cache.val]
      BY PortStep
    <3> QED
      BY <1>1, <2>1, <3>1
  <2>3. cache' \in [st : CacheStates, addr : Addrs \cup {NoAddr}, val : Values]
    <3> DEFINE T == [st : CacheStates, addr : Addrs \cup {NoAddr}, val : Values]
               read == [cache EXCEPT !.st = "RRESP", !.val = mem[cache.addr]]
               written == [cache EXCEPT !.st = "WRESP"]
    <3>1. \A i \in LsqSlots : Load(AddrOf(lsq[i])) \in T
      BY <1>1 DEF Load, AddrOf, LsqEntry, CacheStates
    <3>2. Store(SbHead.addr, SbHead.val) \in T
      <4>1. Slot(sbLead, SB_DEPTH) \in SbSlots
        BY StoreBufferAssumption, PointerTypes DEF PathInv, TypeOK, SbTypeOK, SbSlots
      <4> QED
        BY <1>1, <4>1 DEF SbHead, Store, CacheStates
    <3>3. cache.st = "READ" => read \in T
      BY <1>1, <2>1 DEF CacheStates
    <3>4. written \in T /\ Idle \in T /\ cache \in T
      BY <1>1 DEF Idle, CacheStates
    <3> HIDE DEF T
    <3>5. \/ \E i \in LsqSlots : cache' = Load(AddrOf(lsq[i]))
          \/ cache' = Store(SbHead.addr, SbHead.val)
          \/ cache.st = "READ" /\ cache' = read
          \/ cache' = written
          \/ cache' = Idle
          \/ cache' = cache
      BY PortStep, Zenon
    <3> HIDE DEF read, written
    <3>6. cache' \in T
      <4>1. CASE \E i \in LsqSlots : cache' = Load(AddrOf(lsq[i]))
        BY <3>1, <4>1, Zenon
      <4>2. CASE cache' = Store(SbHead.addr, SbHead.val)
        BY <3>2, <4>2, Zenon
      <4>3. CASE cache.st = "READ" /\ cache' = read
        BY <3>3, <4>3, Zenon
      <4>4. CASE cache' = written \/ cache' = Idle \/ cache' = cache
        BY <3>4, <4>4, Zenon
      <4> QED
        BY <3>5, <4>1, <4>2, <4>3, <4>4, Zenon
    <3> QED
      BY <3>6 DEF T
  <2> QED
    BY <2>2, <2>3 DEF PortTypeOK
<1>9. respReady' \in BOOLEAN
  <2>1. LsbClock(cdb, Leaving(cdb))
    BY CycleParts
  <2>2. cdb.flush => respReady' = (respReady /\ ~LoadAnswered)
    BY <2>1 DEF LsbClock
  <2>3. ~cdb.flush => respReady' = (LoadSent(Leaving(cdb)) # {}
                                      \/ (respReady /\ ~LoadAnswered))
    BY <2>1 DEF LsbClock
  <2> QED
    BY <2>2, <2>3, Zenon
<1>10. lw' \in LwEntry /\ lsb' \in Seq(LsbEntry) /\ Len(lsb') <= LSB_DEPTH
  BY LsbMembers
<1>11. LsqTypeOK'
  BY <1>4, <1>5, <1>6
     DEF LsqTypeOK, LsqSlots, SabSlots, LsqEntry, SabEntry, RobTags, SbSlots
<1> QED
  BY <1>3, <1>7, <1>8, <1>9, <1>10, <1>11 DEF TypeOK, LwEntry, LsbEntry, RobTags

(* The invariant holds initially.                                          *)
LEMMA PathInvInit == Init => PathInv /\ AnswersAreTaken
<1> SUFFICES ASSUME Init PROVE PathInv /\ AnswersAreTaken
  OBVIOUS
<1> USE DEF Init, RobInit, LsqInit, SbInit, PortInit
<1>1. /\ 0 \in RobTags /\ 0 \in SbSlots /\ 0 \in SabSlots /\ 0 \in Values
      /\ 0 \in ArchRegs /\ 0 \in PhyRegs
      /\ 0 \in Pointers(ROB_DEPTH) /\ 0 \in Pointers(SB_DEPTH)
  BY SizeAssumption, StoreBufferAssumption, LsqAssumption
     DEF RobTags, SbSlots, SabSlots, Values, ArchRegs, PhyRegs, Pointers
<1>2. RobTypeOK /\ RobCount <= ROB_DEPTH
  BY <1>1, SizeAssumption DEF RobTypeOK, RobEntry, Kinds, RobCount, Dist
<1>3. LiveTags = {}
  BY <1>2, DepthFacts, SizeAssumption DEF RobCount, Dist
<1>4. LsqTypeOK /\ \A i \in LsqSlots : ~lsq[i].valid
  <2>1. NoStore \in [addr : Addrs \cup {NoAddr}, val : Values]
    BY <1>1 DEF NoStore
  <2>2. NoLsqEntry \in LsqEntry /\ ~NoLsqEntry.valid
    BY <1>1 DEF NoLsqEntry, LsqEntry
  <2>3. NoSabEntry \in SabEntry
    BY <1>1 DEF NoSabEntry, SabEntry
  <2> QED
    BY <2>1, <2>2, <2>3 DEF LsqTypeOK
<1>5. SbTypeOK(RobTags)
  BY <1>1 DEF SbTypeOK, NoStore, NoSbEntry, NoSbFlush
<1>6. PortTypeOK /\ cache.st = "IDLE"
  BY <1>1 DEF PortTypeOK, Idle, CacheStates
<1>7. lw \in LwEntry /\ ~lw.valid
  BY <1>1 DEF NoLoad, LwEntry
<1>8. lsb \in Seq(LsbEntry) /\ Len(lsb) <= LSB_DEPTH /\ DOMAIN lsb = {}
  BY MemoryOrderAssumption
<1>9. TypeOK
  BY <1>2, <1>4, <1>5, <1>6, <1>7, <1>8 DEF TypeOK, LwEntry, LsbEntry
<1>10. SbInv
  <2>1. SbLive = {}
    BY StoreBufferAssumption DEF SbLive, Window, Dist, Pointers
  <2> QED
    BY <1>6, <2>1, StoreBufferAssumption DEF SbInv, SbCount, Dist, Writing
<1> QED
  BY <1>2, <1>3, <1>4, <1>6, <1>7, <1>8, <1>9, <1>10
     DEF PathInv, FlightInv, QueueInv, LsbInv, AnswersAreTaken

(* The invariant holds after every cycle.                                  *)
LEMMA PathInvStep ==
  PathInv /\ AnswersAreTaken /\ [Next]_vars => PathInv' /\ AnswersAreTaken'
<1> SUFFICES ASSUME PathInv, AnswersAreTaken, [Next]_vars
             PROVE  PathInv' /\ AnswersAreTaken'
  OBVIOUS
<1>1. CASE Next
  <2>1. PICK offer \in Offers, calc \in Calculable, cdb \in Broadcasts, done \in BOOLEAN :
          Cycle(offer, calc, cdb, done)
    BY <1>1 DEF Next
  <2>2. AnswersAreTaken'
    BY <2>1, AnswersKept
  <2>3. TypeOK' /\ FlightInv' /\ QueueInv'
    BY <2>1, TypesKept, FlightKept, QueueKept
  <2>4. LsbInv' /\ SbInv'
    BY <2>1, LsbKept, BufferKept
  <2> QED
    BY <2>2, <2>3, <2>4 DEF PathInv
<1>2. CASE UNCHANGED vars
  <2>1. /\ UNCHANGED <<rob, robWrite, robRead, memOp, lsq, sab>>
        /\ UNCHANGED <<sbArray, sbWrite, sbLead, sbTrail, sbEntry, sbFlush>>
        /\ UNCHANGED <<lw, respReady, lsb, cache, mem>>
    BY <1>2 DEF vars, robVars, lsqVars, sbVars, portVars
  <2>2. TypeOK' /\ AnswersAreTaken'
    BY <2>1 DEF PathInv, TypeOK, RobTypeOK, LsqTypeOK, SbTypeOK, PortTypeOK, AnswersAreTaken
  <2>3. LiveTags' = LiveTags /\ RobCount' = RobCount
    BY <2>1 DEF LiveTags, RobCount
  <2>4. \A t : (Pending(t)' <=> Pending(t)) /\ (LeftQueue(t)' <=> LeftQueue(t))
    BY <2>1, <2>3 DEF Pending, LeftQueue
  <2>5. FlightInv' /\ QueueInv' /\ LsbInv'
    BY <2>1, <2>3, <2>4 DEF PathInv, FlightInv, QueueInv, LsbInv, Pending, LeftQueue
  <2>6. SbInv'
    BY <2>1 DEF PathInv, SbInv, SbCount, SbLive, SbOldest, Writing
  <2> QED
    BY <2>2, <2>5, <2>6 DEF PathInv
<1> QED
  BY <1>1, <1>2

(* In every reachable state the queue, the load slot and the buffer hold   *)
(* accesses that are in the ROB and have not completed, each in one place, *)
(* and the store the cache works on is the oldest of the store buffer.     *)
THEOREM PathInvariant == Spec => []PathInv
<1>1. Spec => [](PathInv /\ AnswersAreTaken)
  BY PathInvInit, PathInvStep, PTL DEF Spec
<1> QED
  BY <1>1, PTL

(* Every register has its type, and no buffer holds more than its size.    *)
THEOREM TypeCorrect == Spec => []TypeOK
<1>1. PathInv => TypeOK
  BY DEF PathInv
<1> QED
  BY <1>1, PathInvariant, PTL

(* The LSB is ready for every answer of the cache.                         *)
THEOREM AnswersTaken == Spec => []AnswersAreTaken
<1>1. Spec => [](PathInv /\ AnswersAreTaken)
  BY PathInvInit, PathInvStep, PTL DEF Spec
<1> QED
  BY <1>1, PTL

-----------------------------------------------------------------------------
(* A fence ahead of a load was there before the load; the load is in the   *)
(* queue when it enters and does not leave while the fence is there.       *)
LEMMA FenceKept ==
  ASSUME PathInv, FenceHoldsLoads,
         NEW offer \in Offers, NEW calc \in Calculable, NEW cdb \in Broadcasts,
         NEW done \in BOOLEAN, Cycle(offer, calc, cdb, done)
  PROVE  FenceHoldsLoads'
<1>1. SUFFICES ASSUME NEW f \in LiveTags', NEW t \in LiveTags',
                      rob'[f].kind = "FENCE", rob'[t].kind = "LOAD", Depth(f)' < Depth(t)'
               PROVE  ~LeftQueue(t)'
  BY DEF FenceHoldsLoads
<1>2. Depth(f) < Depth(t)
  BY <1>1, FlightStep
<1>3. CASE Fires(offer, cdb) /\ t = RobBottom
  <2>1. ToQueue(offer, cdb)
    BY <1>1, <1>3, EntryStep DEF MemoryKinds
  <2> QED
    BY <1>3, <2>1, LeftStep DEF LeftQueue
<1>4. CASE t \in Survivors(cdb)
  <2>1. t \in LiveTags /\ rob[t].kind = "LOAD"
    BY <1>1, <1>4, EntryStep
  <2>2. f \in Survivors(cdb)
    <3>1. Depth(t) < RobCount
      BY <2>1, FlightStep
    <3>2. Fires(offer, cdb) => Depth(RobBottom) = RobCount
      BY FlightStep
    <3>3. f \in Survivors(cdb) \/ (Fires(offer, cdb) /\ f = RobBottom)
      BY FlightStep
    <3>4. RobCount \in Int /\ Depth(t) \in Int
      BY <2>1, DepthFacts DEF PathInv, TypeOK, FlightInv
    <3> QED
      BY <1>2, <3>1, <3>2, <3>3, <3>4
  <2>3. f \in LiveTags /\ rob[f].kind = "FENCE"
    BY <1>1, <2>2, EntryStep
  <2>4. ~LeftQueue(t)
    BY <1>2, <2>1, <2>3 DEF FenceHoldsLoads
  <2>5. ASSUME NEW s \in Leaving(cdb), lsq[s].tag = t PROVE FALSE
    <3>1. IsLoad(lsq[s]) /\ ~IsStore(lsq[s])
      BY <2>1, <2>5, LeavingFacts DEF IsLoad, IsStore
    <3>2. ~BehindFence(lsq[s])
      BY <3>1, LeavingFacts DEF LoadMayIssue
    <3> QED
      BY <1>2, <2>3, <2>5, <3>2 DEF BehindFence, FencesLive
  <2> QED
    BY <1>4, <2>4, <2>5, LeftStep
<1> QED
  BY <1>3, <1>4, FlightStep

(* No load behind a fence is sent to the cache while the fence is in       *)
(* flight.                                                                 *)
THEOREM FenceOrdersLoads == Spec => []FenceHoldsLoads
<1>1. Init => FenceHoldsLoads
  <2>1. SUFFICES ASSUME Init PROVE LiveTags = {}
    BY DEF FenceHoldsLoads
  <2> QED
    BY <2>1, PathInvInit, DepthFacts, SizeAssumption
       DEF PathInv, TypeOK, FlightInv, Init, RobInit, RobCount, Dist
<1>2. PathInv /\ FenceHoldsLoads /\ [Next]_vars => FenceHoldsLoads'
  <2> SUFFICES ASSUME PathInv, FenceHoldsLoads, [Next]_vars PROVE FenceHoldsLoads'
    OBVIOUS
  <2>1. CASE Next
    BY <2>1, FenceKept DEF Next
  <2>2. CASE UNCHANGED vars
    <3>1. UNCHANGED <<rob, robWrite, robRead, lsq>>
      BY <2>2 DEF vars, robVars, lsqVars
    <3>2. LiveTags' = LiveTags /\ \A t : Depth(t)' = Depth(t)
      BY <3>1 DEF LiveTags, Depth, RobTop
    <3>3. \A t : LeftQueue(t)' <=> LeftQueue(t)
      BY <3>1 DEF LeftQueue
    <3> QED
      BY <3>1, <3>2, <3>3 DEF FenceHoldsLoads
  <2> QED
    BY <2>1, <2>2
<1> QED
  BY <1>1, <1>2, PathInvariant, PTL DEF Spec

-----------------------------------------------------------------------------
(* The stores and loads in flight in program order: the places of the      *)
(* store buffer, oldest first, and behind them those of the ROB.           *)
Places == {<<0, p>> : p \in Waiting} \cup {<<1, t>> : t \in LiveTags}
Before(x, y) ==
  \/ x[1] < y[1]
  \/ x[1] = 0 /\ y[1] = 0 /\ Position(x[2]) < Position(y[2])
  \/ x[1] = 1 /\ y[1] = 1 /\ Depth(x[2]) < Depth(y[2])
OpAt(x) == IF x[1] = 0 THEN sbArray[Slot(x[2], SB_DEPTH)] ELSE memOp[x[2]]
StoreAt(x) == x[1] = 1 => rob[x[2]].kind = "STORE"
AccessAt(x) == x[1] = 1 => rob[x[2]].kind \in MemoryKinds
StoresTo(a) == {x \in Places : StoreAt(x) /\ OpAt(x).addr = a}
AccessesTo(a) == {x \in Places : AccessAt(x) /\ OpAt(x).addr = a}

(* The value of its double word that an access has taken for the one       *)
(* before it.                                                              *)
Found(x) == IF StoreAt(x) THEN 1 - OpAt(x).val ELSE OpAt(x).val

(* The store x is the last one to a before y; there is none before y.      *)
Follows(x, y, a) ==
  /\ x \in StoresTo(a) /\ Before(x, y)
  /\ \A z \in StoresTo(a) : ~(Before(x, z) /\ Before(z, y))
First(y, a) == \A x \in StoresTo(a) : ~Before(x, y)

(* Every access has found the value of the last store before it, and the   *)
(* oldest ones that of memory; memory has the value of the oldest store    *)
(* already when the cache has performed it and not answered.               *)
Oldest == <<0, sbTrail>>
Performed(y) == y = Oldest /\ cache.st = "WRESP"
ChainInv ==
  \A a \in Addrs : \A y \in AccessesTo(a) :
    /\ \A x \in StoresTo(a) : Follows(x, y, a) => Found(y) = OpAt(x).val
    /\ First(y, a) => Found(y) = IF Performed(y) THEN 1 - mem[a] ELSE mem[a]

-----------------------------------------------------------------------------
(* The positions in the store buffer keep their order.                     *)
LEMMA PositionStep ==
  ASSUME PathInv,
         NEW offer \in Offers, NEW calc \in Calculable, NEW cdb \in Broadcasts,
         NEW done \in BOOLEAN, Cycle(offer, calc, cdb, done)
  PROVE  /\ \A p, q \in Waiting' : Position(p)' < Position(q)' <=> Position(p) < Position(q)
         /\ \A p, q \in Waiting : Position(p) = Position(q) => p = q
         /\ \A p \in Waiting : /\ Position(p) \in Nat /\ ~(Position(p) < Position(sbTrail))
                               /\ p # sbTrail => Position(sbTrail) < Position(p)
         /\ StoreCommits => /\ sbWrite \notin Waiting /\ sbWrite \in Waiting'
                            /\ \A p \in Waiting : Position(p) < Position(sbWrite)
<1> DEFINE D == SB_DEPTH
<1>1. /\ sbWrite \in Pointers(D) /\ sbTrail \in Pointers(D) /\ D \in Nat \ {0}
      /\ Dist(sbWrite, sbTrail, D) <= D
  BY StoreBufferAssumption
     DEF PathInv, TypeOK, SbTypeOK, SbInv, SbCount
<1>2. /\ StoreCommits => Dist(sbWrite, sbTrail, D) < D
      /\ StoreAnswered => sbWrite # sbTrail
      /\ sbTrail' = IF StoreAnswered THEN Succ(sbTrail, D) ELSE sbTrail
      /\ Waiting' = (Waiting \cup (IF StoreCommits THEN {sbWrite} ELSE {}))
                      \ (IF StoreAnswered THEN {sbTrail} ELSE {})
  BY BufferStep DEF SbCount
<1>3. Waiting \subseteq Pointers(D) /\ Waiting' \subseteq Pointers(D)
  BY <1>1, <1>2 DEF Waiting, Window
<1>4. ASSUME NEW p \in Waiting', NEW q \in Waiting'
      PROVE  Position(p)' < Position(q)' <=> Position(p) < Position(q)
  <2>1. p \in Pointers(D) /\ q \in Pointers(D)
    BY <1>3
  <2>2. StoreAnswered => p # sbTrail /\ q # sbTrail
    BY <1>2
  <2> QED
    BY <1>1, <1>2, <2>1, <2>2 DEF Position, Dist, Pointers, Succ
<1>5. \A p, q \in Pointers(D) : Position(p) = Position(q) => p = q
  BY <1>1 DEF Position, Dist, Pointers
<1>6. \A p \in Pointers(D) : /\ Position(p) \in Nat /\ ~(Position(p) < Position(sbTrail))
                             /\ p # sbTrail => Position(sbTrail) < Position(p)
  BY <1>1 DEF Position, Dist, Pointers
<1>7. sbWrite \notin Waiting /\ \A p \in Waiting : Position(p) < Position(sbWrite)
  BY <1>1 DEF Waiting, Window, Position, Dist, Pointers
<1>8. StoreCommits => sbWrite \in Waiting'
  <2>1. StoreAnswered => sbWrite # sbTrail
    BY <1>2
  <2> QED
    BY <1>2, <2>1
<1> QED
  BY <1>3, <1>4, <1>5, <1>6, <1>7, <1>8

(* Where a place comes from: a store that commits moves to the buffer.     *)
Origin(x) == IF StoreCommits /\ x = <<0, sbWrite>> THEN <<1, RobTop>> ELSE x
NewPlace == <<1, RobBottom>>

(* The places that a cycle removes: a flushed instruction, the committed   *)
(* one when it is no store, and the store that the cache has answered.     *)
Dropped(x, cdb) ==
  \/ x[1] = 1 /\ Flushed(x[2], cdb)
  \/ x = <<1, RobTop>> /\ Commits(Status) /\ ~StoreAt(x)
  \/ x = Oldest /\ StoreAnswered

(* A cycle removes places at the two ends and adds one behind the others,  *)
(* and does not change the rest.                                           *)
LEMMA PlaceStep ==
  ASSUME PathInv,
         NEW offer \in Offers, NEW calc \in Calculable, NEW cdb \in Broadcasts,
         NEW done \in BOOLEAN, Cycle(offer, calc, cdb, done)
  PROVE  /\ \A x \in Places' :
              \/ Fires(offer, cdb) /\ x = NewPlace
              \/ /\ ~(Fires(offer, cdb) /\ x = NewPlace)
                 /\ Origin(x) \in Places /\ ~Dropped(Origin(x), cdb)
                 /\ OpAt(x)' = OpAt(Origin(x))
                 /\ StoreAt(x)' <=> StoreAt(Origin(x))
                 /\ AccessAt(x)' <=> AccessAt(Origin(x))
         /\ \A z \in Places : ~Dropped(z, cdb) =>
              \E x \in Places' : Origin(x) = z /\ ~(Fires(offer, cdb) /\ x = NewPlace)
<1> DEFINE fresh(x) == Fires(offer, cdb) /\ x = NewPlace
<1>1. /\ LiveTags' = Survivors(cdb) \cup (IF Fires(offer, cdb) THEN {RobBottom} ELSE {})
      /\ Fires(offer, cdb) => RobBottom \notin LiveTags
      /\ Commits(Status) => RobTop \in LiveTags
  BY FlightStep
<1>2. /\ Waiting' = (Waiting \cup (IF StoreCommits THEN {sbWrite} ELSE {}))
                      \ (IF StoreAnswered THEN {sbTrail} ELSE {})
      /\ StoreCommits => /\ RobTop \in LiveTags /\ rob[RobTop].kind = "STORE"
                         /\ Commits(Status)
      /\ StoreAnswered => sbWrite # sbTrail
  BY BufferStep DEF StoreCommits
<1>3. /\ sbArray \in [SbSlots -> [addr : Addrs \cup {NoAddr}, val : Values]]
      /\ Slot(sbWrite, SB_DEPTH) \in SbSlots
      /\ sbArray' = IF StoreCommits
                      THEN [sbArray EXCEPT ![Slot(sbWrite, SB_DEPTH)] = memOp[RobTop]]
                    ELSE sbArray
      /\ \A p \in Waiting : /\ Slot(p, SB_DEPTH) \in SbSlots
                            /\ StoreCommits => Slot(p, SB_DEPTH) # Slot(sbWrite, SB_DEPTH)
      /\ StoreCommits => sbWrite \notin Waiting
  BY BufferStep, PositionStep DEF PathInv, TypeOK, SbTypeOK
<1>4. ~Flushed(RobTop, cdb)
  <2>1. Depth(RobTop) = 0 /\ (cdb.flush => Depth(cdb.tag) \in 0 .. ROB_DEPTH - 1)
    <3>1. RobTypeOK /\ RobCount <= ROB_DEPTH /\ cdb.tag \in RobTags
      BY BroadcastFacts DEF PathInv, TypeOK, FlightInv
    <3> QED
      BY <3>1, DepthFacts
  <2> QED
    BY <2>1, SizeAssumption DEF Flushed
<1>5. ASSUME NEW p \in Waiting', p \in Waiting
      PROVE  /\ Origin(<<0, p>>) = <<0, p>> /\ <<0, p>> \in Places
             /\ ~Dropped(<<0, p>>, cdb) /\ ~fresh(<<0, p>>)
             /\ OpAt(<<0, p>>)' = OpAt(<<0, p>>)
             /\ StoreAt(<<0, p>>)' /\ StoreAt(<<0, p>>)
             /\ AccessAt(<<0, p>>)' /\ AccessAt(<<0, p>>)
  <2>1. sbArray'[Slot(p, SB_DEPTH)] = sbArray[Slot(p, SB_DEPTH)]
    BY <1>3, <1>5
  <2>2. StoreAnswered => p # sbTrail
    BY <1>2, <1>5
  <2>3. <<0, p>>[1] = 0 /\ <<0, p>>[2] = p
    OBVIOUS
  <2>4. ~(StoreCommits /\ p = sbWrite)
    BY <1>3, <1>5
  <2> QED
    BY <1>5, <2>1, <2>2, <2>3, <2>4
       DEF Origin, Places, Dropped, NewPlace, OpAt, StoreAt, AccessAt, Oldest
<1>6. ASSUME StoreCommits, NEW p, p = sbWrite, NEW t, t = RobTop
      PROVE  /\ Origin(<<0, p>>) = <<1, t>> /\ <<1, t>> \in Places
             /\ ~Dropped(<<1, t>>, cdb) /\ ~fresh(<<0, p>>)
             /\ OpAt(<<0, p>>)' = OpAt(<<1, t>>)
             /\ StoreAt(<<0, p>>)' /\ StoreAt(<<1, t>>)
             /\ AccessAt(<<0, p>>)' /\ AccessAt(<<1, t>>)
  <2>1. sbArray'[Slot(p, SB_DEPTH)] = memOp[t]
    BY <1>3, <1>6
  <2>2. /\ <<0, p>>[1] = 0 /\ <<0, p>>[2] = p /\ <<1, t>>[1] = 1 /\ <<1, t>>[2] = t
        /\ t \in LiveTags /\ rob[t].kind = "STORE"
    BY <1>2, <1>6
  <2>3. Origin(<<0, p>>) = <<1, t>> /\ <<1, t>> \in Places
    BY <1>6, <2>2 DEF Origin, Places
  <2>4. StoreAt(<<1, t>>) /\ AccessAt(<<1, t>>) /\ StoreAt(<<0, p>>)' /\ AccessAt(<<0, p>>)'
    BY <2>2 DEF StoreAt, AccessAt, MemoryKinds
  <2>5. OpAt(<<0, p>>)' = memOp[t] /\ OpAt(<<1, t>>) = memOp[t]
    BY <2>1, <2>2 DEF OpAt
  <2>6. ~Dropped(<<1, t>>, cdb)
    BY <1>4, <1>6, <2>2, <2>4 DEF Dropped, Oldest
  <2>7. ~fresh(<<0, p>>)
    BY <2>2 DEF NewPlace
  <2> QED
    BY <2>3, <2>4, <2>5, <2>6, <2>7
<1>7. ASSUME NEW t \in Survivors(cdb)
      PROVE  /\ Origin(<<1, t>>) = <<1, t>> /\ <<1, t>> \in Places
             /\ ~Dropped(<<1, t>>, cdb) /\ ~fresh(<<1, t>>)
             /\ OpAt(<<1, t>>)' = OpAt(<<1, t>>)
             /\ StoreAt(<<1, t>>)' <=> StoreAt(<<1, t>>)
             /\ AccessAt(<<1, t>>)' <=> AccessAt(<<1, t>>)
  <2>1. /\ <<1, t>>[1] = 1 /\ <<1, t>>[2] = t /\ t \in LiveTags /\ ~Flushed(t, cdb)
        /\ ~(Commits(Status) /\ t = RobTop)
    BY DEF Survivors
  <2>2. memOp'[t] = memOp[t] /\ rob'[t].kind = rob[t].kind
    BY EntryStep
  <2>3. ~fresh(<<1, t>>)
    BY <1>1, <2>1 DEF NewPlace
  <2>4. Origin(<<1, t>>) = <<1, t>> /\ <<1, t>> \in Places
    BY <2>1 DEF Origin, Places
  <2>5. ~Dropped(<<1, t>>, cdb)
    BY <2>1 DEF Dropped, Oldest
  <2>6. /\ OpAt(<<1, t>>)' = OpAt(<<1, t>>)
        /\ StoreAt(<<1, t>>)' <=> StoreAt(<<1, t>>)
        /\ AccessAt(<<1, t>>)' <=> AccessAt(<<1, t>>)
    BY <2>1, <2>2 DEF OpAt, StoreAt, AccessAt
  <2> QED
    BY <2>3, <2>4, <2>5, <2>6
<1>8. ASSUME NEW x \in Places'
      PROVE  \/ fresh(x)
             \/ \E p \in Waiting' : p \in Waiting /\ x = <<0, p>>
             \/ StoreCommits /\ x = <<0, sbWrite>>
             \/ \E t \in Survivors(cdb) : x = <<1, t>>
  <2>1. (\E p \in Waiting' : x = <<0, p>>) \/ (\E t \in LiveTags' : x = <<1, t>>)
    BY <1>8 DEF Places
  <2>2. CASE \E p \in Waiting' : x = <<0, p>>
    BY <2>2, <1>2
  <2>3. CASE \E t \in LiveTags' : x = <<1, t>>
    BY <2>3, <1>1 DEF NewPlace
  <2> QED
    BY <2>1, <2>2, <2>3
<1>9. ASSUME NEW x \in Places'
      PROVE  \/ fresh(x)
             \/ /\ ~fresh(x)
                /\ Origin(x) \in Places /\ ~Dropped(Origin(x), cdb)
                /\ OpAt(x)' = OpAt(Origin(x))
                /\ StoreAt(x)' <=> StoreAt(Origin(x))
                /\ AccessAt(x)' <=> AccessAt(Origin(x))
  <2>1. CASE \E p \in Waiting' : p \in Waiting /\ x = <<0, p>>
    <3>1. PICK p \in Waiting' : p \in Waiting /\ x = <<0, p>>
      BY <2>1
    <3>2. Origin(x) = x
      BY <1>5, <3>1
    <3> HIDE DEF fresh
    <3> QED
      BY <1>5, <3>1, <3>2
  <2>2. CASE StoreCommits /\ x = <<0, sbWrite>>
    <3>1. PICK p, t : p = sbWrite /\ t = RobTop
      OBVIOUS
    <3>2. x = <<0, p>> /\ Origin(x) = <<1, t>>
      BY <1>6, <2>2, <3>1
    <3> HIDE DEF fresh
    <3> QED
      BY <1>6, <2>2, <3>1, <3>2
  <2>3. CASE \E t \in Survivors(cdb) : x = <<1, t>>
    <3>1. PICK t \in Survivors(cdb) : x = <<1, t>>
      BY <2>3
    <3>2. Origin(x) = x
      BY <1>7, <3>1
    <3> HIDE DEF fresh
    <3> QED
      BY <1>7, <3>1, <3>2
  <2> QED
    BY <1>8, <2>1, <2>2, <2>3
<1>10. ASSUME NEW z \in Places, ~Dropped(z, cdb)
       PROVE  \E x \in Places' : Origin(x) = z /\ ~fresh(x)
  <2>1. CASE \E p \in Waiting : z = <<0, p>>
    <3>1. PICK p \in Waiting : z = <<0, p>>
      BY <2>1
    <3>2. p \in Waiting'
      BY <1>2, <1>10, <3>1 DEF Dropped, Oldest
    <3>3. <<0, p>> \in Places'
      BY <3>2 DEF Places
    <3> HIDE DEF fresh
    <3> QED
      BY <1>5, <3>1, <3>2, <3>3
  <2>2. CASE \E t \in LiveTags : z = <<1, t>>
    <3>1. PICK t \in LiveTags : z = <<1, t>>
      BY <2>2
    <3>2. <<1, t>>[1] = 1 /\ <<1, t>>[2] = t /\ ~Flushed(t, cdb)
      BY <1>10, <3>1 DEF Dropped
    <3>3. CASE Commits(Status) /\ t = RobTop
      <4>1. rob[t].kind = "STORE"
        BY <1>10, <3>1, <3>2, <3>3 DEF Dropped, StoreAt
      <4>2. StoreCommits
        BY <3>3, <4>1 DEF StoreCommits, RobHead
      <4>3. PICK p : p = sbWrite
        OBVIOUS
      <4>4. p \in Waiting'
        BY <4>2, <4>3, PositionStep
      <4>5. <<0, p>> \in Places'
        BY <4>4 DEF Places
      <4> HIDE DEF fresh
      <4> QED
        BY <1>6, <3>1, <3>3, <4>2, <4>3, <4>5
    <3>4. CASE ~(Commits(Status) /\ t = RobTop)
      <4>1. t \in Survivors(cdb)
        BY <3>2, <3>4 DEF Survivors
      <4>2. <<1, t>> \in Places'
        BY <1>1, <4>1 DEF Places
      <4> HIDE DEF fresh
      <4> QED
        BY <1>7, <3>1, <4>1, <4>2
    <3> QED
      BY <3>3, <3>4
  <2> QED
    BY <2>1, <2>2 DEF Places
<1> QED
  BY <1>9, <1>10

(* Places are ordered, the oldest store of the store buffer first.         *)
LEMMA OrderFacts ==
  ASSUME PathInv
  PROVE  /\ \A x, y \in Places : x = y \/ Before(x, y) \/ Before(y, x)
         /\ \A x, y \in Places : ~(Before(x, y) /\ Before(y, x))
         /\ \A x \in Places : ~Before(x, Oldest) /\ ~Before(x, x)
         /\ \A x \in Places : x # Oldest /\ sbWrite # sbTrail => Before(Oldest, x)
<1>1. /\ RobTypeOK /\ RobCount <= ROB_DEPTH
      /\ sbWrite \in Pointers(SB_DEPTH) /\ sbTrail \in Pointers(SB_DEPTH)
      /\ SB_DEPTH \in Nat \ {0} /\ Dist(sbWrite, sbTrail, SB_DEPTH) <= SB_DEPTH
  BY StoreBufferAssumption
     DEF PathInv, TypeOK, SbTypeOK, FlightInv, SbInv, SbCount
<1>2. /\ \A s, t \in LiveTags : Depth(s) = Depth(t) => s = t
      /\ \A t \in LiveTags : Depth(t) \in Nat
  BY <1>1, DepthFacts
<1>3. /\ \A p, q \in Waiting : Position(p) = Position(q) => p = q
      /\ \A p \in Waiting : /\ Position(p) \in Nat /\ ~(Position(p) < Position(sbTrail))
                            /\ p # sbTrail => Position(sbTrail) < Position(p)
  BY <1>1 DEF Waiting, Window, Position, Dist, Pointers
<1>4. ASSUME NEW x \in Places
      PROVE  \/ x[1] = 0 /\ x[2] \in Waiting /\ x = <<0, x[2]>>
             \/ x[1] = 1 /\ x[2] \in LiveTags /\ x = <<1, x[2]>>
  BY DEF Places
<1>5. Oldest[1] = 0 /\ Oldest[2] = sbTrail
  BY DEF Oldest
<1>6. ASSUME NEW x \in Places, NEW y \in Places
      PROVE  /\ x = y \/ Before(x, y) \/ Before(y, x)
             /\ ~(Before(x, y) /\ Before(y, x))
  <2>1. CASE x[1] = 0 /\ y[1] = 0
    <3>1. x[2] \in Waiting /\ y[2] \in Waiting /\ (x[2] = y[2] => x = y)
      BY <1>4, <2>1
    <3> QED
      BY <1>3, <2>1, <3>1 DEF Before
  <2>2. CASE x[1] = 1 /\ y[1] = 1
    <3>1. x[2] \in LiveTags /\ y[2] \in LiveTags /\ (x[2] = y[2] => x = y)
      BY <1>4, <2>2
    <3> QED
      BY <1>2, <2>2, <3>1 DEF Before
  <2>3. CASE x[1] # y[1]
    <3>1. x[1] \in {0, 1} /\ y[1] \in {0, 1}
      BY <1>4
    <3> QED
      BY <2>3, <3>1 DEF Before
  <2> QED
    BY <1>4, <2>1, <2>2, <2>3
<1>7. ASSUME NEW x \in Places
      PROVE  /\ ~Before(x, Oldest)
             /\ x # Oldest /\ sbWrite # sbTrail => Before(Oldest, x)
  <2>1. CASE x[1] = 0
    <3>1. x[2] \in Waiting /\ (x[2] = sbTrail => x = Oldest)
      BY <1>4, <2>1 DEF Oldest
    <3> QED
      BY <1>3, <1>5, <2>1, <3>1 DEF Before
  <2>2. CASE x[1] = 1
    BY <1>5, <2>2 DEF Before
  <2> QED
    BY <1>4, <2>1, <2>2
<1> QED
  BY <1>6, <1>7

(* The order does not change; a new place is behind all others; and of the *)
(* stores only the answered one leaves from before a place that stays.     *)
LEMMA OrderStep ==
  ASSUME PathInv,
         NEW offer \in Offers, NEW calc \in Calculable, NEW cdb \in Broadcasts,
         NEW done \in BOOLEAN, Cycle(offer, calc, cdb, done)
  PROVE  /\ \A x, y \in Places' :
              /\ x # NewPlace \/ ~Fires(offer, cdb)
              /\ y # NewPlace \/ ~Fires(offer, cdb)
              => (Before(x, y)' <=> Before(Origin(x), Origin(y)))
         /\ \A x, n \in Places' :
              Fires(offer, cdb) /\ n = NewPlace =>
                ~Before(n, x)' /\ (x = n \/ Before(x, n)')
         /\ \A x, z \in Places :
              Dropped(z, cdb) /\ ~Dropped(x, cdb) /\ StoreAt(z) /\ Before(z, x) =>
                z = Oldest /\ StoreAnswered
<1> DEFINE fresh(x) == Fires(offer, cdb) /\ x = NewPlace
<1>1. /\ LiveTags' = Survivors(cdb) \cup (IF Fires(offer, cdb) THEN {RobBottom} ELSE {})
      /\ Fires(offer, cdb) => Depth(RobBottom) = RobCount /\ RobBottom \notin LiveTags
      /\ \A t \in LiveTags : Depth(t) < RobCount
      /\ \A s, t \in LiveTags' : Depth(s)' < Depth(t)' <=> Depth(s) < Depth(t)
      /\ Commits(Status) => RobTop \in LiveTags
  BY FlightStep
<1>2. /\ RobCount \in Nat /\ Depth(RobTop) = 0
      /\ \A t \in LiveTags : Depth(t) \in Nat
      /\ \A s, t \in LiveTags : Depth(s) = Depth(t) => s = t
      /\ Depth(cdb.tag) \in Nat
  <2>1. RobTypeOK /\ RobCount <= ROB_DEPTH /\ cdb.tag \in RobTags /\ ROB_DEPTH \in Nat
    BY BroadcastFacts, SizeAssumption DEF PathInv, TypeOK, FlightInv
  <2> QED
    BY <2>1, DepthFacts
<1>3. ASSUME NEW x \in Places', ~fresh(x)
      PROVE  \/ /\ x[1] = 0 /\ x[2] \in Waiting' /\ x[2] \in Waiting /\ Origin(x) = x
             \/ /\ x[1] = 0 /\ x[2] = sbWrite /\ StoreCommits /\ x[2] \in Waiting'
                /\ Origin(x)[1] = 1 /\ Origin(x)[2] = RobTop
             \/ /\ x[1] = 1 /\ x[2] \in Survivors(cdb) /\ Origin(x) = x
                /\ x[2] \in LiveTags'
  <2>1. \/ x[1] = 0 /\ x[2] \in Waiting' /\ x = <<0, x[2]>>
        \/ x[1] = 1 /\ x[2] \in LiveTags' /\ x = <<1, x[2]>>
    BY DEF Places
  <2>2. CASE x[1] = 0
    <3>1. x[2] \in Waiting \/ (StoreCommits /\ x[2] = sbWrite)
      BY <2>1, <2>2, BufferStep
    <3>2. StoreCommits => sbWrite \notin Waiting
      BY PositionStep
    <3>3. Origin(x) = IF StoreCommits /\ x[2] = sbWrite THEN <<1, RobTop>> ELSE x
      BY <2>1, <2>2 DEF Origin
    <3> QED
      BY <2>1, <2>2, <3>1, <3>2, <3>3
  <2>3. CASE x[1] = 1
    BY <1>1, <1>3, <2>1, <2>3 DEF Origin, NewPlace
  <2> QED
    BY <2>1, <2>2, <2>3
<1>4. ASSUME NEW x \in Places', NEW y \in Places', ~fresh(x), ~fresh(y)
      PROVE  Before(x, y)' <=> Before(Origin(x), Origin(y))
  <2>1. Before(x, y)' <=> \/ x[1] < y[1]
                          \/ x[1] = 0 /\ y[1] = 0 /\ Position(x[2])' < Position(y[2])'
                          \/ x[1] = 1 /\ y[1] = 1 /\ Depth(x[2])' < Depth(y[2])'
    BY DEF Before
  <2>2. /\ \A p, q \in Waiting' : Position(p)' < Position(q)' <=> Position(p) < Position(q)
        /\ \A p \in Waiting : Position(p) \in Nat
        /\ StoreCommits => \A p \in Waiting : Position(p) < Position(sbWrite)
    BY PositionStep
  <2>3. CASE x[1] = 0 /\ y[1] = 0
    <3>1. Before(x, y)' <=> Position(x[2]) < Position(y[2])
      BY <1>3, <1>4, <2>1, <2>2, <2>3
    <3>2. CASE x[2] \in Waiting /\ y[2] \in Waiting /\ Origin(x) = x /\ Origin(y) = y
      BY <2>3, <3>1, <3>2 DEF Before
    <3>3. CASE /\ x[2] = sbWrite /\ StoreCommits /\ Origin(x)[1] = 1
               /\ y[2] \in Waiting /\ Origin(y) = y
      <4>1. ~(Position(x[2]) < Position(y[2]))
        <5>1. Position(y[2]) < Position(x[2]) /\ Position(y[2]) \in Nat
          BY <2>2, <3>3
        <5>2. Position(x[2]) \in Int
          BY StoreBufferAssumption, <3>3
             DEF PathInv, TypeOK, SbTypeOK, Position, Dist, Pointers
        <5> QED
          BY <5>1, <5>2
      <4> QED
        BY <2>3, <3>1, <3>3, <4>1 DEF Before
    <3>4. CASE /\ y[2] = sbWrite /\ StoreCommits /\ Origin(y)[1] = 1
               /\ x[2] \in Waiting /\ Origin(x) = x
      BY <2>2, <2>3, <3>1, <3>4 DEF Before
    <3>5. CASE /\ x[2] = sbWrite /\ y[2] = sbWrite
               /\ Origin(x)[1] = 1 /\ Origin(y)[1] = 1
               /\ Origin(x)[2] = RobTop /\ Origin(y)[2] = RobTop
      <4>1. ~(Position(sbWrite) < Position(sbWrite)) /\ ~(Depth(RobTop) < Depth(RobTop))
        BY <1>2, StoreBufferAssumption
           DEF PathInv, TypeOK, SbTypeOK, Position, Dist, Pointers
      <4> QED
        BY <2>3, <3>1, <3>5, <4>1 DEF Before
    <3> QED
      BY <1>3, <1>4, <2>3, <3>2, <3>3, <3>4, <3>5
  <2>4. CASE x[1] = 1 /\ y[1] = 1
    BY <1>1, <1>3, <1>4, <2>1, <2>4 DEF Before
  <2>5. CASE x[1] = 0 /\ y[1] = 1
    <3>1. y[2] \in Survivors(cdb) /\ Origin(y) = y /\ Before(x, y)'
      BY <1>3, <1>4, <2>1, <2>5
    <3>2. CASE Origin(x) = x
      BY <2>5, <3>1, <3>2 DEF Before
    <3>3. CASE StoreCommits /\ Origin(x)[1] = 1 /\ Origin(x)[2] = RobTop
      <4>1. y[2] \in LiveTags /\ y[2] # RobTop /\ RobTop \in LiveTags
        BY <1>1, <3>1, <3>3 DEF Survivors, StoreCommits
      <4>2. Depth(RobTop) < Depth(y[2])
        BY <1>2, <4>1
      <4> QED
        BY <2>5, <3>1, <3>3, <4>2 DEF Before
    <3> QED
      BY <1>3, <1>4, <2>5, <3>2, <3>3
  <2>6. CASE x[1] = 1 /\ y[1] = 0
    <3>1. x[2] \in LiveTags /\ Origin(x) = x /\ ~Before(x, y)'
      BY <1>3, <1>4, <2>1, <2>6 DEF Survivors
    <3>2. CASE Origin(y) = y
      BY <2>6, <3>1, <3>2 DEF Before
    <3>3. CASE Origin(y)[1] = 1 /\ Origin(y)[2] = RobTop
      <4>1. ~(Depth(x[2]) < Depth(RobTop))
        BY <1>2, <3>1
      <4> QED
        BY <2>6, <3>1, <3>3, <4>1 DEF Before
    <3> QED
      BY <1>3, <1>4, <2>6, <3>2, <3>3
  <2> QED
    BY <1>3, <1>4, <2>3, <2>4, <2>5, <2>6
<1>5. ASSUME NEW x \in Places', NEW n \in Places', fresh(n)
      PROVE  ~Before(n, x)' /\ (x = n \/ Before(x, n)')
  <2>1. n[1] = 1 /\ n[2] = RobBottom /\ RobBottom \in LiveTags'
    BY <1>1, <1>5 DEF NewPlace
  <2>2. /\ Before(x, n)' <=> \/ x[1] < n[1]
                             \/ x[1] = 1 /\ n[1] = 1 /\ Depth(x[2])' < Depth(n[2])'
        /\ Before(n, x)' <=> \/ n[1] < x[1]
                             \/ x[1] = 1 /\ n[1] = 1 /\ Depth(n[2])' < Depth(x[2])'
    BY <2>1 DEF Before
  <2>3. CASE x = n
    BY <1>1, <1>2, <1>5, <2>1, <2>2, <2>3
  <2>4. CASE x # n
    <3>1. ~fresh(x)
      BY <1>5, <2>4
    <3>2. CASE x[1] = 0
      BY <2>1, <2>2, <3>2
    <3>3. CASE x[1] = 1 /\ x[2] \in LiveTags' /\ x[2] \in LiveTags
      <4>1. Depth(x[2]) < Depth(RobBottom) /\ ~(Depth(RobBottom) < Depth(x[2]))
        BY <1>1, <1>2, <1>5, <3>3
      <4> QED
        BY <1>1, <2>1, <2>2, <3>3, <4>1
    <3> QED
      BY <1>3, <3>1, <3>2, <3>3 DEF Survivors
  <2> QED
    BY <2>3, <2>4
<1>6. ASSUME NEW x \in Places, NEW z \in Places, Dropped(z, cdb), ~Dropped(x, cdb),
             StoreAt(z), Before(z, x)
      PROVE  z = Oldest /\ StoreAnswered
  <2>1. SUFFICES ASSUME z[1] = 1, Flushed(z[2], cdb) PROVE FALSE
    BY <1>6 DEF Dropped
  <2>2. x[1] = 1 /\ Depth(z[2]) < Depth(x[2]) /\ x[2] \in LiveTags /\ z[2] \in LiveTags
    BY <1>6, <2>1 DEF Before, Places
  <2>3. ~Flushed(x[2], cdb)
    BY <1>6, <2>2 DEF Dropped
  <2> QED
    BY <1>2, <2>1, <2>2, <2>3 DEF Flushed
<1> QED
  BY <1>4, <1>5, <1>6

-----------------------------------------------------------------------------
(* The value that ProgramValue gives is that of the last place that stores *)
(* to the double word.                                                     *)
LEMMA ProgramPlace ==
  ASSUME PathInv, NEW a \in Addrs
  PROVE  /\ \A x \in StoresTo(a) :
              (\A z \in StoresTo(a) : ~Before(x, z)) => ProgramValue(a) = OpAt(x).val
         /\ StoresTo(a) = {} => ProgramValue(a) = mem[a]
         /\ ProgramValue(a) \in Values
<1>1. /\ \A t \in LiveStores(a) : <<1, t>> \in StoresTo(a)
      /\ \A p \in BufferedStores(a) : <<0, p>> \in StoresTo(a)
  <2>1. \A t : <<1, t>>[1] = 1 /\ <<1, t>>[2] = t /\ <<0, t>>[1] = 0 /\ <<0, t>>[2] = t
    OBVIOUS
  <2> QED
    BY <2>1 DEF LiveStores, BufferedStores, StoresTo, Places, StoreAt, OpAt, Waiting
<1>2. ASSUME NEW x \in StoresTo(a)
      PROVE  \/ x[1] = 1 /\ x[2] \in LiveStores(a) /\ OpAt(x) = memOp[x[2]]
             \/ /\ x[1] = 0 /\ x[2] \in BufferedStores(a)
                /\ OpAt(x) = sbArray[Slot(x[2], SB_DEPTH)]
  BY DEF LiveStores, BufferedStores, StoresTo, Places, StoreAt, OpAt, Waiting
<1>3. ASSUME NEW x \in StoresTo(a), \A z \in StoresTo(a) : ~Before(x, z)
      PROVE  ProgramValue(a) = OpAt(x).val
  <2>1. CASE x[1] = 1 /\ x[2] \in LiveStores(a) /\ OpAt(x) = memOp[x[2]]
    <3>1. ASSUME NEW u \in LiveStores(a) PROVE Depth(u) <= Depth(x[2])
      <4>1. <<1, u>> \in StoresTo(a) /\ <<1, u>>[1] = 1 /\ <<1, u>>[2] = u
        BY <1>1
      <4>2. ~(Depth(x[2]) < Depth(u))
        BY <1>3, <2>1, <4>1 DEF Before
      <4>3. Depth(x[2]) \in Int /\ Depth(u) \in Int
        BY <2>1, DepthFacts DEF LiveStores, PathInv, TypeOK, FlightInv
      <4> QED
        BY <4>2, <4>3
    <3>2. YoungestStore(x[2], a)
      BY <2>1, <3>1 DEF YoungestStore
    <3> QED
      BY <2>1, <3>2, ProgramValueFacts
  <2>2. CASE /\ x[1] = 0 /\ x[2] \in BufferedStores(a)
             /\ OpAt(x) = sbArray[Slot(x[2], SB_DEPTH)]
    <3>1. LiveStores(a) = {}
      <4>1. SUFFICES ASSUME NEW u \in LiveStores(a) PROVE FALSE
        OBVIOUS
      <4>2. <<1, u>> \in StoresTo(a) /\ <<1, u>>[1] = 1
        BY <1>1
      <4> QED
        BY <1>3, <2>2, <4>2 DEF Before
    <3>2. ASSUME NEW q \in BufferedStores(a) PROVE Position(q) <= Position(x[2])
      <4>1. <<0, q>> \in StoresTo(a) /\ <<0, q>>[1] = 0 /\ <<0, q>>[2] = q
        BY <1>1
      <4>2. ~(Position(x[2]) < Position(q))
        BY <1>3, <2>2, <4>1 DEF Before
      <4>3. \A p \in BufferedStores(a) : Position(p) \in Int
        BY StoreBufferAssumption
           DEF PathInv, TypeOK, SbTypeOK, BufferedStores, Window, Pointers, Position, Dist
      <4> QED
        BY <2>2, <4>2, <4>3
    <3>3. YoungestBuffered(x[2], a)
      BY <2>2, <3>2 DEF YoungestBuffered
    <3> QED
      BY <2>2, <3>1, <3>3, ProgramValueFacts DEF Buffered
  <2> QED
    BY <1>2, <2>1, <2>2
<1>4. StoresTo(a) = {} => ProgramValue(a) = mem[a]
  BY <1>1, ProgramValueFacts
<1> QED
  BY <1>3, <1>4, ProgramValueFacts

(* When memory changes, it gets the oldest store of the store buffer.      *)
LEMMA MemStep ==
  ASSUME PathInv,
         NEW offer \in Offers, NEW calc \in Calculable, NEW cdb \in Broadcasts,
         NEW done \in BOOLEAN, Cycle(offer, calc, cdb, done)
  PROVE  \/ /\ cache.st = "WRITE" /\ cache'.st = "WRESP"
            /\ cache.addr \in Addrs /\ mem' = [mem EXCEPT ![cache.addr] = cache.val]
            /\ Oldest \in StoresTo(cache.addr) /\ OpAt(Oldest).val = cache.val
            /\ sbTrail' = sbTrail /\ sbWrite # sbTrail
         \/ mem' = mem /\ cache'.st # "WRESP"
<1>1. cache \in [st : CacheStates, addr : Addrs \cup {NoAddr}, val : Values]
  BY DEF PathInv, TypeOK, PortTypeOK
<1>2. CASE /\ cache.st = "WRITE" /\ mem' = [mem EXCEPT ![cache.addr] = cache.val]
           /\ cache' = [cache EXCEPT !.st = "WRESP"]
  <2>1. cache'.st = "WRESP"
    BY <1>1, <1>2
  <2>2. /\ sbWrite # sbTrail /\ cache.addr \in Addrs
        /\ cache.addr = SbOldest.addr /\ cache.val = SbOldest.val
    BY <1>2 DEF PathInv, SbInv, Writing
  <2>3. sbTrail' = sbTrail /\ sbTrail \in Waiting
    BY <1>2, <2>2, BufferStep DEF StoreAnswered
  <2>4. Oldest[1] = 0 /\ Oldest[2] = sbTrail /\ Oldest \in Places
    BY <2>3 DEF Oldest, Places
  <2>5. OpAt(Oldest) = SbOldest /\ StoreAt(Oldest)
    BY <2>4 DEF OpAt, SbOldest, StoreAt
  <2> QED
    BY <1>2, <2>1, <2>2, <2>3, <2>4, <2>5 DEF StoresTo
<1>3. CASE mem' = mem /\ cache'.st # "WRESP"
  BY <1>3
<1>4. \/ mem' = mem /\ \E i \in LsqSlots : cache' = Load(AddrOf(lsq[i]))
      \/ mem' = mem /\ cache' = Store(SbHead.addr, SbHead.val)
      \/ mem' = mem /\ cache' = [cache EXCEPT !.st = "RRESP", !.val = mem[cache.addr]]
      \/ /\ cache.st = "WRITE" /\ mem' = [mem EXCEPT ![cache.addr] = cache.val]
         /\ cache' = [cache EXCEPT !.st = "WRESP"]
      \/ mem' = mem /\ cache' = Idle
      \/ mem' = mem /\ cache' = cache /\ cache.st # "WRESP"
  <2> DEFINE P == \E i \in LsqSlots : cache' = Load(AddrOf(lsq[i]))
             Q == \/ mem' = mem /\ P
                  \/ mem' = mem /\ cache' = Store(SbHead.addr, SbHead.val)
                  \/ /\ mem' = mem
                     /\ cache' = [cache EXCEPT !.st = "RRESP", !.val = mem[cache.addr]]
                  \/ /\ cache.st = "WRITE" /\ mem' = [mem EXCEPT ![cache.addr] = cache.val]
                     /\ cache' = [cache EXCEPT !.st = "WRESP"]
                  \/ mem' = mem /\ cache' = Idle
                  \/ mem' = mem /\ cache' = cache /\ cache.st # "WRESP"
  <2>1. ASSUME NEW i \in LsqSlots, cache' = Load(AddrOf(lsq[i])), mem' = mem PROVE Q
    <3>1. P
      BY <2>1
    <3> QED
      BY <2>1, <3>1
  <2>2. CASE cache' = Store(SbHead.addr, SbHead.val) /\ mem' = mem
    BY <2>2
  <2>3. CASE mem' = mem /\ cache' = [cache EXCEPT !.st = "RRESP", !.val = mem[cache.addr]]
    BY <2>3
  <2>4. CASE cache' = cache /\ mem' = mem /\ cache.st # "WRESP"
    BY <2>4
  <2>5. CASE cache' = Idle /\ mem' = mem
    BY <2>5
  <2>6. CASE /\ cache.st = "WRITE" /\ mem' = [mem EXCEPT ![cache.addr] = cache.val]
             /\ cache' = [cache EXCEPT !.st = "WRESP"]
    BY <2>6
  <2> HIDE DEF Q
  <2>7. \/ \E i \in LsqSlots : cache' = Load(AddrOf(lsq[i])) /\ mem' = mem
        \/ cache' = Store(SbHead.addr, SbHead.val) /\ mem' = mem
        \/ mem' = mem /\ cache' = [cache EXCEPT !.st = "RRESP", !.val = mem[cache.addr]]
        \/ /\ cache.st = "WRITE" /\ mem' = [mem EXCEPT ![cache.addr] = cache.val]
           /\ cache' = [cache EXCEPT !.st = "WRESP"]
        \/ cache' = Idle /\ mem' = mem
        \/ cache' = cache /\ mem' = mem /\ cache.st # "WRESP"
    BY PortStep, Zenon
  <2> QED
    BY <2>1, <2>2, <2>3, <2>4, <2>5, <2>6, <2>7 DEF Q
<1>5. /\ \A i \in LsqSlots : Load(AddrOf(lsq[i])).st # "WRESP"
      /\ Store(SbHead.addr, SbHead.val).st # "WRESP"
      /\ [cache EXCEPT !.st = "RRESP", !.val = mem[cache.addr]].st # "WRESP"
      /\ Idle.st # "WRESP"
  BY <1>1 DEF Load, Store, Idle
<1> QED
  BY <1>2, <1>3, <1>4, <1>5

(* The access that is dispatched takes the value of the program order.     *)
LEMMA NewAccess ==
  ASSUME PathInv,
         NEW offer \in Offers, NEW calc \in Calculable, NEW cdb \in Broadcasts,
         NEW done \in BOOLEAN, Cycle(offer, calc, cdb, done),
         NEW n, n = NewPlace, Fires(offer, cdb), AccessAt(n)'
  PROVE  /\ offer.addr \in Addrs /\ OpAt(n)'.addr = offer.addr
         /\ Found(n)' = ProgramValue(offer.addr)
<1>1. n[1] = 1 /\ n[2] = RobBottom
  BY DEF NewPlace
<1>2. rob'[n[2]].kind = offer.kind /\ offer.kind \in MemoryKinds
  BY <1>1, EntryStep DEF AccessAt
<1>3. offer.addr \in Addrs /\ memOp'[n[2]] = Operand(offer.kind, offer.addr)
  BY <1>1, <1>2, EntryStep
<1>4. OpAt(n)' = memOp'[n[2]] /\ (StoreAt(n)' <=> rob'[n[2]].kind = "STORE")
  BY <1>1 DEF OpAt, StoreAt
<1>5. ProgramValue(offer.addr) \in {0, 1}
  BY <1>3, ProgramPlace DEF Values
<1>6. /\ OpAt(n)'.addr = offer.addr
      /\ OpAt(n)'.val = IF offer.kind = "STORE" THEN 1 - ProgramValue(offer.addr)
                        ELSE ProgramValue(offer.addr)
  BY <1>3, <1>4 DEF Operand
<1>7. Found(n)' = IF StoreAt(n)' THEN 1 - OpAt(n)'.val ELSE OpAt(n)'.val
  BY DEF Found
<1> QED
  BY <1>2, <1>3, <1>4, <1>5, <1>6, <1>7

(* The type of what a place holds.                                         *)
LEMMA PlaceTypes ==
  ASSUME PathInv, NEW x \in Places
  PROVE  OpAt(x).val \in {0, 1} /\ (StoreAt(x) => AccessAt(x)) /\ Found(x) \in {0, 1}
<1>1. OpAt(x).val \in {0, 1}
  <2>1. /\ memOp \in [RobTags -> [addr : Addrs \cup {NoAddr}, val : {0, 1}]]
        /\ sbArray \in [SbSlots -> [addr : Addrs \cup {NoAddr}, val : {0, 1}]]
    BY DEF PathInv, TypeOK, LsqTypeOK, SbTypeOK, Values
  <2>2. \A p \in Waiting : Slot(p, SB_DEPTH) \in SbSlots
    BY StoreBufferAssumption DEF Waiting, Window, Pointers, Slot, SbSlots
  <2>3. LiveTags \subseteq RobTags
    BY DepthFacts DEF PathInv, TypeOK, FlightInv
  <2>4. CASE x[1] = 0 /\ x[2] \in Waiting
    BY <2>1, <2>2, <2>4 DEF OpAt
  <2>5. CASE x[1] = 1 /\ x[2] \in LiveTags
    BY <2>1, <2>3, <2>5 DEF OpAt
  <2> QED
    BY <2>4, <2>5 DEF Places
<1>2. StoreAt(x) => AccessAt(x)
  BY DEF StoreAt, AccessAt, MemoryKinds
<1> QED
  BY <1>1, <1>2 DEF Found

(* The stores to a double word after a cycle.                              *)
LEMMA StoresStep ==
  ASSUME PathInv,
         NEW offer \in Offers, NEW calc \in Calculable, NEW cdb \in Broadcasts,
         NEW done \in BOOLEAN, Cycle(offer, calc, cdb, done), NEW a \in Addrs
  PROVE  /\ \A x \in StoresTo(a)' :
              \/ Fires(offer, cdb) /\ x = NewPlace
              \/ Origin(x) \in StoresTo(a) /\ OpAt(x)' = OpAt(Origin(x))
         /\ \A x \in AccessesTo(a)' :
              \/ Fires(offer, cdb) /\ x = NewPlace
              \/ /\ Origin(x) \in AccessesTo(a) /\ Found(x)' = Found(Origin(x))
                 /\ ~Dropped(Origin(x), cdb)
         /\ \A z \in StoresTo(a) : ~Dropped(z, cdb) =>
              \E x \in StoresTo(a)' : Origin(x) = z /\ (x # NewPlace \/ ~Fires(offer, cdb))
         /\ \A z \in StoresTo(a) : Fires(offer, cdb) /\ Dropped(z, cdb) =>
              z = Oldest /\ StoreAnswered
<1> DEFINE fresh(x) == Fires(offer, cdb) /\ x = NewPlace
<1>1. ASSUME NEW x \in Places', ~fresh(x)
      PROVE  /\ Origin(x) \in Places /\ ~Dropped(Origin(x), cdb)
             /\ OpAt(x)' = OpAt(Origin(x))
             /\ StoreAt(x)' <=> StoreAt(Origin(x))
             /\ AccessAt(x)' <=> AccessAt(Origin(x))
  BY <1>1, PlaceStep
<1>2. ASSUME NEW x \in StoresTo(a)', ~fresh(x)
      PROVE  Origin(x) \in StoresTo(a) /\ OpAt(x)' = OpAt(Origin(x))
  <2>1. x \in Places' /\ StoreAt(x)' /\ OpAt(x)'.addr = a
    BY <1>2 DEF StoresTo
  <2> QED
    BY <1>1, <1>2, <2>1 DEF StoresTo
<1>3. ASSUME NEW x \in AccessesTo(a)', ~fresh(x)
      PROVE  /\ Origin(x) \in AccessesTo(a) /\ Found(x)' = Found(Origin(x))
             /\ ~Dropped(Origin(x), cdb)
  <2>1. x \in Places' /\ AccessAt(x)' /\ OpAt(x)'.addr = a
    BY <1>3 DEF AccessesTo
  <2>2. Found(x)' = IF StoreAt(x)' THEN 1 - OpAt(x)'.val ELSE OpAt(x)'.val
    BY DEF Found
  <2>3. PICK w : w = Origin(x)
    OBVIOUS
  <2>4. Found(x)' = Found(w)
    BY <1>1, <1>3, <2>1, <2>2, <2>3 DEF Found
  <2> QED
    BY <1>1, <1>3, <2>1, <2>3, <2>4 DEF AccessesTo
<1>4. ASSUME NEW z \in StoresTo(a), ~Dropped(z, cdb)
      PROVE  \E x \in StoresTo(a)' : Origin(x) = z /\ ~fresh(x)
  <2>1. z \in Places /\ StoreAt(z) /\ OpAt(z).addr = a
    BY DEF StoresTo
  <2>2. PICK x \in Places' : Origin(x) = z /\ ~fresh(x)
    BY <1>4, <2>1, PlaceStep
  <2>3. StoreAt(x)' /\ OpAt(x)'.addr = a
    BY <1>1, <2>1, <2>2
  <2>4. x \in StoresTo(a)'
    BY <2>2, <2>3 DEF StoresTo
  <2> QED
    BY <2>2, <2>4
<1>5. ASSUME NEW z \in StoresTo(a), Fires(offer, cdb), Dropped(z, cdb)
      PROVE  z = Oldest /\ StoreAnswered
  BY <1>5 DEF Dropped, Fires, Flushed, StoresTo
<1> QED
  BY <1>2, <1>3, <1>4, <1>5

(* What the invariant says of the oldest store of the store buffer.        *)
LEMMA OldestValue ==
  ASSUME PathInv, ChainInv, NEW a \in Addrs, Oldest \in StoresTo(a)
  PROVE  /\ First(Oldest, a) /\ Oldest \in AccessesTo(a)
         /\ Found(Oldest) = 1 - OpAt(Oldest).val
         /\ OpAt(Oldest).val = IF StoreAnswered THEN mem[a] ELSE 1 - mem[a]
<1>1. PICK o : o = Oldest
  OBVIOUS
<1>2. o \in Places /\ StoreAt(o) /\ OpAt(o).addr = a
  BY <1>1 DEF StoresTo
<1>3. OpAt(o).val \in {0, 1} /\ AccessAt(o)
  BY <1>2, PlaceTypes
<1>4. o \in AccessesTo(a) /\ Found(o) = 1 - OpAt(o).val
  BY <1>2, <1>3 DEF AccessesTo, Found
<1>5. First(o, a)
  BY <1>1, OrderFacts DEF First, StoresTo
<1>6. Found(o) = IF Performed(o) THEN 1 - mem[a] ELSE mem[a]
  BY <1>4, <1>5 DEF ChainInv
<1>7. mem[a] \in {0, 1}
  BY DEF PathInv, TypeOK, PortTypeOK, Values
<1>8. Performed(o) <=> StoreAnswered
  BY <1>1 DEF Performed, StoreAnswered
<1> QED
  BY <1>1, <1>3, <1>4, <1>5, <1>6, <1>7, <1>8

(* An access that was there before still has the value of the last store   *)
(* before it.                                                              *)
LEMMA ChainOld ==
  ASSUME PathInv, PathInv', ChainInv,
         NEW offer \in Offers, NEW calc \in Calculable, NEW cdb \in Broadcasts,
         NEW done \in BOOLEAN, Cycle(offer, calc, cdb, done), NEW a \in Addrs,
         NEW y \in AccessesTo(a)', y # NewPlace \/ ~Fires(offer, cdb)
  PROVE  /\ \A x \in StoresTo(a)' : Follows(x, y, a)' => Found(y)' = OpAt(x)'.val
         /\ First(y, a)' => Found(y)' = IF Performed(y)' THEN 1 - mem'[a] ELSE mem'[a]
<1> DEFINE fresh(x) == Fires(offer, cdb) /\ x = NewPlace
<1>1. PICK w : w = Origin(y)
  OBVIOUS
<1>2. /\ w \in AccessesTo(a) /\ w \in Places /\ y \in Places'
      /\ Found(y)' = Found(w) /\ ~Dropped(w, cdb)
  BY <1>1, StoresStep DEF AccessesTo
<1>3. \A x \in StoresTo(a)' : x \in Places' /\ (~fresh(x) => Origin(x) \in StoresTo(a))
  BY StoresStep DEF StoresTo
<1>4. ASSUME NEW x \in StoresTo(a)', Before(x, y)'
      PROVE  Origin(x) \in StoresTo(a) /\ Before(Origin(x), w) /\ OpAt(x)' = OpAt(Origin(x))
  <2>1. ~fresh(x)
    BY <1>2, <1>3, <1>4, OrderStep
  <2>2. Before(Origin(x), w)
    BY <1>1, <1>2, <1>3, <1>4, <2>1, OrderStep
  <2> QED
    BY <2>1, <2>2, StoresStep
<1>5. ASSUME NEW z \in StoresTo(a), Before(z, w)
      PROVE  \/ z = Oldest /\ StoreAnswered
             \/ \E x \in StoresTo(a)' : Origin(x) = z /\ Before(x, y)' /\ ~fresh(x)
  <2>1. z \in Places /\ StoreAt(z)
    BY DEF StoresTo
  <2>2. CASE Dropped(z, cdb)
    BY <1>2, <1>5, <2>1, <2>2, OrderStep
  <2>3. CASE ~Dropped(z, cdb)
    <3>1. PICK x \in StoresTo(a)' : Origin(x) = z /\ ~fresh(x)
      BY <2>3, StoresStep
    <3>2. Before(x, y)'
      BY <1>1, <1>2, <1>3, <1>5, <3>1, OrderStep
    <3> QED
      BY <3>1, <3>2
  <2> QED
    BY <2>2, <2>3
<1>6. ASSUME NEW x \in StoresTo(a)', Follows(x, y, a)'
      PROVE  Found(y)' = OpAt(x)'.val
  <2>1. /\ Before(x, y)'
        /\ \A u \in StoresTo(a)' : ~(Before(x, u)' /\ Before(u, y)')
    BY <1>6 DEF Follows
  <2>2. PICK v : v = Origin(x)
    OBVIOUS
  <2>3. v \in StoresTo(a) /\ Before(v, w) /\ OpAt(x)' = OpAt(v) /\ ~fresh(x)
    <3>1. ~fresh(x)
      BY <1>2, <1>3, <2>1, OrderStep
    <3> QED
      BY <1>4, <2>1, <2>2, <3>1
  <2>4. ASSUME NEW z \in StoresTo(a), Before(v, z), Before(z, w) PROVE FALSE
    <3>1. v \in Places /\ z \in Places
      BY <2>3 DEF StoresTo
    <3>2. z # Oldest
      BY <2>4, <3>1, OrderFacts
    <3>3. PICK u \in StoresTo(a)' : Origin(u) = z /\ Before(u, y)' /\ ~fresh(u)
      BY <1>5, <2>4, <3>2
    <3>4. Before(x, u)'
      BY <1>3, <2>2, <2>3, <2>4, <3>3, OrderStep
    <3> QED
      BY <2>1, <3>3, <3>4
  <2>5. Follows(v, w, a)
    BY <2>3, <2>4 DEF Follows
  <2> QED
    BY <1>2, <2>3, <2>5 DEF ChainInv
<1>7. ASSUME First(y, a)'
      PROVE  Found(y)' = IF Performed(y)' THEN 1 - mem'[a] ELSE mem'[a]
  <2>1. \A x \in StoresTo(a)' : ~Before(x, y)'
    BY <1>7 DEF First
  <2>2. \A z \in StoresTo(a) : Before(z, w) => z = Oldest /\ StoreAnswered
    BY <1>5, <2>1
  <2>3. Performed(y)' <=> y = <<0, sbTrail'>> /\ cache'.st = "WRESP"
    BY DEF Performed, Oldest
  <2>4. CASE \E z \in StoresTo(a) : Before(z, w)
    <3>1. PICK o \in StoresTo(a) : o = Oldest /\ Before(o, w)
      BY <2>2, <2>4
    <3>2. StoreAnswered /\ cache.st = "WRESP"
      BY <2>2, <3>1 DEF StoreAnswered
    <3>3. Follows(o, w, a)
      <4>1. ~Before(o, o)
        BY <3>1, OrderFacts DEF StoresTo
      <4> QED
        BY <2>2, <3>1, <4>1 DEF Follows
    <3>4. Found(w) = OpAt(o).val
      BY <1>2, <3>1, <3>3 DEF ChainInv
    <3>5. OpAt(o).val = mem[a]
      BY <3>1, <3>2, OldestValue
    <3>6. mem' = mem /\ cache'.st # "WRESP"
      BY <3>2, MemStep
    <3> QED
      BY <1>2, <2>3, <3>4, <3>5, <3>6
  <2>5. CASE ~\E z \in StoresTo(a) : Before(z, w)
    <3>1. Found(w) = IF Performed(w) THEN 1 - mem[a] ELSE mem[a]
      BY <1>2, <2>5 DEF First, ChainInv
    <3>2. ~Performed(w)
      BY <1>2 DEF Performed, Dropped, StoreAnswered
    <3>3. CASE mem' = mem /\ cache'.st # "WRESP"
      BY <1>2, <2>3, <3>1, <3>2, <3>3
    <3>4. CASE /\ cache.st = "WRITE" /\ cache'.st = "WRESP"
               /\ cache.addr \in Addrs /\ mem' = [mem EXCEPT ![cache.addr] = cache.val]
               /\ Oldest \in StoresTo(cache.addr) /\ OpAt(Oldest).val = cache.val
               /\ sbTrail' = sbTrail /\ sbWrite # sbTrail
      <4>1. PICK o : o = Oldest
        OBVIOUS
      <4>2. o \in StoresTo(cache.addr) /\ o \in Places /\ OpAt(o).addr = cache.addr
        BY <3>4, <4>1 DEF StoresTo
      <4>3. mem \in [Addrs -> {0, 1}] /\ cache.val \in {0, 1}
        BY DEF PathInv, TypeOK, PortTypeOK, Values
      <4>4. y = o => w = o
        BY <1>1, <3>4, <4>1 DEF Origin, Oldest
      <4>5. w = o => y = o
        BY <1>1, <4>1 DEF Origin, Oldest
      <4>6. Performed(y)' <=> y = o
        BY <2>3, <3>4, <4>1 DEF Oldest
      <4>7. CASE cache.addr = a
        <5>1. w = o
          BY <1>2, <2>5, <3>4, <4>1, <4>2, <4>7, OrderFacts
        <5>2. Found(o) = 1 - OpAt(o).val
          BY <4>1, <4>2, <4>7, OldestValue
        <5>3. mem'[a] = OpAt(o).val
          BY <3>4, <4>1, <4>3, <4>7
        <5> QED
          BY <1>2, <4>3, <3>4, <4>1, <4>5, <4>6, <5>1, <5>2, <5>3
      <4>8. CASE cache.addr # a
        <5>1. mem'[a] = mem[a]
          BY <3>4, <4>3, <4>8
        <5>2. w # o
          BY <1>2, <4>2, <4>8 DEF AccessesTo
        <5> QED
          BY <1>2, <3>1, <3>2, <4>4, <4>6, <5>1, <5>2
      <4> QED
        BY <4>7, <4>8
    <3> QED
      BY <3>3, <3>4, MemStep
  <2> QED
    BY <2>4, <2>5
<1> QED
  BY <1>6, <1>7

(* So has the one that is dispatched.                                      *)
LEMMA ChainNew ==
  ASSUME PathInv, ChainInv,
         NEW offer \in Offers, NEW calc \in Calculable, NEW cdb \in Broadcasts,
         NEW done \in BOOLEAN, Cycle(offer, calc, cdb, done), NEW a \in Addrs,
         NEW y \in AccessesTo(a)', y = NewPlace, Fires(offer, cdb)
  PROVE  /\ \A x \in StoresTo(a)' : Follows(x, y, a)' => Found(y)' = OpAt(x)'.val
         /\ First(y, a)' => Found(y)' = IF Performed(y)' THEN 1 - mem'[a] ELSE mem'[a]
<1> DEFINE fresh(x) == Fires(offer, cdb) /\ x = NewPlace
<1>1. y \in Places' /\ AccessAt(y)' /\ OpAt(y)'.addr = a
  BY DEF AccessesTo
<1>2. Found(y)' = ProgramValue(a)
  BY <1>1, NewAccess
<1>3. \A x \in StoresTo(a)' : x \in Places' /\ (~fresh(x) => Origin(x) \in StoresTo(a))
  BY StoresStep DEF StoresTo
<1>4. \A x \in Places' : ~Before(y, x)' /\ (x = y \/ Before(x, y)')
  BY <1>1, OrderStep
<1>5. ASSUME NEW x \in StoresTo(a)', Follows(x, y, a)'
      PROVE  Found(y)' = OpAt(x)'.val
  <2>1. /\ Before(x, y)'
        /\ \A u \in StoresTo(a)' : ~(Before(x, u)' /\ Before(u, y)')
    BY <1>5 DEF Follows
  <2>2. ~fresh(x)
    BY <1>1, <1>4, <2>1
  <2>3. PICK v : v = Origin(x)
    OBVIOUS
  <2>4. v \in StoresTo(a) /\ OpAt(x)' = OpAt(v)
    BY <2>2, <2>3, StoresStep
  <2>5. ASSUME NEW z \in StoresTo(a), Before(v, z) PROVE FALSE
    <3>1. v \in Places /\ z \in Places
      BY <2>4 DEF StoresTo
    <3>2. z # Oldest
      BY <2>5, <3>1, OrderFacts
    <3>3. ~Dropped(z, cdb)
      BY <3>2, StoresStep
    <3>4. PICK u \in StoresTo(a)' : Origin(u) = z /\ ~fresh(u)
      BY <3>3, StoresStep
    <3>5. Before(x, u)'
      BY <1>3, <2>2, <2>3, <2>5, <3>4, OrderStep
    <3>6. Before(u, y)'
      BY <1>3, <1>4, <3>4
    <3> QED
      BY <2>1, <3>4, <3>5, <3>6
  <2> QED
    BY <1>2, <2>4, <2>5, ProgramPlace
<1>6. ASSUME First(y, a)'
      PROVE  Found(y)' = IF Performed(y)' THEN 1 - mem'[a] ELSE mem'[a]
  <2>1. \A x \in StoresTo(a)' : fresh(x)
    BY <1>3, <1>4, <1>6 DEF First
  <2>2. \A z \in StoresTo(a) : z = Oldest /\ StoreAnswered
    BY <2>1, StoresStep
  <2>3. ~Performed(y)'
    BY DEF Performed, Oldest, NewPlace
  <2>4. CASE StoresTo(a) = {}
    <3>1. ProgramValue(a) = mem[a]
      BY <2>4, ProgramPlace
    <3>2. mem'[a] = mem[a]
      <4>1. \/ mem' = mem
            \/ /\ cache.addr \in Addrs /\ mem' = [mem EXCEPT ![cache.addr] = cache.val]
               /\ Oldest \in StoresTo(cache.addr)
        BY MemStep
      <4>2. mem \in [Addrs -> {0, 1}]
        BY DEF PathInv, TypeOK, PortTypeOK, Values
      <4> QED
        BY <2>4, <4>1, <4>2
    <3> QED
      BY <1>2, <2>3, <3>1, <3>2
  <2>5. CASE StoresTo(a) # {}
    <3>1. PICK o \in StoresTo(a) : o = Oldest /\ StoreAnswered
      BY <2>2, <2>5
    <3>2. \A z \in StoresTo(a) : ~Before(o, z)
      BY <2>2, <3>1, OrderFacts DEF StoresTo
    <3>3. ProgramValue(a) = OpAt(o).val
      BY <3>2, ProgramPlace
    <3>4. OpAt(o).val = mem[a]
      BY <3>1, OldestValue
    <3>5. mem' = mem
      BY <3>1, MemStep DEF StoreAnswered
    <3> QED
      BY <1>2, <2>3, <3>3, <3>4, <3>5
  <2> QED
    BY <2>4, <2>5
<1> QED
  BY <1>5, <1>6

(* So every access has, in every cycle.                                    *)
LEMMA ChainKept ==
  ASSUME PathInv, PathInv', ChainInv,
         NEW offer \in Offers, NEW calc \in Calculable, NEW cdb \in Broadcasts,
         NEW done \in BOOLEAN, Cycle(offer, calc, cdb, done)
  PROVE  ChainInv'
<1>1. SUFFICES ASSUME NEW a \in Addrs, NEW y \in AccessesTo(a)'
               PROVE  /\ \A x \in StoresTo(a)' :
                            Follows(x, y, a)' => Found(y)' = OpAt(x)'.val
                      /\ First(y, a)' =>
                           Found(y)' = IF Performed(y)' THEN 1 - mem'[a] ELSE mem'[a]
  BY DEF ChainInv
<1> QED
  BY ChainOld, ChainNew

(* No place is taken at the start.                                         *)
LEMMA ChainInvInit == Init => ChainInv
<1> SUFFICES ASSUME Init PROVE Places = {}
  BY DEF ChainInv, AccessesTo
<1>1. PathInv
  BY PathInvInit
<1>2. RobCount = 0 /\ sbWrite = 0 /\ sbTrail = 0
  BY SizeAssumption DEF Init, RobInit, SbInit, RobCount, Dist
<1>3. LiveTags = {}
  BY <1>1, <1>2, DepthFacts DEF PathInv, TypeOK, FlightInv
<1>4. Waiting = {}
  BY <1>2, StoreBufferAssumption DEF Waiting, Window, Pointers, Dist
<1> QED
  BY <1>3, <1>4 DEF Places

(* The chain of values is kept.                                            *)
LEMMA ChainInvStep == PathInv /\ PathInv' /\ ChainInv /\ [Next]_vars => ChainInv'
<1> SUFFICES ASSUME PathInv, PathInv', ChainInv, [Next]_vars PROVE ChainInv'
  OBVIOUS
<1>1. CASE Next
  BY <1>1, ChainKept DEF Next
<1>2. CASE UNCHANGED vars
  <2>1. UNCHANGED <<rob, robWrite, robRead, memOp, sbArray, sbWrite, sbTrail, cache, mem>>
    BY <1>2 DEF vars, robVars, lsqVars, sbVars, portVars
  <2>2. /\ LiveTags' = LiveTags /\ \A t : Depth(t)' = Depth(t)
        /\ Waiting' = Waiting /\ \A p : Position(p)' = Position(p)
    BY <2>1 DEF LiveTags, Depth, RobTop, Waiting, Position
  <2>3. Places' = Places /\ \A x, y : Before(x, y)' <=> Before(x, y)
    BY <2>2 DEF Places, Before
  <2>4. \A x : /\ OpAt(x)' = OpAt(x) /\ (StoreAt(x)' <=> StoreAt(x))
               /\ (AccessAt(x)' <=> AccessAt(x)) /\ (Performed(x)' <=> Performed(x))
    BY <2>1 DEF OpAt, StoreAt, AccessAt, Performed, Oldest
  <2>5. \A x : Found(x)' = Found(x)
    BY <2>4 DEF Found
  <2>6. \A a : StoresTo(a)' = StoresTo(a) /\ AccessesTo(a)' = AccessesTo(a)
    BY <2>3, <2>4 DEF StoresTo, AccessesTo
  <2>7. \A a, x, y : /\ Follows(x, y, a)' <=> Follows(x, y, a)
                     /\ First(y, a)' <=> First(y, a)
    BY <2>3, <2>6 DEF Follows, First
  <2> QED
    BY <2>1, <2>4, <2>5, <2>6, <2>7 DEF ChainInv
<1> QED
  BY <1>1, <1>2

(* Every access in flight has found the value of the last store to its     *)
(* double word before it in program order.                                 *)
THEOREM ChainInvariant == Spec => []ChainInv
  BY PathInvariant, ChainInvInit, ChainInvStep, PTL DEF Spec

(* The cache performs each store once, and the stores to a double word in  *)
(* the order of the program.                                               *)
THEOREM WritesInOrder == Spec => WritesInProgramOrder
<1> DEFINE Good == cache.st = "WRITE" /\ cache'.st = "WRESP"
                     => mem'[cache.addr] # mem[cache.addr]
<1>1. PathInv /\ ChainInv /\ [Next]_vars => [Good]_vars
  <2> SUFFICES ASSUME PathInv, ChainInv, Next, cache.st = "WRITE", cache'.st = "WRESP"
               PROVE  mem'[cache.addr] # mem[cache.addr]
    OBVIOUS
  <2>1. PICK offer \in Offers, calc \in Calculable, cdb \in Broadcasts, done \in BOOLEAN :
          Cycle(offer, calc, cdb, done)
    BY DEF Next
  <2>2. /\ cache.addr \in Addrs /\ mem' = [mem EXCEPT ![cache.addr] = cache.val]
        /\ Oldest \in StoresTo(cache.addr) /\ OpAt(Oldest).val = cache.val
    BY <2>1, MemStep
  <2>3. OpAt(Oldest).val = 1 - mem[cache.addr]
    BY <2>2, OldestValue DEF StoreAnswered
  <2>4. mem \in [Addrs -> {0, 1}]
    BY DEF PathInv, TypeOK, PortTypeOK, Values
  <2> QED
    BY <2>2, <2>3, <2>4
<1> QED
  BY <1>1, PathInvariant, ChainInvariant, PTL DEF Spec, WritesInProgramOrder

-----------------------------------------------------------------------------
(* No branch flushes in the cycle after the commit of a store: the tag of  *)
(* that store is behind the head then, and looks young.                    *)
FlushesWait == FLUSH_AFTER_COMMIT = FALSE

(* The names under which the address buffer knows a store: its tag, and    *)
(* from two cycles after its commit until one after the answer of the      *)
(* cache its slot in the store buffer.                                     *)
NamedTags == IssuedStores \cup (IF sbEntry.valid THEN {sbEntry.tag} ELSE {})
NamedSlots == (SbLive \ (IF sbEntry.valid THEN {sbEntry.slot} ELSE {}))
                \cup (IF sbFlush.valid THEN {sbFlush.slot} ELSE {})
Names == {<<0, t>> : t \in NamedTags} \cup {<<1, s>> : s \in NamedSlots}

Occupied == SabSlots \ SabVacant
NameOf(j) == IF sab[j].sel THEN <<1, sab[j].slot>> ELSE <<0, sab[j].tag>>
AddrAt(n) == IF n[1] = 0 THEN memOp[n[2]].addr ELSE sbArray[n[2]].addr

(* What the store buffer has reported: a store that has just committed,    *)
(* and one that the cache has just answered.                               *)
MarkInv ==
  /\ sbEntry.valid => /\ sbEntry.slot \in SbLive /\ sbEntry.tag \notin LiveTags
                      /\ memOp[sbEntry.tag].addr = sbArray[sbEntry.slot].addr
  /\ sbFlush.valid => sbFlush.slot \notin SbLive

(* Every name has one entry with its address, and every entry a name.      *)
NamesInv ==
  /\ \A j \in Occupied : NameOf(j) \in Names /\ sab[j].addr = AddrAt(NameOf(j))
  /\ \A n \in Names : \E j \in Occupied : NameOf(j) = n
  /\ \A j, k \in Occupied : NameOf(j) = NameOf(k) => j = k

(* The slots of the store buffer after a cycle.                            *)
LEMMA SlotsStep ==
  ASSUME PathInv,
         NEW offer \in Offers, NEW calc \in Calculable, NEW cdb \in Broadcasts,
         NEW done \in BOOLEAN, Cycle(offer, calc, cdb, done)
  PROVE  /\ SbLive' = (SbLive \cup (IF StoreCommits THEN {Slot(sbWrite, SB_DEPTH)} ELSE {}))
                        \ (IF StoreAnswered THEN {Slot(sbTrail, SB_DEPTH)} ELSE {})
         /\ StoreCommits => /\ Slot(sbWrite, SB_DEPTH) \notin SbLive
                            /\ Slot(sbWrite, SB_DEPTH) \in SbLive'
         /\ StoreAnswered => Slot(sbTrail, SB_DEPTH) \in SbLive
         /\ \A s \in SbLive : sbArray'[s] = sbArray[s]
         /\ SbLive \subseteq SbSlots
<1>1. /\ Waiting' = (Waiting \cup (IF StoreCommits THEN {sbWrite} ELSE {}))
                      \ (IF StoreAnswered THEN {sbTrail} ELSE {})
      /\ \A p \in Waiting : /\ p \in Pointers(SB_DEPTH)
                            /\ Slot(p, SB_DEPTH) \in SbSlots
                            /\ StoreCommits => Slot(p, SB_DEPTH) # Slot(sbWrite, SB_DEPTH)
      /\ StoreAnswered => sbTrail \in Waiting
      /\ StoreCommits => sbWrite \in Waiting'
      /\ Slot(sbWrite, SB_DEPTH) \in SbSlots
  BY BufferStep, PositionStep
<1>2. /\ SbLive = {Slot(p, SB_DEPTH) : p \in Waiting}
      /\ SbLive' = {Slot(p, SB_DEPTH) : p \in Waiting'}
  BY DEF SbLive, Waiting
<1>3. \A p, q \in Waiting : Slot(p, SB_DEPTH) = Slot(q, SB_DEPTH) => p = q
  <2>1. /\ sbTrail \in Pointers(SB_DEPTH) /\ sbWrite \in Pointers(SB_DEPTH)
        /\ Dist(sbWrite, sbTrail, SB_DEPTH) <= SB_DEPTH
    BY DEF PathInv, TypeOK, SbTypeOK, SbInv, SbCount
  <2> QED
    BY <2>1, StoreBufferAssumption, SlotsDistinct DEF Waiting
<1>4. \A s \in SbLive : sbArray'[s] = sbArray[s]
  <2>1. sbArray \in [SbSlots -> [addr : Addrs \cup {NoAddr}, val : Values]]
    BY DEF PathInv, TypeOK, SbTypeOK
  <2>2. sbArray' = IF StoreCommits
                     THEN [sbArray EXCEPT ![Slot(sbWrite, SB_DEPTH)] = memOp[RobTop]]
                   ELSE sbArray
    BY BufferStep
  <2> QED
    BY <1>1, <1>2, <2>1, <2>2
<1>5. ASSUME NEW s
      PROVE  s \in SbLive' <=>
               /\ s \in SbLive \/ (StoreCommits /\ s = Slot(sbWrite, SB_DEPTH))
               /\ ~(StoreAnswered /\ s = Slot(sbTrail, SB_DEPTH))
  <2>1. ASSUME s \in SbLive'
        PROVE  /\ s \in SbLive \/ (StoreCommits /\ s = Slot(sbWrite, SB_DEPTH))
               /\ ~(StoreAnswered /\ s = Slot(sbTrail, SB_DEPTH))
    <3>1. PICK p \in Waiting' : s = Slot(p, SB_DEPTH)
      BY <1>2, <2>1
    <3> QED
      BY <1>1, <1>2, <1>3, <3>1
  <2>2. ASSUME s \in SbLive, ~(StoreAnswered /\ s = Slot(sbTrail, SB_DEPTH))
        PROVE  s \in SbLive'
    <3>1. PICK p \in Waiting : s = Slot(p, SB_DEPTH)
      BY <1>2, <2>2
    <3>2. p \in Waiting'
      BY <1>1, <2>2, <3>1
    <3> QED
      BY <1>2, <3>1, <3>2
  <2>3. ASSUME StoreCommits, s = Slot(sbWrite, SB_DEPTH) PROVE s \in SbLive'
    BY <1>1, <1>2, <2>3
  <2> QED
    BY <2>1, <2>2, <2>3
<1>6. SbLive \subseteq SbSlots /\ (StoreAnswered => Slot(sbTrail, SB_DEPTH) \in SbLive)
  BY <1>1, <1>2
<1>7. StoreCommits => /\ Slot(sbWrite, SB_DEPTH) \notin SbLive
                      /\ Slot(sbWrite, SB_DEPTH) \in SbLive'
  BY <1>1, <1>2
<1> QED
  BY <1>4, <1>5, <1>6, <1>7

(* The stores between queue and store buffer after a cycle.                *)
LEMMA IssuedStep ==
  ASSUME PathInv,
         NEW offer \in Offers, NEW calc \in Calculable, NEW cdb \in Broadcasts,
         NEW done \in BOOLEAN, Cycle(offer, calc, cdb, done)
  PROVE  /\ \A t \in IssuedStores' :
              /\ t \in Survivors(cdb) /\ memOp'[t] = memOp[t]
              /\ \/ t \in IssuedStores
                 \/ \E i \in Leaving(cdb) : IsStore(lsq[i]) /\ t = lsq[i].tag
         /\ \A t \in IssuedStores : ~Flushed(t, cdb) /\ ~(StoreCommits /\ t = RobTop) =>
              t \in IssuedStores'
         /\ \A i \in Leaving(cdb) : IsStore(lsq[i]) =>
              lsq[i].tag \in IssuedStores' /\ lsq[i].tag \notin IssuedStores
         /\ StoreCommits => /\ RobTop \in IssuedStores /\ ~Flushed(RobTop, cdb)
                            /\ memOp'[RobTop] = memOp[RobTop] /\ RobTop \notin LiveTags'
         /\ StoreCommits => sbEntry' = [valid |-> TRUE, slot |-> Slot(sbWrite, SB_DEPTH),
                                        tag |-> RobTop]
         /\ ~StoreCommits => sbEntry' = NoSbEntry
<1>1. /\ LiveTags' = Survivors(cdb) \cup (IF Fires(offer, cdb) THEN {RobBottom} ELSE {})
      /\ Fires(offer, cdb) => RobBottom \notin LiveTags
      /\ Commits(Status) => RobTop \in LiveTags /\ rob[RobTop].compl
  BY FlightStep
<1>2. ASSUME NEW t \in IssuedStores'
      PROVE  /\ t \in Survivors(cdb) /\ memOp'[t] = memOp[t]
             /\ \/ t \in IssuedStores
                \/ \E i \in Leaving(cdb) : IsStore(lsq[i]) /\ t = lsq[i].tag
  <2>1. t \in LiveTags' /\ rob'[t].kind = "STORE" /\ LeftQueue(t)'
    BY <1>2 DEF IssuedStores
  <2>2. t \in Survivors(cdb)
    <3>1. SUFFICES ASSUME Fires(offer, cdb), t = RobBottom PROVE FALSE
      BY <1>1, <2>1
    <3>2. ToQueue(offer, cdb)
      BY <2>1, <3>1, EntryStep DEF MemoryKinds
    <3> QED
      BY <2>1, <3>1, <3>2, LeftStep DEF LeftQueue
  <2>3. rob[t].kind = "STORE" /\ memOp'[t] = memOp[t] /\ t \in LiveTags
    BY <2>1, <2>2, EntryStep
  <2>4. LeftQueue(t) \/ \E s \in Leaving(cdb) : lsq[s].tag = t
    BY <2>1, <2>2, LeftStep
  <2>5. \A s \in Leaving(cdb) : lsq[s].tag = t => IsStore(lsq[s])
    BY <2>3, LeavingFacts DEF IsStore
  <2> QED
    BY <2>2, <2>3, <2>4, <2>5 DEF IssuedStores
<1>3. ASSUME NEW t \in IssuedStores, ~Flushed(t, cdb), ~(StoreCommits /\ t = RobTop)
      PROVE  t \in IssuedStores'
  <2>1. t \in LiveTags /\ rob[t].kind = "STORE" /\ LeftQueue(t)
    BY DEF IssuedStores
  <2>2. t \in Survivors(cdb)
    BY <1>3, <2>1 DEF Survivors, StoreCommits, RobHead
  <2>3. LeftQueue(t)' /\ rob'[t].kind = "STORE" /\ t \in LiveTags'
    BY <1>1, <2>1, <2>2, LeftStep, EntryStep
  <2> QED
    BY <2>3 DEF IssuedStores
<1>4. ASSUME NEW i \in Leaving(cdb), IsStore(lsq[i])
      PROVE  lsq[i].tag \in IssuedStores' /\ lsq[i].tag \notin IssuedStores
  <2>1. PICK t : t = lsq[i].tag
    OBVIOUS
  <2>2. /\ i \in LsqSlots /\ lsq[i].valid /\ t \in LiveTags /\ ~rob[t].compl
        /\ rob[t].kind = "STORE" /\ ~cdb.flush
    BY <1>4, <2>1, LeavingFacts DEF Pending, IsStore
  <2>3. t \in Survivors(cdb)
    BY <1>1, <2>2 DEF Survivors, Flushed
  <2>4. LeftQueue(t)' /\ rob'[t].kind = "STORE" /\ t \in LiveTags'
    BY <1>1, <2>1, <2>2, <2>3, LeftStep, EntryStep
  <2>5. t \in IssuedStores'
    BY <2>4 DEF IssuedStores
  <2> QED
    BY <2>1, <2>2, <2>5 DEF IssuedStores, LeftQueue
<1>5. ASSUME StoreCommits
      PROVE  /\ RobTop \in IssuedStores /\ ~Flushed(RobTop, cdb)
             /\ memOp'[RobTop] = memOp[RobTop] /\ RobTop \notin LiveTags'
  <2>1. /\ RobTop \in LiveTags /\ rob[RobTop].kind = "STORE" /\ rob[RobTop].compl
        /\ Commits(Status)
    BY <1>5, BufferStep DEF StoreCommits
  <2>2. LeftQueue(RobTop)
    BY <2>1 DEF LeftQueue, PathInv, QueueInv, Pending
  <2>3. Depth(RobTop) = 0 /\ (cdb.flush => Depth(cdb.tag) \in 0 .. ROB_DEPTH - 1)
    <3>1. RobTypeOK /\ RobCount <= ROB_DEPTH /\ cdb.tag \in RobTags
      BY BroadcastFacts DEF PathInv, TypeOK, FlightInv
    <3> QED
      BY <3>1, DepthFacts
  <2>4. ~Flushed(RobTop, cdb)
    BY <2>3, SizeAssumption DEF Flushed
  <2>5. RobTop \notin LiveTags'
    BY <1>1, <2>1 DEF Survivors
  <2>6. memOp'[RobTop] = memOp[RobTop]
    <3>1. /\ memOp' = IF ToQueue(offer, cdb)
                        THEN [memOp EXCEPT ![RobBottom] = Operand(offer.kind, offer.addr)]
                      ELSE memOp
          /\ memOp \in [RobTags -> [addr : Addrs \cup {NoAddr}, val : Values]]
      BY CycleParts DEF PathInv, TypeOK, LsqTypeOK
    <3>2. ToQueue(offer, cdb) => RobBottom # RobTop
      BY <1>1, <2>1 DEF ToQueue
    <3> QED
      BY <3>1, <3>2
  <2> QED
    BY <2>1, <2>2, <2>4, <2>5, <2>6 DEF IssuedStores
<1> QED
  BY <1>2, <1>3, <1>4, <1>5, BufferStep

(* What the store buffer has reported is true after a cycle.               *)
LEMMA MarkKept ==
  ASSUME PathInv,
         NEW offer \in Offers, NEW calc \in Calculable, NEW cdb \in Broadcasts,
         NEW done \in BOOLEAN, Cycle(offer, calc, cdb, done)
  PROVE  MarkInv'
<1>1. ASSUME sbEntry'.valid
      PROVE  /\ sbEntry'.slot \in SbLive' /\ sbEntry'.tag \notin LiveTags'
             /\ memOp'[sbEntry'.tag].addr = sbArray'[sbEntry'.slot].addr
  <2>1. StoreCommits
    BY <1>1, IssuedStep DEF NoSbEntry
  <2>2. sbEntry'.slot = Slot(sbWrite, SB_DEPTH) /\ sbEntry'.tag = RobTop
    BY <2>1, IssuedStep
  <2>3. sbArray'[Slot(sbWrite, SB_DEPTH)] = memOp[RobTop]
    <3>1. sbArray \in [SbSlots -> [addr : Addrs \cup {NoAddr}, val : Values]]
      BY DEF PathInv, TypeOK, SbTypeOK
    <3> QED
      BY <2>1, <3>1, BufferStep
  <2> QED
    BY <2>1, <2>2, <2>3, SlotsStep, IssuedStep
<1>2. sbFlush'.valid => sbFlush'.slot \notin SbLive'
  BY BufferStep, SlotsStep DEF NoSbFlush
<1> QED
  BY <1>1, <1>2 DEF MarkInv

(* The names after a cycle: a flush drops tags, the cache's last answer a  *)
(* slot, and a tag reported as committed becomes a slot.                   *)
LEMMA NamesStep ==
  ASSUME PathInv,
         NEW offer \in Offers, NEW calc \in Calculable, NEW cdb \in Broadcasts,
         NEW done \in BOOLEAN, Cycle(offer, calc, cdb, done)
  PROVE  /\ \A t : t \in NamedTags' <=>
                     \/ t \in IssuedStores /\ ~Flushed(t, cdb)
                     \/ \E i \in Leaving(cdb) : IsStore(lsq[i]) /\ t = lsq[i].tag
         /\ NamedSlots' = SbLive
         /\ \A t \in NamedTags' : memOp'[t] = memOp[t]
<1>1. NamedTags' = IssuedStores' \cup (IF StoreCommits THEN {RobTop} ELSE {})
  BY IssuedStep DEF NamedTags, NoSbEntry
<1>2. \A t \in IssuedStores' : ~Flushed(t, cdb)
  BY IssuedStep DEF Survivors
<1>3. \A t : t \in NamedTags' <=>
               \/ t \in IssuedStores /\ ~Flushed(t, cdb)
               \/ \E i \in Leaving(cdb) : IsStore(lsq[i]) /\ t = lsq[i].tag
  BY <1>1, <1>2, IssuedStep
<1>4. NamedSlots' = SbLive
  <2>1. /\ sbFlush' = IF StoreAnswered
                        THEN [valid |-> TRUE, slot |-> Slot(sbTrail, SB_DEPTH)]
                      ELSE NoSbFlush
    BY BufferStep
  <2>2. NamedSlots' = (SbLive' \ (IF StoreCommits THEN {Slot(sbWrite, SB_DEPTH)} ELSE {}))
                        \cup (IF StoreAnswered THEN {Slot(sbTrail, SB_DEPTH)} ELSE {})
    BY <2>1, IssuedStep DEF NamedSlots, NoSbEntry, NoSbFlush
  <2> QED
    BY <2>2, SlotsStep
<1>5. \A t \in NamedTags' : memOp'[t] = memOp[t]
  BY <1>1, IssuedStep
<1> QED
  BY <1>3, <1>4, <1>5

(* An entry of the address buffer that is in use, and one that is not,     *)
(* after a cycle, when the buffer is not full.                             *)
LEMMA EntriesStep ==
  ASSUME PathInv, ~SabFull,
         NEW offer \in Offers, NEW calc \in Calculable, NEW cdb \in Broadcasts,
         NEW done \in BOOLEAN, Cycle(offer, calc, cdb, done)
  PROVE  /\ SabFree \in SabVacant
         /\ \A j \in Occupied :
              IF Released(j) \/ Cut(j, cdb) THEN j \notin Occupied'
              ELSE /\ j \in Occupied'
                   /\ sab'[j] = IF Renamed(j) THEN Rename(sab[j]) ELSE sab[j]
         /\ \A j \in SabVacant : j \in Occupied' =>
              \E i \in Leaving(cdb) : IsStore(lsq[i]) /\ j = SabFree /\ sab'[j] = Entered(i)
         /\ \A i \in Leaving(cdb) : IsStore(lsq[i]) =>
              SabFree \in Occupied' /\ sab'[SabFree] = Entered(i)
<1>1. SabFree \in SabVacant
  <2>1. SabVacant \in SUBSET Nat /\ SabVacant # {}
    BY LsqAssumption DEF SabVacant, SabSlots, SabFull
  <2> QED
    BY <2>1, MinFacts DEF SabFree
<1>2. sab \in [SabSlots -> SabEntry]
  BY DEF PathInv, TypeOK, LsqTypeOK
<1>3. ~NoSabEntry.valid /\ \A i : Entered(i).valid /\ ~Entered(i).sel
  BY DEF NoSabEntry, Entered
<1>4. ASSUME NEW j \in Occupied
      PROVE  IF Released(j) \/ Cut(j, cdb) THEN j \notin Occupied'
             ELSE /\ j \in Occupied'
                  /\ sab'[j] = IF Renamed(j) THEN Rename(sab[j]) ELSE sab[j]
  <2>1. j \in SabSlots /\ sab[j].valid /\ sab[j] \in SabEntry /\ j # SabFree
    BY <1>1, <1>2 DEF Occupied, SabVacant
  <2>2. Rename(sab[j]).valid
    BY <2>1 DEF Rename, SabEntry
  <2>3. j \in Occupied' <=> sab'[j].valid
    BY <2>1 DEF Occupied, SabVacant
  <2>4. CASE Released(j) \/ Cut(j, cdb)
    BY <1>3, <2>1, <2>3, <2>4, SabStep
  <2>5. CASE ~(Released(j) \/ Cut(j, cdb))
    BY <2>1, <2>2, <2>3, <2>5, SabStep
  <2> QED
    BY <2>4, <2>5
<1>5. ASSUME NEW j \in SabVacant
      PROVE  /\ ~Released(j) /\ ~Renamed(j)
             /\ j \in Occupied' <=> sab'[j].valid
             /\ j \in SabSlots
  BY DEF SabVacant, Released, Renamed, Occupied
<1>6. ASSUME NEW j \in SabVacant, j \in Occupied'
      PROVE  \E i \in Leaving(cdb) : IsStore(lsq[i]) /\ j = SabFree /\ sab'[j] = Entered(i)
  <2>1. sab'[j] # NoSabEntry /\ sab'[j].valid /\ ~sab[j].valid
    BY <1>3, <1>5, <1>6 DEF SabVacant
  <2> QED
    BY <1>5, <2>1, SabStep
<1>7. ASSUME NEW i \in Leaving(cdb), IsStore(lsq[i])
      PROVE  SabFree \in Occupied' /\ sab'[SabFree] = Entered(i)
  <2>1. Leaving(cdb) = {i} /\ ~cdb.flush
    BY LeavingFacts
  <2>2. ~Cut(SabFree, cdb)
    BY <2>1 DEF Cut
  <2>3. PICK j : j = SabFree
    OBVIOUS
  <2>4. sab'[j] = Entered(i)
    <3>1. j \in SabSlots /\ ~Released(j) /\ ~Cut(j, cdb) /\ ~Renamed(j)
      BY <1>1, <1>5, <2>2, <2>3
    <3>2. ~\A l \in Leaving(cdb) : IsStore(lsq[l]) => j # SabFree
      BY <1>7, <2>3
    <3>3. PICK l \in LsqSlots : Leaving(cdb) = {l} /\ sab'[j] = Entered(l)
      BY <3>1, <3>2, SabStep
    <3> QED
      BY <2>1, <3>3
  <2> QED
    BY <1>1, <1>3, <1>5, <2>3, <2>4
<1> QED
  BY <1>1, <1>4, <1>6, <1>7

(* An entry that stays keeps its store and its address: under its tag if   *)
(* the store has not committed, and otherwise under its slot.              *)
LEMMA EntryKept ==
  ASSUME PathInv, MarkInv, NamesInv, ~SabFull, FLUSH_AFTER_COMMIT = FALSE,
         NEW offer \in Offers, NEW calc \in Calculable, NEW cdb \in Broadcasts,
         NEW done \in BOOLEAN, Cycle(offer, calc, cdb, done),
         NEW j \in Occupied
  PROVE  \/ /\ sab[j].sel /\ sab[j].slot \in SbLive /\ j \in Occupied'
            /\ ~(sbEntry.valid /\ sab[j].slot = sbEntry.slot)
            /\ sab'[j] = sab[j] /\ sab[j].addr = sbArray'[sab[j].slot].addr
         \/ /\ sab[j].sel /\ sbFlush.valid /\ sab[j].slot = sbFlush.slot
            /\ j \notin Occupied'
         \/ /\ ~sab[j].sel /\ sbEntry.valid /\ sab[j].tag = sbEntry.tag /\ j \in Occupied'
            /\ sab'[j].sel /\ sab'[j].slot = sbEntry.slot /\ sab'[j].addr = sab[j].addr
            /\ sab[j].addr = sbArray'[sbEntry.slot].addr
         \/ /\ ~sab[j].sel /\ sab[j].tag \in IssuedStores /\ ~Flushed(sab[j].tag, cdb)
            /\ j \in Occupied' /\ sab'[j] = sab[j] /\ sab[j].addr = memOp'[sab[j].tag].addr
         \/ /\ ~sab[j].sel /\ sab[j].tag \in IssuedStores /\ Flushed(sab[j].tag, cdb)
            /\ j \notin Occupied'
<1>1. /\ NameOf(j) \in Names /\ sab[j].addr = AddrAt(NameOf(j))
      /\ j \in SabSlots /\ sab[j].valid /\ sab[j] \in SabEntry
  BY DEF NamesInv, Occupied, SabVacant, PathInv, TypeOK, LsqTypeOK
<1>2. IF Released(j) \/ Cut(j, cdb) THEN j \notin Occupied'
      ELSE j \in Occupied' /\ sab'[j] = IF Renamed(j) THEN Rename(sab[j]) ELSE sab[j]
  BY EntriesStep
<1>3. Released(j) <=> sbFlush.valid /\ sab[j].sel /\ sab[j].slot = sbFlush.slot
  BY <1>1 DEF Released
<1>4. Renamed(j) <=> sbEntry.valid /\ ~sab[j].sel /\ sab[j].tag = sbEntry.tag
  BY <1>1 DEF Renamed
<1>5. cdb.flush => ~sbEntry.valid
  BY BroadcastFacts DEF PathInv, MayFlush
<1>6. ASSUME sab[j].sel
      PROVE  /\ sab[j].slot \in NamedSlots /\ ~Cut(j, cdb) /\ ~Renamed(j)
             /\ sab[j].addr = sbArray[sab[j].slot].addr
  <2>1. NameOf(j)[1] = 1 /\ NameOf(j)[2] = sab[j].slot
    BY <1>6 DEF NameOf
  <2>2. sab[j].slot \in NamedSlots
    BY <1>1, <2>1 DEF Names
  <2>3. cdb.flush => Depth(cdb.tag) \in Nat
    <3>1. RobTypeOK /\ RobCount <= ROB_DEPTH /\ cdb.tag \in RobTags
      BY BroadcastFacts DEF PathInv, TypeOK, FlightInv
    <3> QED
      BY <3>1, DepthFacts
  <2>4. ~Cut(j, cdb)
    BY <1>6, <2>3 DEF Cut, SabDepth
  <2> QED
    BY <1>1, <1>4, <1>6, <2>1, <2>2, <2>4 DEF AddrAt
<1>7. ASSUME ~sab[j].sel
      PROVE  /\ sab[j].tag \in NamedTags /\ ~Released(j)
             /\ sab[j].addr = memOp[sab[j].tag].addr
             /\ Cut(j, cdb) <=> Flushed(sab[j].tag, cdb)
  <2>1. NameOf(j)[1] = 0 /\ NameOf(j)[2] = sab[j].tag
    BY <1>7 DEF NameOf
  <2>2. sab[j].tag \in NamedTags
    BY <1>1, <2>1 DEF Names
  <2>3. Cut(j, cdb) <=> Flushed(sab[j].tag, cdb)
    BY <1>7 DEF Cut, SabDepth, Flushed
  <2> QED
    BY <1>1, <1>3, <1>7, <2>1, <2>2, <2>3 DEF AddrAt
<1>8. CASE sab[j].sel /\ sbFlush.valid /\ sab[j].slot = sbFlush.slot
  BY <1>2, <1>3, <1>8
<1>9. CASE sab[j].sel /\ ~(sbFlush.valid /\ sab[j].slot = sbFlush.slot)
  <2>1. sab[j].slot \in SbLive /\ ~(sbEntry.valid /\ sab[j].slot = sbEntry.slot)
    BY <1>6, <1>9 DEF NamedSlots
  <2> QED
    BY <1>2, <1>3, <1>6, <1>9, <2>1, SlotsStep
<1>10. CASE ~sab[j].sel /\ sbEntry.valid /\ sab[j].tag = sbEntry.tag
  <2>1. ~cdb.flush /\ ~Cut(j, cdb)
    BY <1>5, <1>10 DEF Cut
  <2>2. sab'[j] = Rename(sab[j]) /\ j \in Occupied'
    BY <1>2, <1>4, <1>7, <1>10, <2>1
  <2>3. /\ Rename(sab[j]).sel /\ Rename(sab[j]).slot = sbEntry.slot
        /\ Rename(sab[j]).addr = sab[j].addr
    BY <1>1 DEF Rename, SabEntry
  <2>4. sab[j].addr = sbArray'[sbEntry.slot].addr
    BY <1>7, <1>10, SlotsStep DEF MarkInv
  <2> QED
    BY <1>10, <2>2, <2>3, <2>4
<1>11. CASE ~sab[j].sel /\ ~(sbEntry.valid /\ sab[j].tag = sbEntry.tag)
  <2>1. PICK t : t = sab[j].tag
    OBVIOUS
  <2>2. t \in IssuedStores
    BY <1>7, <1>11, <2>1 DEF NamedTags
  <2>3. ~Flushed(t, cdb) => memOp'[t] = memOp[t]
    BY <2>2, NamesStep
  <2> QED
    BY <1>2, <1>4, <1>7, <1>11, <2>1, <2>2, <2>3
<1> QED
  BY <1>8, <1>9, <1>10, <1>11

(* The names and their entries after a cycle.                              *)
LEMMA NamesKept ==
  ASSUME PathInv, MarkInv, NamesInv, ~SabFull, FLUSH_AFTER_COMMIT = FALSE,
         NEW offer \in Offers, NEW calc \in Calculable, NEW cdb \in Broadcasts,
         NEW done \in BOOLEAN, Cycle(offer, calc, cdb, done)
  PROVE  NamesInv'
<1> DEFINE slot(s) == <<1, s>>
           tag(t) == <<0, t>>
<1>1. ASSUME NEW j \in Occupied', j \notin Occupied
      PROVE  /\ j = SabFree /\ NameOf(j)' \in Names' /\ sab'[j].addr = AddrAt(NameOf(j))'
             /\ ~sab'[j].sel /\ sab'[j].tag \notin IssuedStores
  <2>1. j \in SabVacant
    BY <1>1 DEF Occupied
  <2>2. PICK i \in Leaving(cdb) : IsStore(lsq[i]) /\ j = SabFree /\ sab'[j] = Entered(i)
    BY <1>1, <2>1, EntriesStep
  <2>3. PICK t : t = lsq[i].tag
    OBVIOUS
  <2>4. ~sab'[j].sel /\ sab'[j].tag = t /\ sab'[j].addr = memOp[t].addr
    BY <2>2, <2>3 DEF Entered, NoSabEntry, AddrOf
  <2>5. t \in NamedTags' /\ memOp'[t] = memOp[t]
    BY <2>2, <2>3, NamesStep
  <2>6. NameOf(j)' = tag(t) /\ tag(t) \in Names'
    BY <2>4, <2>5 DEF NameOf, Names
  <2>7. AddrAt(NameOf(j))' = memOp'[t].addr
    BY <2>6 DEF AddrAt
  <2> QED
    BY <2>2, <2>3, <2>4, <2>5, <2>6, <2>7, IssuedStep
<1>2. ASSUME NEW j \in Occupied, j \in Occupied'
      PROVE  /\ NameOf(j)' \in Names' /\ sab'[j].addr = AddrAt(NameOf(j))'
             /\ \/ sab'[j] = sab[j] /\ (~sab[j].sel => sab[j].tag \in IssuedStores)
                   /\ (sab[j].sel => ~(sbEntry.valid /\ sab[j].slot = sbEntry.slot))
                \/ /\ sab'[j].sel /\ sbEntry.valid /\ sab'[j].slot = sbEntry.slot
                   /\ ~sab[j].sel /\ sab[j].tag = sbEntry.tag
  <2>1. CASE /\ sab[j].sel /\ sab[j].slot \in SbLive
             /\ ~(sbEntry.valid /\ sab[j].slot = sbEntry.slot)
             /\ sab'[j] = sab[j] /\ sab[j].addr = sbArray'[sab[j].slot].addr
    <3>1. PICK s : s = sab[j].slot
      OBVIOUS
    <3>2. NameOf(j)' = slot(s) /\ slot(s) \in Names'
      BY <2>1, <3>1, NamesStep DEF NameOf, Names
    <3>3. AddrAt(NameOf(j))' = sbArray'[s].addr
      BY <3>2 DEF AddrAt
    <3> QED
      BY <2>1, <3>1, <3>2, <3>3
  <2>2. CASE /\ ~sab[j].sel /\ sbEntry.valid /\ sab[j].tag = sbEntry.tag
             /\ sab'[j].sel /\ sab'[j].slot = sbEntry.slot /\ sab'[j].addr = sab[j].addr
             /\ sab[j].addr = sbArray'[sbEntry.slot].addr
    <3>1. PICK s : s = sbEntry.slot
      OBVIOUS
    <3>2. s \in SbLive
      BY <2>2, <3>1 DEF MarkInv
    <3>3. NameOf(j)' = slot(s) /\ slot(s) \in Names'
      BY <2>2, <3>1, <3>2, NamesStep DEF NameOf, Names
    <3>4. AddrAt(NameOf(j))' = sbArray'[s].addr
      BY <3>3 DEF AddrAt
    <3> QED
      BY <2>2, <3>1, <3>3, <3>4
  <2>3. CASE /\ ~sab[j].sel /\ sab[j].tag \in IssuedStores /\ ~Flushed(sab[j].tag, cdb)
             /\ sab'[j] = sab[j] /\ sab[j].addr = memOp'[sab[j].tag].addr
    <3>1. PICK t : t = sab[j].tag
      OBVIOUS
    <3>2. t \in NamedTags'
      BY <2>3, <3>1, NamesStep
    <3>3. NameOf(j)' = tag(t) /\ tag(t) \in Names'
      BY <2>3, <3>1, <3>2 DEF NameOf, Names
    <3>4. AddrAt(NameOf(j))' = memOp'[t].addr
      BY <3>3 DEF AddrAt
    <3> QED
      BY <2>3, <3>1, <3>3, <3>4
  <2> HIDE DEF slot, tag
  <2> QED
    BY <1>2, <2>1, <2>2, <2>3, EntryKept
<1>3. ASSUME NEW n \in Names' PROVE \E j \in Occupied' : NameOf(j)' = n
  <2>1. CASE \E s \in SbLive : n = slot(s)
    <3>1. PICK s \in SbLive : n = slot(s)
      BY <2>1
    <3>2. CASE sbEntry.valid /\ s = sbEntry.slot
      <4>1. tag(sbEntry.tag) \in Names
        BY <3>2 DEF Names, NamedTags
      <4>2. PICK j \in Occupied : NameOf(j) = tag(sbEntry.tag)
        BY <4>1 DEF NamesInv
      <4>3. ~sab[j].sel /\ sab[j].tag = sbEntry.tag
        BY <4>2 DEF NameOf
      <4>4. sab[j].tag \notin IssuedStores
        BY <3>2, <4>3 DEF MarkInv, IssuedStores
      <4>5. j \in Occupied' /\ sab'[j].sel /\ sab'[j].slot = sbEntry.slot
        BY <4>3, <4>4, EntryKept
      <4> QED
        BY <3>1, <3>2, <4>5 DEF NameOf
    <3>3. CASE ~(sbEntry.valid /\ s = sbEntry.slot)
      <4>1. slot(s) \in Names
        BY <3>3 DEF Names, NamedSlots
      <4>2. PICK j \in Occupied : NameOf(j) = slot(s)
        BY <4>1 DEF NamesInv
      <4>3. sab[j].sel /\ sab[j].slot = s
        BY <4>2 DEF NameOf
      <4>4. ~(sbFlush.valid /\ sab[j].slot = sbFlush.slot)
        BY <4>3 DEF MarkInv
      <4>5. j \in Occupied' /\ sab'[j] = sab[j]
        BY <4>3, <4>4, EntryKept
      <4> QED
        BY <3>1, <4>3, <4>5 DEF NameOf
    <3> QED
      BY <3>2, <3>3
  <2>2. CASE \E t \in NamedTags' : n = tag(t)
    <3>1. PICK t \in NamedTags' : n = tag(t)
      BY <2>2
    <3>2. CASE t \in IssuedStores /\ ~Flushed(t, cdb)
      <4>1. tag(t) \in Names
        BY <3>2 DEF Names, NamedTags
      <4>2. PICK j \in Occupied : NameOf(j) = tag(t)
        BY <4>1 DEF NamesInv
      <4>3. ~sab[j].sel /\ sab[j].tag = t
        BY <4>2 DEF NameOf
      <4>4. ~(sbEntry.valid /\ sab[j].tag = sbEntry.tag)
        BY <3>2, <4>3 DEF MarkInv, IssuedStores
      <4>5. j \in Occupied' /\ sab'[j] = sab[j]
        BY <3>2, <4>3, <4>4, EntryKept
      <4> QED
        BY <3>1, <4>3, <4>5 DEF NameOf
    <3>3. CASE \E i \in Leaving(cdb) : IsStore(lsq[i]) /\ t = lsq[i].tag
      <4>1. PICK i \in Leaving(cdb) : IsStore(lsq[i]) /\ t = lsq[i].tag
        BY <3>3
      <4>2. SabFree \in Occupied' /\ sab'[SabFree] = Entered(i)
        BY <4>1, EntriesStep
      <4>3. PICK j : j = SabFree
        OBVIOUS
      <4>4. ~sab'[j].sel /\ sab'[j].tag = t
        BY <4>1, <4>2, <4>3 DEF Entered, NoSabEntry
      <4> QED
        BY <3>1, <4>2, <4>3, <4>4 DEF NameOf
    <3> QED
      BY <3>2, <3>3, NamesStep
  <2> QED
    BY <1>3, <2>1, <2>2, NamesStep DEF Names
<1>4. ASSUME NEW j \in Occupied', NEW k \in Occupied', NameOf(j)' = NameOf(k)' PROVE j = k
  <2>1. \/ sab'[j].sel /\ sab'[k].sel /\ sab'[j].slot = sab'[k].slot
        \/ ~sab'[j].sel /\ ~sab'[k].sel /\ sab'[j].tag = sab'[k].tag
    <3>1. \A l : /\ sab'[l].sel => NameOf(l)' = <<1, sab'[l].slot>>
                 /\ ~sab'[l].sel => NameOf(l)' = <<0, sab'[l].tag>>
      BY DEF NameOf
    <3>2. \A x, y : /\ <<1, x>> # <<0, y>> /\ (<<1, x>> = <<1, y>> => x = y)
                    /\ <<0, x>> = <<0, y>> => x = y
      OBVIOUS
    <3>3. CASE sab'[j].sel /\ sab'[k].sel
      BY <1>4, <3>1, <3>2, <3>3
    <3>4. CASE ~sab'[j].sel /\ ~sab'[k].sel
      BY <1>4, <3>1, <3>2, <3>4
    <3>5. CASE sab'[j].sel /\ ~sab'[k].sel
      BY <1>4, <3>1, <3>2, <3>5
    <3>6. CASE ~sab'[j].sel /\ sab'[k].sel
      BY <1>4, <3>1, <3>2, <3>6
    <3> QED
      BY <3>3, <3>4, <3>5, <3>6
  <2>2. \A l, m \in Occupied : NameOf(l) = NameOf(m) => l = m
    BY DEF NamesInv
  <2>3. \A l \in {j, k} : \/ l \notin Occupied /\ l = SabFree /\ ~sab'[l].sel
                             /\ sab'[l].tag \notin IssuedStores
                          \/ /\ l \in Occupied /\ sab'[l] = sab[l]
                             /\ ~sab[l].sel => sab[l].tag \in IssuedStores
                             /\ sab[l].sel => ~(sbEntry.valid /\ sab[l].slot = sbEntry.slot)
                          \/ /\ l \in Occupied /\ sab'[l].sel
                             /\ sbEntry.valid /\ sab'[l].slot = sbEntry.slot
                             /\ ~sab[l].sel /\ sab[l].tag = sbEntry.tag
    BY <1>1, <1>2
  <2>4. CASE j \in Occupied /\ k \in Occupied
    <3>1. \/ sab[j].sel /\ sab[k].sel /\ sab[j].slot = sab[k].slot
          \/ ~sab[j].sel /\ ~sab[k].sel /\ sab[j].tag = sab[k].tag
      BY <2>1, <2>3, <2>4
    <3>2. NameOf(j) = NameOf(k)
      BY <3>1 DEF NameOf
    <3> QED
      BY <2>2, <2>4, <3>2
  <2>5. CASE ~(j \in Occupied /\ k \in Occupied)
    BY <2>1, <2>3, <2>5
  <2> QED
    BY <2>4, <2>5
<1> QED
  BY <1>1, <1>2, <1>3, <1>4 DEF NamesInv

(* A set has as many elements as the pairs of a fixed value and one of them. *)
LEMMA PairedSize ==
  ASSUME NEW n, NEW S, IsFiniteSet(S)
  PROVE  /\ IsFiniteSet({<<n, x>> : x \in S})
         /\ Cardinality({<<n, x>> : x \in S}) = Cardinality(S)
<1> DEFINE pairs == {<<n, x>> : x \in S}
           pair == [x \in S |-> <<n, x>>]
<1>1. pair \in Bijection(S, pairs)
  BY DEF Bijection, Injection, Surjection, IsInjective
<1>2. ExistsBijection(S, pairs)
  BY <1>1 DEF ExistsBijection
<1> HIDE DEF pairs
<1>3. IsFiniteSet(pairs) /\ Cardinality(pairs) = Cardinality(S)
  BY <1>2, FS_Bijection
<1> QED
  BY <1>3 DEF pairs

(* The sets whose sizes are compared are finite.                           *)
LEMMA FiniteParts ==
  ASSUME PathInv
  PROVE  /\ IsFiniteSet(LiveTags) /\ IsFiniteSet(IssuedStores) /\ IsFiniteSet(SbLive)
         /\ IsFiniteSet(Occupied) /\ IsFiniteSet(SabSlots)
         /\ Cardinality(SabSlots) = SAB_DEPTH
<1>1. LiveTags \subseteq RobTags
  BY DepthFacts DEF PathInv, TypeOK, FlightInv
<1>2. ROB_DEPTH \in Nat /\ SB_DEPTH \in Nat /\ SAB_DEPTH \in Nat
  BY SizeAssumption, StoreBufferAssumption, LsqAssumption
<1>3. IsFiniteSet(RobTags) /\ IsFiniteSet(SbSlots)
  BY <1>2, FS_Interval DEF RobTags, SbSlots
<1>4. IsFiniteSet(SabSlots) /\ Cardinality(SabSlots) = SAB_DEPTH
  BY <1>2, FS_Interval DEF SabSlots
<1>5. SbLive \subseteq SbSlots
  <2>1. SB_DEPTH \in Nat \ {0}
    BY StoreBufferAssumption
  <2>2. \A p \in Pointers(SB_DEPTH) : Slot(p, SB_DEPTH) \in SbSlots
    BY <2>1, PointerTypes DEF SbSlots
  <2> QED
    BY <2>2 DEF SbLive, Window
<1>6. IssuedStores \subseteq LiveTags /\ Occupied \subseteq SabSlots
  BY DEF IssuedStores, Occupied
<1>7. IsFiniteSet(LiveTags) /\ IsFiniteSet(SbLive) /\ IsFiniteSet(Occupied)
  BY <1>1, <1>3, <1>4, <1>5, <1>6, FS_Subset
<1> QED
  BY <1>4, <1>6, <1>7, FS_Subset

(* How many entries are in use: one for each store on its way, and one for *)
(* the store the cache has just answered.                                  *)
LEMMA OccupiedCount ==
  ASSUME PathInv, MarkInv, NamesInv
  PROVE  Cardinality(Occupied) =
           Cardinality(IssuedStores) + Cardinality(SbLive)
             + (IF sbFlush.valid THEN 1 ELSE 0)
<1> DEFINE byTag == {<<0, t>> : t \in NamedTags}
           bySlot == {<<1, s>> : s \in NamedSlots}
           held == SbLive \ (IF sbEntry.valid THEN {sbEntry.slot} ELSE {})
           name == [j \in Occupied |-> NameOf(j)]
<1>1. IsFiniteSet(IssuedStores) /\ IsFiniteSet(SbLive) /\ IsFiniteSet(Occupied)
  BY FiniteParts
<1>2. /\ IsFiniteSet(NamedTags)
      /\ Cardinality(NamedTags) =
           Cardinality(IssuedStores) + (IF sbEntry.valid THEN 1 ELSE 0)
  <2>1. CASE sbEntry.valid
    <3>1. NamedTags = IssuedStores \cup {sbEntry.tag} /\ sbEntry.tag \notin IssuedStores
      BY <2>1 DEF NamedTags, MarkInv, IssuedStores
    <3> QED
      BY <1>1, <2>1, <3>1, FS_AddElement
  <2>2. CASE ~sbEntry.valid
    <3>1. NamedTags = IssuedStores
      BY <2>2 DEF NamedTags
    <3> QED
      BY <1>1, <2>2, <3>1, FS_CardinalityType
  <2> QED
    BY <2>1, <2>2
<1>3. /\ IsFiniteSet(held)
      /\ Cardinality(held) = Cardinality(SbLive) - (IF sbEntry.valid THEN 1 ELSE 0)
  <2>1. CASE sbEntry.valid
    <3>1. held = SbLive \ {sbEntry.slot} /\ sbEntry.slot \in SbLive
      BY <2>1 DEF MarkInv
    <3> QED
      BY <1>1, <2>1, <3>1, FS_RemoveElement
  <2>2. CASE ~sbEntry.valid
    <3>1. held = SbLive
      BY <2>2
    <3> QED
      BY <1>1, <2>2, <3>1, FS_CardinalityType
  <2> QED
    BY <2>1, <2>2
<1>4. /\ IsFiniteSet(NamedSlots)
      /\ Cardinality(NamedSlots) = Cardinality(held) + (IF sbFlush.valid THEN 1 ELSE 0)
  <2>1. CASE sbFlush.valid
    <3>1. NamedSlots = held \cup {sbFlush.slot} /\ sbFlush.slot \notin held
      BY <2>1 DEF NamedSlots, MarkInv
    <3> HIDE DEF held
    <3> QED
      BY <1>3, <2>1, <3>1, FS_AddElement
  <2>2. CASE ~sbFlush.valid
    <3>1. NamedSlots = held
      BY <2>2 DEF NamedSlots
    <3> HIDE DEF held
    <3> QED
      BY <1>3, <2>2, <3>1, FS_CardinalityType
  <2> QED
    BY <2>1, <2>2
<1>5. /\ IsFiniteSet(byTag) /\ Cardinality(byTag) = Cardinality(NamedTags)
      /\ IsFiniteSet(bySlot) /\ Cardinality(bySlot) = Cardinality(NamedSlots)
  BY <1>2, <1>4, PairedSize
<1>6. Names = byTag \cup bySlot /\ byTag \cap bySlot = {}
  BY DEF Names
<1>7. IsFiniteSet(Names) /\ Cardinality(Names) = Cardinality(byTag) + Cardinality(bySlot)
  <2> HIDE DEF byTag, bySlot
  <2>1. /\ IsFiniteSet(byTag \cup bySlot)
        /\ Cardinality(byTag \cup bySlot) =
             Cardinality(byTag) + Cardinality(bySlot) - Cardinality(byTag \cap bySlot)
    BY <1>5, FS_Union
  <2>2. Cardinality(byTag) \in Nat /\ Cardinality(bySlot) \in Nat
    BY <1>5, FS_CardinalityType
  <2>3. Cardinality(byTag \cap bySlot) = 0
    BY <1>6, FS_EmptySet
  <2> QED
    BY <1>6, <2>1, <2>2, <2>3
<1>8. Cardinality(Names) = Cardinality(Occupied)
  <2>1. name \in Injection(Occupied, Names)
    BY DEF NamesInv, Injection, IsInjective
  <2>2. name \in Surjection(Occupied, Names)
    BY DEF NamesInv, Surjection
  <2>3. ExistsBijection(Occupied, Names)
    BY <2>1, <2>2 DEF ExistsBijection, Bijection
  <2> QED
    BY <1>1, <2>3, FS_Bijection
<1> HIDE DEF byTag, bySlot, held, name
<1> QED
  BY <1>1, <1>2, <1>3, <1>4, <1>5, <1>7, <1>8, FS_CardinalityType

(* Stated so that it can be primed: the room in a buffer that is not full. *)
RoomFacts ==
  PathInv /\ ~SabFull => IsFiniteSet(Occupied) /\ Cardinality(Occupied) < SAB_DEPTH

(* A vacant entry is not counted.                                          *)
LEMMA RoomNow == RoomFacts
<1> SUFFICES ASSUME PathInv, ~SabFull
             PROVE  IsFiniteSet(Occupied) /\ Cardinality(Occupied) < SAB_DEPTH
  BY DEF RoomFacts
<1>1. IsFiniteSet(Occupied) /\ IsFiniteSet(SabSlots) /\ Cardinality(SabSlots) = SAB_DEPTH
  BY FiniteParts
<1>2. Occupied \subseteq SabSlots /\ Occupied # SabSlots
  BY DEF Occupied, SabFull, SabVacant
<1>3. /\ Cardinality(Occupied) <= Cardinality(SabSlots)
      /\ Cardinality(SabSlots) # Cardinality(Occupied)
  BY <1>1, <1>2, FS_Subset
<1>4. Cardinality(Occupied) \in Nat /\ SAB_DEPTH \in Nat
  BY <1>1, FS_CardinalityType, LsqAssumption
<1> QED
  BY <1>1, <1>3, <1>4

AddressInv == MarkInv /\ NamesInv

(* At first both buffers are empty.                                        *)
LEMMA AddressInvInit == Init => AddressInv
<1> SUFFICES ASSUME Init PROVE AddressInv
  OBVIOUS
<1>1. LiveTags = {} /\ SbLive = {}
  <2>1. PathInv
    BY PathInvInit
  <2>2. RobCount = 0 /\ sbWrite = 0 /\ sbTrail = 0
    BY SizeAssumption DEF Init, RobInit, SbInit, RobCount, Dist
  <2>3. LiveTags = {}
    BY <2>1, <2>2, DepthFacts DEF PathInv, TypeOK, FlightInv
  <2>4. Window(sbTrail, sbWrite, SB_DEPTH) = {}
    BY <2>2, StoreBufferAssumption DEF Window, Pointers, Dist
  <2> QED
    BY <2>3, <2>4 DEF SbLive
<1>2. ~sbEntry.valid /\ ~sbFlush.valid /\ \A j \in SabSlots : ~sab[j].valid
  BY DEF Init, SbInit, NoSbEntry, NoSbFlush, LsqInit, NoSabEntry
<1>3. Occupied = {} /\ Names = {}
  BY <1>1, <1>2 DEF Occupied, SabVacant, Names, NamedTags, NamedSlots, IssuedStores
<1> QED
  BY <1>2, <1>3 DEF AddressInv, MarkInv, NamesInv

(* A cycle keeps the names exact while the address buffer is not full.     *)
LEMMA AddressInvStep ==
  FlushesWait => (PathInv /\ AddressInv /\ ~SabFull /\ [Next]_vars => AddressInv')
<1>1. CASE Next
  <2>1. PICK offer \in Offers, calc \in Calculable, cdb \in Broadcasts, done \in BOOLEAN :
          Cycle(offer, calc, cdb, done)
    BY <1>1 DEF Next
  <2>2. PathInv => MarkInv'
    BY <2>1, MarkKept
  <2>3. FlushesWait /\ PathInv /\ AddressInv /\ ~SabFull => NamesInv'
    BY <2>1, NamesKept DEF AddressInv, FlushesWait
  <2> QED
    BY <2>2, <2>3 DEF AddressInv
<1>2. CASE UNCHANGED vars
  <2>1. /\ UNCHANGED <<rob, robWrite, robRead, memOp, lsq, sab>>
        /\ UNCHANGED <<sbArray, sbWrite, sbLead, sbTrail, sbEntry, sbFlush>>
    BY <1>2 DEF vars, robVars, lsqVars, sbVars
  <2>2. LiveTags' = LiveTags /\ SbLive' = SbLive /\ Occupied' = Occupied
    BY <2>1 DEF LiveTags, SbLive, Occupied, SabVacant
  <2>3. IssuedStores' = IssuedStores
    BY <2>1, <2>2 DEF IssuedStores, LeftQueue
  <2>4. /\ Names' = Names /\ \A j : NameOf(j)' = NameOf(j)
        /\ \A n : AddrAt(n)' = AddrAt(n)
    BY <2>1, <2>2, <2>3 DEF Names, NamedTags, NamedSlots, NameOf, AddrAt
  <2>5. MarkInv => MarkInv'
    BY <2>1, <2>2, <2>3 DEF MarkInv
  <2>6. NamesInv => NamesInv'
    BY <2>1, <2>2, <2>4 DEF NamesInv
  <2> QED
    BY <2>5, <2>6 DEF AddressInv
<1> QED
  BY <1>1, <1>2

(* As long as it is not full the address buffer has one entry for each     *)
(* store between the queue and memory, under the name by which the store   *)
(* is known, and no other.                                                 *)
THEOREM AddressInvariant == FlushesWait => (Spec /\ []~SabFull => []AddressInv)
<1> SUFFICES ASSUME FlushesWait PROVE Spec /\ []~SabFull => []AddressInv
  OBVIOUS
<1>1. PathInv /\ AddressInv /\ ~SabFull /\ [Next]_vars => AddressInv'
  BY AddressInvStep
<1> QED
  BY <1>1, AddressInvInit, PathInvariant, PTL DEF Spec

(* The entries and the stores, counted.                                    *)
LEMMA ExactFacts == PathInv /\ AddressInv => AddressBufferExact
<1> SUFFICES ASSUME PathInv, MarkInv, NamesInv PROVE AddressBufferExact
  BY DEF AddressInv
<1>1. \A j : j \in Occupied <=> j \in SabSlots /\ sab[j].valid
  BY DEF Occupied, SabVacant
<1>2. ASSUME NEW t \in NamedTags
      PROVE  Cardinality(EntryOfTag(t, memOp[t].addr)) = 1
  <2>1. <<0, t>> \in Names
    BY DEF Names
  <2>2. PICK j \in Occupied : NameOf(j) = <<0, t>>
    BY <2>1 DEF NamesInv
  <2>3. ~sab[j].sel /\ sab[j].tag = t /\ sab[j].addr = memOp[t].addr
    BY <2>2 DEF NameOf, NamesInv, AddrAt
  <2>4. \A k \in Occupied : ~sab[k].sel /\ sab[k].tag = t => k = j
    <3>1. \A k \in Occupied : ~sab[k].sel /\ sab[k].tag = t => NameOf(k) = <<0, t>>
      BY DEF NameOf
    <3> QED
      BY <2>2, <3>1 DEF NamesInv
  <2>5. EntryOfTag(t, memOp[t].addr) = {j}
    BY <1>1, <2>3, <2>4 DEF EntryOfTag, SabFor
  <2> QED
    BY <2>5, FS_Singleton
<1>3. ASSUME NEW s \in SbLive
      PROVE  Cardinality(EntryOfSlot(s, sbArray[s].addr)) = 1
  <2> DEFINE direct == {j \in SabFor(sbArray[s].addr) : sab[j].sel /\ sab[j].slot = s}
  <2>1. CASE sbEntry.valid /\ sbEntry.slot = s
    <3>1. <<1, s>> \notin Names
      BY <2>1 DEF Names, NamedSlots, MarkInv
    <3>2. direct = {}
      BY <1>1, <3>1 DEF SabFor, NamesInv, NameOf
    <3>3. sbEntry.tag \in NamedTags /\ memOp[sbEntry.tag].addr = sbArray[s].addr
      BY <2>1 DEF NamedTags, MarkInv
    <3>4. EntryOfSlot(s, sbArray[s].addr) = EntryOfTag(sbEntry.tag, sbArray[s].addr)
      BY <2>1, <3>2 DEF EntryOfSlot
    <3> QED
      BY <1>2, <3>3, <3>4
  <2>2. CASE ~(sbEntry.valid /\ sbEntry.slot = s)
    <3>1. <<1, s>> \in Names
      BY <2>2 DEF Names, NamedSlots
    <3>2. PICK j \in Occupied : NameOf(j) = <<1, s>>
      BY <3>1 DEF NamesInv
    <3>3. sab[j].sel /\ sab[j].slot = s /\ sab[j].addr = sbArray[s].addr
      BY <3>2 DEF NameOf, NamesInv, AddrAt
    <3>4. \A k \in Occupied : sab[k].sel /\ sab[k].slot = s => k = j
      <4>1. \A k \in Occupied : sab[k].sel /\ sab[k].slot = s => NameOf(k) = <<1, s>>
        BY DEF NameOf
      <4> QED
        BY <3>2, <4>1 DEF NamesInv
    <3>5. direct = {j}
      BY <1>1, <3>3, <3>4 DEF SabFor
    <3>6. EntryOfSlot(s, sbArray[s].addr) = {j}
      BY <2>2, <3>5 DEF EntryOfSlot
    <3> QED
      BY <3>6, FS_Singleton
  <2> QED
    BY <2>1, <2>2
<1>4. IssuedStores \subseteq NamedTags
  BY DEF NamedTags
<1> QED
  BY <1>2, <1>3, <1>4, OccupiedCount DEF AddressBufferExact, Occupied

(* The address buffer knows every store between the queue and memory, once *)
(* and under its present name, and nothing else.                           *)
THEOREM AddressBufferIsExact ==
  FlushesWait => (Spec /\ []~SabFull => []AddressBufferExact)
<1> SUFFICES ASSUME FlushesWait PROVE Spec /\ []~SabFull => []AddressBufferExact
  OBVIOUS
<1>1. Spec /\ []~SabFull => []AddressInv
  BY AddressInvariant
<1> QED
  BY <1>1, PathInvariant, ExactFacts, PTL

-----------------------------------------------------------------------------
(* The entries that the counter of load t stands for.                      *)
YoungerStores(t) ==
  {j \in Occupied : /\ sab[j].addr = memOp[t].addr /\ ~sab[j].sel
                    /\ sab[j].tag \in LiveTags /\ Depth(sab[j].tag) > Depth(t)}

(* And no branch flushes a store that a load it spares has counted: the    *)
(* flush would drop the entry and leave the counter as it is.              *)
CountsSpared == FlushesWait /\ FLUSH_COUNTED = FALSE

(* The depths of live tags are numbers; stated so that it can be primed.   *)
DepthsTyped ==
  RobTypeOK /\ RobCount <= ROB_DEPTH =>
    LiveTags \subseteq RobTags /\ \A u \in RobTags : Depth(u) \in Nat

(* They are what DepthFacts says of them.                                  *)
LEMMA DepthTypes == DepthsTyped
  BY DepthFacts DEF DepthsTyped

(* A load that waits sees one younger store more when it counts one, and   *)
(* else the same.                                                          *)
LEMMA YoungerStep ==
  ASSUME CountsSpared, PathInv, MarkInv, NamesInv, ~SabFull,
         NEW offer \in Offers, NEW calc \in Calculable, NEW cdb \in Broadcasts,
         NEW done \in BOOLEAN, Cycle(offer, calc, cdb, done),
         NEW i \in LsqSlots, Waits(cdb, i), IsLoad(lsq[i]), NEW t, t = lsq[i].tag
  PROVE  /\ t \in Survivors(cdb)
         /\ YoungerStores(t)' =
              YoungerStores(t) \cup (IF CountsNow(cdb, i) THEN {SabFree} ELSE {})
         /\ SabFree \notin YoungerStores(t)
<1>1. /\ t \in LiveTags /\ rob[t].kind = "LOAD" /\ ~rob[t].compl /\ ~Flushed(t, cdb)
      /\ t \in Survivors(cdb)
  <2>1. Pending(t) /\ rob[t].kind = "LOAD" /\ ~Flushed(t, cdb)
    BY DEF PathInv, QueueInv, IsLoad, Waits
  <2>2. ~(Commits(Status) /\ t = RobTop)
    BY <2>1, FlightStep DEF Pending
  <2> QED
    BY <2>1, <2>2 DEF Pending, Survivors
<1>2. memOp'[t] = memOp[t] /\ t \in LiveTags'
  BY <1>1, EntryStep, FlightStep
<1>3. \A u \in LiveTags' : Depth(u)' > Depth(t)' <=> Depth(u) > Depth(t)
  <2>1. \A u, v \in LiveTags' : Depth(u)' < Depth(v)' <=> Depth(u) < Depth(v)
    BY FlightStep
  <2>2. \A u \in LiveTags' : Depth(u)' \in Nat /\ Depth(u) \in Nat
    <3>1. RobTypeOK /\ RobCount <= ROB_DEPTH /\ RobTypeOK' /\ RobCount' <= ROB_DEPTH
      BY FlightStep DEF PathInv, TypeOK, FlightInv
    <3>2. \A u \in RobTags : Depth(u) \in Nat
      BY <3>1, DepthFacts
    <3>3. LiveTags' \subseteq RobTags /\ \A u \in RobTags : Depth(u)' \in Nat
      <4>1. DepthsTyped'
        BY DepthTypes, PTL
      <4> QED
        BY <3>1, <4>1 DEF DepthsTyped
    <3> QED
      BY <3>2, <3>3
  <2> QED
    BY <1>2, <2>1, <2>2
<1>4. \A u \in LiveTags : Depth(u) \in Nat /\ Depth(RobTop) = 0 /\ Depth(t) \in Nat
  <2>1. RobTypeOK /\ RobCount <= ROB_DEPTH
    BY DEF PathInv, TypeOK, FlightInv
  <2> QED
    BY <1>1, <2>1, DepthFacts
<1>5. FLUSH_AFTER_COMMIT = FALSE /\ FLUSH_COUNTED = FALSE
  BY DEF CountsSpared, FlushesWait
<1>6. ASSUME NEW j \in YoungerStores(t) PROVE j \in YoungerStores(t)'
  <2>1. PICK u : u = sab[j].tag
    OBVIOUS
  <2>2. /\ j \in Occupied /\ sab[j].addr = memOp[t].addr /\ ~sab[j].sel
        /\ u \in LiveTags /\ Depth(u) > Depth(t)
    BY <2>1 DEF YoungerStores
  <2>3. ~(sbEntry.valid /\ u = sbEntry.tag)
    BY <2>2 DEF MarkInv
  <2>4. ~Flushed(u, cdb)
    <3> SUFFICES ASSUME Flushed(u, cdb) PROVE FALSE
      OBVIOUS
    <3>1. /\ cdb.flush /\ Depth(u) > Depth(cdb.tag) /\ ~(Depth(t) > Depth(cdb.tag))
      BY <1>1 DEF Flushed
    <3>2. cdb.tag \in LiveTags /\ rob[cdb.tag].kind = "BRANCH" /\ MayFlush(cdb.tag)
      BY <3>1, BroadcastFacts DEF PathInv, Branches
    <3>3. Depth(t) # Depth(cdb.tag)
      <4>1. RobTypeOK /\ RobCount <= ROB_DEPTH
        BY DEF PathInv, TypeOK, FlightInv
      <4> QED
        BY <1>1, <3>2, <4>1, DepthFacts
    <3>4. Depth(t) < Depth(cdb.tag)
      BY <1>4, <3>1, <3>2, <3>3
    <3>5. CountedBehind(cdb.tag)
      <4>1. j \in SabSlots /\ sab[j].valid
        BY <2>2 DEF Occupied, SabVacant
      <4> QED
        BY <2>1, <2>2, <3>1, <3>4, <4>1 DEF CountedBehind, AddrOf
    <3> QED
      BY <1>5, <3>2, <3>5 DEF MayFlush
  <2>5. j \in Occupied' /\ sab'[j] = sab[j]
    BY <1>5, <2>1, <2>2, <2>3, <2>4, EntryKept
  <2>6. u \in LiveTags'
    <3>1. u # RobTop
      BY <1>4, <2>2
    <3>2. u \in Survivors(cdb)
      BY <2>2, <2>4, <3>1 DEF Survivors
    <3> QED
      BY <3>2, FlightStep
  <2>7. Depth(u)' > Depth(t)'
    BY <1>3, <2>2, <2>6
  <2> QED
    BY <1>2, <2>1, <2>2, <2>5, <2>6, <2>7 DEF YoungerStores
<1>7. ASSUME NEW j \in YoungerStores(t)', j \in Occupied PROVE j \in YoungerStores(t)
  <2>1. PICK u : u = sab'[j].tag
    OBVIOUS
  <2>2. /\ j \in Occupied' /\ sab'[j].addr = memOp'[t].addr /\ ~sab'[j].sel
        /\ u \in LiveTags' /\ Depth(u)' > Depth(t)'
    BY <2>1 DEF YoungerStores
  <2>3. ~sab[j].sel /\ sab[j].tag \in IssuedStores /\ sab'[j] = sab[j]
    BY <1>5, <1>7, <2>2, EntryKept
  <2>4. u \in LiveTags /\ sab[j].tag = u
    BY <2>1, <2>3 DEF IssuedStores
  <2>5. Depth(u) > Depth(t)
    BY <1>3, <2>2
  <2> QED
    BY <1>2, <1>7, <2>2, <2>3, <2>4, <2>5 DEF YoungerStores
<1>8. ASSUME NEW s \in Leaving(cdb), IsStore(lsq[s]), NEW u, u = lsq[s].tag
      PROVE  /\ SabFree \in YoungerStores(t)' <=> CountsNow(cdb, i)
             /\ SabFree \in Occupied'
  <2>1. /\ Leaving(cdb) = {s} /\ s \in LsqSlots /\ StoreMayIssue(lsq[s])
        /\ u \in LiveTags'
    BY <1>8, LeavingFacts, IssuedStep DEF IssuedStores
  <2>2. PICK j : j = SabFree
    OBVIOUS
  <2>3. j \in Occupied' /\ sab'[j] = Entered(s)
    BY <1>8, <2>2, EntriesStep
  <2>4. ~sab'[j].sel /\ sab'[j].tag = u /\ sab'[j].addr = memOp[u].addr
    BY <1>8, <2>3 DEF Entered, NoSabEntry, AddrOf
  <2>5. j \in YoungerStores(t)' <=> memOp[u].addr = memOp[t].addr /\ Depth(u) > Depth(t)
    BY <1>2, <1>3, <2>1, <2>3, <2>4 DEF YoungerStores
  <2>6. Depth(u) > Depth(t) => lsq[i].ready
    <3>1. Older(lsq[i], lsq[s]) <=> Depth(u) > Depth(t)
      <4>1. u \in LiveTags
        BY <1>8, LeavingFacts DEF Pending
      <4> QED
        BY <1>4, <1>8, <4>1 DEF Older
    <3> QED
      BY <2>1, <3>1 DEF StoreMayIssue
  <2>7. CountsNow(cdb, i) <=> memOp[u].addr = memOp[t].addr /\ Depth(u) > Depth(t)
    <3>1. u \in LiveTags
      BY <1>8, LeavingFacts DEF Pending
    <3> QED
      BY <1>4, <1>8, <2>1, <2>6, <3>1 DEF CountsNow, Counts, Older, AddrOf
  <2> QED
    BY <2>2, <2>3, <2>5, <2>7
<1>9. SabFree \notin Occupied
  BY EntriesStep DEF Occupied
<1>10. SabFree \notin YoungerStores(t)
  BY <1>9 DEF YoungerStores
<1>11. ASSUME NEW j \in YoungerStores(t)', j \notin Occupied
       PROVE  j = SabFree /\ CountsNow(cdb, i)
  <2>1. j \in Occupied'
    BY DEF YoungerStores
  <2>2. j \in SabVacant
    BY <1>11, <2>1 DEF Occupied
  <2>3. PICK s \in Leaving(cdb) : IsStore(lsq[s]) /\ j = SabFree
    BY <2>1, <2>2, EntriesStep
  <2> QED
    BY <1>8, <1>11, <2>3
<1>12. CountsNow(cdb, i) => SabFree \in YoungerStores(t)'
  <2>1. CountsNow(cdb, i) => \E s \in Leaving(cdb) : IsStore(lsq[s])
    BY DEF CountsNow, Counts
  <2> QED
    BY <1>8, <2>1
<1> HIDE DEF YoungerStores
<1> QED
  BY <1>1, <1>6, <1>7, <1>10, <1>11, <1>12

(* A counter is the number of entries it stands for.                       *)
JuniorInv ==
  \A i \in LsqSlots :
    IsLoad(lsq[i]) => lsq[i].junior = Cardinality(YoungerStores(lsq[i].tag))

(* The counters are kept: they count each store once, when it leaves the   *)
(* queue, and never wrap.                                                  *)
LEMMA JuniorKept ==
  ASSUME CountsSpared, PathInv, PathInv', AddressInv, JuniorInv, ~SabFull, ~SabFull',
         NEW offer \in Offers, NEW calc \in Calculable, NEW cdb \in Broadcasts,
         NEW done \in BOOLEAN, Cycle(offer, calc, cdb, done)
  PROVE  JuniorInv'
<1> SUFFICES ASSUME NEW i \in LsqSlots, IsLoad(lsq[i])'
             PROVE  lsq'[i].junior = Cardinality(YoungerStores(lsq[i].tag)')
  BY DEF JuniorInv
<1>1. /\ IsFiniteSet(Occupied) /\ Cardinality(Occupied) < SAB_DEPTH /\ ~SabFull
      /\ IsFiniteSet(Occupied') /\ Cardinality(Occupied') < SAB_DEPTH
  <2>1. RoomFacts'
    BY RoomNow, PTL
  <2> QED
    BY <2>1, RoomNow DEF RoomFacts
<1>2. PICK t : t = lsq'[i].tag
  OBVIOUS
<1>3. CASE lsq'[i] = [NoLsqEntry EXCEPT !.valid = TRUE, !.tag = RobBottom]
           /\ ToQueue(offer, cdb)
  <2>1. lsq'[i].junior = 0 /\ t = RobBottom /\ Fires(offer, cdb)
    BY <1>2, <1>3 DEF NoLsqEntry, ToQueue
  <2>2. /\ t \in LiveTags' /\ Depth(t) = RobCount
        /\ \A u \in LiveTags' : u = t \/ Depth(u) < RobCount
    BY <2>1, FlightStep DEF Survivors
  <2>3. \A u, v \in LiveTags' : Depth(u)' < Depth(v)' <=> Depth(u) < Depth(v)
    BY FlightStep
  <2>4. \A u \in LiveTags' : Depth(u)' \in Nat
    <3>1. DepthsTyped'
      BY DepthTypes, PTL
    <3> QED
      BY <3>1, FlightStep DEF DepthsTyped
  <2>5. RobCount \in Nat /\ \A u \in LiveTags' : Depth(u) \in Nat
    <3>1. RobTypeOK /\ RobCount <= ROB_DEPTH /\ RobTypeOK' /\ RobCount' <= ROB_DEPTH
      BY FlightStep DEF PathInv, TypeOK, FlightInv
    <3>2. RobCount \in Nat /\ \A u \in RobTags : Depth(u) \in Nat
      BY <3>1, DepthFacts
    <3>3. DepthsTyped'
      BY DepthTypes, PTL
    <3> QED
      BY <3>1, <3>2, <3>3 DEF DepthsTyped
  <2>6. \A u \in LiveTags' : ~(Depth(u)' > Depth(t)')
    BY <2>2, <2>3, <2>4, <2>5
  <2>7. YoungerStores(t)' = {}
    BY <2>6 DEF YoungerStores
  <2> QED
    BY <1>2, <2>1, <2>7, FS_EmptySet
<1>4. CASE /\ Waits(cdb, i) /\ lsq'[i].valid /\ lsq'[i].tag = lsq[i].tag
           /\ lsq'[i].junior = IF CountsNow(cdb, i) THEN Counter(lsq[i].junior + 1)
                               ELSE lsq[i].junior
  <2>1. Pending(t) /\ ~Flushed(t, cdb)
    BY <1>2, <1>4 DEF PathInv, QueueInv, Waits
  <2>2. t \in Survivors(cdb)
    <3>1. ~(Commits(Status) /\ t = RobTop)
      BY <2>1, FlightStep DEF Pending
    <3> QED
      BY <2>1, <3>1 DEF Pending, Survivors
  <2>3. IsLoad(lsq[i])
    BY <1>2, <1>4, <2>2, EntryStep DEF IsLoad, Waits
  <2>4. lsq[i].junior = Cardinality(YoungerStores(t))
    BY <1>2, <1>4, <2>3 DEF JuniorInv
  <2>5. /\ YoungerStores(t)' =
             YoungerStores(t) \cup (IF CountsNow(cdb, i) THEN {SabFree} ELSE {})
        /\ SabFree \notin YoungerStores(t)
    BY <1>1, <1>2, <1>4, <2>3, YoungerStep DEF AddressInv
  <2>6. IsFiniteSet(YoungerStores(t)) /\ Cardinality(YoungerStores(t)) \in Nat
    <3>1. YoungerStores(t) \subseteq Occupied
      BY DEF YoungerStores
    <3>2. IsFiniteSet(YoungerStores(t))
      BY <1>1, <3>1, FS_Subset
    <3> QED
      BY <3>2, FS_CardinalityType
  <2>7. CASE CountsNow(cdb, i)
    <3>1. Cardinality(YoungerStores(t)') = Cardinality(YoungerStores(t)) + 1
      BY <2>5, <2>6, <2>7, FS_AddElement
    <3>2. Cardinality(YoungerStores(t)') < SAB_DEPTH
      <4>1. YoungerStores(t)' \subseteq Occupied'
        BY DEF YoungerStores
      <4>2. Cardinality(YoungerStores(t)') <= Cardinality(Occupied')
        BY <1>1, <4>1, FS_Subset
      <4>3. Cardinality(Occupied') \in Nat /\ SAB_DEPTH \in Nat
        BY <1>1, FS_CardinalityType, LsqAssumption
      <4> QED
        BY <1>1, <2>6, <3>1, <4>2, <4>3
    <3>3. Counter(Cardinality(YoungerStores(t)) + 1) = Cardinality(YoungerStores(t)) + 1
      <4>1. \A n \in Nat : n < SAB_DEPTH => n % SAB_DEPTH = n
        BY LsqAssumption
      <4> QED
        BY <2>6, <3>1, <3>2, <4>1 DEF Counter
    <3> QED
      BY <1>2, <1>4, <2>4, <2>7, <3>1, <3>3
  <2>8. CASE ~CountsNow(cdb, i)
    BY <1>2, <1>4, <2>4, <2>5, <2>8
  <2> QED
    BY <2>7, <2>8
<1>5. lsq'[i].valid
  BY DEF IsLoad
<1> QED
  BY <1>3, <1>4, <1>5, QueueStep

(* At first the queue is empty.                                            *)
LEMMA JuniorInvInit == Init => JuniorInv
  BY DEF Init, LsqInit, NoLsqEntry, JuniorInv, IsLoad

(* A step keeps the counters.                                              *)
LEMMA JuniorInvStep ==
  CountsSpared =>
    (/\ PathInv /\ PathInv' /\ AddressInv /\ ~SabFull /\ ~SabFull' /\ JuniorInv
     /\ [Next]_vars
     => JuniorInv')
<1> SUFFICES ASSUME CountsSpared, PathInv, PathInv', AddressInv, ~SabFull, ~SabFull',
                    JuniorInv, [Next]_vars
             PROVE  JuniorInv'
  OBVIOUS
<1>1. CASE Next
  BY <1>1, JuniorKept DEF Next
<1>2. CASE UNCHANGED vars
  <2>1. UNCHANGED <<rob, robWrite, robRead, memOp, lsq, sab>>
    BY <1>2 DEF vars, robVars, lsqVars
  <2>2. /\ LiveTags' = LiveTags /\ Occupied' = Occupied
        /\ \A t : Depth(t)' = Depth(t)
    BY <2>1 DEF LiveTags, Occupied, SabVacant, Depth, RobTop
  <2>3. \A t : YoungerStores(t)' = YoungerStores(t)
    BY <2>1, <2>2 DEF YoungerStores
  <2> QED
    BY <2>1, <2>3 DEF JuniorInv, IsLoad
<1> QED
  BY <1>1, <1>2

(* Each load in the queue has counted the younger stores that the address  *)
(* buffer holds for its double word.                                       *)
THEOREM JuniorInvariant == CountsSpared => (Spec /\ []~SabFull => []JuniorInv)
<1> SUFFICES ASSUME CountsSpared PROVE Spec /\ []~SabFull => []JuniorInv
  OBVIOUS
<1>1. /\ PathInv /\ PathInv' /\ AddressInv /\ ~SabFull /\ ~SabFull' /\ JuniorInv
      /\ [Next]_vars
      => JuniorInv'
  BY JuniorInvStep
<1>2. Spec /\ []~SabFull => []AddressInv
  BY AddressInvariant DEF CountsSpared
<1> QED
  BY <1>1, <1>2, JuniorInvInit, PathInvariant, PTL DEF Spec

(* No counter is too high, so that its load would never leave, or too low, *)
(* so that it would pass an older store.                                   *)
THEOREM JuniorCountersAreExact ==
  CountsSpared => (Spec /\ []~SabFull => []JuniorCountersExact)
<1> SUFFICES ASSUME CountsSpared PROVE Spec /\ []~SabFull => []JuniorCountersExact
  OBVIOUS
<1>1. JuniorInv => JuniorCountersExact
  <2> SUFFICES ASSUME JuniorInv, NEW i \in LsqSlots, IsLoad(lsq[i])
               PROVE  lsq[i].junior =
                        Cardinality({j \in SabFor(AddrOf(lsq[i])) :
                                       /\ ~sab[j].sel /\ sab[j].tag \in LiveTags
                                       /\ Depth(sab[j].tag) > Depth(lsq[i].tag)})
    BY DEF JuniorCountersExact
  <2>1. YoungerStores(lsq[i].tag) =
          {j \in SabFor(AddrOf(lsq[i])) : /\ ~sab[j].sel /\ sab[j].tag \in LiveTags
                                          /\ Depth(sab[j].tag) > Depth(lsq[i].tag)}
    BY DEF YoungerStores, SabFor, AddrOf, Occupied, SabVacant
  <2> QED
    BY <2>1 DEF JuniorInv
<1> QED
  BY <1>1, JuniorInvariant, PTL

-----------------------------------------------------------------------------
(* A load that leaves the queue has counted every entry of the address     *)
(* buffer for its double word.  All of these are younger then, so no store *)
(* to it is ahead of the load, neither in the queue nor behind it, and the *)
(* load reads from memory the value that it has to read.                   *)
LEMMA LoadReads ==
  ASSUME PathInv, ChainInv, AddressInv, JuniorInv, ~SabFull,
         NEW cdb, NEW i \in Leaving(cdb), IsLoad(lsq[i]), NEW t, t = lsq[i].tag
  PROVE  /\ memOp[t].addr \in Addrs
         /\ mem[memOp[t].addr] = memOp[t].val
<1> DEFINE a == memOp[t].addr
           y == <<1, t>>
<1>1. /\ i \in LsqSlots /\ lsq[i].valid /\ t \in LiveTags /\ rob[t].kind = "LOAD"
      /\ LoadMayIssue(lsq[i], CacheReady) /\ a \in Addrs
  <2>1. i \in LsqSlots /\ lsq[i].valid /\ Pending(t) /\ rob[t].kind = "LOAD"
    BY LeavingFacts DEF IsLoad
  <2>2. LoadMayIssue(lsq[i], CacheReady)
    BY <2>1, LeavingFacts DEF IsStore
  <2> QED
    BY <2>1, <2>2 DEF Pending, PathInv, FlightInv, MemoryKinds
<1>2. IsFiniteSet(Occupied) /\ Cardinality(Occupied) < SAB_DEPTH
  BY RoomNow DEF RoomFacts
<1>3. \A u \in LiveTags : Depth(u) \in Nat
  BY DepthTypes DEF DepthsTyped, PathInv, TypeOK, FlightInv
<1>4. \A j \in SabFor(a) : /\ ~sab[j].sel /\ sab[j].tag \in LiveTags
                          /\ Depth(sab[j].tag) > Depth(t)
  <2>1. SabFor(a) \subseteq Occupied
    BY DEF SabFor, Occupied, SabVacant
  <2>2. IsFiniteSet(SabFor(a)) /\ Cardinality(SabFor(a)) <= Cardinality(Occupied)
    BY <1>2, <2>1, FS_Subset
  <2>3. /\ Cardinality(SabFor(a)) \in Nat /\ Cardinality(Occupied) \in Nat
        /\ SAB_DEPTH \in Nat
    BY <1>2, <2>2, FS_CardinalityType, LsqAssumption
  <2>4. Counter(Cardinality(SabFor(a))) = Cardinality(SabFor(a))
    <3>1. \A n \in Nat : n < SAB_DEPTH => n % SAB_DEPTH = n
      BY LsqAssumption
    <3> QED
      BY <1>2, <2>2, <2>3, <3>1 DEF Counter
  <2>5. lsq[i].junior = Cardinality(SabFor(a))
    BY <1>1, <2>4 DEF LoadMayIssue, MatchNumber, AddrOf
  <2>6. lsq[i].junior = Cardinality(YoungerStores(t))
    BY <1>1 DEF JuniorInv
  <2>7. YoungerStores(t) \subseteq SabFor(a)
    BY DEF YoungerStores, SabFor, Occupied, SabVacant
  <2>8. YoungerStores(t) = SabFor(a)
    BY <2>2, <2>5, <2>6, <2>7, FS_Subset
  <2> QED
    BY <2>8 DEF YoungerStores
<1>5. ASSUME NEW n \in Names, AddrAt(n) = a
      PROVE  n[1] = 0 /\ n[2] \in LiveTags /\ Depth(n[2]) > Depth(t)
  <2>1. PICK j \in Occupied : NameOf(j) = n
    BY DEF AddressInv, NamesInv
  <2>2. j \in SabFor(a)
    BY <1>5, <2>1 DEF AddressInv, NamesInv, SabFor, Occupied, SabVacant
  <2>3. ~sab[j].sel /\ sab[j].tag \in LiveTags /\ Depth(sab[j].tag) > Depth(t)
    BY <1>4, <2>2
  <2>4. NameOf(j) = <<0, sab[j].tag>>
    BY <2>3 DEF NameOf
  <2> QED
    BY <2>1, <2>3, <2>4
<1>6. ASSUME NEW p \in Waiting, sbArray[Slot(p, SB_DEPTH)].addr = a PROVE FALSE
  <2>1. PICK s : s = Slot(p, SB_DEPTH)
    OBVIOUS
  <2>2. s \in SbLive /\ sbArray[s].addr = a
    BY <1>6, <2>1 DEF SbLive, Waiting
  <2>3. CASE sbEntry.valid /\ sbEntry.slot = s
    <3>1. PICK u : u = sbEntry.tag
      OBVIOUS
    <3>2. u \notin LiveTags /\ memOp[u].addr = a
      BY <2>2, <2>3, <3>1 DEF AddressInv, MarkInv
    <3>3. <<0, u>> \in Names
      BY <2>3, <3>1 DEF Names, NamedTags
    <3>4. AddrAt(<<0, u>>) = a
      BY <3>2 DEF AddrAt
    <3>5. <<0, u>>[2] \in LiveTags
      BY <1>5, <3>3, <3>4
    <3> QED
      BY <3>2, <3>5
  <2>4. CASE ~(sbEntry.valid /\ sbEntry.slot = s)
    <3>1. <<1, s>> \in Names
      BY <2>2, <2>4 DEF Names, NamedSlots
    <3>2. AddrAt(<<1, s>>) = a
      BY <2>2 DEF AddrAt
    <3>3. <<1, s>>[1] = 0
      BY <1>5, <3>1, <3>2
    <3> QED
      BY <3>3
  <2> QED
    BY <2>3, <2>4
<1>7. ASSUME NEW u \in LiveTags, rob[u].kind = "STORE", memOp[u].addr = a
      PROVE  ~(Depth(u) < Depth(t))
  <2>1. CASE LeftQueue(u)
    <3>1. <<0, u>> \in Names
      BY <1>7, <2>1 DEF Names, NamedTags, IssuedStores
    <3>2. AddrAt(<<0, u>>) = a
      BY <1>7 DEF AddrAt
    <3>3. Depth(<<0, u>>[2]) > Depth(t)
      BY <1>5, <3>1, <3>2
    <3> QED
      BY <1>1, <1>3, <3>3
  <2>2. CASE ~LeftQueue(u)
    <3>1. PICK k \in LsqSlots : lsq[k].valid /\ lsq[k].tag = u
      BY <2>2 DEF LeftQueue
    <3> QED
      BY <1>1, <1>7, <3>1 DEF LoadMayIssue, IsStore, Older, AddrOf
  <2> QED
    BY <2>1, <2>2
<1>8. y \in AccessesTo(a) /\ OpAt(y) = memOp[t] /\ ~StoreAt(y) /\ ~Performed(y)
  BY <1>1 DEF AccessesTo, Places, AccessAt, StoreAt, OpAt, MemoryKinds, Performed, Oldest
<1>9. First(y, a)
  <2> SUFFICES ASSUME NEW x \in StoresTo(a), Before(x, y) PROVE FALSE
    BY DEF First
  <2>1. x \in Places /\ StoreAt(x) /\ OpAt(x).addr = a
    BY DEF StoresTo
  <2>2. CASE \E p \in Waiting : x = <<0, p>>
    <3>1. PICK p \in Waiting : x = <<0, p>>
      BY <2>2
    <3>2. sbArray[Slot(p, SB_DEPTH)].addr = a
      BY <2>1, <3>1 DEF OpAt
    <3> QED
      BY <1>6, <3>2
  <2>3. CASE \E u \in LiveTags : x = <<1, u>>
    <3>1. PICK u \in LiveTags : x = <<1, u>>
      BY <2>3
    <3>2. rob[u].kind = "STORE" /\ memOp[u].addr = a
      BY <2>1, <3>1 DEF OpAt, StoreAt
    <3>3. Depth(u) < Depth(t)
      BY <3>1 DEF Before
    <3> QED
      BY <1>7, <3>2, <3>3
  <2> QED
    BY <2>1, <2>2, <2>3 DEF Places
<1>10. Found(y) = mem[a]
  BY <1>1, <1>8, <1>9 DEF ChainInv
<1> QED
  BY <1>1, <1>8, <1>10 DEF Found

(* The cache works on the load in the slot, and will answer with the value *)
(* that the load has to read.                                              *)
ReadInv ==
  lw.valid /\ ~lw.data =>
    /\ cache.st \in {"READ", "RRESP"} /\ cache.addr = memOp[lw.tag].addr
    /\ cache.st = "READ" => mem[cache.addr] = memOp[lw.tag].val
    /\ cache.st = "RRESP" => cache.val = memOp[lw.tag].val
SeenInv == ReadInv /\ LoadsSeeProgramOrder

(* What the slot and the buffer hold stays right after a cycle.            *)
LEMMA SeenKept ==
  ASSUME PathInv, ChainInv, AddressInv, JuniorInv, ~SabFull, SeenInv,
         NEW offer \in Offers, NEW calc \in Calculable, NEW cdb \in Broadcasts,
         NEW done \in BOOLEAN, Cycle(offer, calc, cdb, done)
  PROVE  SeenInv'
<1>1. \A t : Pending(t) /\ ~Flushed(t, cdb) =>
               memOp'[t] = memOp[t] /\ rob'[t].kind = rob[t].kind
  <2> SUFFICES ASSUME NEW t, Pending(t), ~Flushed(t, cdb)
               PROVE  memOp'[t] = memOp[t] /\ rob'[t].kind = rob[t].kind
    OBVIOUS
  <2>1. t \in Survivors(cdb)
    <3>1. ~(Commits(Status) /\ t = RobTop)
      BY FlightStep DEF Pending
    <3> QED
      BY <3>1 DEF Survivors, Pending
  <2> QED
    BY <2>1, EntryStep
<1>2. /\ lw \in LwEntry
      /\ cache \in [st : CacheStates, addr : Addrs \cup {NoAddr}, val : Values]
  BY DEF PathInv, TypeOK, PortTypeOK, LwEntry
<1>3. ASSUME lw.valid
      PROVE  /\ Answered.valid /\ Answered.tag = lw.tag
             /\ Answered.data => Answered.val = memOp[lw.tag].val
             /\ ~Answered.data => ~lw.data /\ cache.st = "READ"
  <2>1. CASE lw.data
    <3>1. Answered = lw
      BY <2>1 DEF Answered
    <3> QED
      BY <1>3, <2>1, <3>1 DEF SeenInv, LoadsSeeProgramOrder
  <2>2. CASE ~lw.data /\ cache.st = "RRESP"
    <3>1. Answered = [lw EXCEPT !.data = TRUE, !.val = cache.val]
      BY <1>3, <2>2 DEF Answered, LoadAnswered
    <3>2. cache.val = memOp[lw.tag].val
      BY <1>3, <2>2 DEF SeenInv, ReadInv
    <3> QED
      BY <1>2, <1>3, <3>1, <3>2 DEF LwEntry
  <2>3. CASE ~lw.data /\ cache.st # "RRESP"
    <3>1. Answered = lw
      BY <2>3 DEF Answered, LoadAnswered
    <3>2. cache.st = "READ"
      BY <1>3, <2>3 DEF SeenInv, ReadInv
    <3> QED
      BY <1>3, <2>3, <3>1, <3>2
  <2> QED
    BY <2>1, <2>2, <2>3
<1>4. ASSUME lw'.valid
      PROVE  /\ lw'.data => lw'.val = memOp'[lw'.tag].val
             /\ ~lw'.data =>
                  /\ cache'.st \in {"READ", "RRESP"} /\ cache'.addr = memOp'[lw'.tag].addr
                  /\ cache'.st = "READ" => mem'[cache'.addr] = memOp'[lw'.tag].val
                  /\ cache'.st = "RRESP" => cache'.val = memOp'[lw'.tag].val
  <2>1. CASE lw.valid /\ ~Flushed(lw.tag, cdb) /\ lw' = Answered /\ lw'.tag = lw.tag
    <3>1. PICK t : t = lw.tag
      OBVIOUS
    <3>2. memOp'[t] = memOp[t]
      BY <1>1, <2>1, <3>1 DEF PathInv, LsbInv
    <3>3. CASE lw'.data
      BY <1>3, <2>1, <3>1, <3>2, <3>3
    <3>4. CASE ~lw'.data
      <4>1. ~lw.data /\ cache.st = "READ"
        BY <1>3, <2>1, <3>4
      <4>2. cache.addr = memOp[t].addr /\ mem[cache.addr] = memOp[t].val
        BY <2>1, <3>1, <4>1 DEF SeenInv, ReadInv
      <4>3. /\ mem' = mem
            /\ \/ cache' = [cache EXCEPT !.st = "RRESP", !.val = mem[cache.addr]]
               \/ cache' = cache
        BY <4>1, PortStep
      <4> QED
        BY <1>2, <2>1, <3>1, <3>2, <3>4, <4>1, <4>2, <4>3
    <3> QED
      BY <3>3, <3>4
  <2>2. ASSUME NEW i \in LsqSlots, Leaving(cdb) = {i}, IsLoad(lsq[i]),
               lw'.tag = lsq[i].tag, ~lw'.data
        PROVE  /\ cache'.st = "READ" /\ cache'.addr = memOp'[lw'.tag].addr
               /\ mem'[cache'.addr] = memOp'[lw'.tag].val
    <3>1. PICK t : t = lsq[i].tag
      OBVIOUS
    <3>2. memOp'[t] = memOp[t]
      <4>1. i \in Leaving(cdb)
        BY <2>2
      <4>2. Pending(t) /\ ~Flushed(t, cdb)
        BY <3>1, <4>1, LeavingFacts DEF Flushed
      <4> QED
        BY <1>1, <4>2
    <3>3. mem[memOp[t].addr] = memOp[t].val
      BY <2>2, <3>1, LoadReads
    <3>4. LoadSent(Leaving(cdb)) = {i}
      BY <2>2 DEF LoadSent
    <3>5. cache' = Load(memOp[t].addr) /\ mem' = mem
      BY <3>1, <3>4, PortStep DEF AddrOf
    <3> QED
      BY <2>2, <3>1, <3>2, <3>3, <3>5 DEF Load
  <2>3. \/ lw.valid /\ ~Flushed(lw.tag, cdb) /\ lw' = Answered /\ lw'.tag = lw.tag
        \/ \E i \in LsqSlots : /\ Leaving(cdb) = {i} /\ IsLoad(lsq[i])
                                /\ lw'.tag = lsq[i].tag /\ ~lw'.data
    BY <1>4, SlotStep
  <2>4. CASE \E i \in LsqSlots : /\ Leaving(cdb) = {i} /\ IsLoad(lsq[i])
                                 /\ lw'.tag = lsq[i].tag /\ ~lw'.data
    BY <2>2, <2>4
  <2> QED
    BY <2>1, <2>3, <2>4
<1>5. ASSUME NEW k \in DOMAIN lsb', rob'[lsb'[k].tag].kind = "LOAD"
      PROVE  lsb'[k].val = memOp'[lsb'[k].tag].val
  <2>1. CASE FromBuffer(k, cdb)
    <3>1. PICK j \in DOMAIN lsb : lsb'[k] = lsb[j] /\ ~Flushed(lsb[j].tag, cdb)
      BY <2>1 DEF FromBuffer
    <3>2. PICK t : t = lsb[j].tag
      OBVIOUS
    <3>3. memOp'[t] = memOp[t] /\ rob'[t].kind = rob[t].kind
      BY <1>1, <3>1, <3>2 DEF PathInv, LsbInv
    <3> QED
      BY <1>5, <3>1, <3>2, <3>3 DEF SeenInv, LoadsSeeProgramOrder
  <2>2. CASE FromSlot(k, cdb)
    <3>1. PICK t : t = lw.tag
      OBVIOUS
    <3>2. /\ lw.valid /\ ~cdb.flush /\ Answered.data /\ lsb'[k].tag = t
          /\ lsb'[k].val = Answered.val
      BY <2>2, <3>1 DEF FromSlot
    <3>3. memOp'[t] = memOp[t]
      BY <1>1, <3>1, <3>2 DEF PathInv, LsbInv, Flushed
    <3> QED
      BY <1>3, <3>1, <3>2, <3>3
  <2>3. CASE FromQueue(k, cdb)
    <3>1. PICK i \in Leaving(cdb) : /\ IsStore(lsq[i])
                                    /\ lsb'[k] = [tag |-> lsq[i].tag, val |-> 0]
      BY <2>3 DEF FromQueue
    <3>2. PICK t : t = lsq[i].tag
      OBVIOUS
    <3>3. Pending(t) /\ ~Flushed(t, cdb)
      BY <3>2, LeavingFacts DEF Flushed
    <3>4. rob'[t].kind = "STORE"
      BY <1>1, <3>1, <3>2, <3>3 DEF IsStore
    <3> QED
      BY <1>5, <3>1, <3>2, <3>4
  <2> QED
    BY <2>1, <2>2, <2>3, LsbMembers
<1>6. SeenInv' <=>
        /\ lw'.valid =>
             /\ lw'.data => lw'.val = memOp'[lw'.tag].val
             /\ ~lw'.data =>
                  /\ cache'.st \in {"READ", "RRESP"} /\ cache'.addr = memOp'[lw'.tag].addr
                  /\ cache'.st = "READ" => mem'[cache'.addr] = memOp'[lw'.tag].val
                  /\ cache'.st = "RRESP" => cache'.val = memOp'[lw'.tag].val
        /\ \A k \in DOMAIN lsb' : rob'[lsb'[k].tag].kind = "LOAD" =>
             lsb'[k].val = memOp'[lsb'[k].tag].val
  BY DEF SeenInv, ReadInv, LoadsSeeProgramOrder
<1> QED
  BY <1>4, <1>5, <1>6

(* At first the slot and the buffer are empty.                             *)
LEMMA SeenInvInit == Init => SeenInv
  BY DEF Init, NoLoad, SeenInv, ReadInv, LoadsSeeProgramOrder

(* A step keeps what they hold right.                                      *)
LEMMA SeenInvStep ==
  /\ PathInv /\ ChainInv /\ AddressInv /\ JuniorInv /\ ~SabFull /\ SeenInv /\ [Next]_vars
  => SeenInv'
<1> SUFFICES ASSUME PathInv, ChainInv, AddressInv, JuniorInv, ~SabFull, SeenInv,
                    [Next]_vars
             PROVE  SeenInv'
  OBVIOUS
<1>1. CASE Next
  BY <1>1, SeenKept DEF Next
<1>2. CASE UNCHANGED vars
  <2>1. UNCHANGED <<rob, memOp, lw, lsb, cache, mem>>
    BY <1>2 DEF vars, robVars, lsqVars, portVars
  <2> QED
    BY <2>1 DEF SeenInv, ReadInv, LoadsSeeProgramOrder
<1> QED
  BY <1>1, <1>2

(* Every load has read the value of the last store to its double word      *)
(* ahead of it in program order, although it may have left the queue       *)
(* before younger and after older stores.                                  *)
THEOREM LoadsInOrder == CountsSpared => (Spec /\ []~SabFull => []LoadsSeeProgramOrder)
<1> SUFFICES ASSUME CountsSpared PROVE Spec /\ []~SabFull => []LoadsSeeProgramOrder
  OBVIOUS
<1>1. Spec /\ []~SabFull => []AddressInv /\ []JuniorInv
  BY AddressInvariant, JuniorInvariant DEF CountsSpared
<1>2. SeenInv => LoadsSeeProgramOrder
  BY DEF SeenInv
<1> QED
  BY <1>1, <1>2, SeenInvInit, SeenInvStep, PathInvariant, ChainInvariant, PTL DEF Spec

=============================================================================
