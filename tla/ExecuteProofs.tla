--------------------------- MODULE ExecuteProofs ---------------------------
(***************************************************************************)
(* The back end, for every number of slots, latency and mix of classes:    *)
(* the reservations of the issue unit keep the results apart, dispatch     *)
(* finds a slot, and every instruction is in one place until its result is *)
(* broadcast, with the operands it waits for still to come.  The last part *)
(* needs one hypothesis, NoDivAtFlush, which the code does not enforce;    *)
(* the end of the module shows which programs satisfy it.                  *)
(***************************************************************************)
EXTENDS ExecuteProperties, ReorderBufferProofs

(* The slot that a queue selects to issue or to fill is the least one.     *)
LEMMA MinFacts ==
  ASSUME NEW S \in SUBSET Nat, S # {}
  PROVE  Min(S) \in S /\ \A x \in S : Min(S) <= x
BY LeastExists DEF Min

(* The first and the last stage of the multiplier, and the reservation     *)
(* that the issue unit looks at.                                           *)
LEMMA Stages ==
  /\ MUL_CYCLES \in Nat /\ DIV_CYCLES \in Nat
  /\ 1 < MUL_CYCLES /\ MUL_CYCLES < DIV_CYCLES
  /\ {0, 1, MUL_CYCLES - 1, MUL_CYCLES - 2} \subseteq MulSlots
  /\ MulSlots \subseteq Nat
  /\ ROB_DEPTH \in Nat \ {0, 1} /\ 0 \in RobTags
  /\ QUEUE_DEPTH \in Nat \ {0, 1} /\ Slots \subseteq Nat /\ Slots # {}
<1>1. /\ MUL_CYCLES \in Nat /\ DIV_CYCLES \in Nat
      /\ 1 < MUL_CYCLES /\ MUL_CYCLES < DIV_CYCLES
  BY CyclesAssumption
<1>2. /\ {0, 1, MUL_CYCLES - 1, MUL_CYCLES - 2} \subseteq MulSlots
      /\ MulSlots \subseteq Nat
  BY <1>1 DEF MulSlots
<1>3. ROB_DEPTH \in Nat \ {0, 1} /\ 0 \in RobTags
  BY SizeAssumption DEF RobTags
<1>4. /\ QUEUE_DEPTH \in Nat \ {0, 1} /\ Slots \subseteq Nat
      /\ 0 \in Slots
  BY QueueAssumption DEF Slots
<1> QED
  BY <1>1, <1>2, <1>3, <1>4

(* A flush keeps some of the positions of the LSB buffer.                  *)
LEMMA StayingSubset == Staying(Cdb) \in SUBSET DOMAIN lsb
  BY DEF Staying

-----------------------------------------------------------------------------
(* The parts of one cycle, by name.                                        *)
FiresNow == s2.valid /\ ~Cdb.flush
ToRob == [kind |-> IF s2.op \in {"BRANCH", "LOAD"} THEN s2.op ELSE "ALU",
          rd |-> 0, rs |-> 0, rw |-> FALSE, phy |-> 0, src |-> 0, prev |-> 0]
Memory == [sbFull |-> FALSE, sbDrained |-> TRUE, cohDone |-> TRUE]
ReadyNow == [u \in QueueNames \cup {"LSB"} |->
               IF u = "LSB" THEN lsb # <<>> /\ ~Cdb.flush
               ELSE HasReady(queue[u], Cdb)]
IssuedNow == Issued(ReadyNow)
Entry(missing) == [valid |-> TRUE, tag |-> RobBottom, op |-> s2.op, waits |-> missing]
ToQueue(u, missing) == IF FiresNow /\ QueueOf(s2.op) = u THEN Entry(missing)
                       ELSE NoEntry

(* Cycle, conjunct by conjunct, with its local definitions named.          *)
LEMMA CycleParts ==
  ASSUME NEW offer, NEW missing, NEW mispredicted, NEW finished,
         Cycle(offer, missing, mispredicted, finished)
  PROVE  /\ RobClock(FiresNow, ToRob, Cdb, Memory)
         /\ opAt' = IF FiresNow THEN [opAt EXCEPT ![RobBottom] = s2.op] ELSE opAt
         /\ queue' = [u \in QueueNames |->
                        QueueClock(queue[u], Cdb, IssuedNow = u, ToQueue(u, missing))]
         /\ lsq' = ({t \in lsq : ~Flushed(t, Cdb)} \ finished)
                     \cup (IF FiresNow /\ s2.op = "LOAD" THEN {RobBottom} ELSE {})
         /\ LsbClock(Cdb, finished)
         /\ IssueUnitClock(IssuedNow)
         /\ grant' = IF IssuedNow \in QueueNames
                       THEN [unit |-> IssuedNow,
                             tag |-> queue[IssuedNow][Selected(queue[IssuedNow], Cdb)].tag,
                             op |-> queue[IssuedNow][Selected(queue[IssuedNow], Cdb)].op]
                     ELSE [NoGrant EXCEPT !.unit = IssuedNow]
         /\ AluClock(Cdb, mispredicted)
         /\ MulClock(Cdb)
         /\ DivClock(Cdb)
         /\ s2' = offer
         /\ refetch' = IF Cdb.flush THEN REFETCH
                       ELSE IF refetch > 0 THEN refetch - 1 ELSE 0
BY DEF Cycle, FiresNow, ToRob, Memory, ReadyNow, IssuedNow, Entry, ToQueue

(* Which unit the issue unit serves, and what that says.                   *)
LEMMA IssuedFacts ==
  /\ IssuedNow \in Units
  /\ IssuedNow = "DIV" => divCount = 0 /\ ~div.busy
  /\ IssuedNow = "MUL" => divCount # MUL_CYCLES
  /\ IssuedNow \in {"INT", "LSB"} => divCount # 1 /\ ~mulDone[1]
  /\ IssuedNow \in QueueNames => /\ ReadySlots(queue[IssuedNow], Cdb) # {}
                                 /\ ~Cdb.flush
  /\ IssuedNow = "LSB" => lsb # <<>> /\ ~Cdb.flush
  /\ Cdb.flush => IssuedNow = "NONE"
<1>1. /\ IssuedNow \in Units
      /\ IssuedNow = "DIV" => divCount = 0 /\ ~div.busy
      /\ IssuedNow = "MUL" => divCount # MUL_CYCLES
      /\ IssuedNow \in {"INT", "LSB"} => divCount # 1 /\ ~mulDone[1]
  BY DEF IssuedNow, Issued, Units, QueueNames
<1>2. IssuedNow # "NONE" => ReadyNow[IssuedNow]
  BY DEF IssuedNow, Issued
<1>3. /\ ReadyNow["LSB"] => lsb # <<>> /\ ~Cdb.flush
      /\ \A u \in QueueNames : ReadyNow[u] => /\ ReadySlots(queue[u], Cdb) # {}
                                              /\ ~Cdb.flush
  BY DEF ReadyNow, QueueNames, HasReady
<1>4. IssuedNow \in QueueNames \cup {"LSB", "NONE"}
  BY <1>1 DEF Units
<1> HIDE DEF IssuedNow
<1> QED
  BY <1>1, <1>2, <1>3, <1>4 DEF QueueNames

(* The broadcast is well formed.                                           *)
LEMMA CdbTypes ==
  ASSUME TypeOK
  PROVE  /\ Cdb.valid \in BOOLEAN /\ Cdb.tag \in RobTags
         /\ Cdb.flush \in BOOLEAN /\ Cdb.rw \in BOOLEAN
<1>1. /\ mul[MUL_CYCLES - 1].valid \in BOOLEAN /\ mul[MUL_CYCLES - 1].tag \in RobTags
      /\ divDone \in BOOLEAN /\ div.tag \in RobTags
      /\ alu.valid \in BOOLEAN /\ alu.tag \in RobTags /\ alu.mispredicted \in BOOLEAN
      /\ lsbOut.valid \in BOOLEAN /\ lsbOut.tag \in RobTags
  BY Stages DEF TypeOK, UnitsTypeOK
<1> QED
  BY <1>1 DEF Cdb, WritesRegister

(* The slots a queue works on are slots of the queue.                      *)
LEMMA SelectedFacts ==
  ASSUME NEW q, NEW cdb, ReadySlots(q, cdb) # {}
  PROVE  /\ Selected(q, cdb) \in Slots
         /\ q[Selected(q, cdb)].valid
         /\ Waiting(q[Selected(q, cdb)].waits, cdb) = {}
<1>1. ReadySlots(q, cdb) \in SUBSET Nat /\ ReadySlots(q, cdb) \subseteq Slots
  BY Stages DEF ReadySlots
<1>2. Selected(q, cdb) \in ReadySlots(q, cdb)
  BY <1>1, MinFacts DEF Selected
<1> QED
  BY <1>2 DEF ReadySlots

(* The slot that a dispatched instruction enters is a free slot.           *)
LEMMA VacantFacts ==
  ASSUME NEW q, Vacant(q) # {}
  PROVE  Min(Vacant(q)) \in Slots /\ ~q[Min(Vacant(q))].valid
<1>1. Vacant(q) \in SUBSET Nat
  BY Stages DEF Vacant
<1>2. Min(Vacant(q)) \in Vacant(q)
  BY <1>1, MinFacts
<1> QED
  BY <1>2 DEF Vacant

(* One clock edge of an issue queue, slot by slot.                         *)
Leaves(q, cdb, issue, i) ==
  ~q[i].valid \/ Flushed(q[i].tag, cdb) \/ (issue /\ i = Selected(q, cdb))
Enters(q, cdb, new, i) ==
  new.valid /\ Vacant(q) # {} /\ ~cdb.flush /\ i = Min(Vacant(q))

(* Slot by slot: filled by dispatch, emptied, or kept with its operands    *)
(* woken.                                                                  *)
LEMMA QueueSlots ==
  ASSUME NEW q \in [Slots -> QueueEntry], NEW cdb, NEW issue, NEW new, NEW i \in Slots
  PROVE  QueueClock(q, cdb, issue, new)[i] =
           IF Enters(q, cdb, new, i)
             THEN [new EXCEPT !.waits = Waiting(new.waits, cdb)]
           ELSE IF Leaves(q, cdb, issue, i) THEN NoEntry
           ELSE [q[i] EXCEPT !.waits = Waiting(q[i].waits, cdb)]
<1>1. CASE new.valid /\ Vacant(q) # {} /\ ~cdb.flush
  BY <1>1, VacantFacts DEF QueueClock, Enters, Leaves
<1>2. CASE ~(new.valid /\ Vacant(q) # {} /\ ~cdb.flush)
  BY <1>2 DEF QueueClock, Enters, Leaves
<1> QED
  BY <1>1, <1>2

(* An issue queue stays an issue queue.                                    *)
LEMMA QueueClockTypes ==
  ASSUME NEW q \in [Slots -> QueueEntry], NEW cdb, NEW issue, NEW new \in QueueEntry
  PROVE  QueueClock(q, cdb, issue, new) \in [Slots -> QueueEntry]
<1> DEFINE r == QueueClock(q, cdb, issue, new)
<1>1. ASSUME NEW e \in QueueEntry
      PROVE  [e EXCEPT !.waits = Waiting(e.waits, cdb)] \in QueueEntry
  BY DEF QueueEntry, Waiting
<1>2. NoEntry \in QueueEntry
  BY Stages DEF NoEntry, QueueEntry, Ops
<1>3. \A i \in Slots : r[i] \in QueueEntry
  <2> TAKE i \in Slots
  <2>1. q[i] \in QueueEntry
    OBVIOUS
  <2> DEFINE a == [new EXCEPT !.waits = Waiting(new.waits, cdb)]
             b == [q[i] EXCEPT !.waits = Waiting(q[i].waits, cdb)]
  <2>2. a \in QueueEntry /\ b \in QueueEntry
    BY <1>1, <2>1
  <2>3. r[i] = IF Enters(q, cdb, new, i) THEN a
               ELSE IF Leaves(q, cdb, issue, i) THEN NoEntry ELSE b
    BY QueueSlots
  <2> HIDE DEF r, a, b
  <2> QED
    BY <1>2, <2>2, <2>3
<1>4. r = [i \in Slots |-> r[i]]
  BY DEF QueueClock
<1> HIDE DEF r
<1>5. r \in [Slots -> QueueEntry]
  BY <1>3, <1>4
<1> QED
  BY <1>5 DEF r


(* The instructions in flight have tags of the ROB.                        *)
LiveAreTags == LiveTags \subseteq RobTags /\ Pending \subseteq RobTags

(* Proved from the window between the two ROB pointers.                    *)
LEMMA LiveTagsTyped == LiveAreTags
<1>1. LiveTags \subseteq RobTags
  BY SizeAssumption, PointerTypes DEF LiveTags, RobTags, Window
<1> QED
  BY <1>1 DEF LiveAreTags, Pending

(* What the inputs of a cycle are.                                         *)
LEMMA ExecInputs ==
  ASSUME TypeOK,
         NEW offer \in Offers, NEW missing \in Missing,
         NEW mispredicted \in Outcomes, NEW finished \in Finished
  PROVE  /\ offer \in [valid : BOOLEAN, op : Ops]
         /\ missing \subseteq {p \in Pending : WritesRegister(opAt[p])}
         /\ missing \subseteq RobTags
         /\ mispredicted \in BOOLEAN
         /\ mispredicted => grant.unit = "INT" /\ grant.op = "BRANCH"
         /\ finished = {} \/ \E t \in lsq : /\ finished = {t}
                                             /\ Len(lsb) < LSB_DEPTH /\ ~Cdb.flush
         /\ offer.valid => /\ refetch = 0 /\ ~Cdb.flush
                           /\ \E m \in Mixes : InFlight \cup {offer.op} \subseteq m
                           /\ ~RobFull /\ (TwoOrMoreVacant \/ ~s2.valid)
                           /\ ~QueueStall(offer.op)
<1>1. offer \in [valid : BOOLEAN, op : Ops]
  <2>1. Stage2Empty \in [valid : BOOLEAN, op : Ops]
    BY DEF Stage2Empty, Ops
  <2> QED
    BY <2>1 DEF Offers
<1>2. offer.valid => /\ refetch = 0 /\ ~Cdb.flush
                     /\ \E m \in Mixes : InFlight \cup {offer.op} \subseteq m
                     /\ ~RobFull /\ (TwoOrMoreVacant \/ ~s2.valid)
                     /\ ~QueueStall(offer.op)
  <2>1. CASE offer = Stage2Empty
    BY <2>1 DEF Stage2Empty
  <2>2. CASE offer # Stage2Empty
    <3>1. offer \in {o \in [valid : {TRUE}, op : Ops] :
                      /\ refetch = 0 /\ ~Cdb.flush
                      /\ \E m \in Mixes : InFlight \cup {o.op} \subseteq m
                      /\ ~RobFull /\ (TwoOrMoreVacant \/ ~s2.valid)
                      /\ ~QueueStall(o.op)}
      BY <2>2 DEF Offers
    <3> QED
      BY <3>1, Zenon
  <2> QED
    BY <2>1, <2>2
<1>3. missing \subseteq {p \in Pending : WritesRegister(opAt[p])}
  BY DEF Missing
<1>4. Pending \subseteq RobTags
  BY LiveTagsTyped DEF LiveAreTags
<1>5. /\ mispredicted \in BOOLEAN
      /\ mispredicted => grant.unit = "INT" /\ grant.op = "BRANCH"
  BY DEF Outcomes
<1>6. finished = {} \/ \E t \in lsq : /\ finished = {t}
                                      /\ Len(lsb) < LSB_DEPTH /\ ~Cdb.flush
  BY DEF Finished
<1> QED
  BY <1>1, <1>2, <1>3, <1>4, <1>5, <1>6

-----------------------------------------------------------------------------
(* Type correctness.                                                       *)
LEMMA UnitsTypes ==
  ASSUME TypeOK, NEW mispredicted \in BOOLEAN,
         IssueUnitClock(IssuedNow), AluClock(Cdb, mispredicted), MulClock(Cdb),
         DivClock(Cdb), grant' \in [unit : Units, tag : RobTags, op : Ops]
  PROVE  UnitsTypeOK'
<1>1. /\ divCount \in 0 .. DIV_CYCLES + 1
      /\ mulDone \in [MulSlots -> BOOLEAN]
      /\ intFirst \in BOOLEAN
      /\ grant \in [unit : Units, tag : RobTags, op : Ops]
      /\ alu \in [valid : BOOLEAN, tag : RobTags, op : Ops, mispredicted : BOOLEAN]
      /\ mul \in [MulSlots -> [valid : BOOLEAN, tag : RobTags]]
      /\ div \in [busy : BOOLEAN, valid : BOOLEAN, tag : RobTags,
                  timer : 0 .. DIV_CYCLES]
      /\ divDone \in BOOLEAN
  BY DEF TypeOK, UnitsTypeOK
<1>2. divCount' \in 0 .. DIV_CYCLES + 1 /\ intFirst' \in BOOLEAN
  <2>1. divCount' \in 0 .. DIV_CYCLES + 1
    BY <1>1, Stages DEF IssueUnitClock
  <2>2. intFirst' \in BOOLEAN
    <3>1. (IssuedNow = "LSB") \in BOOLEAN
      OBVIOUS
    <3> QED
      BY <1>1, <3>1, Zenon DEF IssueUnitClock
  <2> QED
    BY <2>1, <2>2
<1>3. mulDone' \in [MulSlots -> BOOLEAN]
  <2>1. \A i \in MulSlots : i # MUL_CYCLES - 1 => i + 1 \in MulSlots
    BY Stages DEF MulSlots
  <2>2. mulDone' = [i \in MulSlots |-> IF i = MUL_CYCLES - 1 THEN IssuedNow = "MUL"
                                       ELSE mulDone[i + 1]]
    BY DEF IssueUnitClock
  <2>3. \A i \in MulSlots : (IF i = MUL_CYCLES - 1 THEN IssuedNow = "MUL"
                             ELSE mulDone[i + 1]) \in BOOLEAN
    BY <1>1, <2>1
  <2> QED
    BY <2>2, <2>3
<1>4. alu' \in [valid : BOOLEAN, tag : RobTags, op : Ops, mispredicted : BOOLEAN]
  BY <1>1, Stages DEF AluClock, NoAlu, Ops
<1>5. mul' \in [MulSlots -> [valid : BOOLEAN, tag : RobTags]]
  <2>1. \A i \in MulSlots : i # 0 => i - 1 \in MulSlots
    BY Stages DEF MulSlots
  <2>2. NoResult \in [valid : BOOLEAN, tag : RobTags]
    BY Stages DEF NoResult
  <2>3. [valid |-> TRUE, tag |-> grant.tag] \in [valid : BOOLEAN, tag : RobTags]
    BY <1>1
  <2>4. \A i \in MulSlots : mul[i] \in [valid : BOOLEAN, tag : RobTags]
    BY <1>1
  <2> QED
    BY <2>1, <2>2, <2>3, <2>4 DEF MulClock
<1>6. div' \in [busy : BOOLEAN, valid : BOOLEAN, tag : RobTags, timer : 0 .. DIV_CYCLES]
  <2>1. div.timer \in 0 .. DIV_CYCLES /\ div.tag \in RobTags /\ grant.tag \in RobTags
        /\ div.busy \in BOOLEAN /\ div.valid \in BOOLEAN
    BY <1>1
  <2> DEFINE killed == Flushed(div.tag, Cdb)
             start == Arrives("DIV")
  <2>2. killed \in BOOLEAN /\ start \in BOOLEAN /\ DivComplete \in BOOLEAN
    BY CdbTypes DEF Flushed, Arrives, DivComplete
  <2>3. (IF start THEN DIV_CYCLES ELSE IF DivComplete THEN 0 ELSE div.timer - 1)
          \in 0 .. DIV_CYCLES
    BY <2>1, Stages DEF DivComplete
  <2>4. (IF start /\ ~killed THEN grant.tag ELSE div.tag) \in RobTags
    BY <2>1
  <2>5. /\ (start \/ (div.busy /\ ~DivComplete)) \in BOOLEAN
        /\ (~killed /\ (start \/ (div.valid /\ ~DivComplete))) \in BOOLEAN
    OBVIOUS
  <2>6. div' = [busy |-> start \/ (div.busy /\ ~DivComplete),
                valid |-> ~killed /\ (start \/ (div.valid /\ ~DivComplete)),
                tag |-> IF start /\ ~killed THEN grant.tag ELSE div.tag,
                timer |-> IF start THEN DIV_CYCLES
                          ELSE IF DivComplete THEN 0 ELSE div.timer - 1]
    BY DEF DivClock
  <2> HIDE DEF killed, start
  <2> QED
    BY <2>3, <2>4, <2>5, <2>6
<1>7. divDone' \in BOOLEAN
  BY DEF DivClock
<1> QED
  BY <1>2, <1>3, <1>4, <1>5, <1>6, <1>7 DEF UnitsTypeOK

(* The LSB buffer holds ROB tags and never more than it has entries for.   *)
LEMMA LsbTypes ==
  ASSUME TypeOK, NEW finished,
         finished = {} \/ \E t \in lsq : finished = {t} /\ Len(lsb) < LSB_DEPTH,
         LsbClock(Cdb, finished)
  PROVE  /\ lsb' \in Seq(RobTags) /\ Len(lsb') <= LSB_DEPTH
         /\ lsbOut' \in [valid : BOOLEAN, tag : RobTags]
<1>1. lsb \in Seq(RobTags) /\ Len(lsb) <= LSB_DEPTH /\ lsq \subseteq RobTags
      /\ LSB_DEPTH \in Nat
  BY ExecAssumption DEF TypeOK
<1>2. NoResult \in [valid : BOOLEAN, tag : RobTags]
  BY Stages DEF NoResult
<1>3. CASE Cdb.flush
  <2>1. lsb' = Compacted(lsb, Staying(Cdb)) /\ lsbOut' = NoResult
    BY <1>3 DEF LsbClock
  <2>2. /\ Compacted(lsb, Staying(Cdb)) \in Seq(RobTags)
        /\ Len(Compacted(lsb, Staying(Cdb))) <= Len(lsb)
    BY <1>1, StayingSubset, CompactedFacts
  <2>3. Len(Compacted(lsb, Staying(Cdb))) \in Nat /\ Len(lsb) \in Nat
    BY <1>1, <2>2
  <2> QED
    BY <1>1, <1>2, <2>1, <2>2, <2>3
<1>4. CASE ~Cdb.flush
  <2> DEFINE pop == grant.unit = "LSB" /\ lsb # <<>>
             rest == IF pop THEN Tail(lsb) ELSE lsb
  <2>1. rest \in Seq(RobTags) /\ Len(rest) <= Len(lsb) /\ Len(lsb) \in Nat
        /\ Len(rest) \in Nat
    BY <1>1
  <2>2. /\ lsb' = IF finished = {} THEN rest
                  ELSE Append(rest, CHOOSE t \in finished : TRUE)
        /\ lsbOut' = IF pop THEN [valid |-> TRUE, tag |-> Head(lsb)] ELSE NoResult
    BY <1>4 DEF LsbClock
  <2>3. finished # {} => (CHOOSE t \in finished : TRUE) \in RobTags
                         /\ Len(lsb) < LSB_DEPTH
    BY <1>1
  <2>4. pop => Head(lsb) \in RobTags
    BY <1>1
  <2>5. lsb' \in Seq(RobTags) /\ Len(lsb') <= LSB_DEPTH
    <3> HIDE DEF rest
    <3> QED
      BY <1>1, <2>1, <2>2, <2>3
  <2> QED
    BY <1>2, <2>2, <2>4, <2>5
<1> QED
  BY <1>3, <1>4

(* The reset state is well typed.                                          *)
LEMMA ExecTypeInit == Init => TypeOK
<1> SUFFICES ASSUME Init PROVE TypeOK
  OBVIOUS
<1>1. RobTypeOK
  BY SizeAssumption
     DEF Init, RobInit, RobTypeOK, RobEntry, RobTags, Kinds, ArchRegs, PhyRegs, Pointers
<1>2. UnitsTypeOK
  <2>1. /\ grant \in [unit : Units, tag : RobTags, op : Ops]
        /\ alu \in [valid : BOOLEAN, tag : RobTags, op : Ops, mispredicted : BOOLEAN]
    BY Stages DEF Init, UnitsInit, NoGrant, NoAlu, Units, Ops
  <2>2. /\ mulDone \in [MulSlots -> BOOLEAN] /\ intFirst \in BOOLEAN /\ divDone \in BOOLEAN
        /\ mul \in [MulSlots -> [valid : BOOLEAN, tag : RobTags]]
    BY Stages DEF Init, UnitsInit, NoResult
  <2>3. /\ divCount \in 0 .. DIV_CYCLES + 1
        /\ div \in [busy : BOOLEAN, valid : BOOLEAN, tag : RobTags,
                    timer : 0 .. DIV_CYCLES]
    BY Stages DEF Init, UnitsInit
  <2> QED
    BY <2>1, <2>2, <2>3 DEF UnitsTypeOK
<1>3. queue \in [QueueNames -> [Slots -> QueueEntry]]
  BY Stages DEF Init, EmptyQueue, NoEntry, QueueEntry, Ops
<1>4. /\ lsq \subseteq RobTags
      /\ lsb \in Seq(RobTags) /\ Len(lsb) <= LSB_DEPTH
      /\ lsbOut \in [valid : BOOLEAN, tag : RobTags]
  BY Stages, ExecAssumption DEF Init, NoResult
<1>5. /\ s2 \in [valid : BOOLEAN, op : Ops]
      /\ refetch \in 0 .. REFETCH
      /\ opAt \in [RobTags -> Ops]
  BY ExecAssumption DEF Init, Stage2Empty, Ops
<1> QED
  BY <1>1, <1>2, <1>3, <1>4, <1>5 DEF TypeOK

(* A cycle preserves the types, whatever its inputs.                       *)
LEMMA ExecTypeStep ==
  ASSUME TypeOK,
         NEW offer \in Offers, NEW missing \in Missing,
         NEW mispredicted \in Outcomes, NEW finished \in Finished,
         Cycle(offer, missing, mispredicted, finished)
  PROVE  TypeOK'
<1>1. /\ FiresNow \in BOOLEAN
      /\ Cdb.valid \in BOOLEAN /\ Cdb.tag \in RobTags
      /\ Cdb.flush \in BOOLEAN /\ Cdb.rw \in BOOLEAN
      /\ RobBottom \in RobTags
      /\ s2 \in [valid : BOOLEAN, op : Ops]
      /\ queue \in [QueueNames -> [Slots -> QueueEntry]]
  BY CdbTypes, RobSlotTypes DEF TypeOK, FiresNow
<1>2. RobTypeOK'
  <2>1. /\ ToRob.kind \in Kinds /\ ToRob.rd \in ArchRegs /\ ToRob.rs \in ArchRegs
        /\ ToRob.rw \in BOOLEAN /\ ToRob.phy \in PhyRegs /\ ToRob.src \in PhyRegs
        /\ ToRob.prev \in PhyRegs
    BY SizeAssumption DEF ToRob, Kinds, ArchRegs, PhyRegs
  <2>2. RobTypeOK /\ RobClock(FiresNow, ToRob, Cdb, Memory)
    BY CycleParts DEF TypeOK
  <2> QED
    BY <1>1, <2>1, <2>2, RobClockTypes
<1>3. grant' \in [unit : Units, tag : RobTags, op : Ops]
  <2>1. CASE IssuedNow \in QueueNames
    <3>1. Selected(queue[IssuedNow], Cdb) \in Slots
      BY <2>1, IssuedFacts, SelectedFacts
    <3>2. queue[IssuedNow][Selected(queue[IssuedNow], Cdb)] \in QueueEntry
      BY <3>1, <2>1, <1>1
    <3>3. IssuedNow \in Units
      BY IssuedFacts
    <3> QED
      BY <2>1, <3>2, <3>3, CycleParts DEF QueueEntry
  <2>2. CASE IssuedNow \notin QueueNames
    <3>1. IssuedNow \in Units /\ 0 \in RobTags
      BY IssuedFacts, Stages
    <3> QED
      BY <2>2, <3>1, CycleParts DEF NoGrant, Ops
  <2> QED
    BY <2>1, <2>2
<1>4. UnitsTypeOK'
  BY <1>3, UnitsTypes, CycleParts, ExecInputs
<1>5. queue' \in [QueueNames -> [Slots -> QueueEntry]]
  <2>1. ASSUME NEW u \in QueueNames
        PROVE  QueueClock(queue[u], Cdb, IssuedNow = u, ToQueue(u, missing))
                 \in [Slots -> QueueEntry]
    <3>1. Entry(missing) \in QueueEntry /\ NoEntry \in QueueEntry
      BY <1>1, ExecInputs, Stages DEF Entry, NoEntry, QueueEntry, Ops
    <3>2. ToQueue(u, missing) \in QueueEntry
      BY <3>1 DEF ToQueue
    <3>3. queue[u] \in [Slots -> QueueEntry]
      BY <1>1
    <3> QED
      BY <3>2, <3>3, QueueClockTypes
  <2> QED
    BY <2>1, CycleParts
<1>6. /\ lsb' \in Seq(RobTags) /\ Len(lsb') <= LSB_DEPTH
      /\ lsbOut' \in [valid : BOOLEAN, tag : RobTags]
  BY LsbTypes, CycleParts, ExecInputs
<1>7. lsq' \subseteq RobTags
  BY <1>1, CycleParts DEF TypeOK
<1>8. /\ s2' \in [valid : BOOLEAN, op : Ops]
      /\ opAt' \in [RobTags -> Ops]
  BY <1>1, CycleParts, ExecInputs DEF TypeOK
<1>9. refetch' \in 0 .. REFETCH
  BY CycleParts, ExecAssumption DEF TypeOK
<1> QED
  BY <1>2, <1>4, <1>5, <1>6, <1>7, <1>8, <1>9 DEF TypeOK


(* Every signal of the back end holds a value of its type after any number *)
(* of cycles, for every program and every size of the queues.              *)
THEOREM ExecTypeCorrect == Spec => []TypeOK
<1>1. Init => TypeOK
  BY ExecTypeInit
<1>2. TypeOK /\ [Next]_vars => TypeOK'
  <2> SUFFICES ASSUME TypeOK, [Next]_vars PROVE TypeOK'
    OBVIOUS
  <2>1. CASE Next
    BY <2>1, ExecTypeStep DEF Next
  <2>2. CASE UNCHANGED vars
    BY <2>2 DEF vars, robVars, unitVars, TypeOK, RobTypeOK, UnitsTypeOK
  <2> QED
    BY <2>1, <2>2
<1> QED
  BY <1>1, <1>2, PTL DEF Spec

-----------------------------------------------------------------------------
(* Reservations.  CdbExclusive speaks of one cycle and is not inductive:   *)
(* what keeps two results apart was decided when the operations issued.    *)
(* mulDone[j] announces a product j + 1 cycles ahead, divCount a quotient, *)
(* and the operations in the units are where the announcements say.        *)
OneResult ==
  /\ mul[MUL_CYCLES - 1].valid => ~divDone /\ ~alu.valid /\ ~lsbOut.valid
  /\ divDone => ~alu.valid /\ ~lsbOut.valid
  /\ alu.valid => ~lsbOut.valid

ReserveInv ==
  /\ OneResult
  /\ grant.unit = "DIV" <=> divCount = DIV_CYCLES + 1
  /\ div.timer = IF divCount = DIV_CYCLES + 1 THEN 0 ELSE divCount
  /\ div.valid => div.busy /\ ~divDone
  /\ divCount = DIV_CYCLES + 1 => ~div.busy
  /\ grant.unit = "MUL" => mulDone[MUL_CYCLES - 1]
  /\ \A i \in MulSlots : i < MUL_CYCLES - 1 /\ mul[i].valid => mulDone[MUL_CYCLES - 2 - i]
  /\ \A j \in MulSlots : mulDone[j] => divCount # j \/ (j = 0 /\ ~div.busy)
  /\ grant.unit \in {"INT", "LSB"} => ~mulDone[0] /\ (divCount # 0 \/ ~div.busy)

(* Nothing is reserved at reset.                                           *)
LEMMA ReserveInit == Init => ReserveInv
<1> SUFFICES ASSUME Init PROVE ReserveInv
  OBVIOUS
<1>1. UnitsInit /\ lsbOut = NoResult
  BY DEF Init
<1>2. \A i \in MulSlots : ~mul[i].valid /\ ~mulDone[i]
  BY <1>1 DEF UnitsInit, NoResult
<1>3. grant.unit = "NONE" /\ ~alu.valid /\ ~lsbOut.valid /\ ~divDone
  BY <1>1 DEF UnitsInit, NoResult, NoGrant, NoAlu
<1>4. divCount = 0 /\ ~div.busy /\ ~div.valid /\ div.timer = 0
  BY <1>1 DEF UnitsInit
<1> QED
  BY <1>2, <1>3, <1>4, Stages DEF ReserveInv, OneResult

(* A cycle keeps the reservations exact: the counters of the issue unit    *)
(* run ahead of the units they stand for.                                  *)
LEMMA ReserveStep ==
  ASSUME TypeOK, ReserveInv,
         NEW offer \in Offers, NEW missing \in Missing,
         NEW mispredicted \in Outcomes, NEW finished \in Finished,
         Cycle(offer, missing, mispredicted, finished)
  PROVE  ReserveInv'
<1> DEFINE M == MUL_CYCLES
           D == DIV_CYCLES
           new == IssuedNow
<1>1. /\ M \in Nat /\ D \in Nat /\ 1 < M /\ M < D
      /\ 0 \in MulSlots /\ 1 \in MulSlots /\ M - 1 \in MulSlots /\ M - 2 \in MulSlots
      /\ divCount \in 0 .. D + 1 /\ div.timer \in 0 .. D
      /\ div.busy \in BOOLEAN /\ div.valid \in BOOLEAN /\ divDone \in BOOLEAN
      /\ MulSlots = 0 .. M - 1
  BY Stages DEF TypeOK, UnitsTypeOK, MulSlots
<1>2. /\ new \in {"INT", "MUL", "DIV", "LSB", "NONE"}
      /\ new = "DIV" => divCount = 0 /\ ~div.busy
      /\ new = "MUL" => divCount # M
      /\ new \in {"INT", "LSB"} => divCount # 1 /\ ~mulDone[1]
  BY IssuedFacts DEF Units, QueueNames
<1>3. grant'.unit = new
  BY <1>2, CycleParts DEF NoGrant, QueueNames
<1>4. /\ divCount' = IF new = "DIV" THEN D + 1 ELSE IF divCount > 0 THEN divCount - 1 ELSE 0
      /\ mulDone' = [i \in MulSlots |-> IF i = M - 1 THEN new = "MUL" ELSE mulDone[i + 1]]
  BY CycleParts DEF IssueUnitClock
<1>5. /\ alu'.valid => grant.unit = "INT"
      /\ \A i \in MulSlots : mul'[i].valid =>
           IF i = 0 THEN grant.unit = "MUL" ELSE mul[i - 1].valid
  BY CycleParts DEF AluClock, MulClock, NoAlu, NoResult, Arrives
<1>6. lsbOut'.valid => grant.unit = "LSB"
  BY CycleParts DEF LsbClock, NoResult
<1>7. /\ div'.busy <=> grant.unit = "DIV" \/ (div.busy /\ div.timer # 0)
      /\ div'.valid => grant.unit = "DIV" \/ (div.valid /\ div.timer # 0)
      /\ div'.timer = IF grant.unit = "DIV" THEN D
                      ELSE IF div.timer = 0 THEN 0 ELSE div.timer - 1
      /\ divDone' => div.timer = 0 /\ div.valid
  <2>1. DivClock(Cdb)
    BY CycleParts
  <2>2. div'.busy <=> grant.unit = "DIV" \/ (div.busy /\ div.timer # 0)
    BY <2>1 DEF DivClock, DivComplete, Arrives
  <2>3. div'.valid => grant.unit = "DIV" \/ (div.valid /\ div.timer # 0)
    BY <2>1 DEF DivClock, DivComplete, Arrives
  <2>4. div'.timer = IF grant.unit = "DIV" THEN D
                     ELSE IF div.timer = 0 THEN 0 ELSE div.timer - 1
    BY <2>1 DEF DivClock, DivComplete, Arrives
  <2>5. divDone' => div.timer = 0 /\ div.valid
    BY <2>1 DEF DivClock, DivComplete
  <2> QED
    BY <2>2, <2>3, <2>4, <2>5
<1>8. /\ grant.unit = "DIV" <=> divCount = D + 1
      /\ div.timer = IF divCount = D + 1 THEN 0 ELSE divCount
      /\ div.valid => div.busy
      /\ divCount = D + 1 => ~div.busy
      /\ grant.unit = "MUL" => mulDone[M - 1]
      /\ \A i \in MulSlots : i < M - 1 /\ mul[i].valid => mulDone[M - 2 - i]
      /\ \A j \in MulSlots : mulDone[j] => divCount # j \/ (j = 0 /\ ~div.busy)
      /\ grant.unit \in {"INT", "LSB"} => ~mulDone[0] /\ (divCount # 0 \/ ~div.busy)
  BY DEF ReserveInv
<1> HIDE DEF M, D, new
<1>9. divDone' => divCount = 0 /\ div.busy
  BY <1>1, <1>7, <1>8
<1>10. mul'[M - 1].valid => mulDone[0]
  <2>1. mul'[M - 1].valid => mul[M - 2].valid
    BY <1>1, <1>5
  <2>2. mul[M - 2].valid => mulDone[M - 2 - (M - 2)]
    BY <1>1, <1>8
  <2>3. M - 2 - (M - 2) = 0
    BY <1>1
  <2> QED
    BY <2>1, <2>2, <2>3
<1>11. OneResult'
  <2>1. mul'[M - 1].valid => ~divDone' /\ ~alu'.valid /\ ~lsbOut'.valid
    BY <1>1, <1>5, <1>6, <1>8, <1>9, <1>10
  <2>2. divDone' => ~alu'.valid /\ ~lsbOut'.valid
    BY <1>5, <1>6, <1>8, <1>9
  <2>3. alu'.valid => ~lsbOut'.valid
    BY <1>5, <1>6
  <2> QED
    BY <2>1, <2>2, <2>3 DEF OneResult, M
<1>12. grant'.unit = "DIV" <=> divCount' = D + 1
  BY <1>1, <1>3, <1>4
<1>13. div'.timer = IF divCount' = D + 1 THEN 0 ELSE divCount'
  BY <1>1, <1>2, <1>4, <1>7, <1>8
<1>14. div'.valid => div'.busy /\ ~divDone'
  BY <1>1, <1>7, <1>8
<1>15. divCount' = D + 1 => ~div'.busy
  BY <1>1, <1>2, <1>4, <1>7, <1>8
<1>16. grant'.unit = "MUL" => mulDone'[M - 1]
  BY <1>1, <1>3, <1>4
<1>17. \A i \in MulSlots : i < M - 1 /\ mul'[i].valid => mulDone'[M - 2 - i]
  <2> SUFFICES ASSUME NEW i \in MulSlots, i < M - 1, mul'[i].valid
               PROVE  mulDone'[M - 2 - i]
    OBVIOUS
  <2>1. M - 2 - i \in MulSlots /\ M - 2 - i # M - 1 /\ M - 2 - i + 1 = M - 1 - i
    BY <1>1
  <2>2. mulDone'[M - 2 - i] = mulDone[M - 1 - i]
    BY <2>1, <1>4
  <2>3. CASE i = 0
    <3>1. grant.unit = "MUL" /\ M - 1 - i = M - 1
      BY <2>3, <1>1, <1>5
    <3> QED
      BY <3>1, <2>2, <1>8
  <2>4. CASE i # 0
    <3>1. i - 1 \in MulSlots /\ i - 1 < M - 1 /\ M - 2 - (i - 1) = M - 1 - i
      BY <2>4, <1>1
    <3>2. mul[i - 1].valid
      BY <2>4, <1>5
    <3>3. mulDone[M - 2 - (i - 1)]
      BY <3>1, <3>2, <1>8
    <3> QED
      BY <3>1, <3>3, <2>2
  <2> QED
    BY <2>3, <2>4
<1>18. \A j \in MulSlots : mulDone'[j] => divCount' # j \/ (j = 0 /\ ~div'.busy)
  <2> SUFFICES ASSUME NEW j \in MulSlots, mulDone'[j]
               PROVE  divCount' # j \/ (j = 0 /\ ~div'.busy)
    OBVIOUS
  <2>1. CASE j = M - 1
    <3>1. new = "MUL"
      BY <2>1, <1>4
    <3> QED
      BY <3>1, <2>1, <1>1, <1>2, <1>4
  <2>2. CASE j # M - 1
    <3>1. mulDone[j + 1] /\ j + 1 \in MulSlots /\ j + 1 # 0
      BY <2>2, <1>1, <1>4
    <3>2. divCount # j + 1
      BY <3>1, <1>8
    <3>3. CASE divCount' = j
      <4>1. divCount = 0 /\ j = 0
        BY <3>2, <3>3, <1>1, <1>4
      <4>2. ~div'.busy
        BY <4>1, <1>1, <1>7, <1>8
      <4> QED
        BY <4>1, <4>2
    <3> QED
      BY <3>3
  <2> QED
    BY <2>1, <2>2
<1>19. grant'.unit \in {"INT", "LSB"} => ~mulDone'[0] /\ (divCount' # 0 \/ ~div'.busy)
  <2> SUFFICES ASSUME new \in {"INT", "LSB"}
               PROVE  ~mulDone'[0] /\ (divCount' # 0 \/ ~div'.busy)
    BY <1>3
  <2>1. mulDone'[0] = mulDone[1]
    BY <1>1, <1>2, <1>4
  <2>2. divCount' = 0 => divCount = 0
    BY <1>1, <1>2, <1>4
  <2>3. divCount = 0 => ~div'.busy
    BY <1>1, <1>7, <1>8
  <2> QED
    BY <2>1, <2>2, <2>3, <1>2
<1> QED
  BY <1>11, <1>12, <1>13, <1>14, <1>15, <1>16, <1>17, <1>18, <1>19 DEF ReserveInv, M, D

(* The four results of the property, and at most one of them.              *)
LEMMA OneResultCounts == OneResult => CdbExclusive
<1> SUFFICES ASSUME OneResult PROVE CdbExclusive
  OBVIOUS
<1> DEFINE r == << mul[MUL_CYCLES - 1].valid, divDone, alu.valid, lsbOut.valid >>
           S == {i \in 1 .. 4 : r[i]}
<1>1. \A i, j \in S : i = j
  <2> SUFFICES ASSUME NEW i \in 1 .. 4, NEW j \in 1 .. 4, r[i], r[j] PROVE i = j
    OBVIOUS
  <2>1. /\ i \in {1, 2, 3, 4} /\ j \in {1, 2, 3, 4}
        /\ r[1] = mul[MUL_CYCLES - 1].valid /\ r[2] = divDone
        /\ r[3] = alu.valid /\ r[4] = lsbOut.valid
    OBVIOUS
  <2> HIDE DEF r
  <2> QED
    BY <2>1 DEF OneResult
<1> HIDE DEF S
<1>2. CASE S = {}
  BY <1>2, FS_EmptySet DEF S, CdbExclusive
<1>3. CASE S # {}
  <2>1. PICK x : S = {x}
    BY <1>1, <1>3
  <2>2. Cardinality(S) = 1
    BY <2>1, FS_Singleton
  <2> QED
    BY <2>2 DEF S, CdbExclusive
<1> QED
  BY <1>2, <1>3

(* The reservations hold in every reachable state, for every latency of    *)
(* multiplier and divider.                                                 *)
THEOREM ReserveInvariant == Spec => [](TypeOK /\ ReserveInv)
<1>1. Init => TypeOK /\ ReserveInv
  BY ExecTypeInit, ReserveInit
<1>2. TypeOK /\ ReserveInv /\ [Next]_vars => (TypeOK /\ ReserveInv)'
  <2> SUFFICES ASSUME TypeOK, ReserveInv, [Next]_vars PROVE TypeOK' /\ ReserveInv'
    OBVIOUS
  <2>1. CASE Next
    BY <2>1, ExecTypeStep, ReserveStep DEF Next
  <2>2. CASE UNCHANGED vars
    <3>1. TypeOK'
      BY <2>2 DEF vars, robVars, unitVars, TypeOK, RobTypeOK, UnitsTypeOK
    <3>2. ReserveInv'
      BY <2>2 DEF vars, unitVars, ReserveInv, OneResult
    <3> QED
      BY <3>1, <3>2
  <2> QED
    BY <2>1, <2>2
<1> QED
  BY <1>1, <1>2, PTL DEF Spec

(* At most one unit drives the CDB in any cycle, whatever mix of           *)
(* instructions is in flight: the assertions of EXE.sv and CDB.sv.         *)
THEOREM ResultsNeverMeet == Spec => []CdbExclusive
<1>1. TypeOK /\ ReserveInv => CdbExclusive
  BY OneResultCounts DEF ReserveInv
<1> QED
  BY <1>1, ReserveInvariant, PTL


-----------------------------------------------------------------------------
(* Room in the queues.  The stall rules of dispatch look at the queues one *)
(* cycle before the slot is taken; in that cycle a queue loses at most the *)
(* slot of the instruction then in stage 2, which the rules count.         *)
RoomInv ==
  /\ Cardinality(lsq) <= QUEUE_DEPTH
  /\ Stage2FindsSlot

(* The vacant slots of a queue are a finite set of at most QUEUE_DEPTH     *)
(* slots.                                                                  *)
LEMMA VacantCounts ==
  ASSUME TypeOK, Cardinality(lsq) <= QUEUE_DEPTH
  PROVE  /\ IsFiniteSet(lsq) /\ Cardinality(lsq) \in Nat
         /\ \A u \in QueueNames : IsFiniteSet(Vacant(queue[u]))
         /\ \A name \in QueueNames \cup {"LOAD"} : VacantIn(name) \in Nat
<1>1. IsFiniteSet(lsq) /\ Cardinality(lsq) \in Nat
  <2>1. IsFiniteSet(RobTags)
    BY Stages, FS_Interval DEF RobTags
  <2>2. IsFiniteSet(lsq)
    BY <2>1, FS_Subset DEF TypeOK
  <2> QED
    BY <2>2, FS_CardinalityType
<1>2. ASSUME NEW u \in QueueNames PROVE IsFiniteSet(Vacant(queue[u]))
  <2>1. IsFiniteSet(Slots)
    BY Stages, FS_Interval DEF Slots
  <2>2. Vacant(queue[u]) \in SUBSET Slots
    BY DEF Vacant
  <2> QED
    BY <2>1, <2>2, FS_Subset
<1>3. ASSUME NEW u \in QueueNames PROVE VacantIn(u) \in Nat
  <2>1. Cardinality(Vacant(queue[u])) \in Nat
    BY <1>2, FS_CardinalityType
  <2> QED
    BY <2>1 DEF VacantIn, QueueNames
<1>4. VacantIn("LOAD") \in Nat
  BY <1>1, Stages DEF VacantIn
<1> QED
  BY <1>1, <1>2, <1>3, <1>4

VacanciesTyped ==
  Cardinality(lsq) <= QUEUE_DEPTH =>
    \A name \in QueueNames \cup {"LOAD"} : VacantIn(name) \in Nat

(* Proved for every well typed state.                                      *)
LEMMA VacanciesAreTyped == TypeOK => VacanciesTyped
BY VacantCounts DEF VacanciesTyped

(* A cycle takes at most the slot of the instruction in stage 2 from each  *)
(* queue.                                                                  *)
LEMMA VacantStep ==
  ASSUME TypeOK, RoomInv,
         NEW offer \in Offers, NEW missing \in Missing,
         NEW mispredicted \in Outcomes, NEW finished \in Finished,
         Cycle(offer, missing, mispredicted, finished),
         NEW name \in QueueNames \cup {"LOAD"}
  PROVE  /\ name = "LOAD" => Cardinality(lsq') <= QUEUE_DEPTH
         /\ VacantIn(name)' >= VacantIn(name) -
              (IF FiresNow /\ QueueOf(s2.op) = name THEN 1 ELSE 0)
<1>1. /\ IsFiniteSet(lsq) /\ Cardinality(lsq) \in Nat
      /\ \A u \in QueueNames : IsFiniteSet(Vacant(queue[u]))
      /\ VacantIn(name) \in Nat /\ Cardinality(lsq) <= QUEUE_DEPTH
      /\ QUEUE_DEPTH \in Nat
  BY VacantCounts, Stages DEF RoomInv
<1>2. FiresNow => VacantIn(QueueOf(s2.op)) > 0
  BY DEF RoomInv, Stage2FindsSlot, FiresNow
<1>3. QueueOf(s2.op) = "LOAD" <=> s2.op = "LOAD"
  BY DEF QueueOf
<1>4. CASE name = "LOAD"
  <2> DEFINE kept == {t \in lsq : ~Flushed(t, Cdb)} \ finished
             new == FiresNow /\ s2.op = "LOAD"
  <2>1. lsq' = kept \cup (IF new THEN {RobBottom} ELSE {})
    BY CycleParts
  <2>2. kept \in SUBSET lsq
    OBVIOUS
  <2>3. IsFiniteSet(kept) /\ Cardinality(kept) <= Cardinality(lsq)
        /\ Cardinality(kept) \in Nat
    <3> HIDE DEF kept
    <3> QED
      BY <2>2, <1>1, FS_Subset, FS_CardinalityType
  <2>4. VacantIn(name) = QUEUE_DEPTH - Cardinality(lsq)
        /\ VacantIn(name)' = QUEUE_DEPTH - Cardinality(lsq')
    BY <1>4 DEF VacantIn
  <2>5. CASE new
    <3>1. lsq' = kept \cup {RobBottom}
      BY <2>1, <2>5
    <3>2. Cardinality(lsq') <= Cardinality(kept) + 1 /\ Cardinality(lsq') \in Nat
      <4>1. Cardinality(kept \cup {RobBottom}) = IF RobBottom \in kept
                  THEN Cardinality(kept) ELSE Cardinality(kept) + 1
        <5> HIDE DEF kept
        <5> QED
          BY <2>3, FS_AddElement
      <4> HIDE DEF kept
      <4> QED
        BY <3>1, <4>1, <2>3
    <3>3. VacantIn(name) > 0 /\ QueueOf(s2.op) = name /\ FiresNow
      BY <1>2, <1>3, <1>4, <2>5
    <3> HIDE DEF kept, new
    <3> QED
      BY <1>1, <2>3, <2>4, <3>2, <3>3
  <2>6. CASE ~new
    <3>1. lsq' = kept /\ ~(FiresNow /\ QueueOf(s2.op) = name)
      BY <2>1, <2>6, <1>3, <1>4
    <3> HIDE DEF kept, new
    <3> QED
      BY <1>1, <2>3, <2>4, <3>1
  <2> QED
    BY <2>5, <2>6
<1>5. CASE name # "LOAD"
  <2> DEFINE q == queue[name]
             r == queue'[name]
             new == ToQueue(name, missing)
  <2>1. /\ name \in QueueNames
        /\ r = QueueClock(q, Cdb, IssuedNow = name, new)
        /\ q \in [Slots -> QueueEntry]
    BY <1>5, CycleParts DEF TypeOK
  <2>2. /\ VacantIn(name) = Cardinality(Vacant(q))
        /\ VacantIn(name)' = Cardinality(Vacant(r))
    BY <1>5 DEF VacantIn, Vacant
  <2>3. IsFiniteSet(Vacant(q)) /\ IsFiniteSet(Vacant(r))
        /\ Cardinality(Vacant(q)) \in Nat /\ Cardinality(Vacant(r)) \in Nat
    <3>1. IsFiniteSet(Slots) /\ Vacant(r) \in SUBSET Slots
      BY Stages, FS_Interval DEF Slots, Vacant
    <3>2. IsFiniteSet(Vacant(r))
      BY <3>1, FS_Subset
    <3> QED
      BY <3>2, <1>1, <2>1, FS_CardinalityType
  <2>4. new.valid <=> FiresNow /\ QueueOf(s2.op) = name
    BY DEF ToQueue, Entry, NoEntry
  <2>5. ASSUME NEW i \in Vacant(q), ~Enters(q, Cdb, new, i) PROVE i \in Vacant(r)
    <3>1. i \in Slots /\ ~q[i].valid
      BY DEF Vacant
    <3>2. Leaves(q, Cdb, IssuedNow = name, i)
      BY <3>1 DEF Leaves
    <3>3. r[i] = NoEntry
      <4> HIDE DEF q, r, new
      <4> QED
        BY <2>1, <2>5, <3>1, <3>2, QueueSlots
    <3> QED
      BY <3>1, <3>3 DEF Vacant, NoEntry
  <2>6. CASE new.valid
    <3> DEFINE rest == Vacant(q) \ {Min(Vacant(q))}
    <3>1. rest \in SUBSET Vacant(r)
      <4>1. ASSUME NEW i \in rest PROVE i \in Vacant(r)
        <5>1. i \in Vacant(q) /\ ~Enters(q, Cdb, new, i)
          BY DEF Enters
        <5> QED
          BY <5>1, <2>5
      <4> QED
        BY <4>1
    <3>2. Cardinality(rest) >= Cardinality(Vacant(q)) - 1
      <4>1. Cardinality(rest) = IF Min(Vacant(q)) \in Vacant(q)
                                  THEN Cardinality(Vacant(q)) - 1
                                  ELSE Cardinality(Vacant(q))
        BY <2>3, FS_RemoveElement
      <4> HIDE DEF rest, q
      <4> QED
        BY <4>1, <2>3
    <3>3. Cardinality(rest) <= Cardinality(Vacant(r)) /\ Cardinality(rest) \in Nat
      <4>1. IsFiniteSet(rest)
        BY <2>3, FS_RemoveElement
      <4> HIDE DEF rest, r, q
      <4> QED
        BY <3>1, <4>1, <2>3, FS_Subset, FS_CardinalityType
    <3> HIDE DEF q, r, rest, new
    <3> QED
      BY <1>5, <2>2, <2>3, <2>4, <2>6, <3>2, <3>3
  <2>7. CASE ~new.valid
    <3>1. Vacant(q) \in SUBSET Vacant(r)
      BY <2>5, <2>7 DEF Enters
    <3>2. Cardinality(Vacant(q)) <= Cardinality(Vacant(r))
      <4> HIDE DEF q, r
      <4> QED
        BY <3>1, <2>3, FS_Subset
    <3> HIDE DEF q, r, new
    <3> QED
      BY <1>5, <2>2, <2>3, <2>4, <2>7, <3>2
  <2> QED
    BY <2>6, <2>7
<1> QED
  BY <1>4, <1>5

(* The stall rules of stage 1 keep a slot for the instruction in stage 2.  *)
LEMMA RoomStep ==
  ASSUME TypeOK, RoomInv,
         NEW offer \in Offers, NEW missing \in Missing,
         NEW mispredicted \in Outcomes, NEW finished \in Finished,
         Cycle(offer, missing, mispredicted, finished)
  PROVE  RoomInv'
<1>1. Cardinality(lsq)' <= QUEUE_DEPTH
  <2>1. "LOAD" \in QueueNames \cup {"LOAD"}
    OBVIOUS
  <2> QED
    BY <2>1, VacantStep
<1>2. ASSUME offer.valid PROVE VacantIn(QueueOf(offer.op))' > 0
  <2> DEFINE name == QueueOf(offer.op)
  <2>1. name \in QueueNames \cup {"LOAD"}
    BY ExecInputs DEF Ops, QueueOf, QueueNames
  <2>2. ~QueueStall(offer.op)
    BY <1>2, ExecInputs
  <2>3. VacantIn(name) \in Nat
    BY <2>1, VacantCounts DEF RoomInv
  <2>4. VacantIn(name) # 0
        /\ (s2.valid /\ QueueOf(s2.op) = name => ~(VacantIn(name) < 2))
    BY <2>2 DEF QueueStall
  <2>5. VacantIn(name)' >= VacantIn(name) -
          (IF FiresNow /\ QueueOf(s2.op) = name THEN 1 ELSE 0)
    BY <2>1, VacantStep
  <2>6. FiresNow => s2.valid
    BY DEF FiresNow
  <2>7. TypeOK' /\ Cardinality(lsq)' <= QUEUE_DEPTH
    BY <1>1, ExecTypeStep
  <2>8. VacantIn(name)' \in Nat
    <3>1. VacanciesTyped'
      BY <2>7, VacanciesAreTyped, PTL
    <3> QED
      BY <3>1, <2>1, <2>7 DEF VacanciesTyped
  <2> HIDE DEF name
  <2>9. VacantIn(name)' > 0
    BY <2>3, <2>4, <2>5, <2>6, <2>8
  <2> QED
    BY <2>9 DEF name
<1>3. s2' = offer
  BY CycleParts
<1>4. Stage2FindsSlot'
  BY <1>2, <1>3 DEF Stage2FindsSlot
<1> QED
  BY <1>1, <1>4 DEF RoomInv

(* The instruction in stage 2 finds a slot in its queue, for every mix of  *)
(* instructions and every size of the queues.                              *)
THEOREM DispatchFindsSlot == Spec => []Stage2FindsSlot
<1>1. Init => TypeOK /\ RoomInv
  <2> SUFFICES ASSUME Init PROVE RoomInv
    BY ExecTypeInit
  <2>1. Cardinality(lsq) <= QUEUE_DEPTH
    BY FS_EmptySet, Stages DEF Init
  <2>2. ~s2.valid
    BY DEF Init, Stage2Empty
  <2> QED
    BY <2>1, <2>2 DEF RoomInv, Stage2FindsSlot
<1>2. TypeOK /\ RoomInv /\ [Next]_vars => (TypeOK /\ RoomInv)'
  <2> SUFFICES ASSUME TypeOK, RoomInv, [Next]_vars PROVE TypeOK' /\ RoomInv'
    OBVIOUS
  <2>1. CASE Next
    BY <2>1, ExecTypeStep, RoomStep DEF Next
  <2>2. CASE UNCHANGED vars
    <3>1. TypeOK'
      BY <2>2 DEF vars, robVars, unitVars, TypeOK, RobTypeOK, UnitsTypeOK
    <3>2. RoomInv'
      BY <2>2 DEF vars, RoomInv, Stage2FindsSlot, VacantIn, Vacant
    <3> QED
      BY <3>1, <3>2
  <2> QED
    BY <2>1, <2>2
<1>3. RoomInv => Stage2FindsSlot
  BY DEF RoomInv
<1> QED
  BY <1>1, <1>2, <1>3, PTL DEF Spec


-----------------------------------------------------------------------------
(* Where the instructions are.  A place is a kind and an index: a queue    *)
(* and a slot, a stage of the multiplier, a position in the LSB buffer.    *)
At(k, x, t) ==
  \/ k \in QueueNames /\ x \in Slots /\ queue[k][x].valid /\ queue[k][x].tag = t
  \/ k = "GRANT" /\ x \in QueueNames /\ grant.unit = x /\ grant.tag = t
  \/ k = "ALU" /\ x = 0 /\ alu.valid /\ alu.tag = t
  \/ k = "MUL_PIPE" /\ x \in MulSlots /\ mul[x].valid /\ mul[x].tag = t
  \/ k = "DIV_UNIT" /\ x = 0 /\ (div.valid \/ divDone) /\ div.tag = t
  \/ k = "LSQ" /\ x = 0 /\ t \in lsq
  \/ k = "LSB" /\ x \in DOMAIN lsb /\ lsb[x] = t
  \/ k = "LSB_OUT" /\ x = 0 /\ lsbOut.valid /\ lsbOut.tag = t

(* The class of instruction that belongs in a place.                       *)
Fits(k, x, t) ==
  QueueOf(opAt[t]) = IF k \in QueueNames THEN k
                     ELSE IF k = "GRANT" THEN x
                     ELSE IF k = "ALU" THEN "INT"
                     ELSE IF k = "MUL_PIPE" THEN "MUL"
                     ELSE IF k = "DIV_UNIT" THEN "DIV"
                     ELSE "LOAD"

(* A multiplication that entered the pipeline in the cycle that flushed    *)
(* it.  Fetch is silent until it has drained, so its tag stays unused.     *)
Zombie(k, x, t) ==
  /\ k = "MUL_PIPE" /\ t \notin LiveTags
  /\ ~s2.valid /\ refetch >= MUL_CYCLES - 1 - x

(* The places whose instruction is on the CDB in this cycle.               *)
Sends(k, x) ==
  \/ k \in {"ALU", "LSB_OUT"}
  \/ k = "MUL_PIPE" /\ x = MUL_CYCLES - 1
  \/ k = "DIV_UNIT" /\ divDone

-----------------------------------------------------------------------------
(* The inductive invariant.  It needs one thing of the surroundings: no     *)
(* division reaches the divider in a cycle of a flush, because the divider *)
(* then looks at the wrong tag.                                            *)
NoDivAtFlush == ~(Cdb.flush /\ grant.unit = "DIV")

CountInv ==
  /\ RobCount <= ROB_DEPTH
  /\ s2.valid => RobCount < ROB_DEPTH
  /\ \A t \in RobTags : rob[t].kind \in {"ALU", "BRANCH", "LOAD"}

(* The copies of an instruction's class agree with the instruction.        *)
OpInv ==
  /\ \A u \in QueueNames, i \in Slots :
       queue[u][i].valid => queue[u][i].op = opAt[queue[u][i].tag]
  /\ grant.unit \in QueueNames => grant.op = opAt[grant.tag]
  /\ alu.valid => alu.op = opAt[alu.tag]
  /\ alu.mispredicted => alu.op = "BRANCH"

HomeInv ==
  \A k, x, t : At(k, x, t) =>
    \/ t \in Pending /\ Fits(k, x, t)
    \/ Zombie(k, x, t)

UniqueInv ==
  \A k1, x1, k2, x2, t : At(k1, x1, t) /\ At(k2, x2, t) => <<k1, x1>> = <<k2, x2>>

PresentInv == \A t \in Pending : \E k, x : At(k, x, t)

(* What an entry waits for is pending, older, and will be written.         *)
WaitInv ==
  \A u \in QueueNames, i \in Slots : queue[u][i].valid =>
    \A p \in queue[u][i].waits :
      /\ p \in Pending /\ Depth(p) < Depth(queue[u][i].tag)
      /\ WritesRegister(opAt[p])

ExecInv ==
  /\ ReserveInv /\ RoomInv /\ CountInv /\ OpInv
  /\ HomeInv /\ UniqueInv /\ PresentInv /\ WaitInv


-----------------------------------------------------------------------------
(* A place holds a tag of the ROB.                                         *)
LEMMA TagsOfPlaces ==
  ASSUME TypeOK, NEW k, NEW x, NEW t, At(k, x, t)
  PROVE  t \in RobTags
<1>1. /\ grant.tag \in RobTags /\ alu.tag \in RobTags /\ div.tag \in RobTags
      /\ lsbOut.tag \in RobTags /\ lsq \subseteq RobTags
      /\ \A i \in MulSlots : mul[i].tag \in RobTags
  BY DEF TypeOK, UnitsTypeOK
<1>2. ASSUME NEW u \in QueueNames, NEW i \in Slots PROVE queue[u][i].tag \in RobTags
  BY DEF TypeOK, QueueEntry
<1>3. \A i \in DOMAIN lsb : lsb[i] \in RobTags
  BY DEF TypeOK
<1> QED
  BY <1>1, <1>2, <1>3 DEF At

(* Whose result is on the CDB: the place that sends holds the tag that is  *)
(* broadcast, and a flush is the misprediction of a pending branch.        *)
LEMMA SenderOwnsCdb ==
  ASSUME ReserveInv, NEW k, NEW x, NEW t, At(k, x, t), Sends(k, x)
  PROVE  Cdb.valid /\ Cdb.tag = t
<1>1. OneResult
  BY DEF ReserveInv
<1>2. CASE k = "ALU" /\ alu.valid /\ alu.tag = t
  BY <1>1, <1>2 DEF OneResult, Cdb
<1>3. CASE k = "LSB_OUT" /\ lsbOut.valid /\ lsbOut.tag = t
  BY <1>1, <1>3 DEF OneResult, Cdb
<1>4. CASE k = "MUL_PIPE" /\ mul[MUL_CYCLES - 1].valid /\ mul[MUL_CYCLES - 1].tag = t
  BY <1>4 DEF Cdb
<1>5. CASE k = "DIV_UNIT" /\ divDone /\ div.tag = t
  BY <1>1, <1>5 DEF OneResult, Cdb
<1>6. k \in {"ALU", "LSB_OUT", "MUL_PIPE", "DIV_UNIT"}
  BY DEF Sends
<1> QED
  BY <1>2, <1>3, <1>4, <1>5, <1>6 DEF Sends, At, QueueNames

(* Whatever is broadcast comes from a place that sends.                    *)
LEMMA CdbHasSender ==
  ASSUME TypeOK, Cdb.valid
  PROVE  \E k, x : At(k, x, Cdb.tag) /\ Sends(k, x)
<1>1. CASE mul[MUL_CYCLES - 1].valid
  <2>1. Cdb.tag = mul[MUL_CYCLES - 1].tag
    BY <1>1 DEF Cdb
  <2>2. At("MUL_PIPE", MUL_CYCLES - 1, Cdb.tag) /\ Sends("MUL_PIPE", MUL_CYCLES - 1)
    BY <1>1, <2>1, Stages DEF At, Sends
  <2> QED
    BY <2>2
<1>2. CASE ~mul[MUL_CYCLES - 1].valid /\ divDone
  <2>1. Cdb.tag = div.tag
    BY <1>2 DEF Cdb
  <2>2. At("DIV_UNIT", 0, Cdb.tag) /\ Sends("DIV_UNIT", 0)
    BY <1>2, <2>1 DEF At, Sends
  <2> QED
    BY <2>2
<1>3. CASE ~mul[MUL_CYCLES - 1].valid /\ ~divDone /\ alu.valid
  <2>1. Cdb.tag = alu.tag
    BY <1>3 DEF Cdb
  <2>2. At("ALU", 0, Cdb.tag) /\ Sends("ALU", 0)
    BY <1>3, <2>1 DEF At, Sends
  <2> QED
    BY <2>2
<1>4. CASE ~mul[MUL_CYCLES - 1].valid /\ ~divDone /\ ~alu.valid
  <2>1. Cdb.tag = lsbOut.tag /\ lsbOut.valid
    BY <1>4 DEF Cdb
  <2>2. At("LSB_OUT", 0, Cdb.tag) /\ Sends("LSB_OUT", 0)
    BY <2>1 DEF At, Sends
  <2> QED
    BY <2>2
<1> QED
  BY <1>1, <1>2, <1>3, <1>4

(* A flush on the CDB is the broadcast of a pending branch.                *)
LEMMA FlushIsOfBranch ==
  ASSUME TypeOK, ReserveInv, OpInv, HomeInv, Cdb.flush
  PROVE  Cdb.valid /\ Cdb.tag \in Pending /\ opAt[Cdb.tag] = "BRANCH"
<1>1. alu.valid /\ alu.mispredicted
  BY DEF Cdb
<1>2. At("ALU", 0, alu.tag) /\ Sends("ALU", 0)
  BY <1>1 DEF At, Sends
<1>3. Cdb.valid /\ Cdb.tag = alu.tag
  BY <1>2, SenderOwnsCdb
<1>4. alu.tag \in Pending
  BY <1>2 DEF HomeInv, Zombie
<1>5. opAt[alu.tag] = "BRANCH"
  BY <1>1 DEF OpInv
<1> QED
  BY <1>3, <1>4, <1>5

(* The broadcast of a pending instruction wakes its consumers exactly when *)
(* its class writes a register.                                            *)
LEMMA BroadcastWrites ==
  ASSUME TypeOK, ReserveInv, OpInv, HomeInv, Cdb.valid, Cdb.tag \in Pending
  PROVE  Cdb.rw <=> WritesRegister(opAt[Cdb.tag])
<1>0. Cdb.tag \in LiveTags /\ opAt[Cdb.tag] \in Ops
  BY CdbTypes DEF Pending, TypeOK
<1>1. CASE mul[MUL_CYCLES - 1].valid
  <2>1. Cdb.tag = mul[MUL_CYCLES - 1].tag /\ Cdb.rw = TRUE
    BY <1>1 DEF Cdb
  <2>2. At("MUL_PIPE", MUL_CYCLES - 1, Cdb.tag)
    BY <1>1, <2>1, Stages DEF At
  <2>3. Fits("MUL_PIPE", MUL_CYCLES - 1, Cdb.tag)
    BY <2>2, <1>0 DEF HomeInv, Zombie
  <2> QED
    BY <2>1, <2>3 DEF Fits, QueueOf, WritesRegister, QueueNames
<1>2. CASE ~mul[MUL_CYCLES - 1].valid /\ divDone
  <2>1. Cdb.tag = div.tag /\ Cdb.rw = TRUE
    BY <1>2 DEF Cdb
  <2>2. At("DIV_UNIT", 0, Cdb.tag)
    BY <1>2, <2>1 DEF At
  <2>3. Fits("DIV_UNIT", 0, Cdb.tag)
    BY <2>2, <1>0 DEF HomeInv, Zombie
  <2> QED
    BY <2>1, <2>3 DEF Fits, QueueOf, WritesRegister, QueueNames
<1>3. CASE ~mul[MUL_CYCLES - 1].valid /\ ~divDone /\ alu.valid
  <2>1. Cdb.tag = alu.tag /\ Cdb.rw = WritesRegister(alu.op)
    BY <1>3 DEF Cdb
  <2> QED
    BY <1>3, <2>1 DEF OpInv
<1>4. CASE ~mul[MUL_CYCLES - 1].valid /\ ~divDone /\ ~alu.valid
  <2>1. Cdb.tag = lsbOut.tag /\ lsbOut.valid /\ Cdb.rw = lsbOut.valid
    BY <1>4 DEF Cdb
  <2>2. At("LSB_OUT", 0, Cdb.tag)
    BY <2>1 DEF At
  <2>3. Fits("LSB_OUT", 0, Cdb.tag)
    BY <2>2, <1>0 DEF HomeInv, Zombie
  <2> QED
    BY <2>1, <2>3 DEF Fits, QueueOf, WritesRegister, QueueNames
<1> QED
  BY <1>1, <1>2, <1>3, <1>4

(* An instruction that is pending when its tag is broadcast sits in the    *)
(* place that sends, and nowhere else.                                     *)
LEMMA BroadcastLeaves ==
  ASSUME TypeOK, UniqueInv, NEW k, NEW x, At(k, x, Cdb.tag), Cdb.valid
  PROVE  Sends(k, x)
<1>1. PICK kk, xx : At(kk, xx, Cdb.tag) /\ Sends(kk, xx)
  BY CdbHasSender
<1>2. <<k, x>> = <<kk, xx>>
  BY <1>1 DEF UniqueInv
<1> QED
  BY <1>1, <1>2


-----------------------------------------------------------------------------
(* One cycle of the ROB, by tag: what stays live, what stays pending, and  *)
(* how far from the head.                                                  *)
LiveByDepth == LiveTags = {t \in RobTags : Depth(t) < RobCount}

(* The live tags are those nearer to the head than the number of entries   *)
(* in use.                                                                 *)
LEMMA LiveTagsByDepth == TypeOK /\ CountInv => LiveByDepth
BY DepthFacts DEF TypeOK, CountInv, LiveByDepth

(* One cycle of the ROB, entry by entry: what dispatch writes and what the *)
(* CDB completes.                                                          *)
LEMMA RobEntries ==
  ASSUME TypeOK, FiresNow => ~RobFull,
         RobClock(FiresNow, ToRob, Cdb, Memory), NEW t \in RobTags
  PROVE  /\ rob'[t].kind = IF FiresNow /\ t = RobBottom THEN ToRob.kind ELSE rob[t].kind
         /\ rob'[t].compl <=> \/ Cdb.valid /\ Cdb.tag = t
                              \/ rob[t].compl /\ ~(FiresNow /\ t = RobBottom)
<1> DEFINE entry == [kind |-> ToRob.kind, rd |-> ToRob.rd, rs |-> ToRob.rs,
                     rw |-> ToRob.rw,
                     curr |-> IF ToRob.kind = "STORE" THEN ToRob.src ELSE ToRob.phy,
                     prev |-> ToRob.prev, compl |-> ToRob.kind \in RobOnlyKinds]
           appended == IF FiresNow THEN [rob EXCEPT ![RobBottom] = entry] ELSE rob
<1>1. /\ rob \in [RobTags -> RobEntry] /\ RobBottom \in RobTags
      /\ Cdb.tag \in RobTags /\ Cdb.valid \in BOOLEAN /\ FiresNow \in BOOLEAN
      /\ s2.op \in Ops
  BY CdbTypes, RobSlotTypes DEF TypeOK, RobTypeOK, FiresNow
<1>2. rob' = IF Cdb.valid THEN [appended EXCEPT ![Cdb.tag].compl = TRUE] ELSE appended
  BY DEF RobClock
<1>3. entry \in RobEntry /\ entry.kind = ToRob.kind /\ ~entry.compl
  <2>1. ToRob.kind \in {"ALU", "BRANCH", "LOAD"}
    BY DEF ToRob
  <2>2. /\ ToRob.rd \in ArchRegs /\ ToRob.rs \in ArchRegs
        /\ ToRob.rw \in BOOLEAN /\ ToRob.phy \in PhyRegs /\ ToRob.src \in PhyRegs
        /\ ToRob.prev \in PhyRegs
    BY SizeAssumption DEF ToRob, ArchRegs, PhyRegs
  <2>3. ToRob.kind \in Kinds /\ ToRob.kind \notin RobOnlyKinds
    BY <2>1 DEF Kinds, RobOnlyKinds, SerializingKinds
  <2> DEFINE done == ToRob.kind \in RobOnlyKinds
  <2>4. done \in BOOLEAN /\ ~done
    BY <2>3
  <2>5. ToRob.kind = "STORE" => FALSE
    BY <2>1
  <2> HIDE DEF done
  <2> QED
    BY <2>2, <2>3, <2>4, <2>5 DEF RobEntry, done
<1> HIDE DEF entry
<1>4. /\ appended[t] = IF FiresNow /\ t = RobBottom THEN entry ELSE rob[t]
      /\ appended \in [RobTags -> RobEntry]
  BY <1>1, <1>3
<1>5. rob[t] \in RobEntry /\ rob[t].compl \in BOOLEAN
  BY <1>1 DEF RobEntry
<1> HIDE DEF appended
<1>6. /\ rob'[t].kind = appended[t].kind
      /\ rob'[t].compl = IF Cdb.valid /\ Cdb.tag = t THEN TRUE ELSE appended[t].compl
  BY <1>1, <1>2, <1>4 DEF RobEntry
<1>7. rob'[t].kind = IF FiresNow /\ t = RobBottom THEN ToRob.kind ELSE rob[t].kind
  BY <1>3, <1>4, <1>6
<1>8. CASE FiresNow /\ t = RobBottom
  BY <1>3, <1>4, <1>6, <1>7, <1>8
<1>9. CASE ~(FiresNow /\ t = RobBottom)
  BY <1>4, <1>5, <1>6, <1>7, <1>9
<1> QED
  BY <1>8, <1>9

(* All of it: the count, the fresh tag that dispatch takes, which tags     *)
(* stay live and pending, their classes, and the common shift of their     *)
(* distances from the head.                                                *)
LEMMA TagStep ==
  ASSUME TypeOK, ReserveInv, CountInv, OpInv, HomeInv,
         NEW offer \in Offers, NEW missing \in Missing,
         NEW mispredicted \in Outcomes, NEW finished \in Finished,
         Cycle(offer, missing, mispredicted, finished)
  PROVE  /\ CountInv'
         /\ FiresNow => /\ RobBottom \in RobTags \ LiveTags /\ ~Cdb.flush
                        /\ Cdb.valid => Cdb.tag # RobBottom
                        /\ \A t \in LiveTags : Depth(t) < Depth(RobBottom)
         /\ \A t \in RobTags :
              t \in LiveTags' => \/ t \in LiveTags /\ ~Flushed(t, Cdb)
                                 \/ FiresNow /\ t = RobBottom
         /\ \A t \in RobTags :
              t \in Pending' <=> \/ /\ t \in Pending /\ ~Flushed(t, Cdb)
                                    /\ ~(Cdb.valid /\ Cdb.tag = t)
                                 \/ FiresNow /\ t = RobBottom
         /\ \A t \in RobTags :
              opAt'[t] = IF FiresNow /\ t = RobBottom THEN s2.op ELSE opAt[t]
         /\ \E c \in {0, 1} : \A t \in Pending' : Depth(t)' = Depth(t) - c
<1> DEFINE c == RobOut(Memory)
           m == RobKept(FiresNow, Cdb)
<1>1. /\ RobTypeOK /\ RobCount <= ROB_DEPTH /\ ROB_DEPTH \in Nat \ {0, 1}
      /\ FiresNow \in BOOLEAN /\ (FiresNow => s2.valid /\ ~Cdb.flush)
      /\ s2.valid => RobCount < ROB_DEPTH
      /\ Cdb.flush \in BOOLEAN /\ Cdb.valid \in BOOLEAN /\ Cdb.tag \in RobTags
      /\ RobClock(FiresNow, ToRob, Cdb, Memory)
  BY CdbTypes, CycleParts, SizeAssumption DEF TypeOK, CountInv, FiresNow
<1>2. /\ RobCount \in 0 .. ROB_DEPTH
      /\ \A t \in RobTags : Depth(t) \in 0 .. ROB_DEPTH - 1
      /\ \A s, t \in RobTags : Depth(s) = Depth(t) => s = t
      /\ LiveTags = {t \in RobTags : Depth(t) < RobCount}
      /\ RobTop \in RobTags /\ Depth(RobTop) = 0
      /\ RobBottom \in RobTags
      /\ RobCount < ROB_DEPTH => Depth(RobBottom) = RobCount
      /\ RobFull <=> RobCount = ROB_DEPTH
  BY <1>1, DepthFacts
<1>3. Cdb.flush => Cdb.tag \in LiveTags /\ ~rob[Cdb.tag].compl
  BY FlushIsOfBranch DEF Pending
<1>4. ~TrapCommit(Memory)
  <2>1. RobHead.kind \in {"ALU", "BRANCH", "LOAD"}
    BY <1>2 DEF CountInv, RobHead
  <2> QED
    BY <2>1 DEF TrapCommit
<1>5. /\ c \in {0, 1}
      /\ c = 1 => RobCount > 0 /\ rob[RobTop].compl
      /\ m \in c .. ROB_DEPTH
      /\ RobCount' = m - c
      /\ \A t \in RobTags : Depth(t) >= c => Depth(t)' = Depth(t) - c
      /\ \A t \in RobTags : Depth(t) < c => Depth(t)' = ROB_DEPTH - 1
  BY <1>1, <1>3, <1>4, RobClockCounts
<1>6. /\ Cdb.flush => m = Depth(Cdb.tag) + 1 /\ m <= RobCount
      /\ ~Cdb.flush => m = IF FiresNow THEN RobCount + 1 ELSE RobCount
  BY <1>1, <1>2, <1>3 DEF RobKept
<1>7. \A t \in RobTags : Flushed(t, Cdb) <=> Cdb.flush /\ Depth(t) >= m
  BY <1>1, <1>2, <1>6 DEF Flushed
<1> HIDE DEF c, m
<1>8. ASSUME FiresNow
      PROVE  /\ RobBottom \in RobTags \ LiveTags /\ ~Cdb.flush
             /\ Cdb.valid => Cdb.tag # RobBottom
             /\ \A t \in LiveTags : Depth(t) < Depth(RobBottom)
             /\ ~RobFull
  <2>1. /\ RobBottom \in RobTags \ LiveTags /\ ~Cdb.flush /\ ~RobFull
        /\ \A t \in LiveTags : Depth(t) < Depth(RobBottom)
    BY <1>8, <1>1, <1>2
  <2>2. Cdb.valid => Cdb.tag # RobBottom
    <3> SUFFICES ASSUME Cdb.valid PROVE Cdb.tag # RobBottom
      OBVIOUS
    <3>1. PICK k, x : At(k, x, Cdb.tag)
      BY CdbHasSender
    <3>2. Cdb.tag \in Pending
      BY <3>1, <1>8, <1>1 DEF HomeInv, Zombie
    <3> QED
      BY <3>2, <2>1 DEF Pending
  <2> QED
    BY <2>1, <2>2
<1>9. ASSUME NEW t \in RobTags
      PROVE  /\ rob'[t].kind = IF FiresNow /\ t = RobBottom THEN ToRob.kind
                               ELSE rob[t].kind
             /\ rob'[t].compl <=> \/ Cdb.valid /\ Cdb.tag = t
                                  \/ rob[t].compl /\ ~(FiresNow /\ t = RobBottom)
  BY <1>1, <1>8, RobEntries
<1>10. CountInv'
  <2>1. RobCount' <= ROB_DEPTH
    BY <1>1, <1>5
  <2>2. s2'.valid => RobCount' < ROB_DEPTH
    <3> SUFFICES ASSUME offer.valid PROVE RobCount' < ROB_DEPTH
      BY CycleParts
    <3>1. ~RobFull /\ (TwoOrMoreVacant \/ ~s2.valid) /\ ~Cdb.flush
      BY ExecInputs
    <3>2. RobCount < ROB_DEPTH /\ (RobCount <= ROB_DEPTH - 2 \/ ~s2.valid)
      BY <3>1, <1>1, <1>2 DEF TwoOrMoreVacant
    <3> QED
      BY <3>1, <3>2, <1>1, <1>2, <1>5, <1>6
  <2>3. \A t \in RobTags : rob'[t].kind \in {"ALU", "BRANCH", "LOAD"}
    <3>1. ToRob.kind \in {"ALU", "BRANCH", "LOAD"}
      BY DEF ToRob
    <3> QED
      BY <3>1, <1>9 DEF CountInv
  <2> QED
    BY <2>1, <2>2, <2>3 DEF CountInv
<1>11. LiveTags' = {t \in RobTags : Depth(t)' < RobCount'}
  <2>1. TypeOK'
    BY ExecTypeStep
  <2>2. LiveByDepth'
    BY <2>1, <1>10, LiveTagsByDepth, PTL
  <2> QED
    BY <2>2 DEF LiveByDepth
<1>12. ASSUME NEW t \in RobTags
       PROVE  t \in LiveTags' <=> Depth(t) >= c /\ Depth(t) < m
  <2>1. t \in LiveTags' <=> Depth(t)' < RobCount'
    BY <1>11
  <2>2. Depth(t) \in 0 .. ROB_DEPTH - 1
    BY <1>2
  <2>3. CASE Depth(t) >= c
    BY <2>1, <2>2, <2>3, <1>5
  <2>4. CASE ~(Depth(t) >= c)
    <3>1. Depth(t)' = ROB_DEPTH - 1 /\ c = 1
      BY <2>2, <2>4, <1>5
    <3> QED
      BY <3>1, <2>1, <2>4, <1>1, <1>5
  <2> QED
    BY <2>3, <2>4
<1>13. ASSUME NEW t \in RobTags
       PROVE  t \in LiveTags' <=> \/ /\ t \in LiveTags /\ ~Flushed(t, Cdb)
                                     /\ Depth(t) >= c
                                  \/ FiresNow /\ t = RobBottom
  <2>1. Depth(t) \in 0 .. ROB_DEPTH - 1 /\ (t \in LiveTags <=> Depth(t) < RobCount)
    BY <1>2
  <2>2. CASE Cdb.flush
    BY <2>1, <2>2, <1>1, <1>2, <1>5, <1>6, <1>7, <1>12
  <2>3. CASE ~Cdb.flush /\ ~FiresNow
    BY <2>1, <2>3, <1>1, <1>2, <1>5, <1>6, <1>7, <1>12
  <2>4. CASE ~Cdb.flush /\ FiresNow
    <3>1. m = RobCount + 1 /\ RobCount < ROB_DEPTH /\ Depth(RobBottom) = RobCount
      BY <2>4, <1>1, <1>2, <1>6
    <3>2. Depth(t) = RobCount <=> t = RobBottom
      BY <3>1, <1>2
    <3>3. c <= RobCount
      BY <1>2, <1>5
    <3> QED
      BY <2>1, <2>4, <3>1, <3>2, <3>3, <1>2, <1>5, <1>7, <1>12
  <2> QED
    BY <2>2, <2>3, <2>4, <1>1
<1>14. ASSUME NEW t \in RobTags, t \in Pending PROVE Depth(t) >= c
  <2>1. ~rob[t].compl /\ Depth(t) \in 0 .. ROB_DEPTH - 1
    BY <1>14, <1>2 DEF Pending
  <2>2. c = 1 => Depth(t) # 0
    BY <2>1, <1>2, <1>5
  <2> QED
    BY <2>1, <2>2, <1>5
<1>15. ASSUME NEW t \in RobTags
       PROVE  t \in Pending' <=> \/ /\ t \in Pending /\ ~Flushed(t, Cdb)
                                    /\ ~(Cdb.valid /\ Cdb.tag = t)
                                 \/ FiresNow /\ t = RobBottom
  <2>1. t \in Pending' <=> t \in LiveTags' /\ ~rob'[t].compl
    BY DEF Pending
  <2>2. t \in Pending <=> t \in LiveTags /\ ~rob[t].compl
    BY DEF Pending
  <2>3. CASE FiresNow /\ t = RobBottom
    BY <2>1, <2>3, <1>8, <1>9, <1>13
  <2>4. CASE ~(FiresNow /\ t = RobBottom)
    BY <2>1, <2>2, <2>4, <1>9, <1>13, <1>14
  <2> QED
    BY <2>3, <2>4
<1>16. ASSUME NEW t \in Pending' PROVE t \in RobTags /\ Depth(t)' = Depth(t) - c
  <2>1. t \in LiveTags'
    BY DEF Pending
  <2>2. t \in RobTags
    BY <2>1, <1>11
  <2> QED
    BY <2>1, <2>2, <1>5, <1>12
<1>17. ASSUME NEW t \in RobTags
       PROVE  opAt'[t] = IF FiresNow /\ t = RobBottom THEN s2.op ELSE opAt[t]
  BY CycleParts, <1>2 DEF TypeOK
<1> QED
  BY <1>5, <1>8, <1>10, <1>13, <1>15, <1>16, <1>17


-----------------------------------------------------------------------------
(* How the instructions move.  An instruction that is neither flushed nor  *)
(* broadcast goes to the next place, and every place that is taken after   *)
(* the cycle was reached from exactly one place, or by dispatch.           *)
Pop == grant.unit = "LSB" /\ lsb # <<>>
Rest == IF Pop THEN Tail(lsb) ELSE lsb

NextPlace(k, x, t, finished) ==
  IF k \in QueueNames /\ k = IssuedNow /\ x = Selected(queue[k], Cdb) THEN <<"GRANT", k>>
  ELSE IF k = "GRANT" THEN IF x = "INT" THEN <<"ALU", 0>>
                           ELSE IF x = "MUL" THEN <<"MUL_PIPE", 0>>
                           ELSE <<"DIV_UNIT", 0>>
  ELSE IF k = "MUL_PIPE" THEN <<"MUL_PIPE", x + 1>>
  ELSE IF k = "LSQ" /\ t \in finished THEN <<"LSB", Len(Rest) + 1>>
  ELSE IF k = "LSB" /\ Cdb.flush THEN <<"LSB", KeepCount(x, Staying(Cdb))>>
  ELSE IF k = "LSB" /\ Pop THEN IF x = 1 THEN <<"LSB_OUT", 0>> ELSE <<"LSB", x - 1>>
  ELSE <<k, x>>

NewPlace ==
  IF s2.op = "LOAD" THEN <<"LSQ", 0>>
  ELSE <<QueueOf(s2.op), Min(Vacant(queue[QueueOf(s2.op)]))>>

Origin(k, x, kk, xx, t, finished) ==
  /\ At(kk, xx, t) /\ ~Sends(kk, xx)
  /\ NextPlace(kk, xx, t, finished) = <<k, x>>
  /\ Flushed(t, Cdb) => <<k, x>> = <<"MUL_PIPE", 0>>

CameFrom(k, x, t, finished) ==
  \/ FiresNow /\ t = RobBottom /\ <<k, x>> = NewPlace
  \/ \E kk, xx : Origin(k, x, kk, xx, t, finished)

(* An entry of an issue queue was there, or has just been dispatched.      *)
LEMMA OriginOfQueue ==
  ASSUME TypeOK,
         NEW offer \in Offers, NEW missing \in Missing,
         NEW mispredicted \in Outcomes, NEW finished \in Finished,
         Cycle(offer, missing, mispredicted, finished),
         NEW k \in QueueNames, NEW x \in Slots, NEW t,
         queue'[k][x].valid, queue'[k][x].tag = t
  PROVE  CameFrom(k, x, t, finished)
<1> DEFINE q == queue[k]
           new == ToQueue(k, missing)
<1>1. q \in [Slots -> QueueEntry]
  BY DEF TypeOK
<1>2. queue'[k] = QueueClock(q, Cdb, IssuedNow = k, new)
  BY CycleParts
<1>3. queue'[k][x] = IF Enters(q, Cdb, new, x)
                       THEN [new EXCEPT !.waits = Waiting(new.waits, Cdb)]
                     ELSE IF Leaves(q, Cdb, IssuedNow = k, x) THEN NoEntry
                     ELSE [q[x] EXCEPT !.waits = Waiting(q[x].waits, Cdb)]
  BY <1>1, <1>2, QueueSlots
<1>4. CASE Enters(q, Cdb, new, x)
  <2>1. new.valid /\ x = Min(Vacant(q))
    BY <1>4 DEF Enters
  <2>2. FiresNow /\ QueueOf(s2.op) = k /\ new = Entry(missing)
    BY <2>1 DEF ToQueue, NoEntry
  <2>3. t = RobBottom
    BY <1>3, <1>4, <2>2 DEF Entry
  <2>4. s2.op # "LOAD"
    BY <2>2 DEF QueueOf, QueueNames
  <2> QED
    BY <2>1, <2>2, <2>3, <2>4 DEF CameFrom, NewPlace
<1>5. CASE ~Enters(q, Cdb, new, x)
  <2>1. ~Leaves(q, Cdb, IssuedNow = k, x)
    BY <1>3, <1>5 DEF NoEntry
  <2>2. q[x].valid /\ ~Flushed(q[x].tag, Cdb)
        /\ ~(IssuedNow = k /\ x = Selected(q, Cdb))
    BY <2>1 DEF Leaves
  <2>3. q[x].tag = t
    <3>1. q[x] \in QueueEntry
      BY <1>1
    <3> QED
      BY <1>3, <1>5, <2>1, <3>1 DEF QueueEntry
  <2>4. At(k, x, t) /\ ~Sends(k, x)
    BY <2>2, <2>3 DEF At, Sends, QueueNames
  <2>5. NextPlace(k, x, t, finished) = <<k, x>>
    BY <2>2 DEF NextPlace, QueueNames
  <2>6. Origin(k, x, k, x, t, finished)
    BY <2>2, <2>3, <2>4, <2>5 DEF Origin
  <2> QED
    BY <2>6 DEF CameFrom
<1> QED
  BY <1>4, <1>5

(* A granted operation was the selected entry of its queue.                *)
LEMMA OriginOfGrant ==
  ASSUME TypeOK,
         NEW offer \in Offers, NEW missing \in Missing,
         NEW mispredicted \in Outcomes, NEW finished \in Finished,
         Cycle(offer, missing, mispredicted, finished),
         NEW x \in QueueNames, NEW t, grant'.unit = x, grant'.tag = t
  PROVE  CameFrom("GRANT", x, t, finished)
<1>1. IssuedNow = x
  BY CycleParts DEF NoGrant, QueueNames
<1> DEFINE i == Selected(queue[x], Cdb)
<1>2. i \in Slots /\ queue[x][i].valid /\ ~Cdb.flush
  BY <1>1, IssuedFacts, SelectedFacts
<1>3. queue[x][i].tag = t
  BY <1>1, CycleParts
<1>4. At(x, i, t) /\ ~Sends(x, i)
  BY <1>2, <1>3 DEF At, Sends, QueueNames
<1>5. NextPlace(x, i, t, finished) = <<"GRANT", x>>
  BY <1>1 DEF NextPlace
<1>6. ~Flushed(t, Cdb)
  BY <1>2 DEF Flushed
<1> QED
  BY <1>4, <1>5, <1>6 DEF CameFrom, Origin

(* An operation in the ALU was granted, and not flushed on the way.        *)
LEMMA OriginOfAlu ==
  ASSUME TypeOK,
         NEW offer \in Offers, NEW missing \in Missing,
         NEW mispredicted \in Outcomes, NEW finished \in Finished,
         Cycle(offer, missing, mispredicted, finished),
         NEW t, alu'.valid, alu'.tag = t
  PROVE  CameFrom("ALU", 0, t, finished)
<1>1. grant.unit = "INT" /\ ~Flushed(t, Cdb) /\ grant.tag = t
  BY CycleParts DEF AluClock, Arrives, NoAlu
<1>2. At("GRANT", "INT", t) /\ ~Sends("GRANT", "INT")
  BY <1>1 DEF At, Sends, QueueNames
<1>3. NextPlace("GRANT", "INT", t, finished) = <<"ALU", 0>>
  BY DEF NextPlace, QueueNames
<1> QED
  BY <1>1, <1>2, <1>3 DEF CameFrom, Origin

(* An operation in the multiplier was in the stage before; the first stage *)
(* takes what is granted, flushed or not.                                  *)
LEMMA OriginOfMul ==
  ASSUME TypeOK,
         NEW offer \in Offers, NEW missing \in Missing,
         NEW mispredicted \in Outcomes, NEW finished \in Finished,
         Cycle(offer, missing, mispredicted, finished),
         NEW x \in MulSlots, NEW t, mul'[x].valid, mul'[x].tag = t
  PROVE  CameFrom("MUL_PIPE", x, t, finished)
<1>1. MulClock(Cdb)
  BY CycleParts
<1>2. CASE x = 0
  <2>1. mul'[0] = IF Arrives("MUL") THEN [valid |-> TRUE, tag |-> grant.tag]
                  ELSE NoResult
    BY <1>1, Stages DEF MulClock
  <2>2. grant.unit = "MUL" /\ grant.tag = t
    BY <1>2, <2>1 DEF Arrives, NoResult
  <2>3. At("GRANT", "MUL", t) /\ ~Sends("GRANT", "MUL")
    BY <2>2 DEF At, Sends, QueueNames
  <2>4. NextPlace("GRANT", "MUL", t, finished) = <<"MUL_PIPE", 0>>
    BY DEF NextPlace, QueueNames
  <2> QED
    BY <1>2, <2>3, <2>4 DEF CameFrom, Origin
<1>3. CASE x # 0
  <2> DEFINE y == x - 1
  <2>1. y \in MulSlots /\ y # MUL_CYCLES - 1 /\ y + 1 = x
    BY <1>3, Stages DEF MulSlots
  <2>2. mul'[x] = IF mul[y].valid /\ ~Flushed(mul[y].tag, Cdb) THEN mul[y] ELSE NoResult
    BY <1>1, <1>3 DEF MulClock
  <2> HIDE DEF y
  <2>3. mul[y].valid /\ ~Flushed(t, Cdb) /\ mul[y].tag = t
    BY <2>2 DEF NoResult
  <2>4. At("MUL_PIPE", y, t) /\ ~Sends("MUL_PIPE", y)
    BY <2>1, <2>3 DEF At, Sends
  <2>5. NextPlace("MUL_PIPE", y, t, finished) = <<"MUL_PIPE", x>>
    BY <2>1 DEF NextPlace, QueueNames
  <2> QED
    BY <2>3, <2>4, <2>5 DEF CameFrom, Origin
<1> QED
  BY <1>2, <1>3

(* The divider after the cycle.                                            *)
LEMMA DivParts ==
  ASSUME ReserveInv, NoDivAtFlush, DivClock(Cdb)
  PROVE  /\ div'.valid <=> /\ grant.unit = "DIV" \/ (div.valid /\ div.timer # 0)
                           /\ ~Flushed(div.tag, Cdb)
         /\ divDone' <=> div.timer = 0 /\ div.valid /\ ~Flushed(div.tag, Cdb)
         /\ grant.unit = "DIV" => ~div.valid /\ ~Flushed(div.tag, Cdb)
         /\ div'.tag = IF grant.unit = "DIV" THEN grant.tag ELSE div.tag
<1>1. grant.unit = "DIV" => ~div.valid
  BY DEF ReserveInv
<1>2. grant.unit = "DIV" => ~Flushed(div.tag, Cdb)
  BY DEF Flushed, NoDivAtFlush
<1>3. div'.valid <=> /\ grant.unit = "DIV" \/ (div.valid /\ div.timer # 0)
                     /\ ~Flushed(div.tag, Cdb)
  BY DEF DivClock, DivComplete, Arrives
<1>4. divDone' <=> div.timer = 0 /\ div.valid /\ ~Flushed(div.tag, Cdb)
  BY DEF DivClock, DivComplete
<1>5. div'.tag = IF grant.unit = "DIV" THEN grant.tag ELSE div.tag
  BY <1>2 DEF DivClock, Arrives
<1> QED
  BY <1>1, <1>2, <1>3, <1>4, <1>5

(* An operation in the divider was granted or was already there.           *)
LEMMA OriginOfDiv ==
  ASSUME TypeOK, ReserveInv, NoDivAtFlush,
         NEW offer \in Offers, NEW missing \in Missing,
         NEW mispredicted \in Outcomes, NEW finished \in Finished,
         Cycle(offer, missing, mispredicted, finished),
         NEW t, div'.valid \/ divDone', div'.tag = t
  PROVE  CameFrom("DIV_UNIT", 0, t, finished)
<1>1. DivClock(Cdb)
  BY CycleParts
<1>2. CASE grant.unit = "DIV"
  <2>1. grant.tag = t
    BY <1>1, <1>2, DivParts
  <2>2. At("GRANT", "DIV", t) /\ ~Sends("GRANT", "DIV")
    BY <1>2, <2>1 DEF At, Sends, QueueNames
  <2>3. NextPlace("GRANT", "DIV", t, finished) = <<"DIV_UNIT", 0>>
    BY DEF NextPlace, QueueNames
  <2>4. ~Flushed(t, Cdb)
    BY <1>2 DEF Flushed, NoDivAtFlush
  <2> QED
    BY <2>2, <2>3, <2>4 DEF CameFrom, Origin
<1>3. CASE grant.unit # "DIV"
  <2>1. div.tag = t /\ div.valid /\ ~Flushed(t, Cdb)
    BY <1>1, <1>3, DivParts
  <2>2. ~divDone
    BY <2>1 DEF ReserveInv
  <2>3. At("DIV_UNIT", 0, t) /\ ~Sends("DIV_UNIT", 0)
    BY <2>1, <2>2 DEF At, Sends
  <2>4. NextPlace("DIV_UNIT", 0, t, finished) = <<"DIV_UNIT", 0>>
    BY DEF NextPlace, QueueNames
  <2> QED
    BY <2>1, <2>3, <2>4 DEF CameFrom, Origin
<1> QED
  BY <1>2, <1>3

(* A memory operation in the queue was there, or has just been dispatched. *)
LEMMA OriginOfLsq ==
  ASSUME TypeOK,
         NEW offer \in Offers, NEW missing \in Missing,
         NEW mispredicted \in Outcomes, NEW finished \in Finished,
         Cycle(offer, missing, mispredicted, finished),
         NEW t, t \in lsq'
  PROVE  CameFrom("LSQ", 0, t, finished)
<1>1. \/ FiresNow /\ s2.op = "LOAD" /\ t = RobBottom
      \/ t \in lsq /\ ~Flushed(t, Cdb) /\ t \notin finished
  BY CycleParts
<1>2. CASE FiresNow /\ s2.op = "LOAD" /\ t = RobBottom
  BY <1>2 DEF CameFrom, NewPlace
<1>3. CASE t \in lsq /\ ~Flushed(t, Cdb) /\ t \notin finished
  <2>1. At("LSQ", 0, t) /\ ~Sends("LSQ", 0)
    BY <1>3 DEF At, Sends
  <2>2. NextPlace("LSQ", 0, t, finished) = <<"LSQ", 0>>
    BY <1>3 DEF NextPlace, QueueNames
  <2> QED
    BY <1>3, <2>1, <2>2 DEF CameFrom, Origin
<1> QED
  BY <1>1, <1>2, <1>3

(* The LSB buffer after the cycle, place by place.                         *)
LEMMA LsbParts ==
  ASSUME TypeOK, NEW finished \in Finished, LsbClock(Cdb, finished)
  PROVE  /\ Cdb.flush => lsb' = Compacted(lsb, Staying(Cdb)) /\ lsbOut' = NoResult
         /\ Rest \in Seq(RobTags)
         /\ ~Pop => Rest = lsb
         /\ Pop => /\ Len(Rest) = Len(lsb) - 1 /\ Len(lsb) >= 1
                   /\ \A i \in 1 .. Len(Rest) : Rest[i] = lsb[i + 1]
         /\ ~Cdb.flush /\ finished = {} => lsb' = Rest
         /\ \A t : ~Cdb.flush /\ finished = {t} => lsb' = Append(Rest, t)
         /\ ~Cdb.flush => lsbOut' = IF Pop THEN [valid |-> TRUE, tag |-> lsb[1]]
                                    ELSE NoResult
<1>1. lsb \in Seq(RobTags)
  BY DEF TypeOK
<1>2. /\ Rest \in Seq(RobTags)
      /\ ~Pop => Rest = lsb
  BY <1>1 DEF Rest, Pop
<1>3. Pop => /\ Len(Rest) = Len(lsb) - 1 /\ Len(lsb) >= 1
             /\ \A i \in 1 .. Len(Rest) : Rest[i] = lsb[i + 1]
  BY <1>1 DEF Rest, Pop
<1>4. Pop => Head(lsb) = lsb[1]
  BY <1>1 DEF Pop
<1>5. Cdb.flush => lsb' = Compacted(lsb, Staying(Cdb)) /\ lsbOut' = NoResult
  BY DEF LsbClock
<1>6. ~Cdb.flush =>
        /\ lsb' = IF finished = {} THEN Rest
                  ELSE Append(Rest, CHOOSE t \in finished : TRUE)
        /\ lsbOut' = IF Pop THEN [valid |-> TRUE, tag |-> Head(lsb)] ELSE NoResult
  BY DEF LsbClock, Rest, Pop
<1>7. \A t : ~Cdb.flush /\ finished = {t} => lsb' = Append(Rest, t)
  BY <1>6
<1> QED
  BY <1>2, <1>3, <1>4, <1>5, <1>6, <1>7

(* An entry of the LSB buffer was there, perhaps further back, or is the   *)
(* operation that the memory has finished.                                 *)
LEMMA OriginOfLsb ==
  ASSUME TypeOK,
         NEW offer \in Offers, NEW missing \in Missing,
         NEW mispredicted \in Outcomes, NEW finished \in Finished,
         Cycle(offer, missing, mispredicted, finished),
         NEW x \in DOMAIN lsb', NEW t, lsb'[x] = t
  PROVE  CameFrom("LSB", x, t, finished)
<1>1. LsbClock(Cdb, finished) /\ lsb \in Seq(RobTags)
  BY CycleParts DEF TypeOK
<1>2. CASE Cdb.flush
  <2>1. PICK i \in DOMAIN lsb : /\ i \in Staying(Cdb) /\ KeepCount(i, Staying(Cdb)) = x
                                /\ lsb'[x] = lsb[i]
    BY <1>1, <1>2, LsbParts, StayingSubset, CompactedFacts
  <2>2. At("LSB", i, t) /\ ~Sends("LSB", i)
    BY <2>1 DEF At, Sends
  <2>3. NextPlace("LSB", i, t, finished) = <<"LSB", x>>
    BY <1>2, <2>1, ExecInputs DEF NextPlace, QueueNames
  <2>4. ~Flushed(t, Cdb)
    BY <2>1 DEF Staying
  <2> QED
    BY <2>2, <2>3, <2>4 DEF CameFrom, Origin
<1>3. CASE ~Cdb.flush
  <2>1. ~Flushed(t, Cdb)
    BY <1>3 DEF Flushed
  <2>2. /\ Rest \in Seq(RobTags) /\ Len(Rest) \in Nat /\ Len(lsb) \in Nat
        /\ DOMAIN lsb = 1 .. Len(lsb)
    BY <1>1, LsbParts
  <2>3. ASSUME x \in 1 .. Len(Rest), lsb'[x] = Rest[x]
        PROVE  CameFrom("LSB", x, t, finished)
    <3>1. CASE Pop
      <4>0. Len(Rest) = Len(lsb) - 1 /\ Rest[x] = lsb[x + 1]
        BY <2>3, <3>1, <1>1, LsbParts
      <4>1. x + 1 \in DOMAIN lsb /\ lsb[x + 1] = t /\ x + 1 # 1
        BY <2>2, <2>3, <4>0
      <4> DEFINE y == x + 1
      <4>2. y \in DOMAIN lsb /\ lsb[y] = t /\ y # 1 /\ y - 1 = x
        BY <4>1, <2>2
      <4> HIDE DEF y
      <4>3. At("LSB", y, t) /\ ~Sends("LSB", y)
        BY <4>2 DEF At, Sends
      <4>4. NextPlace("LSB", y, t, finished) = <<"LSB", x>>
        BY <1>3, <3>1, <4>2 DEF NextPlace, QueueNames
      <4> QED
        BY <2>1, <4>3, <4>4 DEF CameFrom, Origin
    <3>2. CASE ~Pop
      <4>1. x \in DOMAIN lsb /\ lsb[x] = t
        BY <2>2, <2>3, <3>2, <1>1, LsbParts
      <4>2. At("LSB", x, t) /\ ~Sends("LSB", x)
        BY <4>1 DEF At, Sends
      <4>3. NextPlace("LSB", x, t, finished) = <<"LSB", x>>
        BY <1>3, <3>2 DEF NextPlace, QueueNames
      <4> QED
        BY <2>1, <4>2, <4>3 DEF CameFrom, Origin
    <3> QED
      BY <3>1, <3>2
  <2>4. CASE finished = {}
    <3>1. lsb' = Rest
      BY <1>1, <1>3, <2>4, LsbParts
    <3> QED
      BY <2>2, <2>3, <3>1
  <2>5. CASE finished # {}
    <3>1. PICK s \in lsq : finished = {s}
      BY <2>5, ExecInputs
    <3>2. lsb' = Append(Rest, s)
      BY <1>1, <1>3, <3>1, LsbParts
    <3>3. CASE x = Len(Rest) + 1
      <4>1. t = s
        BY <2>2, <3>2, <3>3
      <4>2. At("LSQ", 0, t) /\ ~Sends("LSQ", 0)
        BY <3>1, <4>1 DEF At, Sends
      <4>3. NextPlace("LSQ", 0, t, finished) = <<"LSB", x>>
        BY <3>1, <3>3, <4>1 DEF NextPlace, QueueNames
      <4> QED
        BY <2>1, <4>2, <4>3 DEF CameFrom, Origin
    <3>4. CASE x # Len(Rest) + 1
      <4>1. x \in 1 .. Len(Rest) /\ lsb'[x] = Rest[x]
        BY <2>2, <3>2, <3>4
      <4> QED
        BY <4>1, <2>3
    <3> QED
      BY <3>3, <3>4
  <2> QED
    BY <2>4, <2>5
<1> QED
  BY <1>2, <1>3

(* The output register of the LSB holds the head that was granted.         *)
LEMMA OriginOfLsbOut ==
  ASSUME TypeOK,
         NEW offer \in Offers, NEW missing \in Missing,
         NEW mispredicted \in Outcomes, NEW finished \in Finished,
         Cycle(offer, missing, mispredicted, finished),
         NEW t, lsbOut'.valid, lsbOut'.tag = t
  PROVE  CameFrom("LSB_OUT", 0, t, finished)
<1>1. LsbClock(Cdb, finished) /\ lsb \in Seq(RobTags)
  BY CycleParts DEF TypeOK
<1>2. ~Cdb.flush /\ Pop /\ lsb[1] = t
  BY <1>1, LsbParts DEF NoResult
<1>3. 1 \in DOMAIN lsb
  BY <1>1, <1>2, LsbParts
<1>4. At("LSB", 1, t) /\ ~Sends("LSB", 1)
  BY <1>2, <1>3 DEF At, Sends
<1>5. NextPlace("LSB", 1, t, finished) = <<"LSB_OUT", 0>>
  BY <1>2 DEF NextPlace, QueueNames
<1>6. ~Flushed(t, Cdb)
  BY <1>2 DEF Flushed
<1> QED
  BY <1>4, <1>5, <1>6 DEF CameFrom, Origin

(* Every place that is taken after the cycle has an origin.                *)
LEMMA OriginOfPlace ==
  ASSUME TypeOK, ReserveInv, NoDivAtFlush,
         NEW offer \in Offers, NEW missing \in Missing,
         NEW mispredicted \in Outcomes, NEW finished \in Finished,
         Cycle(offer, missing, mispredicted, finished),
         NEW CONSTANT k, NEW CONSTANT x, NEW CONSTANT t, At(k, x, t)'
  PROVE  CameFrom(k, x, t, finished)
<1>1. CASE k \in QueueNames /\ x \in Slots /\ queue'[k][x].valid /\ queue'[k][x].tag = t
  BY <1>1, OriginOfQueue
<1>2. CASE k = "GRANT" /\ x \in QueueNames /\ grant'.unit = x /\ grant'.tag = t
  BY <1>2, OriginOfGrant
<1>3. CASE k = "ALU" /\ x = 0 /\ alu'.valid /\ alu'.tag = t
  BY <1>3, OriginOfAlu
<1>4. CASE k = "MUL_PIPE" /\ x \in MulSlots /\ mul'[x].valid /\ mul'[x].tag = t
  BY <1>4, OriginOfMul
<1>5. CASE k = "DIV_UNIT" /\ x = 0 /\ (div'.valid \/ divDone') /\ div'.tag = t
  BY <1>5, OriginOfDiv
<1>6. CASE k = "LSQ" /\ x = 0 /\ t \in lsq'
  BY <1>6, OriginOfLsq
<1>7. CASE k = "LSB" /\ x \in DOMAIN lsb' /\ lsb'[x] = t
  BY <1>7, OriginOfLsb
<1>8. CASE k = "LSB_OUT" /\ x = 0 /\ lsbOut'.valid /\ lsbOut'.tag = t
  BY <1>8, OriginOfLsbOut
<1> QED
  BY <1>1, <1>2, <1>3, <1>4, <1>5, <1>6, <1>7, <1>8 DEF At


-----------------------------------------------------------------------------
(* One cycle preserves the invariant, part by part.                        *)

(* An entry that is in a queue after the cycle was there before it, with   *)
(* the same tag and class and fewer operands to wait for, or it has just   *)
(* been dispatched.                                                        *)
LEMMA QueueStep ==
  ASSUME TypeOK,
         NEW offer \in Offers, NEW missing \in Missing,
         NEW mispredicted \in Outcomes, NEW finished \in Finished,
         Cycle(offer, missing, mispredicted, finished),
         NEW u \in QueueNames, NEW i \in Slots, queue'[u][i].valid
  PROVE  \/ /\ queue[u][i].valid /\ ~Flushed(queue[u][i].tag, Cdb)
            /\ queue'[u][i].tag = queue[u][i].tag
            /\ queue'[u][i].op = queue[u][i].op
            /\ queue'[u][i].waits = Waiting(queue[u][i].waits, Cdb)
         \/ /\ FiresNow /\ queue'[u][i].tag = RobBottom
            /\ queue'[u][i].op = s2.op
            /\ queue'[u][i].waits = Waiting(missing, Cdb)
<1> DEFINE q == queue[u]
           new == ToQueue(u, missing)
<1>1. q \in [Slots -> QueueEntry] /\ q[i] \in QueueEntry
  BY DEF TypeOK
<1>2. queue'[u] = QueueClock(q, Cdb, IssuedNow = u, new)
  BY CycleParts
<1>3. queue'[u][i] = IF Enters(q, Cdb, new, i)
                       THEN [new EXCEPT !.waits = Waiting(new.waits, Cdb)]
                     ELSE IF Leaves(q, Cdb, IssuedNow = u, i) THEN NoEntry
                     ELSE [q[i] EXCEPT !.waits = Waiting(q[i].waits, Cdb)]
  BY <1>1, <1>2, QueueSlots
<1>4. CASE Enters(q, Cdb, new, i)
  <2>1. FiresNow /\ new = Entry(missing)
    BY <1>4 DEF Enters, ToQueue, NoEntry
  <2> QED
    BY <1>3, <1>4, <2>1 DEF Entry
<1>5. CASE ~Enters(q, Cdb, new, i)
  <2>1. ~Leaves(q, Cdb, IssuedNow = u, i)
    BY <1>3, <1>5 DEF NoEntry
  <2>2. q[i].valid /\ ~Flushed(q[i].tag, Cdb)
    BY <2>1 DEF Leaves
  <2>3. queue'[u][i] = [q[i] EXCEPT !.waits = Waiting(q[i].waits, Cdb)]
    BY <1>3, <1>5, <2>1
  <2>4. /\ queue'[u][i].tag = q[i].tag /\ queue'[u][i].op = q[i].op
        /\ queue'[u][i].waits = Waiting(q[i].waits, Cdb)
    BY <1>1, <2>3 DEF QueueEntry
  <2> QED
    BY <2>2, <2>4
<1> QED
  BY <1>4, <1>5

(* The tag in a place outside the multiplier is pending, so dispatch does  *)
(* not reuse it in this cycle.                                             *)
LEMMA PlaceKeepsClass ==
  ASSUME TypeOK, ReserveInv, CountInv, OpInv, HomeInv,
         NEW offer \in Offers, NEW missing \in Missing,
         NEW mispredicted \in Outcomes, NEW finished \in Finished,
         Cycle(offer, missing, mispredicted, finished),
         NEW k, NEW x, NEW t, At(k, x, t), k # "MUL_PIPE"
  PROVE  t \in Pending /\ opAt'[t] = opAt[t] /\ ~(FiresNow /\ t = RobBottom)
<1>1. t \in Pending
  BY DEF HomeInv, Zombie
<1>2. t \in RobTags /\ t \in LiveTags
  BY <1>1, LiveTagsTyped DEF LiveAreTags, Pending
<1> QED
  BY <1>1, <1>2, TagStep

(* The class travels with the instruction.                                 *)
LEMMA OpStep ==
  ASSUME TypeOK, ReserveInv, CountInv, OpInv, HomeInv,
         NEW offer \in Offers, NEW missing \in Missing,
         NEW mispredicted \in Outcomes, NEW finished \in Finished,
         Cycle(offer, missing, mispredicted, finished)
  PROVE  OpInv'
<1>1. ASSUME NEW u \in QueueNames, NEW i \in Slots, queue'[u][i].valid
      PROVE  queue'[u][i].op = opAt'[queue'[u][i].tag]
  <2>1. CASE /\ queue[u][i].valid /\ queue'[u][i].tag = queue[u][i].tag
             /\ queue'[u][i].op = queue[u][i].op
    <3>1. At(u, i, queue[u][i].tag) /\ u # "MUL_PIPE"
      BY <2>1 DEF At, QueueNames
    <3>2. opAt'[queue[u][i].tag] = opAt[queue[u][i].tag]
      BY <3>1, PlaceKeepsClass
    <3> QED
      BY <2>1, <3>2 DEF OpInv
  <2>2. CASE FiresNow /\ queue'[u][i].tag = RobBottom /\ queue'[u][i].op = s2.op
    <3>1. RobBottom \in RobTags
      BY <2>2, TagStep
    <3>2. opAt'[RobBottom] = s2.op
      BY <2>2, <3>1, TagStep
    <3> QED
      BY <2>2, <3>2
  <2> QED
    BY <1>1, <2>1, <2>2, QueueStep
<1>2. ASSUME grant'.unit \in QueueNames PROVE grant'.op = opAt'[grant'.tag]
  <2> DEFINE u == IssuedNow
             i == Selected(queue[u], Cdb)
  <2>1. u \in QueueNames
    BY <1>2, CycleParts DEF NoGrant
  <2>2. i \in Slots /\ queue[u][i].valid
    BY <2>1, IssuedFacts, SelectedFacts
  <2>3. grant'.tag = queue[u][i].tag /\ grant'.op = queue[u][i].op
    BY <2>1, CycleParts
  <2> HIDE DEF u, i
  <2>4. At(u, i, queue[u][i].tag) /\ u # "MUL_PIPE"
    BY <2>1, <2>2 DEF At, QueueNames
  <2>5. opAt'[queue[u][i].tag] = opAt[queue[u][i].tag]
    BY <2>4, PlaceKeepsClass
  <2> QED
    BY <2>1, <2>2, <2>3, <2>5 DEF OpInv
<1>3. ASSUME alu'.valid PROVE alu'.op = opAt'[alu'.tag]
  <2>1. grant.unit = "INT" /\ alu'.tag = grant.tag /\ alu'.op = grant.op
    BY <1>3, CycleParts DEF AluClock, Arrives, NoAlu
  <2>2. At("GRANT", "INT", grant.tag)
    BY <2>1 DEF At, QueueNames
  <2>3. opAt'[grant.tag] = opAt[grant.tag]
    BY <2>2, PlaceKeepsClass
  <2> QED
    BY <2>1, <2>3 DEF OpInv, QueueNames
<1>4. ASSUME alu'.mispredicted PROVE alu'.op = "BRANCH"
  <2>1. mispredicted /\ alu'.op = grant.op
    BY <1>4, CycleParts DEF AluClock, NoAlu
  <2> QED
    BY <2>1, ExecInputs
<1> QED
  BY <1>1, <1>2, <1>3, <1>4 DEF OpInv


(* The place an instruction moves to suits its class.                      *)
LEMMA NextFits ==
  ASSUME NEW k, NEW x, NEW kk, NEW xx, NEW t, NEW finished,
         At(kk, xx, t), Fits(kk, xx, t), NextPlace(kk, xx, t, finished) = <<k, x>>
  PROVE  Fits(k, x, t)
<1>1. CASE kk \in QueueNames
  <2>1. <<k, x>> \in {<<"GRANT", kk>>, <<kk, xx>>}
    BY <1>1 DEF NextPlace, QueueNames
  <2> QED
    BY <1>1, <2>1 DEF Fits, QueueNames
<1>2. CASE kk = "GRANT"
  <2>1. xx \in QueueNames
    BY <1>2 DEF At, QueueNames
  <2>2. <<k, x>> = IF xx = "INT" THEN <<"ALU", 0>>
                   ELSE IF xx = "MUL" THEN <<"MUL_PIPE", 0>>
                   ELSE <<"DIV_UNIT", 0>>
    BY <1>2 DEF NextPlace, QueueNames
  <2>3. k = IF xx = "INT" THEN "ALU" ELSE IF xx = "MUL" THEN "MUL_PIPE" ELSE "DIV_UNIT"
    BY <2>2
  <2>4. QueueOf(opAt[t]) = xx
    BY <1>2 DEF Fits, QueueNames
  <2> QED
    BY <2>1, <2>3, <2>4 DEF Fits, QueueNames
<1>3. CASE kk = "MUL_PIPE"
  <2>1. k = "MUL_PIPE"
    BY <1>3 DEF NextPlace, QueueNames
  <2> QED
    BY <1>3, <2>1 DEF Fits, QueueNames
<1>4. CASE kk \in {"LSQ", "LSB", "LSB_OUT"}
  <2>1. k \in {"LSQ", "LSB", "LSB_OUT"}
    BY <1>4 DEF NextPlace, QueueNames
  <2> QED
    BY <1>4, <2>1 DEF Fits, QueueNames
<1>5. CASE kk \in {"ALU", "DIV_UNIT"}
  <2>1. k = kk
    BY <1>5 DEF NextPlace, QueueNames
  <2> QED
    BY <1>5, <2>1 DEF Fits, QueueNames
<1> QED
  BY <1>1, <1>2, <1>3, <1>4, <1>5 DEF At

(* Whatever is in a place after the cycle is pending and belongs there, or *)
(* is a flushed multiplication whose tag fetch has no time to reuse.       *)
LEMMA HomeStep ==
  ASSUME TypeOK, ReserveInv, CountInv, NoDivAtFlush, OpInv, HomeInv, UniqueInv,
         NEW offer \in Offers, NEW missing \in Missing,
         NEW mispredicted \in Outcomes, NEW finished \in Finished,
         Cycle(offer, missing, mispredicted, finished)
  PROVE  HomeInv'
<1> SUFFICES ASSUME NEW CONSTANT k, NEW CONSTANT x, NEW CONSTANT t, At(k, x, t)'
             PROVE  \/ t \in Pending' /\ Fits(k, x, t)'
                    \/ Zombie(k, x, t)'
  BY DEF HomeInv
<1>1. CameFrom(k, x, t, finished)
  BY OriginOfPlace
<1>2. t \in RobTags
  BY <1>1, TagsOfPlaces, TagStep DEF CameFrom, Origin
<1>3. CASE FiresNow /\ t = RobBottom /\ <<k, x>> = NewPlace
  <2>1. t \in Pending' /\ opAt'[t] = s2.op
    BY <1>2, <1>3, TagStep
  <2>2. k = IF s2.op = "LOAD" THEN "LSQ" ELSE QueueOf(s2.op)
    BY <1>3 DEF NewPlace
  <2>3. s2.op \in Ops
    BY DEF TypeOK
  <2>4. Fits(k, x, t)'
    BY <2>1, <2>2, <2>3 DEF Fits, QueueOf, QueueNames, Ops
  <2> QED
    BY <2>1, <2>4
<1>4. ASSUME NEW kk, NEW xx, Origin(k, x, kk, xx, t, finished)
      PROVE  \/ t \in Pending' /\ Fits(k, x, t)'
             \/ Zombie(k, x, t)'
  <2>1. /\ At(kk, xx, t) /\ ~Sends(kk, xx)
        /\ NextPlace(kk, xx, t, finished) = <<k, x>>
        /\ Flushed(t, Cdb) => <<k, x>> = <<"MUL_PIPE", 0>>
    BY <1>4 DEF Origin
  <2>2. ~(Cdb.valid /\ Cdb.tag = t)
    BY <2>1, BroadcastLeaves
  <2>3. /\ s2' = offer
        /\ refetch' = IF Cdb.flush THEN REFETCH
                      ELSE IF refetch > 0 THEN refetch - 1 ELSE 0
        /\ refetch \in 0 .. REFETCH /\ REFETCH \in Nat /\ REFETCH >= MUL_CYCLES - 1
        /\ MUL_CYCLES \in Nat /\ MUL_CYCLES > 1
        /\ offer.valid => refetch = 0 /\ ~Cdb.flush
    BY CycleParts, ExecInputs, ExecAssumption, CyclesAssumption DEF TypeOK
  <2>4. CASE t \in Pending /\ Fits(kk, xx, t) /\ ~Flushed(t, Cdb)
    <3>1. t \in Pending'
      BY <1>2, <2>2, <2>4, TagStep
    <3>2. t \in LiveTags
      BY <2>4 DEF Pending
    <3>3. opAt'[t] = opAt[t]
      BY <1>2, <3>2, TagStep
    <3>4. Fits(k, x, t)
      BY <2>1, <2>4, NextFits
    <3>5. Fits(k, x, t)'
      BY <3>3, <3>4 DEF Fits
    <3> QED
      BY <3>1, <3>5
  <2>5. CASE t \in Pending /\ Flushed(t, Cdb)
    <3>1. Cdb.flush /\ k = "MUL_PIPE" /\ x = 0
      BY <2>1, <2>5 DEF Flushed
    <3>2. t \notin LiveTags'
      BY <1>2, <2>5, <3>1, TagStep DEF FiresNow
    <3>3. ~s2'.valid /\ refetch' >= MUL_CYCLES - 1 - 0
      BY <2>3, <3>1
    <3> QED
      BY <3>1, <3>2, <3>3 DEF Zombie
  <2>6. CASE Zombie(kk, xx, t)
    <3>1. /\ kk = "MUL_PIPE" /\ t \notin LiveTags
          /\ ~s2.valid /\ refetch >= MUL_CYCLES - 1 - xx
      BY <2>6 DEF Zombie
    <3>2. xx \in MulSlots /\ xx # MUL_CYCLES - 1 /\ k = "MUL_PIPE" /\ x = xx + 1
      BY <2>1, <3>1 DEF At, Sends, NextPlace, QueueNames
    <3>3. xx \in 0 .. MUL_CYCLES - 1
      BY <3>2 DEF MulSlots
    <3>4. refetch > 0
      BY <2>3, <3>1, <3>2, <3>3
    <3>5. ~s2'.valid /\ refetch' >= MUL_CYCLES - 1 - x
      <4>1. ~s2'.valid
        BY <2>3, <3>4
      <4>2. refetch' >= MUL_CYCLES - 1 - x
        BY <2>3, <3>1, <3>2, <3>3, <3>4
      <4> QED
        BY <4>1, <4>2
    <3>6. t \notin LiveTags'
      BY <1>2, <3>1, TagStep DEF FiresNow
    <3> QED
      BY <3>2, <3>5, <3>6 DEF Zombie
  <2> QED
    BY <2>1, <2>4, <2>5, <2>6 DEF HomeInv
<1> QED
  BY <1>3, <1>4, <1>1 DEF CameFrom

(* Two places after the cycle with the same tag have the same origin, so   *)
(* they are one place; the tag of a new instruction was in no place.       *)
LEMMA UniqueStep ==
  ASSUME TypeOK, ReserveInv, CountInv, NoDivAtFlush, OpInv, HomeInv, UniqueInv,
         NEW offer \in Offers, NEW missing \in Missing,
         NEW mispredicted \in Outcomes, NEW finished \in Finished,
         Cycle(offer, missing, mispredicted, finished)
  PROVE  UniqueInv'
<1> SUFFICES ASSUME NEW CONSTANT k1, NEW CONSTANT x1, NEW CONSTANT k2,
                    NEW CONSTANT x2, NEW CONSTANT t,
                    At(k1, x1, t)', At(k2, x2, t)'
             PROVE  <<k1, x1>> = <<k2, x2>>
  BY DEF UniqueInv
<1>1. CameFrom(k1, x1, t, finished) /\ CameFrom(k2, x2, t, finished)
  BY OriginOfPlace
<1>2. ASSUME FiresNow, t = RobBottom, NEW k, NEW x, At(k, x, t) PROVE FALSE
  <2>1. t \in RobTags \ LiveTags
    BY <1>2, TagStep
  <2> QED
    BY <1>2, <2>1 DEF HomeInv, Zombie, Pending, FiresNow
<1>3. CASE FiresNow /\ t = RobBottom
  BY <1>1, <1>2, <1>3 DEF CameFrom, Origin
<1>4. CASE ~(FiresNow /\ t = RobBottom)
  <2>1. PICK a1, b1 : Origin(k1, x1, a1, b1, t, finished)
    BY <1>1, <1>4 DEF CameFrom
  <2>2. PICK a2, b2 : Origin(k2, x2, a2, b2, t, finished)
    BY <1>1, <1>4 DEF CameFrom
  <2>3. <<a1, b1>> = <<a2, b2>>
    BY <2>1, <2>2 DEF Origin, UniqueInv
  <2>4. a1 = a2 /\ b1 = b2
    BY <2>3
  <2>5. NextPlace(a1, b1, t, finished) = NextPlace(a2, b2, t, finished)
    BY <2>4
  <2> QED
    BY <2>1, <2>2, <2>5 DEF Origin
<1> QED
  BY <1>3, <1>4


(* An instruction that is neither flushed nor broadcast is still somewhere *)
(* after the cycle, kind of place by kind of place.                        *)
Remains(t) == \E k, x : At(k, x, t)

(* An entry of a queue stays in its slot or is granted; dispatch does not  *)
(* overwrite it.                                                           *)
LEMMA QueueKeeps ==
  ASSUME TypeOK,
         NEW offer \in Offers, NEW missing \in Missing,
         NEW mispredicted \in Outcomes, NEW finished \in Finished,
         Cycle(offer, missing, mispredicted, finished),
         NEW CONSTANT u \in QueueNames, NEW CONSTANT i \in Slots, NEW CONSTANT t,
         queue[u][i].valid, queue[u][i].tag = t, ~Flushed(t, Cdb)
  PROVE  Remains(t)'
<1> DEFINE q == queue[u]
           new == ToQueue(u, missing)
<1>1. q \in [Slots -> QueueEntry] /\ q[i] \in QueueEntry
  BY DEF TypeOK
<1>2. queue'[u] = QueueClock(q, Cdb, IssuedNow = u, new)
  BY CycleParts
<1>3. CASE IssuedNow = u /\ i = Selected(q, Cdb)
  <2>1. grant'.unit = u /\ grant'.tag = t
    BY <1>3, CycleParts
  <2>2. At("GRANT", u, t)'
    BY <2>1 DEF At
  <2> QED
    BY <2>2 DEF Remains
<1>4. CASE ~(IssuedNow = u /\ i = Selected(q, Cdb))
  <2>1. ~Leaves(q, Cdb, IssuedNow = u, i)
    BY <1>4 DEF Leaves
  <2>2. ~Enters(q, Cdb, new, i)
    BY VacantFacts DEF Enters
  <2> HIDE DEF q, new
  <2>3. queue'[u][i] = IF Enters(q, Cdb, new, i)
                         THEN [new EXCEPT !.waits = Waiting(new.waits, Cdb)]
                       ELSE IF Leaves(q, Cdb, IssuedNow = u, i) THEN NoEntry
                       ELSE [q[i] EXCEPT !.waits = Waiting(q[i].waits, Cdb)]
    BY <1>1, <1>2, QueueSlots
  <2>4. queue'[u][i].valid /\ queue'[u][i].tag = t
    BY <1>1, <2>1, <2>2, <2>3 DEF QueueEntry, q
  <2>5. At(u, i, t)'
    BY <2>4 DEF At
  <2> QED
    BY <2>5 DEF Remains
<1> QED
  BY <1>3, <1>4

(* A granted operation enters its unit.                                    *)
LEMMA GrantKeeps ==
  ASSUME TypeOK, ReserveInv, NoDivAtFlush,
         NEW offer \in Offers, NEW missing \in Missing,
         NEW mispredicted \in Outcomes, NEW finished \in Finished,
         Cycle(offer, missing, mispredicted, finished),
         NEW CONSTANT u \in QueueNames, NEW CONSTANT t,
         grant.unit = u, grant.tag = t, ~Flushed(t, Cdb)
  PROVE  Remains(t)'
<1>1. AluClock(Cdb, mispredicted) /\ MulClock(Cdb) /\ DivClock(Cdb)
  BY CycleParts
<1>2. CASE u = "INT"
  <2>1. alu'.valid /\ alu'.tag = t
    BY <1>1, <1>2 DEF AluClock, Arrives
  <2>2. At("ALU", 0, t)'
    BY <2>1 DEF At
  <2> QED
    BY <2>2 DEF Remains
<1>3. CASE u = "MUL"
  <2>1. mul'[0] = [valid |-> TRUE, tag |-> grant.tag]
    BY <1>1, <1>3, Stages DEF MulClock, Arrives
  <2>2. At("MUL_PIPE", 0, t)'
    BY <2>1, Stages DEF At
  <2> QED
    BY <2>2 DEF Remains
<1>4. CASE u = "DIV"
  <2>1. div'.valid /\ div'.tag = t
    BY <1>1, <1>4, DivParts
  <2>2. At("DIV_UNIT", 0, t)'
    BY <2>1 DEF At
  <2> QED
    BY <2>2 DEF Remains
<1> QED
  BY <1>2, <1>3, <1>4 DEF QueueNames

(* A multiplication moves on by one stage.                                 *)
LEMMA PipelineKeeps ==
  ASSUME TypeOK,
         NEW offer \in Offers, NEW missing \in Missing,
         NEW mispredicted \in Outcomes, NEW finished \in Finished,
         Cycle(offer, missing, mispredicted, finished),
         NEW CONSTANT x \in MulSlots, NEW CONSTANT t,
         mul[x].valid, mul[x].tag = t, x # MUL_CYCLES - 1, ~Flushed(t, Cdb)
  PROVE  Remains(t)'
<1> DEFINE y == x + 1
<1>1. y \in MulSlots /\ y # 0 /\ y - 1 = x
  BY CyclesAssumption DEF MulSlots
<1>2. MulClock(Cdb)
  BY CycleParts
<1> HIDE DEF y
<1>3. mul'[y] = IF mul[y - 1].valid /\ ~Flushed(mul[y - 1].tag, Cdb)
                  THEN mul[y - 1] ELSE NoResult
  BY <1>1, <1>2 DEF MulClock
<1>4. At("MUL_PIPE", y, t)'
  BY <1>1, <1>3 DEF At
<1> QED
  BY <1>4 DEF Remains

(* A division stays in the divider until its result is out.                *)
LEMMA DividerKeeps ==
  ASSUME TypeOK, ReserveInv, NoDivAtFlush,
         NEW offer \in Offers, NEW missing \in Missing,
         NEW mispredicted \in Outcomes, NEW finished \in Finished,
         Cycle(offer, missing, mispredicted, finished),
         NEW CONSTANT t, div.valid, div.tag = t, ~Flushed(t, Cdb)
  PROVE  Remains(t)'
<1>1. DivClock(Cdb)
  BY CycleParts
<1>2. (div'.valid \/ divDone') /\ div'.tag = t
  BY <1>1, DivParts
<1>3. At("DIV_UNIT", 0, t)'
  BY <1>2 DEF At
<1> QED
  BY <1>3 DEF Remains

(* A memory operation stays in the queue or moves to the end of the LSB    *)
(* buffer.                                                                 *)
LEMMA LsqKeeps ==
  ASSUME TypeOK,
         NEW offer \in Offers, NEW missing \in Missing,
         NEW mispredicted \in Outcomes, NEW finished \in Finished,
         Cycle(offer, missing, mispredicted, finished),
         NEW CONSTANT t \in lsq, ~Flushed(t, Cdb)
  PROVE  Remains(t)'
<1>1. CASE t \notin finished
  <2>1. t \in lsq'
    BY <1>1, CycleParts
  <2>2. At("LSQ", 0, t)'
    BY <2>1 DEF At
  <2> QED
    BY <2>2 DEF Remains
<1>2. CASE t \in finished
  <2>1. finished = {t} /\ ~Cdb.flush
    BY <1>2, ExecInputs
  <2>2. LsbClock(Cdb, finished)
    BY CycleParts
  <2>3. lsb' = Append(Rest, t) /\ Rest \in Seq(RobTags)
    BY <2>1, <2>2, LsbParts
  <2>4. PICK y \in DOMAIN lsb' : lsb'[y] = t
    <3>1. Len(Rest) + 1 \in DOMAIN lsb' /\ lsb'[Len(Rest) + 1] = t
      BY <2>3
    <3> QED
      BY <3>1
  <2>5. At("LSB", y, t)'
    BY <2>4 DEF At
  <2> QED
    BY <2>5 DEF Remains
<1> QED
  BY <1>1, <1>2

(* An entry of the LSB buffer stays, moves towards the read pointer, or    *)
(* goes to the output register.                                            *)
LEMMA LsbKeeps ==
  ASSUME TypeOK,
         NEW offer \in Offers, NEW missing \in Missing,
         NEW mispredicted \in Outcomes, NEW finished \in Finished,
         Cycle(offer, missing, mispredicted, finished),
         NEW CONSTANT x \in DOMAIN lsb, NEW CONSTANT t,
         lsb[x] = t, ~Flushed(t, Cdb)
  PROVE  Remains(t)'
<1>1. LsbClock(Cdb, finished) /\ lsb \in Seq(RobTags)
  BY CycleParts DEF TypeOK
<1>2. SUFFICES \/ \E y \in DOMAIN lsb' : lsb'[y] = t
               \/ lsbOut'.valid /\ lsbOut'.tag = t
  <2>1. ASSUME NEW y \in DOMAIN lsb', lsb'[y] = t PROVE Remains(t)'
    BY <2>1 DEF At, Remains
  <2>2. ASSUME lsbOut'.valid, lsbOut'.tag = t PROVE Remains(t)'
    BY <2>2 DEF At, Remains
  <2> QED
    BY <2>1, <2>2
<1>3. CASE Cdb.flush
  <2>1. x \in Staying(Cdb)
    BY DEF Staying
  <2>2. /\ KeepCount(x, Staying(Cdb)) \in DOMAIN lsb'
        /\ lsb'[KeepCount(x, Staying(Cdb))] = t
    BY <1>1, <1>3, <2>1, LsbParts, StayingSubset, CompactedFacts
  <2> QED
    BY <2>2
<1>4. CASE ~Cdb.flush
  <2>1. /\ Rest \in Seq(RobTags) /\ Len(Rest) \in Nat /\ Len(lsb) \in Nat
        /\ DOMAIN lsb = 1 .. Len(lsb) /\ DOMAIN Rest = 1 .. Len(Rest)
    BY <1>1, LsbParts
  <2>2. ASSUME NEW y \in DOMAIN Rest, Rest[y] = t
        PROVE  \E z \in DOMAIN lsb' : lsb'[z] = t
    <3>1. CASE finished = {}
      <4>1. lsb' = Rest
        BY <1>1, <1>4, <3>1, LsbParts
      <4> QED
        BY <2>2, <4>1
    <3>2. CASE finished # {}
      <4>1. PICK s \in lsq : finished = {s}
        BY <3>2, ExecInputs
      <4>2. lsb' = Append(Rest, s)
        BY <1>1, <1>4, <4>1, LsbParts
      <4>3. y \in DOMAIN lsb' /\ lsb'[y] = Rest[y]
        BY <2>1, <2>2, <4>2
      <4> QED
        BY <2>2, <4>3
    <3> QED
      BY <3>1, <3>2
  <2>3. CASE ~Pop
    <3>1. Rest = lsb
      BY <1>1, <2>3, LsbParts
    <3> QED
      BY <2>2, <3>1
  <2>4. CASE Pop /\ x = 1
    <3>1. lsbOut' = [valid |-> TRUE, tag |-> lsb[1]]
      BY <1>1, <1>4, <2>4, LsbParts
    <3> QED
      BY <2>4, <3>1
  <2>5. CASE Pop /\ x # 1
    <3> DEFINE y == x - 1
    <3>1. Len(Rest) = Len(lsb) - 1
      BY <1>1, <2>5, LsbParts
    <3>2. y \in DOMAIN Rest /\ y + 1 = x
      BY <2>1, <2>5, <3>1
    <3> HIDE DEF y
    <3>3. Rest[y] = lsb[y + 1]
      BY <1>1, <2>1, <2>5, <3>2, LsbParts
    <3> QED
      BY <2>2, <3>2, <3>3
  <2> QED
    BY <2>3, <2>4, <2>5
<1> QED
  BY <1>3, <1>4

(* The dispatched instruction finds its place.                             *)
LEMMA DispatchPlaces ==
  ASSUME TypeOK, RoomInv, FiresNow,
         NEW offer \in Offers, NEW missing \in Missing,
         NEW mispredicted \in Outcomes, NEW finished \in Finished,
         Cycle(offer, missing, mispredicted, finished),
         NEW CONSTANT t, t = RobBottom
  PROVE  Remains(t)'
<1>1. CASE s2.op = "LOAD"
  <2>1. t \in lsq'
    BY <1>1, CycleParts
  <2>2. At("LSQ", 0, t)'
    BY <2>1 DEF At
  <2> QED
    BY <2>2 DEF Remains
<1>2. CASE s2.op # "LOAD"
  <2>1. PICK u \in QueueNames : u = QueueOf(s2.op)
    BY <1>2 DEF TypeOK, Ops, QueueOf, QueueNames
  <2> DEFINE q == queue[u]
             new == ToQueue(u, missing)
  <2>2. q \in [Slots -> QueueEntry]
    BY DEF TypeOK
  <2>3. Vacant(q) # {}
    <3>1. Cardinality(Vacant(q)) > 0
      BY <2>1 DEF RoomInv, Stage2FindsSlot, FiresNow, VacantIn, QueueNames
    <3> QED
      BY <3>1, FS_EmptySet
  <2>4. PICK i \in Slots : i = Min(Vacant(q))
    BY <2>3, VacantFacts
  <2>5. new = Entry(missing)
    BY <2>1 DEF ToQueue
  <2>6. Enters(q, Cdb, new, i)
    BY <2>3, <2>4, <2>5 DEF Enters, FiresNow, Entry
  <2>7. queue'[u] = QueueClock(q, Cdb, IssuedNow = u, new)
    <3>1. queue' = [v \in QueueNames |-> QueueClock(queue[v], Cdb, IssuedNow = v,
                                                   ToQueue(v, missing))]
      BY CycleParts
    <3> QED
      BY <2>1, <3>1
  <2>8. queue'[u][i] = IF Enters(q, Cdb, new, i)
                         THEN [new EXCEPT !.waits = Waiting(new.waits, Cdb)]
                       ELSE IF Leaves(q, Cdb, IssuedNow = u, i) THEN NoEntry
                       ELSE [q[i] EXCEPT !.waits = Waiting(q[i].waits, Cdb)]
    BY <2>2, <2>7, QueueSlots
  <2> HIDE DEF q, new
  <2>9. queue'[u][i].valid /\ queue'[u][i].tag = t
    BY <2>5, <2>6, <2>8 DEF Entry
  <2>10. At(u, i, t)'
    BY <2>9 DEF At
  <2> QED
    BY <2>10 DEF Remains
<1> QED
  BY <1>1, <1>2

(* Nothing that is pending is lost.                                        *)
LEMMA PresentStep ==
  ASSUME TypeOK, ReserveInv, RoomInv, CountInv, NoDivAtFlush, OpInv, HomeInv, PresentInv,
         NEW offer \in Offers, NEW missing \in Missing,
         NEW mispredicted \in Outcomes, NEW finished \in Finished,
         Cycle(offer, missing, mispredicted, finished)
  PROVE  PresentInv'
<1> SUFFICES ASSUME NEW CONSTANT t, t \in Pending' PROVE Remains(t)'
  BY DEF PresentInv, Remains
<1>1. t \in RobTags
  <2>1. LiveAreTags'
    BY LiveTagsTyped, PTL
  <2> QED
    BY <2>1 DEF LiveAreTags
<1>2. CASE FiresNow /\ t = RobBottom
  BY <1>2, DispatchPlaces
<1>3. CASE t \in Pending /\ ~Flushed(t, Cdb) /\ ~(Cdb.valid /\ Cdb.tag = t)
  <2>1. PICK k, x : At(k, x, t)
    BY <1>3 DEF PresentInv
  <2>2. ~Sends(k, x)
    BY <1>3, <2>1, SenderOwnsCdb
  <2>3. CASE k \in QueueNames /\ x \in Slots /\ queue[k][x].valid /\ queue[k][x].tag = t
    BY <1>3, <2>3, QueueKeeps
  <2>4. CASE k = "GRANT" /\ x \in QueueNames /\ grant.unit = x /\ grant.tag = t
    BY <1>3, <2>4, GrantKeeps
  <2>5. CASE k = "MUL_PIPE" /\ x \in MulSlots /\ mul[x].valid /\ mul[x].tag = t
    BY <1>3, <2>2, <2>5, PipelineKeeps DEF Sends
  <2>6. CASE k = "DIV_UNIT" /\ x = 0 /\ (div.valid \/ divDone) /\ div.tag = t
    BY <1>3, <2>2, <2>6, DividerKeeps DEF Sends
  <2>7. CASE k = "LSQ" /\ x = 0 /\ t \in lsq
    BY <1>3, <2>7, LsqKeeps
  <2>8. CASE k = "LSB" /\ x \in DOMAIN lsb /\ lsb[x] = t
    BY <1>3, <2>8, LsbKeeps
  <2>9. k # "ALU" /\ k # "LSB_OUT"
    BY <2>2 DEF Sends
  <2> QED
    BY <2>1, <2>3, <2>4, <2>5, <2>6, <2>7, <2>8, <2>9 DEF At
<1> QED
  BY <1>1, <1>2, <1>3, TagStep


(* No wakeup is missed: an operand that is broadcast is struck from every  *)
(* entry, the one being dispatched in the same cycle included, and an      *)
(* entry that waits for a flushed instruction is flushed with it.          *)
LEMMA WaitStep ==
  ASSUME TypeOK, ReserveInv, CountInv, NoDivAtFlush, OpInv, HomeInv, UniqueInv, WaitInv,
         NEW offer \in Offers, NEW missing \in Missing,
         NEW mispredicted \in Outcomes, NEW finished \in Finished,
         Cycle(offer, missing, mispredicted, finished)
  PROVE  WaitInv'
<1> SUFFICES ASSUME NEW CONSTANT u \in QueueNames, NEW CONSTANT i \in Slots,
                    queue'[u][i].valid, NEW CONSTANT p \in queue'[u][i].waits
             PROVE  /\ p \in Pending' /\ Depth(p)' < Depth(queue[u][i].tag)'
                    /\ WritesRegister(opAt'[p])
  BY DEF WaitInv
<1>1. PICK c \in {0, 1} : \A t \in Pending' : Depth(t)' = Depth(t) - c
  BY TagStep
<1>2. PICK w : /\ queue'[u][i].tag = w
               /\ p \in Pending /\ WritesRegister(opAt[p])
               /\ Depth(p) < Depth(w)
               /\ ~Flushed(w, Cdb)
               /\ ~(Cdb.valid /\ Cdb.rw /\ Cdb.tag = p)
  <2>1. CASE /\ queue[u][i].valid /\ ~Flushed(queue[u][i].tag, Cdb)
             /\ queue'[u][i].tag = queue[u][i].tag
             /\ queue'[u][i].waits = Waiting(queue[u][i].waits, Cdb)
    BY <2>1 DEF WaitInv, Waiting
  <2>2. CASE /\ FiresNow /\ queue'[u][i].tag = RobBottom
             /\ queue'[u][i].waits = Waiting(missing, Cdb)
    <3>1. p \in missing /\ ~(Cdb.valid /\ Cdb.rw /\ Cdb.tag = p)
      BY <2>2 DEF Waiting
    <3>2. p \in Pending /\ WritesRegister(opAt[p])
      BY <3>1, ExecInputs
    <3>3. Depth(p) < Depth(RobBottom)
      BY <2>2, <3>2, TagStep DEF Pending
    <3>4. ~Flushed(RobBottom, Cdb)
      BY <2>2 DEF Flushed, FiresNow
    <3> QED
      BY <2>2, <3>1, <3>2, <3>3, <3>4
  <2> QED
    BY <2>1, <2>2, QueueStep
<1>3. p \in RobTags /\ p \in LiveTags
  BY <1>2, LiveTagsTyped DEF LiveAreTags, Pending
<1>4. w \in Pending' /\ w \in RobTags
  <2>1. At(u, i, w)'
    BY <1>2 DEF At
  <2>2. HomeInv'
    BY HomeStep
  <2>3. w \in Pending'
    BY <2>1, <2>2 DEF HomeInv, Zombie, QueueNames
  <2>4. LiveAreTags'
    BY LiveTagsTyped, PTL
  <2> QED
    BY <2>3, <2>4 DEF LiveAreTags
<1>5. /\ Depth(p) \in Int /\ Depth(w) \in Int /\ Depth(Cdb.tag) \in Int
  BY <1>3, <1>4, CdbTypes, DepthFacts DEF TypeOK, CountInv
<1>6. ~Flushed(p, Cdb)
  BY <1>2, <1>5 DEF Flushed
<1>7. ~(Cdb.valid /\ Cdb.tag = p)
  BY <1>2, BroadcastWrites
<1>8. p \in Pending' /\ opAt'[p] = opAt[p]
  BY <1>2, <1>3, <1>6, <1>7, TagStep
<1>9. Depth(p)' < Depth(w)'
  BY <1>1, <1>2, <1>4, <1>5, <1>8
<1>10. Depth(queue[u][i].tag)' = Depth(w)'
  BY <1>2 DEF Depth
<1> QED
  BY <1>2, <1>8, <1>9, <1>10

-----------------------------------------------------------------------------
(* The invariant, and what it says of the back end.                        *)
LEMMA ExecInvInit == Init => ExecInv
<1> SUFFICES ASSUME Init PROVE ExecInv
  OBVIOUS
<1>1. TypeOK /\ ReserveInv
  BY ExecTypeInit, ReserveInit
<1>2. /\ lsq = {} /\ lsb = <<>> /\ ~lsbOut.valid /\ ~s2.valid
      /\ \A u \in QueueNames, i \in Slots : ~queue[u][i].valid
      /\ opAt = [t \in RobTags |-> "INT"]
  BY DEF Init, NoResult, Stage2Empty, EmptyQueue, NoEntry
<1>3. /\ ~alu.valid /\ ~alu.mispredicted /\ ~div.valid /\ ~divDone
      /\ grant.unit \notin QueueNames
      /\ \A i \in MulSlots : ~mul[i].valid
  BY DEF Init, UnitsInit, NoAlu, NoResult, NoGrant, QueueNames
<1>4. \A k, x, t : ~At(k, x, t)
  BY <1>2, <1>3 DEF At
<1>5. RobInit
  BY DEF Init
<1>6. RobCount = 0 /\ \A t \in RobTags : rob[t].kind \in {"ALU", "BRANCH", "LOAD"}
  BY <1>5, SizeAssumption DEF RobInit, RobCount, Dist
<1>7. CountInv
  BY <1>2, <1>6, SizeAssumption DEF CountInv
<1>8. LiveTags = {}
  <2>1. LiveByDepth
    BY <1>1, <1>7, LiveTagsByDepth
  <2>2. \A t \in RobTags : Depth(t) \in 0 .. ROB_DEPTH - 1
    BY <1>1, <1>7, DepthFacts DEF TypeOK, CountInv
  <2> QED
    BY <2>1, <2>2, <1>6 DEF LiveByDepth
<1>9. Pending = {}
  BY <1>8 DEF Pending
<1>10. RoomInv
  BY <1>2, FS_EmptySet, QueueAssumption DEF RoomInv, Stage2FindsSlot
<1>11. OpInv /\ HomeInv /\ UniqueInv /\ PresentInv /\ WaitInv
  BY <1>2, <1>3, <1>4, <1>9 DEF OpInv, HomeInv, UniqueInv, PresentInv, WaitInv
<1> QED
  BY <1>1, <1>7, <1>9, <1>10, <1>11 DEF ExecInv

(* The invariant is inductive as long as no division meets a flush.        *)
LEMMA ExecInvStep ==
  TypeOK /\ ExecInv /\ NoDivAtFlush /\ [Next]_vars => (TypeOK /\ ExecInv)'
<1> SUFFICES ASSUME TypeOK, NoDivAtFlush, ExecInv, [Next]_vars PROVE TypeOK' /\ ExecInv'
  OBVIOUS
<1>0. /\ ReserveInv /\ RoomInv /\ CountInv /\ OpInv
      /\ HomeInv /\ UniqueInv /\ PresentInv /\ WaitInv
  BY DEF ExecInv
<1>1. ASSUME NEW offer \in Offers, NEW missing \in Missing,
             NEW mispredicted \in Outcomes, NEW finished \in Finished,
             Cycle(offer, missing, mispredicted, finished)
      PROVE  TypeOK' /\ ExecInv'
  <2>1. TypeOK' /\ ReserveInv' /\ RoomInv'
    BY <1>0, <1>1, ExecTypeStep, ReserveStep, RoomStep
  <2>2. CountInv' /\ OpInv'
    BY <1>0, <1>1, TagStep, OpStep
  <2>3. HomeInv' /\ UniqueInv' /\ PresentInv' /\ WaitInv'
    BY <1>0, <1>1, HomeStep, UniqueStep, PresentStep, WaitStep
  <2> QED
    BY <2>1, <2>2, <2>3 DEF ExecInv
<1>2. CASE UNCHANGED vars
  <2>1. TypeOK'
    BY <1>2 DEF vars, robVars, unitVars, TypeOK, RobTypeOK, UnitsTypeOK
  <2>2. \A k, x, t : At(k, x, t)' <=> At(k, x, t)
    BY <1>2 DEF vars, unitVars, At
  <2>3. /\ \A t : Depth(t)' = Depth(t)
        /\ LiveTags' = LiveTags /\ Pending' = Pending /\ RobCount' = RobCount
        /\ InFlight' = InFlight
    BY <1>2 DEF vars, robVars, Depth, LiveTags, Pending, RobCount, InFlight, RobTop,
                RobBottom
  <2>4. RoomInv'
    BY <1>0, <1>2 DEF vars, RoomInv, Stage2FindsSlot, VacantIn, Vacant
  <2>5. ReserveInv' /\ CountInv' /\ OpInv'
    BY <1>0, <1>2, <2>3 DEF vars, unitVars, robVars, ReserveInv, OneResult, CountInv,
                            OpInv
  <2>6. HomeInv' /\ UniqueInv' /\ PresentInv'
    BY <1>0, <1>2, <2>2, <2>3 DEF vars, HomeInv, UniqueInv, PresentInv, Fits, Zombie
  <2>7. WaitInv'
    BY <1>0, <1>2, <2>3 DEF vars, WaitInv
  <2> QED
    BY <2>1, <2>4, <2>5, <2>6, <2>7 DEF ExecInv
<1> QED
  BY <1>1, <1>2 DEF Next


(* The invariant, for every size of the machine and every mix of classes.  *)
THEOREM ExecInvariant == Spec /\ []NoDivAtFlush => [](TypeOK /\ ExecInv)
<1>1. Init => TypeOK /\ ExecInv
  BY ExecTypeInit, ExecInvInit
<1>2. TypeOK /\ ExecInv /\ NoDivAtFlush /\ [Next]_vars => (TypeOK /\ ExecInv)'
  BY ExecInvStep
<1> QED
  BY <1>1, <1>2, PTL DEF Spec

(* The places of an instruction are those the invariant speaks of.         *)
PlacesAreAt ==
  \A t, p : p \in PlacesOf(t) <=> \E k, x : p = <<k, x>> /\ At(k, x, t)

(* Proved kind of place by kind of place.                                  *)
LEMMA PlacesByAt == PlacesAreAt
<1> SUFFICES ASSUME NEW t, NEW p
             PROVE  p \in PlacesOf(t) <=> \E k, x : p = <<k, x>> /\ At(k, x, t)
  BY DEF PlacesAreAt
<1>1. ASSUME p \in PlacesOf(t) PROVE \E k, x : p = <<k, x>> /\ At(k, x, t)
  <2>1. CASE p \in {q \in QueueNames \X Slots :
                      queue[q[1]][q[2]].valid /\ queue[q[1]][q[2]].tag = t}
    <3>1. p = <<p[1], p[2]>> /\ At(p[1], p[2], t)
      BY <2>1 DEF At
    <3> QED
      BY <3>1
  <2>2. CASE p \in {<<"GRANT", u>> :
                      u \in {v \in QueueNames : grant.unit = v /\ grant.tag = t}}
    BY <2>2 DEF At
  <2>3. CASE p \in {<<"ALU", 0>> : r \in {x \in {alu} : x.valid /\ x.tag = t}}
    BY <2>3 DEF At
  <2>4. CASE p \in {<<"MUL_PIPE", i>> :
                      i \in {j \in MulSlots : mul[j].valid /\ mul[j].tag = t}}
    BY <2>4 DEF At
  <2>5. CASE p \in {<<"DIV_UNIT", 0>> :
                      d \in {x \in {div} : (x.valid \/ divDone) /\ x.tag = t}}
    BY <2>5 DEF At
  <2>6. CASE p \in {<<"LSQ", 0>> : x \in lsq \cap {t}}
    BY <2>6 DEF At
  <2>7. CASE p \in {<<"LSB", i>> : i \in {j \in DOMAIN lsb : lsb[j] = t}}
    BY <2>7 DEF At
  <2>8. CASE p \in {<<"LSB_OUT", 0>> : r \in {x \in {lsbOut} : x.valid /\ x.tag = t}}
    BY <2>8 DEF At
  <2> QED
    BY <1>1, <2>1, <2>2, <2>3, <2>4, <2>5, <2>6, <2>7, <2>8 DEF PlacesOf
<1>2. ASSUME NEW k, NEW x, p = <<k, x>>, At(k, x, t) PROVE p \in PlacesOf(t)
  <2>1. CASE k \in QueueNames /\ x \in Slots /\ queue[k][x].valid /\ queue[k][x].tag = t
    BY <1>2, <2>1 DEF PlacesOf
  <2>2. CASE k = "GRANT" /\ x \in QueueNames /\ grant.unit = x /\ grant.tag = t
    BY <1>2, <2>2 DEF PlacesOf
  <2>3. CASE k = "ALU" /\ x = 0 /\ alu.valid /\ alu.tag = t
    BY <1>2, <2>3 DEF PlacesOf
  <2>4. CASE k = "MUL_PIPE" /\ x \in MulSlots /\ mul[x].valid /\ mul[x].tag = t
    BY <1>2, <2>4 DEF PlacesOf
  <2>5. CASE k = "DIV_UNIT" /\ x = 0 /\ (div.valid \/ divDone) /\ div.tag = t
    BY <1>2, <2>5 DEF PlacesOf
  <2>6. CASE k = "LSQ" /\ x = 0 /\ t \in lsq
    BY <1>2, <2>6 DEF PlacesOf
  <2>7. CASE k = "LSB" /\ x \in DOMAIN lsb /\ lsb[x] = t
    BY <1>2, <2>7 DEF PlacesOf
  <2>8. CASE k = "LSB_OUT" /\ x = 0 /\ lsbOut.valid /\ lsbOut.tag = t
    BY <1>2, <2>8 DEF PlacesOf
  <2> QED
    BY <1>2, <2>1, <2>2, <2>3, <2>4, <2>5, <2>6, <2>7, <2>8 DEF At
<1> QED
  BY <1>1, <1>2

(* OnePlace: a pending instruction is in exactly one place, a completed    *)
(* one in none.                                                            *)
THEOREM EveryInstructionInOnePlace == Spec /\ []NoDivAtFlush => []OnePlace
<1>1. TypeOK /\ ExecInv => OnePlace
  <2> SUFFICES ASSUME TypeOK, ExecInv, NEW t \in LiveTags
               PROVE  Cardinality(PlacesOf(t)) = IF rob[t].compl THEN 0 ELSE 1
    BY DEF OnePlace
  <2>1. CASE rob[t].compl
    <3>1. \A k, x : ~At(k, x, t)
      BY <2>1 DEF ExecInv, HomeInv, Pending, Zombie
    <3>2. PlacesOf(t) = {}
      BY <3>1, PlacesByAt DEF PlacesAreAt
    <3> QED
      BY <2>1, <3>2, FS_EmptySet
  <2>2. CASE ~rob[t].compl
    <3>1. PICK k, x : At(k, x, t)
      BY <2>2 DEF ExecInv, PresentInv, Pending
    <3>2. \A a, b : At(a, b, t) => <<a, b>> = <<k, x>>
      BY <3>1 DEF ExecInv, UniqueInv
    <3>3. PlacesOf(t) = {<<k, x>>}
      BY <3>1, <3>2, PlacesByAt DEF PlacesAreAt
    <3> QED
      BY <2>2, <3>3, FS_Singleton
  <2> QED
    BY <2>1, <2>2
<1>2. Spec /\ []NoDivAtFlush => [](TypeOK /\ ExecInv)
  BY ExecInvariant
<1> QED
  BY <1>1, <1>2, PTL

(* NoLostWakeup: every operand an entry waits for is still to come.        *)
THEOREM WaitsAreAnswered == Spec /\ []NoDivAtFlush => []NoLostWakeup
<1>1. TypeOK /\ ExecInv => NoLostWakeup
  BY DEF ExecInv, WaitInv, NoLostWakeup
<1>2. Spec /\ []NoDivAtFlush => [](TypeOK /\ ExecInv)
  BY ExecInvariant
<1> QED
  BY <1>1, <1>2, PTL

(* OlderSurvivesFlush: a flush leaves the instructions older than the      *)
(* branch where they are.  A division that reaches the divider in the very *)
(* cycle of a flush is the only instruction that can be lost.              *)
THEOREM FlushSparesTheOlder == Spec /\ []NoDivAtFlush => OlderSurvivesFlush
<1>1. TypeOK /\ ExecInv /\ NoDivAtFlush /\ [Next]_vars =>
        [Cdb.flush => \A t \in Pending : Depth(t) < Depth(Cdb.tag) /\ t # Cdb.tag =>
                                  PlacesOf(t) = {} \/ PlacesOf(t)' # {}]_vars
  <2> SUFFICES ASSUME TypeOK, ExecInv, NoDivAtFlush, Next, Cdb.flush,
                      NEW CONSTANT t \in Pending,
                      Depth(t) < Depth(Cdb.tag), t # Cdb.tag
               PROVE  PlacesOf(t)' # {}
    OBVIOUS
  <2>1. PICK offer \in Offers, missing \in Missing,
             mispredicted \in Outcomes, finished \in Finished :
          Cycle(offer, missing, mispredicted, finished)
    BY DEF Next
  <2>2. t \in RobTags
    BY LiveTagsTyped DEF LiveAreTags
  <2>3. Depth(t) \in Int /\ Depth(Cdb.tag) \in Int
    BY <2>2, CdbTypes, DepthFacts DEF TypeOK, ExecInv, CountInv
  <2>4. ~Flushed(t, Cdb)
    BY <2>3 DEF Flushed
  <2>5. t \in Pending'
    BY <2>1, <2>2, <2>4, TagStep DEF ExecInv
  <2>6. PresentInv'
    BY ExecInvStep DEF ExecInv
  <2>7. PICK k, x : At(k, x, t)'
    BY <2>5, <2>6 DEF PresentInv
  <2>8. PlacesAreAt'
    BY PlacesByAt, PTL
  <2> QED
    BY <2>7, <2>8 DEF PlacesAreAt
<1>2. Spec /\ []NoDivAtFlush => [](TypeOK /\ ExecInv)
  BY ExecInvariant
<1> QED
  BY <1>1, <1>2, PTL DEF Spec, OlderSurvivesFlush

-----------------------------------------------------------------------------
(* The hypothesis is true of every mix of classes that keeps branches and  *)
(* divisions apart.                                                        *)
DivApart == \A m \in Mixes : ~({"BRANCH", "DIV"} \subseteq m)
MixInv == ~({"BRANCH", "DIV"} \subseteq InFlight)

(* The classes in flight after a cycle were in flight before it, or are    *)
(* the one that fetch was allowed to add.                                  *)
LEMMA MixStep ==
  ASSUME DivApart, TypeOK, ReserveInv, CountInv, OpInv, HomeInv, MixInv,
         NEW offer \in Offers, NEW missing \in Missing,
         NEW mispredicted \in Outcomes, NEW finished \in Finished,
         Cycle(offer, missing, mispredicted, finished)
  PROVE  MixInv'
<1> DEFINE next == InFlight \cup (IF offer.valid THEN {offer.op} ELSE {})
<1>1. InFlight' \subseteq next
  <2>1. ASSUME NEW t \in LiveTags' PROVE opAt'[t] \in InFlight
    <3>1. t \in RobTags
      <4>1. LiveAreTags'
        BY LiveTagsTyped, PTL
      <4> QED
        BY <4>1 DEF LiveAreTags
    <3>2. CASE t \in LiveTags /\ ~(FiresNow /\ t = RobBottom)
      BY <3>1, <3>2, TagStep DEF InFlight
    <3>3. CASE FiresNow /\ t = RobBottom
      BY <3>1, <3>3, TagStep DEF InFlight, FiresNow
    <3> QED
      BY <3>1, <3>2, <3>3, TagStep
  <2>2. s2' = offer
    BY CycleParts
  <2> QED
    BY <2>1, <2>2 DEF InFlight
<1>2. ~({"BRANCH", "DIV"} \subseteq next)
  <2>1. CASE offer.valid
    <3>1. PICK m \in Mixes : InFlight \cup {offer.op} \subseteq m
      BY <2>1, ExecInputs
    <3> QED
      BY <2>1, <3>1 DEF DivApart
  <2>2. CASE ~offer.valid
    BY <2>2 DEF MixInv
  <2> QED
    BY <2>1, <2>2
<1> QED
  BY <1>1, <1>2 DEF MixInv

(* A flush comes from a pending branch, and a granted division is pending. *)
LEMMA MixedNever ==
  ASSUME TypeOK, ExecInv, MixInv
  PROVE  NoDivAtFlush
<1> SUFFICES ASSUME Cdb.flush, grant.unit = "DIV" PROVE FALSE
  BY DEF NoDivAtFlush
<1>1. \A t \in Pending : opAt[t] \in InFlight
  BY DEF Pending, InFlight
<1>2. "BRANCH" \in InFlight
  BY <1>1, FlushIsOfBranch DEF ExecInv
<1>3. At("GRANT", "DIV", grant.tag)
  BY DEF At, QueueNames
<1>4. grant.tag \in Pending /\ QueueOf(opAt[grant.tag]) = "DIV"
  BY <1>3 DEF ExecInv, HomeInv, Zombie, Fits, QueueNames
<1>5. opAt[grant.tag] = "DIV"
  BY <1>4 DEF QueueOf
<1> QED
  BY <1>1, <1>2, <1>4, <1>5 DEF MixInv

(* Divisions apart from branches never reach the divider in a flush.       *)
THEOREM DivisionsMeetNoFlush == DivApart => (Spec => []NoDivAtFlush)
<1> SUFFICES ASSUME DivApart PROVE Spec => []NoDivAtFlush
  OBVIOUS
<1>1. Init => TypeOK /\ ExecInv /\ MixInv
  <2>1. Init => MixInv
    <3> SUFFICES ASSUME Init PROVE MixInv
      OBVIOUS
    <3>1. opAt = [t \in RobTags |-> "INT"] /\ ~s2.valid
      BY DEF Init, Stage2Empty
    <3>2. \A t \in LiveTags : t \in RobTags
      BY LiveTagsTyped DEF LiveAreTags
    <3>3. "BRANCH" \notin InFlight
      BY <3>1, <3>2 DEF InFlight
    <3> QED
      BY <3>3 DEF MixInv
  <2> QED
    BY <2>1, ExecTypeInit, ExecInvInit
<1>2. TypeOK /\ ExecInv /\ MixInv /\ [Next]_vars => (TypeOK /\ ExecInv /\ MixInv)'
  <2> SUFFICES ASSUME TypeOK, ExecInv, MixInv, [Next]_vars
               PROVE  TypeOK' /\ ExecInv' /\ MixInv'
    OBVIOUS
  <2>1. TypeOK' /\ ExecInv'
    BY MixedNever, ExecInvStep
  <2>2. CASE Next
    <3>1. PICK offer \in Offers, missing \in Missing,
               mispredicted \in Outcomes, finished \in Finished :
            Cycle(offer, missing, mispredicted, finished)
      BY <2>2 DEF Next
    <3>2. /\ ReserveInv /\ CountInv /\ OpInv /\ HomeInv
      BY DEF ExecInv
    <3>3. MixInv'
      BY <3>1, <3>2, MixStep
    <3> QED
      BY <2>1, <3>3
  <2>3. CASE UNCHANGED vars
    <3>1. InFlight' = InFlight
      BY <2>3 DEF vars, robVars, InFlight, LiveTags
    <3> QED
      BY <2>1, <3>1 DEF MixInv
  <2> QED
    BY <2>1, <2>2, <2>3
<1>3. TypeOK /\ ExecInv /\ MixInv => NoDivAtFlush
  BY MixedNever
<1> QED
  BY <1>1, <1>2, <1>3, PTL DEF Spec

(* So for those mixes nothing is assumed.                                  *)
THEOREM BackEndByMix == DivApart => (Spec => [](OnePlace /\ NoLostWakeup))
BY DivisionsMeetNoFlush, EveryInstructionInOnePlace, WaitsAreAnswered, PTL

=============================================================================
