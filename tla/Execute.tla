------------------------------ MODULE Execute ------------------------------
(***************************************************************************)
(* CPU_BACK_END.sv with the dispatch stages and the ROB around it: every   *)
(* instruction goes from stage 2 into an issue queue (or the load/store    *)
(* queue), is granted, executed and broadcast on the CDB, and commits.     *)
(* One step is one clock cycle.                                            *)
(*                                                                         *)
(* The inputs of a cycle are the instruction that fetch offers, the        *)
(* operands that the one in stage 2 has to wait for, the outcome of a      *)
(* branch that enters the ALU, and the memory operation that the load and  *)
(* store path finishes.  That path (LSQ.sv, the load slot of LSB.sv, the   *)
(* cache) is a set of operations that end in any order; the LSB buffer     *)
(* behind it is modelled.                                                  *)
(***************************************************************************)
EXTENDS ExecUnits, Compaction

CONSTANTS
  LSB_DEPTH,  (* Entries of the load/store buffer.                         *)
  SOURCES,    (* Source operands an instruction can wait for.              *)
  REFETCH,    (* Cycles after a flush in which fetch offers nothing.       *)
  Mixes       (* Sets of classes of instruction that may be in flight      *)
              (* together.                                                 *)

(* The fetch queue restarts empty after a flush; the new address passes    *)
(* the fetch unit and the instruction cache before stage 1 sees an         *)
(* instruction of the right path.                                          *)
ASSUME ExecAssumption ==
  /\ LSB_DEPTH \in Nat \ {0}
  /\ SOURCES \in {1, 2}
  /\ REFETCH \in Nat /\ REFETCH >= MUL_CYCLES - 1
  /\ Mixes \subseteq SUBSET Ops

VARIABLES
  queue,    (* The three issue queues.                                     *)
  lsq,      (* Tags of the memory operations not yet in the LSB buffer.    *)
  lsb,      (* The LSB buffer, a FIFO of tags.                             *)
  lsbOut,   (* lsb_ready and lsb_rob_tag                                   *)
  s2,       (* The instruction in dispatch stage 2.                        *)
  refetch,  (* Cycles until fetch can offer an instruction again.          *)
  opAt      (* The class of the instruction in each ROB entry.             *)

vars == <<robVars, unitVars, queue, lsq, lsb, lsbOut, s2, refetch, opAt>>

Stage2Empty == [valid |-> FALSE, op |-> "INT"]

TypeOK ==
  /\ RobTypeOK
  /\ UnitsTypeOK
  /\ queue \in [QueueNames -> [Slots -> QueueEntry]]
  /\ lsq \subseteq RobTags
  /\ lsb \in Seq(RobTags) /\ Len(lsb) <= LSB_DEPTH
  /\ lsbOut \in [valid : BOOLEAN, tag : RobTags]
  /\ s2 \in [valid : BOOLEAN, op : Ops]
  /\ refetch \in 0 .. REFETCH
  /\ opAt \in [RobTags -> Ops]

Init ==
  /\ RobInit
  /\ UnitsInit
  /\ queue = [u \in QueueNames |-> EmptyQueue]
  /\ lsq = {}
  /\ lsb = <<>>
  /\ lsbOut = NoResult
  /\ s2 = Stage2Empty
  /\ refetch = 0
  /\ opAt = [t \in RobTags |-> "INT"]

-----------------------------------------------------------------------------
(* The broadcast of this cycle: the result mux of EXE.sv (the multiplier   *)
(* over the divider over the ALU), and EXE over the LSB in CDB.sv.         *)
Cdb ==
  LET last == mul[MUL_CYCLES - 1]
      exe == last.valid \/ divDone \/ alu.valid
  IN [valid |-> exe \/ lsbOut.valid,
      tag |-> IF last.valid THEN last.tag
              ELSE IF divDone THEN div.tag
              ELSE IF alu.valid THEN alu.tag
              ELSE lsbOut.tag,
      flush |-> alu.valid /\ alu.mispredicted,
      rw |-> IF last.valid \/ divDone THEN TRUE
             ELSE IF alu.valid THEN WritesRegister(alu.op)
             ELSE lsbOut.valid]

(* The instructions that have yet to broadcast.                            *)
Pending == {t \in LiveTags : ~rob[t].compl}

-----------------------------------------------------------------------------
(* Dispatch: issq_*_full and issq_*_two_or_more_vacant.                    *)
VacantIn(name) == IF name = "LOAD" THEN QUEUE_DEPTH - Cardinality(lsq)
                  ELSE Cardinality(Vacant(queue[name]))

(* Mutant of QueueStall: the entry that stage 2 is about to take is not    *)
(* counted.                                                                *)
QueueStallFullOnly(op) == VacantIn(QueueOf(op)) = 0

(* Stage 1 holds op back: its queue is full, or has one vacancy left and   *)
(* stage 2 is about to take it.                                            *)
QueueStall(op) ==
  \/ VacantIn(QueueOf(op)) = 0
  \/ /\ s2.valid
     /\ \/ VacantIn(QueueOf(s2.op)) = 0
        \/ QueueOf(s2.op) = QueueOf(op) /\ VacantIn(QueueOf(op)) < 2

InFlight == {opAt[t] : t \in LiveTags} \cup (IF s2.valid THEN {s2.op} ELSE {})

(* What stage 1 passes to stage 2: nothing, or an instruction that no stall *)
(* rule holds back.  Stage 1 is closed in a cycle that flushes.            *)
Offers ==
  {Stage2Empty} \cup
  {o \in [valid : {TRUE}, op : Ops] :
     /\ refetch = 0 /\ ~Cdb.flush
     /\ \E m \in Mixes : InFlight \cup {o.op} \subseteq m
     /\ ~RobFull /\ (TwoOrMoreVacant \/ ~s2.valid)
     /\ ~QueueStall(o.op)}

(* The operands of the instruction in stage 2 that RBA.sv reports missing: *)
(* results that instructions ahead of it have yet to broadcast, at most    *)
(* one for each source.  The broadcast of this cycle has not reached the   *)
(* ready bits.                                                             *)
Missing ==
  {m \in SUBSET {p \in Pending : s2.valid /\ WritesRegister(opAt[p])} :
     Cardinality(m) <= SOURCES}

Outcomes == IF grant.unit = "INT" /\ grant.op = "BRANCH" THEN BOOLEAN ELSE {FALSE}

(* Mutant of Finished: an operation enters although the buffer is full.    *)
FinishedAlways == {{}} \cup (IF ~Cdb.flush THEN {{t} : t \in lsq} ELSE {})

(* The memory operations that may enter the LSB buffer, or none.           *)
Finished == {{}} \cup (IF Len(lsb) < LSB_DEPTH /\ ~Cdb.flush
                         THEN {{t} : t \in lsq} ELSE {})

-----------------------------------------------------------------------------
(* The positions of the buffer whose entries a flush leaves there.         *)
Staying(cdb) == {i \in DOMAIN lsb : ~Flushed(lsb[i], cdb)}

(* The load/store buffer.  A flush keeps the older entries in order and    *)
(* withdraws the grant; otherwise the granted head goes to the output      *)
(* register and a finished operation enters.                               *)
LsbClock(cdb, finished) ==
  LET pop == grant.unit = "LSB" /\ lsb # <<>>
      rest == IF pop THEN Tail(lsb) ELSE lsb
  IN IF cdb.flush
       THEN /\ lsb' = Compacted(lsb, Staying(cdb))
            /\ lsbOut' = NoResult
       ELSE /\ lsb' = IF finished = {} THEN rest
                      ELSE Append(rest, CHOOSE t \in finished : TRUE)
            /\ lsbOut' = IF pop THEN [valid |-> TRUE, tag |-> Head(lsb)]
                         ELSE NoResult

(* One clock cycle.                                                        *)
Cycle(offer, missing, mispredicted, finished) ==
  LET cdb == Cdb
      fires == s2.valid /\ ~cdb.flush
      ready == [u \in QueueNames \cup {"LSB"} |->
                  IF u = "LSB" THEN lsb # <<>> /\ ~cdb.flush
                  ELSE HasReady(queue[u], cdb)]
      issued == Issued(ready)
      entry == [valid |-> TRUE, tag |-> RobBottom, op |-> s2.op, waits |-> missing]
      toRob == [kind |-> IF s2.op \in {"BRANCH", "LOAD"} THEN s2.op ELSE "ALU",
                rd |-> 0, rs |-> 0, rw |-> FALSE, phy |-> 0, src |-> 0, prev |-> 0]
  IN /\ RobClock(fires, toRob, cdb, [sbFull |-> FALSE, sbDrained |-> TRUE,
                                     cohDone |-> TRUE])
     /\ opAt' = IF fires THEN [opAt EXCEPT ![RobBottom] = s2.op] ELSE opAt
     /\ queue' = [u \in QueueNames |->
                    QueueClock(queue[u], cdb, issued = u,
                               IF fires /\ QueueOf(s2.op) = u THEN entry
                               ELSE NoEntry)]
     /\ lsq' = ({t \in lsq : ~Flushed(t, cdb)} \ finished)
                 \cup (IF fires /\ s2.op = "LOAD" THEN {RobBottom} ELSE {})
     /\ LsbClock(cdb, finished)
     /\ IssueUnitClock(issued)
     /\ grant' = IF issued \in QueueNames
                   THEN LET e == queue[issued][Selected(queue[issued], cdb)]
                        IN [unit |-> issued, tag |-> e.tag, op |-> e.op]
                 ELSE [NoGrant EXCEPT !.unit = issued]
     /\ AluClock(cdb, mispredicted)
     /\ MulClock(cdb)
     /\ DivClock(cdb)
     /\ s2' = offer
     /\ refetch' = IF cdb.flush THEN REFETCH
                   ELSE IF refetch > 0 THEN refetch - 1 ELSE 0

Next ==
  \E offer \in Offers, missing \in Missing,
     mispredicted \in Outcomes, finished \in Finished :
    Cycle(offer, missing, mispredicted, finished)

Spec == Init /\ [][Next]_vars

(* The clock runs and the memory system finishes every operation that      *)
(* keeps waiting while there is room for it.                               *)
Finishes(t) ==
  /\ {t} \in Finished
  /\ \E offer \in Offers, missing \in Missing,
        mispredicted \in Outcomes :
       Cycle(offer, missing, mispredicted, {t})

FairSpec == Spec /\ WF_vars(Next) /\ \A t \in RobTags : WF_vars(Finishes(t))

=============================================================================
