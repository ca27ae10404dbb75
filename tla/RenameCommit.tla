--------------------------- MODULE RenameCommit ---------------------------
(***************************************************************************)
(* CPU_FRONT_END.sv: register renaming, dispatch and in-order commit of    *)
(* the out-of-order core, wired together.  One step is one clock cycle:    *)
(* every component sees the registers of its neighbours before the edge    *)
(* and all of them move at once.  RRAT.sv and RBA.sv, one register array   *)
(* each, are modelled here.                                                *)
(*                                                                         *)
(* The inputs of a cycle are chosen freely: the instruction the fetch unit *)
(* offers, the completion the back end broadcasts on the common data bus   *)
(* (CDB), and what the store buffer and coherence controller report.  The  *)
(* back end is trusted to broadcast an instruction once, after its source  *)
(* is ready, and never one that a flush removed.                           *)
(***************************************************************************)
EXTENDS FreeList, Frat, ReorderBuffer, Dispatch

CONSTANT Instructions  (* The instructions a program may contain.          *)

ASSUME InstructionsAssumption == Instructions \subseteq Instrs

VARIABLES
  rrat,   (* rrat_array: the committed map.                                *)
  rdy,    (* prf_rdy_array: which physical registers hold their value.     *)
  iqSrc   (* The source register number that the issue queue holds for     *)
          (* the instruction of each ROB entry.                            *)

vars == <<frlVars, fratVars, robVars, dispatchVars, rrat, rdy, iqSrc>>

TypeOK ==
  /\ FrlTypeOK
  /\ FratTypeOK
  /\ RobTypeOK
  /\ DispatchTypeOK
  /\ rrat \in [ArchRegs -> PhyRegs]
  /\ rdy \in [PhyRegs -> BOOLEAN]
  /\ iqSrc \in [RobTags -> PhyRegs]

Init ==
  /\ FrlInit
  /\ FratInit
  /\ RobInit
  /\ DispatchInit
  /\ rrat = [r \in ArchRegs |-> r]
  /\ rdy = [p \in PhyRegs |-> p < ARCH_REG_COUNT]
  /\ iqSrc = [t \in RobTags |-> 0]

-----------------------------------------------------------------------------
(* Inputs of a cycle.                                                      *)

(* What the neighbours report to the stall rules of DISPATCH.              *)
ToDispatch == [robFull |-> RobFull, twoVacant |-> TwoOrMoreVacant,
               fratFull |-> FratFull, frlEmpty |-> FrlEmpty]

(* The fetch unit offers nothing, or an instruction with the prediction of *)
(* the branch predictor.  An offer that stage 1 stalls stays where it is   *)
(* and has the effect of no offer, so only the others are enumerated.      *)
Nothing == [valid |-> FALSE, instr |-> [kind |-> "ILLEGAL", rd |-> 0, rs |-> 0],
            taken |-> FALSE]
FetchInputs ==
  {Nothing} \cup
  {f \in [valid : {TRUE}, instr : Instructions, taken : BOOLEAN] :
     /\ f.taken => f.instr.kind = "BRANCH"
     /\ ~NormalStall(f.instr, ToDispatch)}

(* The entries the back end may complete: waiting, with the source ready.  *)
(* An illegal instruction enters no issue queue and is never completed.    *)
Completable ==
  {t \in LiveTags : /\ ~rob[t].compl
                    /\ rob[t].kind \notin RobOnlyKinds \cup {"ILLEGAL"}
                    /\ rdy[iqSrc[t]]}

(* Whether a completion flushes: a conditional branch or a return may turn *)
(* out mispredicted, the other indirect jumps always redirect.             *)
Flushes(kind) == IF kind \in JrKinds THEN {TRUE}
                 ELSE IF kind \in CheckpointKinds THEN BOOLEAN
                 ELSE {FALSE}

(* An idle CDB carries tag 0.                                              *)
Idle == [valid |-> FALSE, tag |-> 0, flush |-> FALSE]
CdbInputs ==
  {Idle} \cup
  {c \in [valid : {TRUE}, tag : Completable, flush : BOOLEAN] :
     c.flush \in Flushes(rob[c.tag].kind)}

(* The store buffer and the coherence controller either let the head go or *)
(* hold it; which of their signals it waits for depends on the head.       *)
MemReady == [sbFull |-> FALSE, sbDrained |-> TRUE, cohDone |-> TRUE]
MemBusy == [sbFull |-> TRUE, sbDrained |-> FALSE, cohDone |-> FALSE]
MemInputs == IF RobHead.kind \in {"STORE", "FENCE", "FENCE_I"}
               THEN {MemReady, MemBusy} ELSE {MemReady}

-----------------------------------------------------------------------------
(* The wiring between the components.                                      *)
CombinedFlush(cdb, mem) == cdb.flush \/ TrapCommit(mem)
DispatchFlush(cdb, mem) == CombinedFlush(cdb, mem) \/ FenceICommit(mem)

(* The instruction stage 2 hands to the ROB and the FRAT.                  *)
Dispatched(fires) ==
  [kind |-> stage2.kind, rd |-> stage2.rd, rs |-> stage2.rs,
   rw |-> fires /\ stage2.rw, phy |-> frlRead, src |-> stage2.src,
   prev |-> stage2.prev, tag |-> RobBottom,
   branch |-> fires /\ stage2.kind \in CheckpointKinds]

RratClock(mem) ==
  rrat' = IF Commits(mem) /\ RobHead.rw
            THEN [rrat EXCEPT ![RobHead.rd] = RobHead.curr] ELSE rrat

(* Mutants of RbaClock: a new destination keeps its old ready bit; the     *)
(* result of a CSR instruction is never marked ready.                      *)
RbaClockNoClear(new, cdb, mem) ==
  rdy' = IF CsrWrite(mem) THEN [rdy EXCEPT ![RobHead.curr] = TRUE]
         ELSE IF cdb.valid /\ rob[cdb.tag].rw
           THEN [rdy EXCEPT ![rob[cdb.tag].curr] = TRUE]
         ELSE rdy
RbaClockNoCsr(new, cdb, mem) ==
  LET cleared == IF new.rw THEN [rdy EXCEPT ![new.phy] = FALSE] ELSE rdy
  IN rdy' = IF cdb.valid /\ rob[cdb.tag].rw
              THEN [cleared EXCEPT ![rob[cdb.tag].curr] = TRUE]
            ELSE cleared

(* The ready bit of a new destination is cleared; a CSR result has         *)
(* precedence over the CDB on the write port that sets ready bits.         *)
RbaClock(new, cdb, mem) ==
  LET cleared == IF new.rw THEN [rdy EXCEPT ![new.phy] = FALSE] ELSE rdy
  IN rdy' = IF CsrWrite(mem) THEN [cleared EXCEPT ![RobHead.curr] = TRUE]
            ELSE IF cdb.valid /\ rob[cdb.tag].rw
              THEN [cleared EXCEPT ![rob[cdb.tag].curr] = TRUE]
            ELSE cleared

(* One clock cycle.                                                        *)
Cycle(fetch, cdb, mem) ==
  LET dflush == DispatchFlush(cdb, mem)
      cflush == CombinedFlush(cdb, mem)
      fires == Stage2Fires(dflush)
      new == Dispatched(fires)
      read == /\ Stage1Valid(fetch, ToDispatch, dflush)
              /\ RegWrite(fetch.instr)
  IN /\ DispatchClock(fetch, ToDispatch, dflush, SerializingCommit(mem),
                      frat, frlRead)
     /\ FrlClock(Commits(mem) /\ RobHead.rw, RobHead.prev, cflush,
                 RestoredHead(cdb.tag, frlHead), read)
     /\ FratClock(new, frlHead, cdb.valid /\ cflush, cdb.tag,
                  Commits(mem), RobTop)
     /\ RobClock(fires, new, cdb, mem)
     /\ RratClock(mem)
     /\ RbaClock(new, cdb, mem)
     /\ iqSrc' = IF fires THEN [iqSrc EXCEPT ![RobBottom] = stage2.src]
                 ELSE iqSrc

Next == \E fetch \in FetchInputs, cdb \in CdbInputs, mem \in MemInputs :
          Cycle(fetch, cdb, mem)

Spec == Init /\ [][Next]_vars

(* The clock runs, so stage 2 fires; the back end completes what it can;   *)
(* and the store buffer and the caches do not hold the head for ever.      *)
Stage2Moves == stage2.valid /\ Next
Completes(t) ==
  /\ t \in Completable
  /\ \E f \in Flushes(rob[t].kind), mem \in MemInputs, fetch \in FetchInputs :
       Cycle(fetch, [valid |-> TRUE, tag |-> t, flush |-> f], mem)
HeadCommits ==
  /\ Commits(MemReady)
  /\ \E fetch \in FetchInputs, cdb \in CdbInputs : Cycle(fetch, cdb, MemReady)

FairSpec == /\ Spec
            /\ WF_vars(Stage2Moves)
            /\ \A t \in RobTags : WF_vars(Completes(t))
            /\ WF_vars(HeadCommits)

=============================================================================
