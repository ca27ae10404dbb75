----------------------------- MODULE ExecUnits -----------------------------
(***************************************************************************)
(* ISSUEUNIT.sv, ALU.sv, MUL.sv and DIV.sv: who may issue in a cycle, and  *)
(* the execution units.  Results have no handshake on the CDB; the issue   *)
(* unit keeps them apart by reserving the cycle in which each will arrive. *)
(***************************************************************************)
EXTENDS IssueQueue

CONSTANTS MUL_CYCLES, DIV_CYCLES

(* The two assertions of ISSUEUNIT.sv.                                     *)
ASSUME CyclesAssumption ==
  /\ MUL_CYCLES \in Nat /\ MUL_CYCLES > 1
  /\ DIV_CYCLES \in Nat /\ DIV_CYCLES > MUL_CYCLES

VARIABLES
  divCount,  (* div_complete_counter                                       *)
  mulDone,   (* mul_complete_counter, a shift register                     *)
  intFirst,  (* priority_int_ld_st                                         *)
  grant,     (* exe_int_grant, exe_mul_grant, exe_div_grant with the       *)
             (* payload of the granted entry, or issue_ld_buf_reg.         *)
  alu,       (* The result register of the ALU.                            *)
  mul,       (* The pipeline of the multiplier.                            *)
  div,       (* The divider; timer counts the steps of DW_div_seq left.    *)
  divDone    (* exe_result_valid of the divider                            *)

unitVars == <<divCount, mulDone, intFirst, grant, alu, mul, div, divDone>>

MulSlots == 0 .. MUL_CYCLES - 1
Units == QueueNames \cup {"LSB", "NONE"}
NoGrant == [unit |-> "NONE", tag |-> 0, op |-> "INT"]
NoResult == [valid |-> FALSE, tag |-> 0]
NoAlu == [valid |-> FALSE, tag |-> 0, op |-> "INT", mispredicted |-> FALSE]

UnitsTypeOK ==
  /\ divCount \in 0 .. DIV_CYCLES + 1
  /\ mulDone \in [MulSlots -> BOOLEAN]
  /\ intFirst \in BOOLEAN
  /\ grant \in [unit : Units, tag : RobTags, op : Ops]
  /\ alu \in [valid : BOOLEAN, tag : RobTags, op : Ops, mispredicted : BOOLEAN]
  /\ mul \in [MulSlots -> [valid : BOOLEAN, tag : RobTags]]
  /\ div \in [busy : BOOLEAN, valid : BOOLEAN, tag : RobTags, timer : 0 .. DIV_CYCLES]
  /\ divDone \in BOOLEAN

UnitsInit ==
  /\ divCount = 0
  /\ mulDone = [i \in MulSlots |-> FALSE]
  /\ intFirst = FALSE
  /\ grant = NoGrant
  /\ alu = NoAlu
  /\ mul = [i \in MulSlots |-> NoResult]
  /\ div = [busy |-> FALSE, valid |-> FALSE, tag |-> 0, timer |-> 0]
  /\ divDone = FALSE

(* Mutant of Issued: a 1-cycle issue ignores the multiplication that will  *)
(* be done in the same cycle.                                              *)
IssuedIgnoringMul(ready) ==
  IF ready["DIV"] /\ ~div.busy /\ divCount = 0 THEN "DIV"
  ELSE IF ready["MUL"] /\ divCount # MUL_CYCLES THEN "MUL"
  ELSE IF divCount # 1 /\ ready["INT"] /\ (intFirst \/ ~ready["LSB"]) THEN "INT"
  ELSE IF divCount # 1 /\ ready["LSB"] THEN "LSB"
  ELSE "NONE"

(* What issues in this cycle.  A division goes first, then a               *)
(* multiplication unless a division will be done together with it; an ALU  *)
(* operation and the load buffer take turns, in cycles whose result slot   *)
(* nothing else has reserved.                                              *)
Issued(ready) ==
  LET slotFree == divCount # 1 /\ ~mulDone[1]
  IN IF ready["DIV"] /\ ~div.busy /\ divCount = 0 THEN "DIV"
     ELSE IF ready["MUL"] /\ divCount # MUL_CYCLES THEN "MUL"
     ELSE IF slotFree /\ ready["INT"] /\ (intFirst \/ ~ready["LSB"]) THEN "INT"
     ELSE IF slotFree /\ ready["LSB"] THEN "LSB"
     ELSE "NONE"

IssueUnitClock(issued) ==
  /\ divCount' = IF issued = "DIV" THEN DIV_CYCLES + 1
                 ELSE IF divCount > 0 THEN divCount - 1 ELSE 0
  /\ mulDone' = [i \in MulSlots |-> IF i = MUL_CYCLES - 1 THEN issued = "MUL"
                                    ELSE mulDone[i + 1]]
  /\ intFirst' = IF issued \in {"INT", "LSB"} THEN issued = "LSB" ELSE intFirst

(* The granted operation of a unit arrives in this cycle.                  *)
Arrives(unit) == grant.unit = unit

(* Mutant of AluClock: the arriving operation is not checked.              *)
AluClockNoKill(cdb, mispredicted) ==
  alu' = IF Arrives("INT")
           THEN [valid |-> TRUE, tag |-> grant.tag, op |-> grant.op,
                 mispredicted |-> mispredicted]
           ELSE NoAlu

(* The ALU drops an arriving operation that the CDB flushes.               *)
AluClock(cdb, mispredicted) ==
  alu' = IF Arrives("INT") /\ ~Flushed(grant.tag, cdb)
           THEN [valid |-> TRUE, tag |-> grant.tag, op |-> grant.op,
                 mispredicted |-> mispredicted]
           ELSE NoAlu

(* The multiplier moves on every cycle.  A flush kills the operations it   *)
(* holds, but the one that arrives in the cycle of the flush enters.       *)
MulClock(cdb) ==
  mul' = [i \in MulSlots |->
            IF i = 0
              THEN IF Arrives("MUL") THEN [valid |-> TRUE, tag |-> grant.tag]
                   ELSE NoResult
              ELSE IF mul[i - 1].valid /\ ~Flushed(mul[i - 1].tag, cdb)
                   THEN mul[i - 1] ELSE NoResult]

(* complete of DW_div_seq: DIV_CYCLES + 1 cycles after start, the latency  *)
(* that the reservation of the issue unit is made for.                     *)
DivComplete == div.timer = 0

(* The divider.  A flush looks only at the tag the divider holds, valid or *)
(* not, and when that is younger than the branch nothing is started.       *)
DivClock(cdb) ==
  LET killed == Flushed(div.tag, cdb)
      start == Arrives("DIV")
  IN /\ div' = [busy |-> start \/ (div.busy /\ ~DivComplete),
                valid |-> ~killed /\ (start \/ (div.valid /\ ~DivComplete)),
                tag |-> IF start /\ ~killed THEN grant.tag ELSE div.tag,
                timer |-> IF start THEN DIV_CYCLES
                          ELSE IF DivComplete THEN 0 ELSE div.timer - 1]
     /\ divDone' = (DivComplete /\ div.valid /\ ~killed)

=============================================================================
