----------------------------- MODULE IssueQueue -----------------------------
(***************************************************************************)
(* INTQ.sv, MULQ.sv and DIVQ.sv: the three issue queues, one design.  A    *)
(* queue is a small set of slots; an entry waits until the CDB has         *)
(* broadcast its operands, is granted by the issue unit and leaves.  The   *)
(* queues are values here, the state is in module Execute.                 *)
(*                                                                         *)
(* A physical register is named by the ROB tag of the instruction that     *)
(* writes it: free list and ROB are allocated and rolled back together, so *)
(* among live instructions the names are one to one.                       *)
(***************************************************************************)
EXTENDS ReorderBuffer, FiniteSets, FiniteSetsExt

CONSTANT QUEUE_DEPTH  (* ISSUE_QUEUE_DEPTH                                 *)

ASSUME QueueAssumption == QUEUE_DEPTH \in Nat \ {0, 1}

(* The classes of instruction the back end treats differently.             *)
Ops == {"INT", "BRANCH", "MUL", "DIV", "LOAD"}
QueueNames == {"INT", "MUL", "DIV"}
QueueOf(op) == IF op = "BRANCH" THEN "INT" ELSE op
WritesRegister(op) == op # "BRANCH"

Slots == 0 .. QUEUE_DEPTH - 1
QueueEntry == [valid : BOOLEAN, tag : RobTags, op : Ops, waits : SUBSET RobTags]
NoEntry == [valid |-> FALSE, tag |-> 0, op |-> "INT", waits |-> {}]
EmptyQueue == [i \in Slots |-> NoEntry]

Vacant(q) == {i \in Slots : ~q[i].valid}

(* The operands still missing when this cycle's broadcast is taken in.     *)
Waiting(waits, cdb) == waits \ (IF cdb.valid /\ cdb.rw THEN {cdb.tag} ELSE {})

(* The entries that can issue in this cycle, and the one selected: the one *)
(* in the lowest slot.                                                     *)
ReadySlots(q, cdb) == {i \in Slots : q[i].valid /\ Waiting(q[i].waits, cdb) = {}}
HasReady(q, cdb) == ReadySlots(q, cdb) # {} /\ ~cdb.flush
Selected(q, cdb) == Min(ReadySlots(q, cdb))

(* Mutant of QueueClock: an operand broadcast in the cycle of dispatch is  *)
(* missed.                                                                 *)
QueueClockMissed(q, cdb, issue, new) ==
  LET kept == [i \in Slots |->
                 IF ~q[i].valid \/ Flushed(q[i].tag, cdb)
                      \/ (issue /\ i = Selected(q, cdb))
                   THEN NoEntry
                   ELSE [q[i] EXCEPT !.waits = Waiting(q[i].waits, cdb)]]
  IN IF new.valid /\ Vacant(q) # {} /\ ~cdb.flush
       THEN [kept EXCEPT ![Min(Vacant(q))] = new]
       ELSE kept

(* One clock edge: operands wake up, the younger entries leave on a flush, *)
(* the selected one leaves when granted, and the dispatched instruction    *)
(* new enters the lowest slot that was free, with the operand that is      *)
(* broadcast in this very cycle already there.                             *)
QueueClock(q, cdb, issue, new) ==
  LET kept == [i \in Slots |->
                 IF ~q[i].valid \/ Flushed(q[i].tag, cdb)
                      \/ (issue /\ i = Selected(q, cdb))
                   THEN NoEntry
                   ELSE [q[i] EXCEPT !.waits = Waiting(q[i].waits, cdb)]]
  IN IF new.valid /\ Vacant(q) # {} /\ ~cdb.flush
       THEN [kept EXCEPT ![Min(Vacant(q))] =
               [new EXCEPT !.waits = Waiting(new.waits, cdb)]]
       ELSE kept

=============================================================================
