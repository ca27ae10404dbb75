------------------------- MODULE ExecuteProperties -------------------------
(***************************************************************************)
(* What the back end owes the front end: every dispatched instruction is   *)
(* executed and broadcast exactly once, no two results meet on the CDB,    *)
(* and a flush removes the younger instructions and no others.             *)
(***************************************************************************)
EXTENDS Execute

(* All the places where an instruction in execution can be.                *)
PlacesOf(t) ==
  {p \in QueueNames \X Slots :
     queue[p[1]][p[2]].valid /\ queue[p[1]][p[2]].tag = t}
  \cup {<<"GRANT", u>> : u \in {v \in QueueNames : grant.unit = v /\ grant.tag = t}}
  \cup {<<"ALU", 0>> : r \in {x \in {alu} : x.valid /\ x.tag = t}}
  \cup {<<"MUL_PIPE", i>> : i \in {j \in MulSlots : mul[j].valid /\ mul[j].tag = t}}
  \cup {<<"DIV_UNIT", 0>> : d \in {x \in {div} : (x.valid \/ divDone) /\ x.tag = t}}
  \cup {<<"LSQ", 0>> : x \in lsq \cap {t}}
  \cup {<<"LSB", i>> : i \in {j \in DOMAIN lsb : lsb[j] = t}}
  \cup {<<"LSB_OUT", 0>> : r \in {x \in {lsbOut} : x.valid /\ x.tag = t}}

-----------------------------------------------------------------------------
(* Every instruction in flight that has not been broadcast is in exactly   *)
(* one place of the back end, and one that has been is in none: nothing is *)
(* lost, executed twice, or completed by the result of an instruction that *)
(* a flush removed.                                                        *)
OnePlace ==
  \A t \in LiveTags : Cardinality(PlacesOf(t)) = (IF rob[t].compl THEN 0 ELSE 1)

(* At most one unit has a result in any cycle: the assertions at the end   *)
(* of EXE.sv and CDB.sv.                                                   *)
CdbExclusive ==
  Cardinality({i \in 1 .. 4 : << mul[MUL_CYCLES - 1].valid, divDone, alu.valid,
                                 lsbOut.valid >>[i]}) <= 1

(* A waiting operand is one that an older instruction has still to         *)
(* broadcast; an entry that waits for anything else never issues.          *)
NoLostWakeup ==
  \A u \in QueueNames, i \in Slots :
    queue[u][i].valid =>
      \A p \in queue[u][i].waits :
        p \in Pending /\ Depth(p) < Depth(queue[u][i].tag)

(* The instruction in stage 2 finds a slot in its queue, whatever the      *)
(* queue did in the cycle between stage 1 and stage 2.                     *)
Stage2FindsSlot == s2.valid => VacantIn(QueueOf(s2.op)) > 0

(* The head of the ROB is executed and commits, whatever else the issue    *)
(* unit prefers.                                                           *)
HeadExecutes == []<>RobEmpty \/ []<><<robRead' # robRead>>_vars

-----------------------------------------------------------------------------
(* What the flush rules of the queues say and the issue queue test checks: *)
(* a flush removes the entries younger than the mispredicting branch, and  *)
(* the older ones survive.  A division that reaches the divider in the     *)
(* cycle of a flush is lost when the tag left there is a younger one.      *)
OlderSurvivesFlush ==
  [][Cdb.flush =>
       \A t \in Pending : Depth(t) < Depth(Cdb.tag) /\ t # Cdb.tag =>
                           PlacesOf(t) = {} \/ PlacesOf(t)' # {}]_vars

=============================================================================
