----------------------------- MODULE MCExecute -----------------------------
(***************************************************************************)
(* Small instances of ExecuteProperties for TLC.                           *)
(***************************************************************************)
EXTENDS ExecuteProperties

(* Branches and divisions do not go together, as the findings show; apart  *)
(* from each other they run with everything that shares the CDB with them. *)
Apart == {{"BRANCH", "MUL", "LOAD"}, {"INT", "MUL", "DIV", "LOAD"}}
BranchAndDiv == {{"BRANCH", "DIV"}}
Rivals == {{"BRANCH", "LOAD"}, {"INT", "LOAD"}, {"INT", "MUL"}}

(* The state with every ROB tag replaced by its distance from the head.    *)
(* The design computes with distances only, so states that differ by a     *)
(* rotation of the ROB have the same future up to that rotation.           *)
RelRes(r) == IF r.valid THEN <<Depth(r.tag)>> ELSE <<>>
ByDepth ==
  << RobCount,
     {<<Depth(t), rob[t].compl, WritesRegister(opAt[t]), {m \in Mixes : opAt[t] \in m}>> :
        t \in LiveTags},
     [u \in QueueNames |-> [i \in Slots |->
        LET e == queue[u][i]
        IN IF e.valid THEN <<Depth(e.tag), e.op, {Depth(w) : w \in e.waits}>>
           ELSE <<>>]],
     {Depth(t) : t \in lsq}, [i \in DOMAIN lsb |-> Depth(lsb[i])], RelRes(lsbOut),
     IF grant.unit \in QueueNames THEN <<grant.unit, Depth(grant.tag), grant.op>>
     ELSE <<grant.unit>>,
     <<RelRes(alu), alu.op, alu.mispredicted>>, [i \in MulSlots |-> RelRes(mul[i])],
     <<div.busy, div.valid, Depth(div.tag), div.timer, divDone>>,
     divCount, mulDone, intFirst, s2, refetch >>

=============================================================================
