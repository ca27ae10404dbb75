----------------------------- MODULE Dispatch -----------------------------
(***************************************************************************)
(* DISPATCH.sv: the two-stage dispatch pipeline.  Stage 1 takes a decoded  *)
(* instruction, reads the FRAT and starts the free-list read; stage 2, one *)
(* cycle later, fires unless the cycle flushes.  Stage 1 stalls by the     *)
(* rules of normal_stall; jr_stall and csr_stall hold it behind an         *)
(* indirect jump or a serializing instruction.                             *)
(***************************************************************************)
EXTENDS RenameParams

VARIABLES
  stage2,    (* The stage 1 to stage 2 register.                           *)
  jrStall,   (* jr_stall                                                   *)
  csrStall   (* csr_stall                                                  *)

dispatchVars == <<stage2, jrStall, csrStall>>

Stage2Entry == [valid : BOOLEAN, kind : Kinds, rd : ArchRegs, rs : ArchRegs,
                rw : BOOLEAN, src : PhyRegs, prev : PhyRegs, taken : BOOLEAN]

DispatchTypeOK ==
  /\ stage2 \in Stage2Entry
  /\ jrStall \in BOOLEAN
  /\ csrStall \in BOOLEAN

(* Stage 2 without an instruction.  The code keeps the old payload under a *)
(* cleared valid bit, which guards every use of it; the model drops it.    *)
Bubble == [valid |-> FALSE, kind |-> "ILLEGAL", rd |-> 0, rs |-> 0,
           rw |-> FALSE, src |-> 0, prev |-> 0, taken |-> FALSE]

DispatchInit ==
  /\ stage2 = Bubble
  /\ jrStall = FALSE
  /\ csrStall = FALSE

(* Stage 2 redirects the fetch (dis_jmpbr): the instruction now offered to *)
(* stage 1 is on the wrong path.                                           *)
Redirects ==
  \/ /\ stage2.valid
     /\ \/ stage2.kind \in {"JR31", "JAL"}
        \/ stage2.kind = "BRANCH" /\ stage2.taken
  \/ jrStall

(* Mutant of NormalStall: csr_stall does not stall.                        *)
NormalStallNoCsr(i, from) ==
  \/ from.robFull
  \/ ~from.twoVacant /\ stage2.valid
  \/ from.fratFull /\ i.kind = "BRANCH"
  \/ from.frlEmpty /\ RegWrite(i)
  \/ Redirects

(* normal_stall for the instruction i.  from tells what the neighbours     *)
(* report: robFull, twoVacant, fratFull, frlEmpty.                         *)
NormalStall(i, from) ==
  \/ from.robFull
  \/ ~from.twoVacant /\ stage2.valid
  \/ from.fratFull /\ i.kind = "BRANCH"
  \/ from.frlEmpty /\ RegWrite(i)
  \/ Redirects
  \/ csrStall

(* Stage 1 accepts the instruction that fetch offers.  fetch.valid is      *)
(* FALSE when the fetch queue is empty or being refilled, and when the     *)
(* issue queue of the instruction has no room.                             *)
Stage1Valid(fetch, from, flush) ==
  fetch.valid /\ ~NormalStall(fetch.instr, from) /\ ~flush

Stage2Fires(flush) == stage2.valid /\ ~flush

(* Mutant of Forward: no forwarding from stage 2.                          *)
ForwardNever(r, map, phy) == map[r]

(* A map lookup by stage 1 sees the register that stage 2 is renaming now, *)
(* before the FRAT has it.                                                 *)
Forward(r, map, phy) ==
  IF stage2.valid /\ stage2.rw /\ stage2.rd = r THEN phy ELSE map[r]

(* One clock edge.  map and phy are the FRAT and the register read from    *)
(* the free list; flush is dispatch_flush and released says a serializing  *)
(* instruction commits.                                                    *)
DispatchClock(fetch, from, flush, released, map, phy) ==
  LET i == fetch.instr
      accept == Stage1Valid(fetch, from, flush)
  IN /\ stage2' =
          IF accept
            THEN [valid |-> TRUE, kind |-> i.kind, rd |-> i.rd, rs |-> i.rs,
                  rw |-> RegWrite(i), src |-> Forward(i.rs, map, phy),
                  prev |-> Forward(i.rd, map, phy), taken |-> fetch.taken]
            ELSE Bubble
     /\ jrStall' = (~flush /\ (jrStall \/ (accept /\ i.kind \in JrKinds)))
     /\ csrStall' = /\ ~flush /\ ~released
                    /\ csrStall \/ (accept /\ i.kind \in SerializingKinds)

=============================================================================
