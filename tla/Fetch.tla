------------------------------- MODULE Fetch -------------------------------
(***************************************************************************)
(* The fetch queue (IFQ.sv) between the instruction cache and the first    *)
(* dispatch stage: sub-queues filled FETCH_INSTR_NUM at a time and read    *)
(* round robin, one request outstanding, and redirects that empty the      *)
(* queue and leave the response under way to be discarded.  Of dispatch    *)
(* there is what it tells the queue: dis_ren, and dis_jmpbr with its       *)
(* target (DISPATCH.sv).  One step is one clock cycle.                     *)
(*                                                                         *)
(* An instruction is its address; one requested before the last redirect   *)
(* is NoFetchAddr.  A sub-queue, which is a pointer FIFO, is a sequence.   *)
(***************************************************************************)
EXTENDS FetchPort, Naturals, Sequences

CONSTANTS
  PC_COUNT,         (* Addresses, in units of an instruction.              *)
  NUM_WAYS,         (* Sub-queues.                                         *)
  ONE_WAY_DEPTH,    (* OneWayDepth: room of a sub-queue.                   *)
  FETCH_INSTR_NUM,  (* OneTimeInstrNum: instructions of a response.        *)
  Targets           (* Where redirects go.                                 *)

(* IFQ_MAX_INSTR_NUM_ASSERTION in IFQ.sv, and positive parameters.         *)
ASSUME FetchAssumption ==
  /\ PC_COUNT \in Nat \ {0} /\ FetchAddrs = 0 .. PC_COUNT - 1
  /\ NUM_WAYS \in Nat \ {0} /\ ONE_WAY_DEPTH \in Nat \ {0}
  /\ FETCH_INSTR_NUM \in 1 .. NUM_WAYS
  /\ Targets \subseteq FetchAddrs

VARIABLES
  ways,         (* The sub-queues.                                         *)
  rdWay, wrWay, (* rd_way, wr_way                                          *)
  pc, imemPc,   (* Next to be read, next to be requested.                  *)
  outstanding,  (* outstanding_req                                         *)
  discard,      (* discard_req                                             *)
  wait,         (* ifq_wait_after_empty of dispatch                        *)
  jrStall,      (* jr_stall of dispatch: the target is not known yet.      *)
  target,       (* dis_jmpbr_addr in this cycle, NoFetchAddr if not valid. *)
  stale         (* History: the fetch under way is older than the last     *)
                (* redirect.                                               *)

vars == <<port, ways, rdWay, wrWay, pc, imemPc, outstanding, discard, wait,
          jrStall, target, stale>>

Ways == 0 .. NUM_WAYS - 1
After(addr, n) == (addr + n) % PC_COUNT

TypeOK ==
  /\ FetchPortTypeOK
  /\ ways \in [Ways -> Seq(FetchAddrs \cup {NoFetchAddr})]
  /\ \A w \in Ways : Len(ways[w]) <= ONE_WAY_DEPTH
  /\ rdWay \in Ways /\ wrWay \in Ways
  /\ pc \in FetchAddrs /\ imemPc \in FetchAddrs
  /\ outstanding \in BOOLEAN /\ discard \in BOOLEAN /\ wait \in BOOLEAN
  /\ jrStall \in BOOLEAN /\ stale \in BOOLEAN
  /\ target \in Targets \cup {NoFetchAddr}

Init ==
  /\ FetchPortInit
  /\ ways = [w \in Ways |-> <<>>] /\ rdWay = 0 /\ wrWay = 0
  /\ pc = 0 /\ imemPc = 0
  /\ outstanding = FALSE /\ discard = FALSE /\ wait = TRUE
  /\ jrStall = FALSE /\ target = NoFetchAddr /\ stale = FALSE

-----------------------------------------------------------------------------
Flush == target # NoFetchAddr
JmpBr == Flush \/ jrStall  (* dis_jmpbr                                    *)

(* full: a sub-queue that the next response writes is full.                *)
Full ==
  \E i \in 0 .. FETCH_INSTR_NUM - 1 : Len(ways[(wrWay + i) % NUM_WAYS]) = ONE_WAY_DEPTH
Empty == ways[rdWay] = <<>>

(* The handshakes with the cache.                                          *)
ReqFire(ready) == ~outstanding /\ ~Full /\ ~JmpBr /\ ready
RespReady == IF discard THEN RespValid ELSE ~Full /\ ~JmpBr
RespTaken == RespValid /\ RespReady
RespFire == RespTaken /\ ~discard

(* Dispatch reads an instruction: it does not stall for the queue, for a   *)
(* branch or for itself (hold).                                            *)
NormalStall(hold) == hold \/ Empty \/ JmpBr
Reads(hold) == ~NormalStall(hold) /\ ~wait

(* What the response under way brings for the way that is i-th in turn.    *)
Instr(i) == IF stale THEN NoFetchAddr ELSE After(port.addr, i)

-----------------------------------------------------------------------------
(* The sub-queues at a clock edge.  A full one takes nothing.              *)
WaysClock(hold) ==
  LET turn(w) == (w + NUM_WAYS - wrWay) % NUM_WAYS
      kept(w) == IF Reads(hold) /\ w = rdWay THEN Tail(ways[w]) ELSE ways[w]
  IN ways' = [w \in Ways |->
                IF Flush THEN <<>>
                ELSE IF RespFire /\ turn(w) < FETCH_INSTR_NUM /\ Len(ways[w]) < ONE_WAY_DEPTH
                  THEN Append(kept(w), Instr(turn(w)))
                ELSE kept(w)]

(* Mutant of RequestClock: a redirect while a response is discarded        *)
(* forgets that it has to be.                                              *)
RequestClockOnce(ready) ==
  /\ outstanding' = (ReqFire(ready) \/ (outstanding /\ ~RespTaken))
  /\ discard' = IF Flush THEN outstanding /\ ~RespTaken /\ ~discard
                ELSE discard /\ (ReqFire(ready) \/ ~RespTaken)

(* outstanding_req and discard_req: a redirect marks the response under    *)
(* way, unless it is being taken in the same cycle.                        *)
RequestClock(ready) ==
  /\ outstanding' = (ReqFire(ready) \/ (outstanding /\ ~RespTaken))
  /\ discard' = IF Flush THEN outstanding /\ ~RespTaken
                ELSE discard /\ (ReqFire(ready) \/ ~RespTaken)

(* Mutant of PcClock: wr_way is too wide.                                  *)
PcClockWide(hold) ==
  /\ pc' = IF Flush THEN target ELSE IF Reads(hold) THEN After(pc, 1) ELSE pc
  /\ rdWay' = IF Flush THEN 0
              ELSE IF Reads(hold) THEN (rdWay + 1) % NUM_WAYS ELSE rdWay
  /\ imemPc' = IF Flush THEN target
               ELSE IF RespFire THEN After(imemPc, FETCH_INSTR_NUM) ELSE imemPc
  /\ wrWay' = IF Flush THEN 0 ELSE IF RespFire THEN wrWay + FETCH_INSTR_NUM ELSE wrWay

(* The addresses and the ways in turn.                                     *)
PcClock(hold) ==
  /\ pc' = IF Flush THEN target ELSE IF Reads(hold) THEN After(pc, 1) ELSE pc
  /\ rdWay' = IF Flush THEN 0
              ELSE IF Reads(hold) THEN (rdWay + 1) % NUM_WAYS ELSE rdWay
  /\ imemPc' = IF Flush THEN target
               ELSE IF RespFire THEN After(imemPc, FETCH_INSTR_NUM) ELSE imemPc
  /\ wrWay' = IF Flush THEN 0
              ELSE IF RespFire THEN (wrWay + FETCH_INSTR_NUM) % NUM_WAYS ELSE wrWay

(* Mutant of StallClock: the wait after an empty queue does not end.       *)
StallClockLatched(hold, jr) ==
  /\ wait' = (wait \/ Empty)
  /\ jrStall' = (~Flush /\ (jrStall \/ (Reads(hold) /\ jr)))

(* Dispatch: after the queue was empty it waits a cycle more, and after an *)
(* indirect jump (jr) it waits for the redirect.                           *)
StallClock(hold, jr) ==
  /\ wait' = ((wait /\ NormalStall(hold)) \/ Empty)
  /\ jrStall' = (~Flush /\ (jrStall \/ (Reads(hold) /\ jr)))

(* One clock cycle.  ready and done are the cache's, hold, jr and next     *)
(* (the redirect of the following cycle) are those of dispatch.            *)
Cycle(hold, jr, ready, done, next) ==
  /\ FetchPortClock(IF ReqFire(ready) THEN imemPc ELSE NoFetchAddr, done, RespReady)
  /\ WaysClock(hold)
  /\ RequestClock(ready)
  /\ PcClock(hold)
  /\ StallClock(hold, jr)
  /\ target' = next
  /\ stale' = (port'.st # "IDLE" /\ (stale \/ Flush))

Redirects == Targets \cup {NoFetchAddr}

Next ==
  \E hold, jr, ready, done \in BOOLEAN, next \in Redirects :
    Cycle(hold, jr, ready, done, next)

Spec == Init /\ [][Next]_vars

=============================================================================
