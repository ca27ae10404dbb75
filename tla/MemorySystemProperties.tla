----------------------- MODULE MemorySystemProperties -----------------------
(***************************************************************************)
(* What caches, bus and memory owe the core: they implement the ports of   *)
(* MemoryOrder and Fetch, after a FENCE.I a fetch sees the stores before   *)
(* it, and every access is answered.                                       *)
(***************************************************************************)
EXTENDS MemorySystem

(* Data cache, bus and SRAM implement the port that MemoryOrder is built   *)
(* on: memory is what Contents says, and the access held is the request    *)
(* from its acceptance until its answer is taken.                          *)
PortState ==
  IF dHold # NoAnswer THEN IF dHold.st = "READ" THEN "RRESP" ELSE "WRESP"
  ELSE IF dPending \/ dMshr.busy THEN dReq.op
  ELSE "IDLE"
NoWord == <<>>
HeldAccess == [st |-> PortState,
               addr |-> IF PortState = "IDLE" THEN NoWord ELSE dReq.word,
               val |-> IF PortState = "RRESP" THEN dHold.val
                       ELSE IF PortState = "IDLE" THEN 0
                       ELSE dReq.val]
Data == INSTANCE CachePort WITH
          Addrs <- Words, NoAddr <- NoWord, mem <- Contents, cache <- HeldAccess

(* The instruction cache implements the port that Fetch is built on.       *)
HeldFetch == [st |-> IF iHold.valid THEN "ANSWER" ELSE IF iReq.valid THEN "BUSY" ELSE "IDLE",
              addr |-> IF iReq.valid THEN iReq.word ELSE NoWord]
Instructions == INSTANCE FetchPort WITH
                  FetchAddrs <- Words, NoFetchAddr <- NoWord, port <- HeldFetch

(* The data cache behaves as one memory, although lines are evicted,       *)
(* written back, refilled and cleaned behind its port; both caches hold    *)
(* one access at a time and answer exactly the accesses they accepted.     *)
ImplementsPorts == Data!PortSpec /\ Instructions!FetchPortSpec

(* A fetch made after a FENCE.I returns a value that its word has had      *)
(* since: no store before the fence is missed, neither in the instruction  *)
(* cache nor in a line that was on its way there during the fence.         *)
FetchesSeeFence ==
  iHold.valid /\ ~old => \A instr \in iHold.got : instr[2] \in fresh[instr[1]]

(* From the invalidation to the end of the fence the data cache holds no   *)
(* dirty line: all that was stored is in memory.                           *)
CleanAtDone ==
  coh \in {"INV", "DONE"} =>
    \A s \in Sets, w \in Ways : ~(LineAt(s, w).valid /\ LineAt(s, w).dirty)

-----------------------------------------------------------------------------
(* The clock runs.                                                         *)
FairSpec == Spec /\ WF_vars(Next)

(* Every load, store and fetch that is accepted is answered, and every     *)
(* FENCE.I commits: neither master starves the other on the bus, and the   *)
(* walk through the data cache and its misses do not wait on each other.   *)
Answered ==
  /\ dPending ~> dHold # NoAnswer
  /\ iPending ~> iHold.valid
  /\ fence ~> ~fence

=============================================================================
