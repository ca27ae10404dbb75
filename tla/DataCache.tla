----------------------------- MODULE DataCache -----------------------------
(***************************************************************************)
(* dcache_core.sv with its tag and data arrays and its miss register: a    *)
(* write-back cache that takes one access at a time, and the clean-all     *)
(* walk that FENCE.I asks for.  The ports of the clock step are the access *)
(* offered, the way the PLRU tree would evict, flush_req, and the bridge.  *)
(*                                                                         *)
(* A line's address stands for its tag, and byte strobes are data.  The    *)
(* PLRU tree is left out: any way may be the victim.  The clients take a   *)
(* response at once, as MemoryOrder shows (AnswersAreTaken).               *)
(***************************************************************************)
EXTENDS AxiFabric, FiniteSetsExt

CONSTANTS NUM_SETS, NUM_WAYS

ASSUME CacheAssumption == NUM_SETS \in Nat \ {0} /\ NUM_WAYS \in Nat \ {0}

VARIABLES
  dState,    (* state_q                                                    *)
  dReq,      (* lookup_op, lookup_addr and lookup_wdata                    *)
  dPending,  (* resolve_pending                                            *)
  dLines,    (* Tag and data arrays.                                       *)
  dMshr,     (* The miss register: way, victim_entry with victim_data.     *)
  dHold,     (* hold_rresp, hold_wresp and hold_rdata                      *)
  dWalk,     (* flush_active, flush_set and flush_way                      *)
  dDone,     (* flush_done_q                                               *)
  dEngine    (* The line engine.                                           *)

dVars == <<dState, dReq, dPending, dLines, dMshr, dHold, dWalk, dDone, dEngine>>

Sets == 0 .. NUM_SETS - 1
Ways == 0 .. NUM_WAYS - 1
SetOf(line) == line % NUM_SETS

Line == [valid : BOOLEAN, dirty : BOOLEAN, line : Lines, data : LineData]
NoLine == [valid |-> FALSE, dirty |-> FALSE, line |-> 0, data |-> NoData]
DStates == {"IDLE", "MISS_WB", "MISS_FILL", "MISS_FINISH", "FLUSH_SCAN", "FLUSH_WB"}
Request == [op : {"NONE", "READ", "WRITE"}, word : Words, val : WordValues]
NoRequest == [op |-> "NONE", word |-> <<0, 0>>, val |-> 0]
NoMiss == [busy |-> FALSE, way |-> 0, victim |-> NoLine]
NoAnswer == [st |-> "NONE", val |-> 0]
NoWalk == [active |-> FALSE, set |-> 0, way |-> 0]

DTypeOK ==
  /\ dState \in DStates /\ dReq \in Request /\ dPending \in BOOLEAN
  /\ dLines \in [Sets \X Ways -> Line]
  /\ dMshr \in [busy : BOOLEAN, way : Ways, victim : Line]
  /\ dHold \in [st : {"NONE", "READ", "WRITE"}, val : WordValues]
  /\ dWalk \in [active : BOOLEAN, set : Sets, way : Ways]
  /\ dDone \in BOOLEAN
  /\ dEngine \in Engine

DInit ==
  /\ dState = "IDLE" /\ dReq = NoRequest /\ dPending = FALSE
  /\ dLines = [p \in Sets \X Ways |-> NoLine]
  /\ dMshr = NoMiss /\ dHold = NoAnswer /\ dWalk = NoWalk /\ dDone = FALSE
  /\ dEngine = NoEngine

-----------------------------------------------------------------------------
(* rready: the cache accepts an access.  wready is the same, unless a load *)
(* is offered too.                                                         *)
DReady(flushReq) ==
  /\ dState = "IDLE" /\ ~dPending /\ ~dMshr.busy /\ dEngine.st = "IDLE"
  /\ dHold = NoAnswer /\ ~flushReq /\ ~dWalk.active

(* The line in way w of set s.                                             *)
LineAt(s, w) == dLines[<<s, w>>]
LookupLine == dReq.word[1]
LookupSet == SetOf(LookupLine)
HitWays == {w \in Ways : LineAt(LookupSet, w).valid /\ LineAt(LookupSet, w).line = LookupLine}
DHit == HitWays # {}
InvalidWays == {w \in Ways : ~LineAt(LookupSet, w).valid}

(* alloc_way: the lowest invalid way, else the one the PLRU tree names.    *)
AllocWay(plru) == IF InvalidWays # {} THEN Min(InvalidWays) ELSE plru
Victim(plru) == LineAt(LookupSet, AllocWay(plru))

(* A line with the word of the request merged in.                          *)
Merged(data) == IF dReq.op = "WRITE" THEN [data EXCEPT ![dReq.word[2]] = dReq.val]
                ELSE data
Answer(data) == [st |-> dReq.op, val |-> IF dReq.op = "READ" THEN data[dReq.word[2]] ELSE 0]

WalkLine == LineAt(dWalk.set, dWalk.way)
WalkDirty == WalkLine.valid /\ WalkLine.dirty
WalkLast == dWalk.set = NUM_SETS - 1 /\ dWalk.way = NUM_WAYS - 1
WalkNext ==
  IF WalkLast THEN NoWalk
  ELSE IF dWalk.way = NUM_WAYS - 1
    THEN [dWalk EXCEPT !.set = @ + 1, !.way = 0]
  ELSE [dWalk EXCEPT !.way = @ + 1]

EngineDone == dEngine.st = "DONE"
EngineFree == dEngine.st = "IDLE"

(* What the state machine starts its engine with.                          *)
DStart ==
  CASE dState = "MISS_WB" /\ EngineFree ->
         StartWrite(dMshr.victim.line, dMshr.victim.data)
    [] dState = "MISS_FILL" /\ EngineFree -> StartRead(LookupLine)
    [] dState = "FLUSH_SCAN" /\ WalkDirty -> StartWrite(WalkLine.line, WalkLine.data)
    [] OTHER -> NoEngine

-----------------------------------------------------------------------------
(* The steps of the state machine, one per branch of the code.             *)
DAccept(access) ==
  /\ dState = "IDLE" /\ access # NoRequest
  /\ dReq' = access /\ dPending' = TRUE
  /\ dHold' = NoAnswer /\ dDone' = FALSE
  /\ UNCHANGED <<dState, dLines, dMshr, dWalk>>

DResolveHit(access) ==
  /\ dState = "IDLE" /\ access = NoRequest /\ dPending /\ DHit
  /\ LET w == Min(HitWays)
         data == Merged(LineAt(LookupSet, w).data)
     IN /\ dLines' = IF dReq.op = "WRITE"
                       THEN [dLines EXCEPT ![<<LookupSet, w>>].data = data,
                                           ![<<LookupSet, w>>].dirty = TRUE]
                     ELSE dLines
        /\ dHold' = Answer(data)
  /\ dPending' = FALSE /\ dDone' = FALSE
  /\ UNCHANGED <<dState, dReq, dMshr, dWalk>>

(* Mutant of DResolveMiss: a dirty victim is dropped.                      *)
DResolveMissDrop(access, plru) ==
  /\ dState = "IDLE" /\ access = NoRequest /\ dPending /\ ~DHit
  /\ dMshr' = [busy |-> TRUE, way |-> AllocWay(plru), victim |-> Victim(plru)]
  /\ dState' = "MISS_FILL"
  /\ dPending' = FALSE /\ dHold' = NoAnswer /\ dDone' = FALSE
  /\ UNCHANGED <<dReq, dLines, dWalk>>

DResolveMiss(access, plru) ==
  /\ dState = "IDLE" /\ access = NoRequest /\ dPending /\ ~DHit
  /\ dMshr' = [busy |-> TRUE, way |-> AllocWay(plru), victim |-> Victim(plru)]
  /\ dState' = IF Victim(plru).valid /\ Victim(plru).dirty THEN "MISS_WB" ELSE "MISS_FILL"
  /\ dPending' = FALSE /\ dHold' = NoAnswer /\ dDone' = FALSE
  /\ UNCHANGED <<dReq, dLines, dWalk>>

DStartWalk(access, flushReq) ==
  /\ dState = "IDLE" /\ access = NoRequest /\ ~dPending /\ flushReq
  /\ dState' = "FLUSH_SCAN"
  /\ dWalk' = [NoWalk EXCEPT !.active = TRUE]
  /\ dReq' = NoRequest /\ dHold' = NoAnswer /\ dDone' = FALSE
  /\ UNCHANGED <<dPending, dLines, dMshr>>

(* Nothing to do: a response that was held is taken, and with it the       *)
(* request is forgotten.                                                   *)
DRest(access, flushReq) ==
  /\ dState = "IDLE" /\ access = NoRequest /\ ~dPending /\ ~flushReq
  /\ dReq' = NoRequest /\ dHold' = NoAnswer /\ dDone' = FALSE
  /\ UNCHANGED <<dState, dPending, dLines, dMshr, dWalk>>

DMissWriteBack ==
  /\ dState = "MISS_WB"
  /\ dState' = IF EngineDone THEN "MISS_FILL" ELSE dState
  /\ UNCHANGED <<dReq, dPending, dLines, dMshr, dHold, dWalk, dDone>>

DMissFill ==
  /\ dState = "MISS_FILL"
  /\ dState' = IF EngineDone THEN "MISS_FINISH" ELSE dState
  /\ UNCHANGED <<dReq, dPending, dLines, dMshr, dHold, dWalk, dDone>>

DMissFinish ==
  /\ dState = "MISS_FINISH"
  /\ LET data == Merged(dEngine.data)
     IN /\ dLines' = [dLines EXCEPT ![<<LookupSet, dMshr.way>>] =
                        [valid |-> TRUE, dirty |-> dReq.op = "WRITE",
                         line |-> LookupLine, data |-> data]]
        /\ dHold' = Answer(data)
  /\ dState' = "IDLE" /\ dMshr' = NoMiss
  /\ UNCHANGED <<dReq, dPending, dWalk, dDone>>

(* The walk leaves a line, clean or just cleaned.                          *)
DWalkOn ==
  /\ dState' = IF WalkLast THEN "IDLE" ELSE "FLUSH_SCAN"
  /\ dWalk' = WalkNext
  /\ dDone' = WalkLast

DFlushScan ==
  /\ dState = "FLUSH_SCAN"
  /\ IF WalkDirty THEN dState' = "FLUSH_WB" /\ UNCHANGED <<dWalk, dDone>>
     ELSE DWalkOn
  /\ UNCHANGED <<dReq, dPending, dLines, dMshr, dHold>>

(* Mutant of DFlushWriteBack: the walk does not wait for the engine.       *)
DFlushWriteBackEarly ==
  /\ dState = "FLUSH_WB"
  /\ dLines' = [dLines EXCEPT ![<<dWalk.set, dWalk.way>>].dirty = FALSE]
  /\ DWalkOn
  /\ UNCHANGED <<dReq, dPending, dMshr, dHold>>

DFlushWriteBack ==
  /\ dState = "FLUSH_WB"
  /\ IF EngineDone
       THEN /\ dLines' = [dLines EXCEPT ![<<dWalk.set, dWalk.way>>].dirty = FALSE]
            /\ DWalkOn
     ELSE UNCHANGED <<dState, dLines, dWalk, dDone>>
  /\ UNCHANGED <<dReq, dPending, dMshr, dHold>>

(* One clock edge.                                                         *)
DClock(access, plru, flushReq) ==
  /\ dEngine' = EngineNext(dEngine, DStart, Ack("D"), bridge["D"].val)
  /\ \/ DAccept(access)
     \/ DResolveHit(access)
     \/ DResolveMiss(access, plru)
     \/ DStartWalk(access, flushReq)
     \/ DRest(access, flushReq)
     \/ DMissWriteBack
     \/ DMissFill
     \/ DMissFinish
     \/ DFlushScan
     \/ DFlushWriteBack

=============================================================================
