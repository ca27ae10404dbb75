-------------------------- MODULE InstructionCache --------------------------
(***************************************************************************)
(* icache_core.sv with its arrays: a read-only cache that takes one fetch  *)
(* at a time and drops all its lines while inv_all is high.  A fetch that  *)
(* runs past the end of its line is looked up twice.  A line's address     *)
(* stands for its tag; of the words of one line that a fetch returns the   *)
(* model keeps the first.  The PLRU tree is left out: any way may be the   *)
(* victim.                                                                 *)
(***************************************************************************)
EXTENDS AxiFabric, FiniteSetsExt

CONSTANTS I_SETS, I_WAYS

ASSUME ICacheAssumption == I_SETS \in Nat \ {0} /\ I_WAYS \in Nat \ {0}

VARIABLES
  iState,    (* state_q                                                    *)
  iReq,      (* req_addr, valid until the answer is taken; part is FIRST   *)
             (* for cross_pending or mshr_cross_q and SECOND for cross_q.  *)
  iPending,  (* resolve_pending                                            *)
  iLines,    (* Tag and data arrays.                                       *)
  iWay,      (* alloc_way of the miss register                             *)
  iHold,     (* hold_resp and hold_rdata: words with their values.         *)
  iEngine    (* The line engine.                                           *)

iVars == <<iState, iReq, iPending, iLines, iWay, iHold, iEngine>>

ISets == 0 .. I_SETS - 1
IWays == 0 .. I_WAYS - 1
ISetOf(line) == line % I_SETS
ILine == [valid : BOOLEAN, line : Lines, data : LineData]
NoILine == [valid |-> FALSE, line |-> 0, data |-> NoData]
Parts == {"ALL", "FIRST", "SECOND"}
Fetch(w, part) == [valid |-> TRUE, word |-> w, part |-> part]
NoFetch == [valid |-> FALSE, word |-> <<0, 0>>, part |-> "ALL"]
NoInstrs == [valid |-> FALSE, got |-> {}]

ITypeOK ==
  /\ iState \in {"IDLE", "MISS_FILL", "MISS_FINISH"}
  /\ iReq \in [valid : BOOLEAN, word : Words, part : Parts] /\ iPending \in BOOLEAN
  /\ iLines \in [ISets \X IWays -> ILine]
  /\ iWay \in IWays
  /\ iHold \in [valid : BOOLEAN, got : SUBSET (Words \X WordValues)]
  /\ iEngine \in Engine

IInit ==
  /\ iState = "IDLE" /\ iReq = NoFetch /\ iPending = FALSE
  /\ iLines = [p \in ISets \X IWays |-> NoILine]
  /\ iWay = 0 /\ iHold = NoInstrs /\ iEngine = NoEngine

-----------------------------------------------------------------------------
(* A fetch of four instructions crosses from the last word of a line and   *)
(* from the second half of the word before it, one of a single instruction *)
(* never does.  The last line of the memory has no successor.              *)
MayCross(w) == w[2] >= WORDS_PER_LINE - 2 /\ w[1] < LINES - 1

(* req_ready                                                               *)
IReady(invAll) ==
  /\ iState = "IDLE" /\ ~iPending /\ iEngine.st = "IDLE" /\ ~iHold.valid /\ ~invAll

(* lookup_addr                                                             *)
FetchWord == IF iReq.part = "SECOND" THEN <<iReq.word[1] + 1, 0>> ELSE iReq.word
FetchLine == FetchWord[1]
FetchSet == ISetOf(FetchLine)
(* The line in way w of set s.                                             *)
ILineAt(s, w) == iLines[<<s, w>>]
IHitWays ==
  {w \in IWays : ILineAt(FetchSet, w).valid /\ ILineAt(FetchSet, w).line = FetchLine}
IInvalidWays == {w \in IWays : ~ILineAt(FetchSet, w).valid}
IAllocWay(plru) == IF IInvalidWays # {} THEN Min(IInvalidWays) ELSE plru

IStart == IF iState = "MISS_FILL" /\ iEngine.st = "IDLE" THEN StartRead(FetchLine)
          ELSE NoEngine
IEngineDone == iEngine.st = "DONE"

(* The tag array: invalidation goes before the write of a filled line.     *)
ILinesAfter(invAll, lines) ==
  IF invAll THEN [p \in ISets \X IWays |-> NoILine] ELSE lines

(* The response is given up when the front end takes it.                   *)
IHoldAfter(taken) == IF iHold.valid /\ taken THEN NoInstrs ELSE iHold
IReqAfter(taken) == IF iHold.valid /\ taken THEN NoFetch ELSE iReq

(* What the looked up line has of the fetch.  The first half of a fetch    *)
(* that crosses starts the second lookup.                                  *)
IGet(data) ==
  /\ iHold' = [valid |-> iReq.part # "FIRST",
               got |-> iHold.got \cup {<<FetchWord, data[FetchWord[2]]>>}]
  /\ iReq' = [iReq EXCEPT !.part = IF @ = "FIRST" THEN "SECOND" ELSE "ALL"]
  /\ iPending' = (iReq.part = "FIRST")

-----------------------------------------------------------------------------
IAccept(fetch, invAll) ==
  /\ iState = "IDLE" /\ fetch.valid
  /\ iReq' = fetch /\ iPending' = TRUE
  /\ iLines' = ILinesAfter(invAll, iLines)
  /\ UNCHANGED <<iState, iWay, iHold>>

IResolveHit(fetch, invAll) ==
  /\ iState = "IDLE" /\ ~fetch.valid /\ iPending /\ IHitWays # {}
  /\ IGet(ILineAt(FetchSet, Min(IHitWays)).data)
  /\ iLines' = ILinesAfter(invAll, iLines)
  /\ UNCHANGED <<iState, iWay>>

IResolveMiss(fetch, plru, invAll) ==
  /\ iState = "IDLE" /\ ~fetch.valid /\ iPending /\ IHitWays = {}
  /\ iState' = "MISS_FILL" /\ iWay' = IAllocWay(plru)
  /\ iPending' = FALSE
  /\ iLines' = ILinesAfter(invAll, iLines)
  /\ UNCHANGED <<iReq, iHold>>

IRest(fetch, invAll, taken) ==
  /\ iState = "IDLE" /\ ~fetch.valid /\ ~iPending
  /\ iHold' = IHoldAfter(taken) /\ iReq' = IReqAfter(taken)
  /\ iLines' = ILinesAfter(invAll, iLines)
  /\ UNCHANGED <<iState, iPending, iWay>>

IMissFill(invAll) ==
  /\ iState = "MISS_FILL"
  /\ iState' = IF IEngineDone THEN "MISS_FINISH" ELSE iState
  /\ iLines' = ILinesAfter(invAll, iLines)
  /\ UNCHANGED <<iReq, iPending, iWay, iHold>>

IMissFinish(invAll) ==
  /\ iState = "MISS_FINISH"
  /\ iLines' = ILinesAfter(invAll,
                 [iLines EXCEPT ![<<FetchSet, iWay>>] =
                    [valid |-> TRUE, line |-> FetchLine, data |-> iEngine.data]])
  /\ IGet(iEngine.data)
  /\ iState' = "IDLE" /\ iWay' = 0

(* One clock edge.                                                         *)
IClock(fetch, plru, invAll, taken) ==
  /\ iEngine' = EngineNext(iEngine, IStart, Ack("I"), bridge["I"].val)
  /\ \/ IAccept(fetch, invAll)
     \/ IResolveHit(fetch, invAll)
     \/ IResolveMiss(fetch, plru, invAll)
     \/ IRest(fetch, invAll, taken)
     \/ IMissFill(invAll)
     \/ IMissFinish(invAll)

=============================================================================
