---------------------------- MODULE MemorySystem ----------------------------
(***************************************************************************)
(* CPU_L1DCache_AXI.sv below the core: both caches, the bus, the SRAM and  *)
(* the controller that keeps the caches coherent for FENCE.I               *)
(* (cache_coherence_ctrl.sv).  One step is one clock cycle.                *)
(*                                                                         *)
(* The core is the environment.  It offers a load, a store or nothing, and *)
(* a fetch or nothing; a FENCE.I waits at the head of the ROB until the    *)
(* stores before it have drained, and no access follows it until it has    *)
(* committed (FenceHoldsLoads, ROB.sv rule 4).                             *)
(***************************************************************************)
EXTENDS DataCache, InstructionCache

CONSTANTS LoadWords, StoreWords, FetchWords  (* What the program accesses. *)

ASSUME ProgramAssumption ==
  LoadWords \subseteq Words /\ StoreWords \subseteq Words /\ FetchWords \subseteq Words

VARIABLES
  coh,    (* state_q of the coherence controller                           *)
  fence,  (* fence_i_coh_start: a FENCE.I is ready to commit.              *)
  fresh,  (* History: the values each word has had since the last FENCE.I. *)
  old     (* History: the fetch in the cache was made before it.           *)

vars == <<dVars, iVars, fabricVars, coh, fence, fresh, old>>

TypeOK ==
  /\ FabricTypeOK /\ DTypeOK /\ ITypeOK
  /\ coh \in {"IDLE", "FLUSH", "INV", "DONE"}
  /\ fence \in BOOLEAN /\ old \in BOOLEAN
  /\ fresh \in [Words -> SUBSET WordValues]

Init ==
  /\ FabricInit /\ DInit /\ IInit
  /\ coh = "IDLE" /\ fence = FALSE /\ old = FALSE
  /\ fresh = [w \in Words |-> {0}]

-----------------------------------------------------------------------------
(* dcache_flush_req, icache_inv_all and coh_done                           *)
FlushReq == coh = "FLUSH"
InvAll == coh \in {"INV", "DONE"}
CohDone == coh = "DONE"

(* Mutant of CohClock: the request to clean is taken for its completion.   *)
CohClockEarly ==
  coh' = CASE coh = "IDLE" /\ fence -> "FLUSH"
           [] coh = "FLUSH" /\ fence -> "INV"
           [] coh = "INV" /\ fence -> "DONE"
           [] coh = "DONE" /\ fence -> "DONE"
           [] OTHER -> "IDLE"

(* The controller: clean the data cache, then invalidate the instruction   *)
(* cache, then let the FENCE.I commit.  It falls back when the FENCE.I is  *)
(* gone.                                                                   *)
CohClock ==
  coh' = CASE coh = "IDLE" /\ fence -> "FLUSH"
           [] coh = "FLUSH" /\ fence -> IF dDone THEN "INV" ELSE "FLUSH"
           [] coh = "INV" /\ fence -> "DONE"
           [] coh = "DONE" /\ fence -> "DONE"
           [] OTHER -> "IDLE"

(* The FENCE.I commits in the cycle in which the controller is done.       *)
FenceCommits == fence /\ CohDone

(* What the program reads in a word: the line of the data cache that holds *)
(* it, else the SRAM.                                                      *)
Holding(word) ==
  {w \in Ways : LineAt(SetOf(word[1]), w).valid /\ LineAt(SetOf(word[1]), w).line = word[1]}
Contents ==
  [word \in Words |->
     IF Holding(word) = {} THEN sram[word]
     ELSE LineAt(SetOf(word[1]), Min(Holding(word))).data[word[2]]]

(* What the core may ask for.  A store changes the word.                   *)
Offers ==
  {NoRequest} \cup
  (IF DReady(FlushReq) /\ ~fence
     THEN {[op |-> "READ", word |-> w, val |-> 0] : w \in LoadWords}
          \cup {[op |-> "WRITE", word |-> w, val |-> 1 - Contents[w]] : w \in StoreWords}
   ELSE {})
Fetches ==
  {NoFetch} \cup
  (IF IReady(InvAll)
     THEN {Fetch(w, "ALL") : w \in FetchWords}
          \cup {Fetch(w, "FIRST") : w \in {v \in FetchWords : MayCross(v)}}
   ELSE {})

(* A FENCE.I gets ready when no store is under way, and stays until it     *)
(* commits.                                                                *)
FenceClock(access) ==
  \/ ~fence /\ fence' = FALSE
  \/ ~fence /\ dReq.op # "WRITE" /\ access.op # "WRITE" /\ fence' = TRUE
  \/ fence /\ fence' = ~FenceCommits

(* One clock cycle.                                                        *)
Cycle(access, fetch, dPlru, iPlru, taken) ==
  /\ FabricClock(dEngine, iEngine)
  /\ DClock(access, dPlru, FlushReq)
  /\ IClock(fetch, iPlru, InvAll, taken)
  /\ CohClock
  /\ FenceClock(access)
  /\ fresh' = [w \in Words |-> (IF FenceCommits THEN {} ELSE fresh[w]) \cup {Contents'[w]}]
  /\ old' = IF FenceCommits THEN iReq.valid /\ ~(iHold.valid /\ taken)
            ELSE old /\ iReq'.valid

Next ==
  \E access \in Offers, fetch \in Fetches, dPlru \in Ways, iPlru \in IWays,
     taken \in BOOLEAN : Cycle(access, fetch, dPlru, iPlru, taken)

Spec == Init /\ [][Next]_vars

=============================================================================
