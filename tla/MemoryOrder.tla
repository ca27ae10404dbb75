---------------------------- MODULE MemoryOrder ----------------------------
(***************************************************************************)
(* The path of loads and stores: ROB.sv, LSQ.sv with the store address     *)
(* buffer, the load slot and the buffer of LSB.sv, SB.sv, and the port of  *)
(* the data cache.  One step is one clock cycle.                           *)
(*                                                                         *)
(* The inputs of a cycle are the instruction that dispatch stage 2 holds,  *)
(* the queue entry whose base register has arrived, the branch that the    *)
(* ALU resolves, whether the LSB has the result bus, and whether the cache *)
(* finishes the access it works on.                                        *)
(* The two cycles from the head of the LSB to the CDB are in Execute; here *)
(* they are one.                                                           *)
(***************************************************************************)
EXTENDS LoadStoreQueue, Compaction

CONSTANTS
  LSB_DEPTH,           (* Entries of the load/store buffer.                *)
  Mixes,               (* Sets of kinds of instruction in flight together. *)
  MAX_STORES,          (* Most stores in the ROB and the store buffer.     *)
  FLUSH_AFTER_COMMIT,  (* A branch may flush in the cycle after the commit *)
                       (* of a store.                                      *)
  FLUSH_COUNTED        (* A branch may flush a store that a load it spares *)
                       (* has counted.                                     *)

ASSUME MemoryOrderAssumption ==
  /\ LSB_DEPTH \in Nat \ {0}
  /\ Mixes \subseteq SUBSET {"LOAD", "STORE", "BRANCH", "FENCE"}
  /\ MAX_STORES \in Nat
  /\ FLUSH_AFTER_COMMIT \in BOOLEAN /\ FLUSH_COUNTED \in BOOLEAN

VARIABLES
  lw,         (* lw_slot with lw_slot_valid and lw_slot_data_ready (data)  *)
  respReady,  (* dcache_resp_ready of the LSB                              *)
  lsb         (* lsb_array between its pointers, as a sequence             *)

vars == <<robVars, lsqVars, sbVars, lw, respReady, lsb, portVars>>

NoLoad == [valid |-> FALSE, tag |-> 0, data |-> FALSE, val |-> 0]

TypeOK ==
  /\ RobTypeOK /\ LsqTypeOK /\ SbTypeOK(RobTags) /\ PortTypeOK
  /\ lw \in [valid : BOOLEAN, tag : RobTags, data : BOOLEAN, val : Values]
  /\ respReady \in BOOLEAN
  /\ lsb \in Seq([tag : RobTags, val : Values]) /\ Len(lsb) <= LSB_DEPTH

Init ==
  /\ RobInit /\ LsqInit /\ SbInit /\ PortInit
  /\ lw = NoLoad
  /\ respReady = FALSE
  /\ lsb = <<>>

-----------------------------------------------------------------------------
(* The stores to a, oldest first in time: those in the store buffer, then  *)
(* those in the ROB.                                                       *)
LiveStores(a) == {t \in LiveTags : rob[t].kind = "STORE" /\ memOp[t].addr = a}
BufferedStores(a) ==
  {p \in Window(sbTrail, sbWrite, SB_DEPTH) : sbArray[Slot(p, SB_DEPTH)].addr = a}

(* The value a load of a has to read when it is dispatched now: that of    *)
(* the last store ahead of it in program order.                            *)
ProgramValue(a) ==
  IF LiveStores(a) # {}
    THEN LET t == CHOOSE t \in LiveStores(a) :
                    \A u \in LiveStores(a) : Depth(u) <= Depth(t)
         IN memOp[t].val
  ELSE IF BufferedStores(a) # {}
    THEN LET p == CHOOSE p \in BufferedStores(a) :
                    \A q \in BufferedStores(a) :
                      Dist(q, sbTrail, SB_DEPTH) <= Dist(p, sbTrail, SB_DEPTH)
         IN sbArray[Slot(p, SB_DEPTH)].val
  ELSE mem[a]

(* A store writes the value that its double word does not have, so that a  *)
(* load can tell a store it has to see from the one before.                *)
Operand(kind, a) ==
  [addr |-> a, val |-> IF kind = "STORE" THEN 1 - ProgramValue(a) ELSE ProgramValue(a)]

StoresInFlight ==
  Cardinality({t \in LiveTags : rob[t].kind = "STORE"}) + Cardinality(SbLive)
KindsInFlight == {rob[t].kind : t \in LiveTags}

NoOffer == [kind |-> "NONE", addr |-> NoAddr]

(* The kinds that dispatch stage 2 may hold: those with a place in the ROB *)
(* and, if they need one, in the queue.                                    *)
MemoryKinds == {"LOAD", "STORE"}
Dispatchable ==
  {k \in MemoryKinds \cup {"BRANCH", "FENCE"} :
     /\ ~RobFull
     /\ \E m \in Mixes : KindsInFlight \cup {k} \subseteq m
     /\ k \in MemoryKinds => LsqVacant # {}
     /\ k = "STORE" => StoresInFlight < MAX_STORES}

(* What it may hold: nothing, or such an instruction.                      *)
Offers ==
  {NoOffer} \cup [kind : Dispatchable \ MemoryKinds, addr : {NoAddr}]
            \cup [kind : Dispatchable \cap MemoryKinds, addr : Addrs]

(* The entries whose address may be calculated in this cycle, one or none. *)
Calculable == {{}} \cup {{i} : i \in {j \in LsqSlots : lsq[j].valid /\ ~lsq[j].ready}}

(* A load that the branch b would spare has counted a store that it flushes. *)
CountedBehind(b) ==
  \E i \in LsqSlots, j \in SabSlots :
    /\ IsLoad(lsq[i]) /\ Depth(lsq[i].tag) < Depth(b)
    /\ sab[j].valid /\ ~sab[j].sel /\ Depth(sab[j].tag) > Depth(b)
    /\ sab[j].addr = AddrOf(lsq[i])

MayFlush(b) == /\ FLUSH_AFTER_COMMIT \/ ~sbEntry.valid
               /\ FLUSH_COUNTED \/ ~CountedBehind(b)

Branches == {t \in LiveTags : rob[t].kind = "BRANCH" /\ ~rob[t].compl}

NoBroadcast == [valid |-> FALSE, tag |-> 0, flush |-> FALSE, rw |-> FALSE]

(* What the CDB may carry in this cycle.                                   *)
Broadcasts ==
  {NoBroadcast}
  \cup [valid : {TRUE}, tag : Branches, flush : {FALSE}, rw : {FALSE}]
  \cup [valid : {TRUE}, tag : {b \in Branches : MayFlush(b)}, flush : {TRUE}, rw : {FALSE}]
  \cup (IF lsb = <<>> THEN {}
        ELSE {[valid |-> TRUE, tag |-> Head(lsb).tag, flush |-> FALSE, rw |-> TRUE]})

-----------------------------------------------------------------------------
(* lsb_en                                                                  *)
LsbEnabled(cdb) == Len(lsb) < LSB_DEPTH /\ ~lw.valid /\ ~cdb.flush

(* issue_lsq: the slot that leaves the queue in this cycle, if any.        *)
Leaving(cdb) == IF LsbEnabled(cdb) /\ Issuable(CacheReady) # {}
                  THEN {Selected(CacheReady)} ELSE {}

(* The load that is sent to the cache, and the store that the cache takes: *)
(* a load goes first.                                                      *)
LoadSent(leaving) == {i \in leaving : IsLoad(lsq[i])}
StoreTaken(leaving) == CacheReady /\ ~SbEmpty /\ LoadSent(leaving) = {}

(* The positions of the buffer whose entries a flush leaves there.         *)
Staying(cdb) == {i \in DOMAIN lsb : ~Flushed(lsb[i].tag, cdb)}

(* Mutant of LsbClock: the response of a flushed load is kept waiting for  *)
(* the next load.                                                          *)
LsbClockKept(cdb, leaving) ==
  LET arrives == LoadAnswered /\ lw.valid /\ ~lw.data
      rest == IF cdb.rw THEN Tail(lsb) ELSE lsb
      loads == LoadSent(leaving)
      stores == leaving \ loads
      done == lw.valid /\ (arrives \/ lw.data) /\ Len(lsb) < LSB_DEPTH
  IN IF cdb.flush
       THEN /\ lsb' = Compacted(lsb, Staying(cdb))
            /\ lw' = IF lw.valid /\ Flushed(lw.tag, cdb) THEN NoLoad
                     ELSE IF arrives THEN [lw EXCEPT !.data = TRUE, !.val = cache.val]
                     ELSE lw
            /\ respReady' = (respReady /\ lw'.valid /\ ~LoadAnswered)
       ELSE /\ lsb' = rest
                 \o (IF done THEN << [tag |-> lw.tag,
                                      val |-> IF arrives THEN cache.val ELSE lw.val] >>
                     ELSE <<>>)
                 \o (IF stores # {} THEN << [tag |-> lsq[Min(stores)].tag, val |-> 0] >>
                     ELSE <<>>)
            /\ lw' = IF loads # {} THEN [NoLoad EXCEPT !.valid = TRUE,
                                                        !.tag = lsq[Min(loads)].tag]
                     ELSE IF done THEN NoLoad
                     ELSE IF arrives THEN [lw EXCEPT !.data = TRUE, !.val = cache.val]
                     ELSE lw
            /\ respReady' = (loads # {} \/ (respReady /\ ~LoadAnswered))

(* The load slot and the buffer of LSB.sv.  A response fills the slot and  *)
(* moves on to the buffer at once when there is room; in the cycle of a    *)
(* flush it is parked in the slot.  A load that is flushed while its read  *)
(* is under way leaves respReady set, so that the cache can get rid of the *)
(* answer.                                                                 *)
LsbClock(cdb, leaving) ==
  LET arrives == LoadAnswered /\ lw.valid /\ ~lw.data
      rest == IF cdb.rw THEN Tail(lsb) ELSE lsb
      loads == LoadSent(leaving)
      stores == leaving \ loads
      done == lw.valid /\ (arrives \/ lw.data) /\ Len(lsb) < LSB_DEPTH
  IN IF cdb.flush
       THEN /\ lsb' = Compacted(lsb, Staying(cdb))
            /\ lw' = IF lw.valid /\ Flushed(lw.tag, cdb) THEN NoLoad
                     ELSE IF arrives THEN [lw EXCEPT !.data = TRUE, !.val = cache.val]
                     ELSE lw
            /\ respReady' = (respReady /\ ~LoadAnswered)
       ELSE /\ lsb' = rest
                 \o (IF done THEN << [tag |-> lw.tag,
                                      val |-> IF arrives THEN cache.val ELSE lw.val] >>
                     ELSE <<>>)
                 \o (IF stores # {} THEN << [tag |-> lsq[Min(stores)].tag, val |-> 0] >>
                     ELSE <<>>)
            /\ lw' = IF loads # {} THEN [NoLoad EXCEPT !.valid = TRUE,
                                                        !.tag = lsq[Min(loads)].tag]
                     ELSE IF done THEN NoLoad
                     ELSE IF arrives THEN [lw EXCEPT !.data = TRUE, !.val = cache.val]
                     ELSE lw
            /\ respReady' = (loads # {} \/ (respReady /\ ~LoadAnswered))

(* What the cache accepts in this cycle.                                   *)
Accepted(leaving) ==
  IF LoadSent(leaving) # {} THEN Load(AddrOf(lsq[Min(LoadSent(leaving))]))
  ELSE IF StoreTaken(leaving) THEN Store(SbHead.addr, SbHead.val)
  ELSE Idle

-----------------------------------------------------------------------------
(* One clock cycle.                                                        *)
Cycle(offer, calc, cdb, done) ==
  LET fires == offer.kind # "NONE" /\ ~cdb.flush
      toLsq == fires /\ offer.kind \in {"LOAD", "STORE"}
      leaving == Leaving(cdb)
      status == [sbFull |-> SbFull, sbDrained |-> SbDrained, cohDone |-> TRUE]
      toRob == [kind |-> offer.kind, rd |-> 0, rs |-> 0, rw |-> FALSE, phy |-> 0,
                src |-> 0, prev |-> 0]
  IN /\ RobClock(fires, toRob, cdb, status)
     /\ memOp' = IF toLsq
                   THEN [memOp EXCEPT ![RobBottom] = Operand(offer.kind, offer.addr)]
                 ELSE memOp
     /\ LsqClock(cdb, calc, leaving, toLsq, RobBottom)
     /\ SabClock(cdb, leaving)
     /\ SbClock(Commits(status) /\ RobHead.kind = "STORE", memOp[RobTop], RobTop,
                StoreTaken(leaving), StoreAnswered)
     /\ LsbClock(cdb, leaving)
     /\ PortClock(Accepted(leaving), done, respReady)

Next == \E offer \in Offers, calc \in Calculable, cdb \in Broadcasts, done \in BOOLEAN :
          Cycle(offer, calc, cdb, done)

Spec == Init /\ [][Next]_vars

=============================================================================
