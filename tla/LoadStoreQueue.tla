--------------------------- MODULE LoadStoreQueue ---------------------------
(***************************************************************************)
(* LSQ.sv: the load/store queue and the store address buffer (SAB).  Loads *)
(* and stores wait in the queue for their address and leave out of order.  *)
(* The SAB holds the address of every store that has left the queue and    *)
(* may not be in the cache yet.  A load passes when each SAB entry for its *)
(* double word belongs to a younger store, which it decides by counting:   *)
(* its junior counter, raised when such a store leaves the queue, equals   *)
(* the number of matching entries.                                         *)
(***************************************************************************)
EXTENDS ReorderBuffer, StoreBuffer, FiniteSetsExt

CONSTANTS LSQ_DEPTH, SAB_DEPTH

ASSUME LsqAssumption == LSQ_DEPTH \in Nat \ {0} /\ SAB_DEPTH \in Nat \ {0, 1}

VARIABLES
  memOp,  (* For each ROB entry the double word it accesses, and the value *)
          (* it writes or, in program order, has to read.                  *)
  lsq,    (* q, q_valid and junior_counter.  An entry is ready when its    *)
          (* address has been calculated.                                  *)
  sab     (* sab_array and sab_valid.  sel is tag_sel: the store has       *)
          (* committed and slot is its place in the store buffer.          *)

lsqVars == <<memOp, lsq, sab>>

LsqSlots == 0 .. LSQ_DEPTH - 1
SabSlots == 0 .. SAB_DEPTH - 1
LsqEntry == [valid : BOOLEAN, tag : RobTags, ready : BOOLEAN, junior : SabSlots]
SabEntry == [valid : BOOLEAN, addr : Addrs \cup {NoAddr}, tag : RobTags,
             sel : BOOLEAN, slot : SbSlots]
NoLsqEntry == [valid |-> FALSE, tag |-> 0, ready |-> FALSE, junior |-> 0]
NoSabEntry == [valid |-> FALSE, addr |-> NoAddr, tag |-> 0, sel |-> FALSE, slot |-> 0]

LsqTypeOK ==
  /\ memOp \in [RobTags -> [addr : Addrs \cup {NoAddr}, val : Values]]
  /\ lsq \in [LsqSlots -> LsqEntry]
  /\ sab \in [SabSlots -> SabEntry]

LsqInit ==
  /\ memOp = [t \in RobTags |-> NoStore]
  /\ lsq = [i \in LsqSlots |-> NoLsqEntry]
  /\ sab = [i \in SabSlots |-> NoSabEntry]

-----------------------------------------------------------------------------
IsLoad(e) == e.valid /\ rob[e.tag].kind = "LOAD"
IsStore(e) == e.valid /\ rob[e.tag].kind = "STORE"
AddrOf(e) == memOp[e.tag].addr
Older(e, f) == Depth(e.tag) < Depth(f.tag)

(* Both counters are SAB_INDEX_WIDTH bits wide.                            *)
Counter(n) == n % SAB_DEPTH

(* match_number: the SAB entries for the double word of load e.            *)
SabFor(a) == {j \in SabSlots : sab[j].valid /\ sab[j].addr = a}
MatchNumber(e) == Counter(Cardinality(SabFor(AddrOf(e))))

SabVacant == {j \in SabSlots : ~sab[j].valid}
SabFull == SabVacant = {}
SabFree == IF SabFull THEN 0 ELSE Min(SabVacant)

LsqVacant == {i \in LsqSlots : ~lsq[i].valid}

FencesLive == {f \in LiveTags : rob[f].kind \in {"FENCE", "FENCE_I"}}

(* Mutant of BehindFence: the boundary is the youngest fence in flight.    *)
BehindFenceYoungest(e) ==
  FencesLive # {} /\ \A f \in FencesLive : Depth(f) < Depth(e.tag)

(* rob_fence_pending and rob_fence_tag: the load is behind a fence.        *)
BehindFence(e) == \E f \in FencesLive : Depth(f) < Depth(e.tag)

(* A store leaves when the addresses of all older loads are known: a load  *)
(* whose address came later could not count it.  With the SAB full the     *)
(* code skips this test.                                                   *)
StoreMayIssue(e) ==
  \/ SabFull
  \/ \A j \in LsqSlots : IsLoad(lsq[j]) /\ Older(lsq[j], e) => lsq[j].ready

(* Mutant of LoadMayIssue: older stores with an unknown address do not     *)
(* hold a load back.                                                       *)
LoadMayIssueEarly(e, cacheReady) ==
  /\ ~BehindFence(e)
  /\ \A j \in LsqSlots :
       IsStore(lsq[j]) /\ Older(lsq[j], e) => AddrOf(lsq[j]) # AddrOf(e) \/ ~lsq[j].ready
  /\ cacheReady
  /\ e.junior = MatchNumber(e)

(* A load leaves when no fence is ahead of it, every older store still in  *)
(* the queue is known to go elsewhere, the cache can take it, and the      *)
(* matching entries of the SAB are as many as the younger stores counted.  *)
LoadMayIssue(e, cacheReady) ==
  /\ ~BehindFence(e)
  /\ \A j \in LsqSlots :
       IsStore(lsq[j]) /\ Older(lsq[j], e) => lsq[j].ready /\ AddrOf(lsq[j]) # AddrOf(e)
  /\ cacheReady
  /\ e.junior = MatchNumber(e)

(* The entries that may leave, and the one selected: the lowest slot.      *)
Issuable(cacheReady) ==
  {i \in LsqSlots :
     /\ lsq[i].valid /\ lsq[i].ready
     /\ IF IsStore(lsq[i]) THEN StoreMayIssue(lsq[i])
        ELSE LoadMayIssue(lsq[i], cacheReady)}
Selected(cacheReady) == Min(Issuable(cacheReady))

-----------------------------------------------------------------------------
(* Mutant of LsqClock: a load does not count the younger stores.           *)
LsqClockNoCount(cdb, calc, leaving, fires, tag) ==
  lsq' = [i \in LsqSlots |->
            IF fires /\ ~cdb.flush /\ LsqVacant # {} /\ i = Min(LsqVacant)
              THEN [NoLsqEntry EXCEPT !.valid = TRUE, !.tag = tag]
            ELSE IF ~lsq[i].valid \/ i \in leaving \/ Flushed(lsq[i].tag, cdb)
              THEN NoLsqEntry
            ELSE [lsq[i] EXCEPT !.ready = @ \/ i \in calc]]

(* The address field of a load holds the immediate until the address is   *)
(* calculated, and is compared all the same: loads a store that leaves     *)
(* with the SAB full may pass by count it or do not.                       *)
Mistaken ==
  IF SabFull THEN SUBSET {i \in LsqSlots : IsLoad(lsq[i]) /\ ~lsq[i].ready} ELSE {{}}

(* The load in slot i counts the younger store that leaves.                *)
Counts(i, leaving, mistaken) ==
  \E s \in leaving : /\ IsStore(lsq[s]) /\ IsLoad(lsq[i]) /\ Older(lsq[i], lsq[s])
                     /\ \/ lsq[i].ready /\ AddrOf(lsq[i]) = AddrOf(lsq[s])
                        \/ i \in mistaken

(* One clock edge of the queue.  calc holds the slot whose address is      *)
(* calculated, leaving the slot that leaves, each of at most one element.  *)
(* A flush drops the younger entries and does not touch the counters of    *)
(* the loads it spares: the code lowers those of loads it drops.           *)
LsqClock(cdb, calc, leaving, fires, tag) ==
  \E mistaken \in Mistaken :
    lsq' = [i \in LsqSlots |->
              IF fires /\ ~cdb.flush /\ LsqVacant # {} /\ i = Min(LsqVacant)
                THEN [NoLsqEntry EXCEPT !.valid = TRUE, !.tag = tag]
              ELSE IF ~lsq[i].valid \/ i \in leaving \/ Flushed(lsq[i].tag, cdb)
                THEN NoLsqEntry
              ELSE [lsq[i] EXCEPT
                      !.ready = @ \/ i \in calc,
                      !.junior = IF Counts(i, leaving, mistaken) THEN Counter(@ + 1)
                                 ELSE @]]

(* sab_entry_depth: a committed store is older than every live entry, but  *)
(* the mark that it has committed comes a cycle after the head has moved.  *)
SabDepth(e) == IF e.sel THEN 0 ELSE Depth(e.tag)

(* Mutant of SabClock: a flush leaves the addresses of dropped stores.     *)
SabClockNoFlush(cdb, leaving) ==
  LET marked(e) == sbEntry.valid /\ e.valid /\ ~e.sel /\ e.tag = sbEntry.tag
      freed(e) == sbFlush.valid /\ e.valid /\ e.sel /\ e.slot = sbFlush.slot
      stored == {s \in leaving : IsStore(lsq[s])}
  IN sab' = [j \in SabSlots |->
               IF freed(sab[j]) THEN NoSabEntry
               ELSE IF stored # {} /\ j = SabFree
                 THEN LET s == CHOOSE s \in stored : TRUE
                      IN [NoSabEntry EXCEPT !.valid = TRUE, !.addr = AddrOf(lsq[s]),
                                            !.tag = lsq[s].tag]
               ELSE IF marked(sab[j])
                 THEN [sab[j] EXCEPT !.sel = TRUE, !.slot = sbEntry.slot]
               ELSE sab[j]]

(* One clock edge of the SAB: the address of a leaving store enters the    *)
(* lowest vacant entry, or entry 0 of a full buffer; the store buffer      *)
(* reports which store has committed and which has reached the cache; a    *)
(* flush drops the entries it judges younger than the branch.  The later   *)
(* of these assignments wins.                                              *)
SabClock(cdb, leaving) ==
  LET marked(e) == sbEntry.valid /\ e.valid /\ ~e.sel /\ e.tag = sbEntry.tag
      freed(e) == sbFlush.valid /\ e.valid /\ e.sel /\ e.slot = sbFlush.slot
      stored == {s \in leaving : IsStore(lsq[s])}
  IN sab' = [j \in SabSlots |->
               IF freed(sab[j]) \/ (cdb.flush /\ SabDepth(sab[j]) > Depth(cdb.tag))
                 THEN NoSabEntry
               ELSE LET new == stored # {} /\ j = SabFree
                        s == CHOOSE s \in stored : TRUE
                        base == IF new THEN [NoSabEntry EXCEPT !.valid = TRUE,
                                               !.addr = AddrOf(lsq[s]),
                                               !.tag = lsq[s].tag]
                                ELSE sab[j]
                    IN IF marked(sab[j])
                         THEN [base EXCEPT !.sel = TRUE, !.slot = sbEntry.slot]
                         ELSE base]

=============================================================================
