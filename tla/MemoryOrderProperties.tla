----------------------- MODULE MemoryOrderProperties -----------------------
(***************************************************************************)
(* What the load and store path owes the program: although loads and       *)
(* stores leave the queue out of order and stores wait in two buffers      *)
(* behind it, memory looks as if every access were made in program order.  *)
(***************************************************************************)
EXTENDS MemoryOrder

(* The stores that have left the queue and have not committed.             *)
LeftQueue(t) == \A i \in LsqSlots : ~(lsq[i].valid /\ lsq[i].tag = t)
IssuedStores == {t \in LiveTags : rob[t].kind = "STORE" /\ LeftQueue(t)}

(* The SAB entry of an uncommitted store, and of a slot of the store       *)
(* buffer; in the cycle after the commit it is still known by its tag.     *)
EntryOfTag(t, a) == {j \in SabFor(a) : ~sab[j].sel /\ sab[j].tag = t}
EntryOfSlot(s, a) ==
  {j \in SabFor(a) : sab[j].sel /\ sab[j].slot = s}
  \cup (IF sbEntry.valid /\ sbEntry.slot = s THEN EntryOfTag(sbEntry.tag, a) ELSE {})

-----------------------------------------------------------------------------
(* The value a load has read, in the load slot or on its way to the CDB,   *)
(* is that of the last store to its double word ahead of it in program     *)
(* order.                                                                  *)
LoadsSeeProgramOrder ==
  /\ lw.valid /\ lw.data => lw.val = memOp[lw.tag].val
  /\ \A k \in DOMAIN lsb :
       rob[lsb[k].tag].kind = "LOAD" => lsb[k].val = memOp[lsb[k].tag].val

(* The address buffer knows every store between the queue and memory, once *)
(* and under its present name, and nothing else: loads are held back by    *)
(* all stores that could concern them, and for no other reason.            *)
AddressBufferExact ==
  /\ \A t \in IssuedStores : Cardinality(EntryOfTag(t, memOp[t].addr)) = 1
  /\ \A s \in SbLive : Cardinality(EntryOfSlot(s, sbArray[s].addr)) = 1
  /\ Cardinality(SabSlots \ SabVacant) =
       Cardinality(IssuedStores) + Cardinality(SbLive)
         + (IF sbFlush.valid THEN 1 ELSE 0)

(* A load has counted exactly the younger stores to its double word that   *)
(* the address buffer holds.  One too many and it never leaves; one too    *)
(* few, or one for a store that is gone, and it passes an older store.     *)
JuniorCountersExact ==
  \A i \in LsqSlots :
    IsLoad(lsq[i]) =>
      lsq[i].junior =
        Cardinality({j \in SabFor(AddrOf(lsq[i])) :
                       /\ ~sab[j].sel /\ sab[j].tag \in LiveTags
                       /\ Depth(sab[j].tag) > Depth(lsq[i].tag)})

(* While a fence is in flight the loads behind it are in the queue: none   *)
(* has been sent to the cache, whatever flushes and commits have done to   *)
(* the fences around it.                                                   *)
FenceHoldsLoads ==
  \A f, t \in LiveTags :
    rob[f].kind = "FENCE" /\ rob[t].kind = "LOAD" /\ Depth(f) < Depth(t) =>
      ~LeftQueue(t)

(* Each write that the cache performs is the next one of its double word   *)
(* in program order: never one twice, one that a flush removed, or one     *)
(* ahead of an older one.  Stores to a double word alternate the value.    *)
WritesInProgramOrder ==
  [][cache.st = "WRITE" /\ cache'.st = "WRESP" => mem'[cache.addr] # mem[cache.addr]]_vars

(* An answer is always fetched: whatever flushes have done to the load it  *)
(* was for, the LSB is ready for it while the cache works on a read, so    *)
(* that the cache is free again for the accesses behind it.                *)
AnswersAreTaken == cache.st \in {"READ", "RRESP"} => respReady

=============================================================================
