----------------------------- MODULE CachePort -----------------------------
(***************************************************************************)
(* What the data cache promises at its port (rready, wready, rresp_valid   *)
(* and wresp_valid of dcache_core.sv): it holds one access at a time,      *)
(* performs it on one memory in a single step, after any number of cycles, *)
(* and then shows the answer.  The load and store path is modelled on top  *)
(* of this port; MemorySystem shows that cache, bus and SRAM implement it. *)
(***************************************************************************)
EXTENDS Naturals

CONSTANTS
  Addrs,  (* Double words of memory.                                       *)
  NoAddr  (* In registers that hold no address.                            *)

ASSUME PortAssumption == NoAddr \notin Addrs

VARIABLES
  cache,  (* The access the cache holds, with its answer.                  *)
  mem     (* What the cache and the memory behind it contain.              *)

portVars == <<cache, mem>>

Values == {0, 1}
Idle == [st |-> "IDLE", addr |-> NoAddr, val |-> 0]
CacheStates == {"IDLE", "READ", "WRITE", "RRESP", "WRESP"}

PortTypeOK ==
  /\ cache \in [st : CacheStates, addr : Addrs \cup {NoAddr}, val : Values]
  /\ mem \in [Addrs -> Values]

PortInit ==
  /\ cache = Idle
  /\ mem = [a \in Addrs |-> 0]

CacheReady == cache.st = "IDLE"
LoadAnswered == cache.st = "RRESP"
StoreAnswered == cache.st = "WRESP"

Load(a) == [st |-> "READ", addr |-> a, val |-> 0]
Store(a, v) == [st |-> "WRITE", addr |-> a, val |-> v]
Accesses == {Load(a) : a \in Addrs} \cup {Store(a, v) : a \in Addrs, v \in Values}

(* One clock edge: access is what is accepted, or Idle; done says that the *)
(* access held is performed; taken that the client takes the load's answer.*)
(* The store buffer always takes its answer at once.                       *)
PortClock(access, done, taken) ==
  /\ cache' = CASE access # Idle -> access
                [] cache.st = "READ" /\ done ->
                     [cache EXCEPT !.st = "RRESP", !.val = mem[cache.addr]]
                [] cache.st = "WRITE" /\ done -> [cache EXCEPT !.st = "WRESP"]
                [] LoadAnswered /\ taken -> Idle
                [] StoreAnswered -> Idle
                [] OTHER -> cache
  /\ mem' = IF cache.st = "WRITE" /\ done THEN [mem EXCEPT ![cache.addr] = cache.val]
            ELSE mem

PortNext ==
  \E access \in Accesses \cup {Idle}, done, taken \in BOOLEAN :
    /\ access # Idle => CacheReady
    /\ PortClock(access, done, taken)

PortSpec == PortInit /\ [][PortNext]_portVars

=============================================================================
