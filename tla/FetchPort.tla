----------------------------- MODULE FetchPort -----------------------------
(***************************************************************************)
(* What the instruction cache promises at its port (req_ready and          *)
(* resp_valid of icache_core.sv): it takes one fetch at a time, answers it *)
(* after any number of cycles, and shows the answer until it is taken.     *)
(* The fetch queue is modelled on top of this port; MemorySystem shows     *)
(* that cache, bus and SRAM implement it.                                  *)
(***************************************************************************)
CONSTANTS
  FetchAddrs,  (* Addresses of instructions.                               *)
  NoFetchAddr  (* When there is no fetch.                                  *)

ASSUME FetchPortAssumption == NoFetchAddr \notin FetchAddrs

VARIABLE port  (* The fetch the cache holds.                               *)

NoPortFetch == [st |-> "IDLE", addr |-> NoFetchAddr]

FetchPortTypeOK ==
  port \in [st : {"IDLE", "BUSY", "ANSWER"}, addr : FetchAddrs \cup {NoFetchAddr}]

FetchPortInit == port = NoPortFetch

RespValid == port.st = "ANSWER"

(* One clock edge: addr is the fetch that is accepted, or NoFetchAddr;     *)
(* done says that the cache answers now, taken is resp_ready.              *)
FetchPortClock(addr, done, taken) ==
  port' = CASE port.st = "IDLE" /\ addr # NoFetchAddr -> [st |-> "BUSY", addr |-> addr]
            [] port.st = "BUSY" /\ done -> [port EXCEPT !.st = "ANSWER"]
            [] RespValid /\ taken -> NoPortFetch
            [] OTHER -> port

FetchPortNext ==
  \E addr \in FetchAddrs \cup {NoFetchAddr}, done, taken \in BOOLEAN :
    FetchPortClock(addr, done, taken)

FetchPortSpec == FetchPortInit /\ [][FetchPortNext]_port

=============================================================================
