----------------------------- MODULE AxiFabric -----------------------------
(***************************************************************************)
(* The way from a cache to memory: the engine that moves a line word by    *)
(* word (dcache_refill.sv, icache_refill.sv), the bridge of each cache     *)
(* that makes an AXI transaction of every word, the crossbar that          *)
(* serialises the two masters (axi_xbar_2x1.sv) and the SRAM               *)
(* (axi_sram.sv).  Every register changes once per clock cycle.            *)
(*                                                                         *)
(* Left out: addresses outside the SRAM, IDs and error responses, which    *)
(* the bridges never provoke; prefer_read, which decides between a read    *)
(* and a write of one master, since a bridge never asks for both.          *)
(***************************************************************************)
EXTENDS Naturals

CONSTANTS
  LINES,          (* Lines of memory.                                      *)
  WORDS_PER_LINE  (* Double words in a line.                               *)

ASSUME FabricAssumption == LINES \in Nat \ {0} /\ WORDS_PER_LINE \in Nat \ {0}

VARIABLES
  bridge,   (* For each master state_q, addr_q and wdata_q or rdata_q.     *)
  xbar,     (* state, owner, txn_write and rr_owner of the crossbar.       *)
  sramPort, (* wr_active, bvalid_r, rd_active with rvalid_r, and rdata_r.  *)
  sram      (* mem                                                         *)

fabricVars == <<bridge, xbar, sramPort, sram>>

Lines == 0 .. LINES - 1
Beats == 0 .. WORDS_PER_LINE - 1
Words == Lines \X Beats
WordValues == {0, 1}
LineData == [Beats -> WordValues]
NoData == [b \in Beats |-> 0]

-----------------------------------------------------------------------------
(* The line engine: state_q, is_write_q, beat_q, base_q and line_q.        *)
Engine == [st : {"IDLE", "REQ", "DONE"}, write : BOOLEAN, beat : Beats,
           base : Lines, data : LineData]
NoEngine == [st |-> "IDLE", write |-> FALSE, beat |-> 0, base |-> 0, data |-> NoData]

(* What the cache tells its engine in a cycle; NoEngine to start nothing.  *)
StartRead(line) == [NoEngine EXCEPT !.st = "REQ", !.base = line]
StartWrite(line, data) ==
  [NoEngine EXCEPT !.st = "REQ", !.write = TRUE, !.base = line, !.data = data]

EngineWord(e) == <<e.base, e.beat>>

(* Mutant of EngineNext: the last word of a line is counted as one more.   *)
EngineNextOneMore(e, start, ack, rdata) ==
  CASE e.st = "IDLE" -> start
    [] e.st = "REQ" /\ ack ->
         LET got == IF e.write THEN e.data ELSE [e.data EXCEPT ![e.beat] = rdata]
         IN IF e.beat = WORDS_PER_LINE
              THEN [e EXCEPT !.st = "DONE", !.data = got]
            ELSE [e EXCEPT !.beat = @ + 1, !.data = got]
    [] e.st = "DONE" -> [e EXCEPT !.st = "IDLE"]
    [] OTHER -> e

(* One clock edge.  The line stays readable for one cycle after DONE, in   *)
(* which the cache takes it.                                               *)
EngineNext(e, start, ack, rdata) ==
  CASE e.st = "IDLE" -> start
    [] e.st = "REQ" /\ ack ->
         LET got == IF e.write THEN e.data ELSE [e.data EXCEPT ![e.beat] = rdata]
         IN IF e.beat = WORDS_PER_LINE - 1
              THEN [e EXCEPT !.st = "DONE", !.data = got]
            ELSE [e EXCEPT !.beat = @ + 1, !.data = got]
    [] e.st = "DONE" -> [e EXCEPT !.st = "IDLE"]
    [] OTHER -> e

-----------------------------------------------------------------------------
Masters == {"D", "I"}  (* s0 and s1                                        *)
Other(m) == IF m = "D" THEN "I" ELSE "D"
BridgeStates == {"IDLE", "WRITE_ADDR", "WRITE_DATA", "WRITE_RESP",
                 "READ_ADDR", "READ_DATA", "ACK"}
NoBridge == [st |-> "IDLE", word |-> <<0, 0>>, val |-> 0]
NoPort == [wr |-> FALSE, b |-> FALSE, rd |-> FALSE, val |-> 0]

FabricTypeOK ==
  /\ bridge \in [Masters -> [st : BridgeStates, word : Words, val : WordValues]]
  /\ xbar \in [st : {"IDLE", "ADDR", "WRITE", "READ"}, owner : Masters,
               write : BOOLEAN, rr : Masters]
  /\ sramPort \in [wr : BOOLEAN, b : BOOLEAN, rd : BOOLEAN, val : WordValues]
  /\ sram \in [Words -> WordValues]

FabricInit ==
  /\ bridge = [m \in Masters |-> NoBridge]
  /\ xbar = [st |-> "IDLE", owner |-> "D", write |-> FALSE, rr |-> "D"]
  /\ sramPort = NoPort
  /\ sram = [w \in Words |-> 0]

Ack(m) == bridge[m].st = "ACK"
Requesting == {m \in Masters : bridge[m].st \in {"WRITE_ADDR", "READ_ADDR"}}

(* The handshakes of this cycle, each of master m through the crossbar     *)
(* with the SRAM.                                                          *)
Serves(m, phase) == xbar.st = phase /\ xbar.owner = m
AddrWritten(m) == /\ Serves(m, "ADDR") /\ xbar.write /\ bridge[m].st = "WRITE_ADDR"
                  /\ ~sramPort.wr /\ ~sramPort.b
DataWritten(m) == Serves(m, "WRITE") /\ bridge[m].st = "WRITE_DATA" /\ sramPort.wr
WriteAnswered(m) == Serves(m, "WRITE") /\ bridge[m].st = "WRITE_RESP" /\ sramPort.b
AddrRead(m) == /\ Serves(m, "ADDR") /\ ~xbar.write /\ bridge[m].st = "READ_ADDR"
               /\ ~sramPort.rd
DataRead(m) == Serves(m, "READ") /\ bridge[m].st = "READ_DATA" /\ sramPort.rd

BridgeNext(m, e) ==
  LET b == bridge[m]
  IN CASE b.st = "IDLE" /\ e.st = "REQ" ->
            IF e.write THEN [st |-> "WRITE_ADDR", word |-> EngineWord(e),
                             val |-> e.data[e.beat]]
            ELSE [st |-> "READ_ADDR", word |-> EngineWord(e), val |-> 0]
       [] AddrWritten(m) -> [b EXCEPT !.st = "WRITE_DATA"]
       [] DataWritten(m) -> [b EXCEPT !.st = "WRITE_RESP"]
       [] WriteAnswered(m) -> [b EXCEPT !.st = "ACK"]
       [] AddrRead(m) -> [b EXCEPT !.st = "READ_DATA"]
       [] DataRead(m) -> [b EXCEPT !.st = "ACK", !.val = sramPort.val]
       [] b.st = "ACK" -> NoBridge
       [] OTHER -> b

(* Mutant of XbarNext: the crossbar waits for the master whose turn it is. *)
XbarNextTurns ==
  CASE xbar.st = "IDLE" /\ xbar.rr \in Requesting ->
         [xbar EXCEPT !.st = "ADDR", !.owner = xbar.rr,
                      !.write = bridge[xbar.rr].st = "WRITE_ADDR"]
    [] \E m \in Masters : AddrWritten(m) -> [xbar EXCEPT !.st = "WRITE"]
    [] \E m \in Masters : AddrRead(m) -> [xbar EXCEPT !.st = "READ"]
    [] \E m \in Masters : WriteAnswered(m) \/ DataRead(m) ->
         [xbar EXCEPT !.st = "IDLE", !.rr = Other(xbar.owner)]
    [] OTHER -> xbar

(* The crossbar takes one transaction at a time; when both masters ask,    *)
(* the one that was not served last goes first.                            *)
XbarNext ==
  CASE xbar.st = "IDLE" /\ Requesting # {} ->
         LET m == IF Requesting = Masters THEN xbar.rr ELSE CHOOSE m \in Requesting : TRUE
         IN [xbar EXCEPT !.st = "ADDR", !.owner = m,
                         !.write = bridge[m].st = "WRITE_ADDR"]
    [] \E m \in Masters : AddrWritten(m) -> [xbar EXCEPT !.st = "WRITE"]
    [] \E m \in Masters : AddrRead(m) -> [xbar EXCEPT !.st = "READ"]
    [] \E m \in Masters : WriteAnswered(m) \/ DataRead(m) ->
         [xbar EXCEPT !.st = "IDLE", !.rr = Other(xbar.owner)]
    [] OTHER -> xbar

(* The SRAM writes a word when it gets the data and reads one when it gets *)
(* the address.                                                            *)
SramClock ==
  LET m == xbar.owner
      w == bridge[m].word
  IN /\ sram' = IF DataWritten(m) THEN [sram EXCEPT ![w] = bridge[m].val] ELSE sram
     /\ sramPort' = CASE AddrWritten(m) -> [sramPort EXCEPT !.wr = TRUE]
                      [] DataWritten(m) -> [sramPort EXCEPT !.wr = FALSE, !.b = TRUE]
                      [] AddrRead(m) -> [sramPort EXCEPT !.rd = TRUE, !.val = sram[w]]
                      [] WriteAnswered(m) \/ DataRead(m) -> NoPort
                      [] OTHER -> sramPort

(* One clock edge; dEngine and iEngine drive the two bridges.              *)
FabricClock(dEngine, iEngine) ==
  /\ bridge' = [m \in Masters |-> BridgeNext(m, IF m = "D" THEN dEngine ELSE iEngine)]
  /\ xbar' = XbarNext
  /\ SramClock

=============================================================================
