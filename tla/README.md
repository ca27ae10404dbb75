# Formal model of the Tomasulo CPU and its memory system

TLA+ specifications of the hardware in this repository, the TLC configurations
that check them on small instances, and theorems checked by TLAPS for every
size. One step of a model is one clock edge of the synchronous design: every
component reads the registers of its neighbours as they are before the edge,
and all of them move together.

## The system

| component | state | operations | hard part |
|---|---|---|---|
| FRL (free list) | circular array of physical registers, head, tail | allocate, free, restore head on flush | leaks and double frees over flushes |
| FRAT | speculative map, circular checkpoints | rename, checkpoint, release, restore | nested mispredictions, tag reuse, full checkpoints |
| ROB | circular buffer of instructions | append, complete out of order, commit in order, cut on flush | full, empty and wrap; trap and flush in one cycle |
| DISPATCH | two-stage pipeline, `jr_stall`, `csr_stall` | accept, stall, forward, fire, redirect | stage 1 reads state stage 2 has not written yet |
| RRAT, RBA | committed map, ready bits | commit; set and clear ready | one set port for CDB and CSR |
| ISSUEQ, ISSUEUNIT | entries with ready bits, result-bus reservations | dispatch, wake up, issue, flush | events of one cycle hitting one entry; bus collisions |
| ALU, MUL, DIV, CDB | pipeline registers | execute, broadcast, kill younger | an operation granted in the cycle of the flush |
| LSQ, SAB | waiting memory operations, addresses of stores in flight | compute address, issue, flush | loads against older and younger stores |
| LSB, SB | loads in flight, committed stores | issue, answer, drain, flush | late answers of flushed loads |
| IFQ | sub-queues, outstanding and discarded request | request, answer, redirect | late answers after a redirect |
| IF_BP | fetch with predictors; only its test benches use it | predict, request, pair, redirect | pairing by order over a flush |
| CSR, traps | CSR file | write, trap, mret | order with speculation |
| L1 D-cache, coherence controller | lines, MSHR, walk position | hit, miss, write-back, clean-all | handshakes that outlive their request |
| L1 I-cache | lines, refill state | hit, refill, invalidate | invalidate during refill |
| AXI bridge, fabric, SRAM | transaction state | address, data, response | ownership and fairness |
| async FIFO | pointers on two clocks, synchronizers | push, pop | stale Gray pointers |
| arbiters | pointer, credits | grant | fairness, credit arithmetic |
| DMA | interface only | - | no engine in the repository |

Interactions. Fetch offers an instruction to DISPATCH stage 1, which reads FRAT
and FRL; stage 2 writes FRAT, ROB, RBA and an issue queue. The back end wakes,
issues and executes out of order and broadcasts on the CDB, which sets the ROB's
completion and the ready bit and, for a misprediction, flushes every component
behind the branch's ROB tag. The ROB commits in order: it moves the RRAT, frees
the previous register, releases the checkpoint, hands a store to the SB, writes
the CSR file and raises the flushes of traps, MRET and FENCE.I. Below the core,
SB and LSB share the D-cache, which reaches memory over an AXI bridge, fabric
and SRAM; FENCE.I runs the coherence controller over both caches.

What makes each component correct, beyond its own bookkeeping, is listed as
hazards in `PROJECT.json`, each at the line where it bites.

## Modules

| module | models | notes |
|---|---|---|
| `WrapPointer` | pointer arithmetic of all circular buffers | pointers 0..2D-1: the wrap bit is "D or more" |
| `RenameParams` | sizes and the decoded instruction | one `Kinds` value per class the front end treats differently |
| `FreeList` | FRL.sv | `FrlClock` is the clocked process |
| `Frat` | FRAT.sv | `FratClock` |
| `ReorderBuffer` | ROB.sv | `RobClock`, `Commits`, the flush signals |
| `Dispatch` | DISPATCH.sv | `DispatchClock`, `NormalStall`, `Forward` |
| `RenameCommit` | CPU_FRONT_END.sv wiring, RRAT.sv, RBA.sv | `Cycle(fetch, cdb, mem)` is one clock edge |
| `RenameProperties` | - | the properties, over the program order of the instructions in flight |
| `MCRenameCommit` | - | instruction mixes and the view for TLC |
| `IssueQueue` | INTQ.sv, MULQ.sv, DIVQ.sv | one design, `QueueClock(q, cdb, issue, new)` |
| `ExecUnits` | ISSUEUNIT.sv, ALU.sv, MUL.sv, DIV.sv | `Issued` arbitrates, one `...Clock` per unit |
| `Execute` | CPU_BACK_END.sv, EXE.sv, CDB.sv, FIFO of LSB.sv, with `ReorderBuffer` and the queue stalls of DISPATCH.sv | `Cycle` is one clock edge |
| `ExecuteProperties`, `MCExecute` | - | properties; mixes of classes and the view for TLC |
| `Compaction` | the loop of LSB.sv that closes the gaps a flush leaves in its FIFO | used by `Execute` and `MemoryOrder` |
| `CachePort` | the port of the L1 D-cache as its clients see it | abstract: one access at a time on one memory |
| `StoreBuffer` | SB.sv | `SbClock`; three pointers |
| `LoadStoreQueue` | LSQ.sv with the store address buffer, over `ReorderBuffer` | `LsqClock`, `SabClock`, `LoadMayIssue`, `StoreMayIssue` |
| `MemoryOrder` | LSB.sv and the wiring of ROB, LSQ, SB and cache port | `Cycle(offer, calc, cdb, done)` is one clock edge |
| `MemoryOrderProperties`, `MCMemoryOrder` | - | properties; the view for TLC |
| `AxiFabric` | line engines, bridges, axi_xbar_2x1.sv, axi_sram.sv | `FabricClock(dEngine, iEngine)` |
| `DataCache` | dcache_core.sv | `DClock`: access, MSHR, walk of a flush |
| `InstructionCache` | icache_core.sv | `IClock`: lookup, refill, invalidation, fetches that cross a line |
| `MemorySystem` | CPU_L1DCache_AXI.sv with cache_coherence_ctrl.sv | `Cycle(access, fetch, dPlru, iPlru, taken)` |
| `MemorySystemProperties`, `MCMemorySystem` | - | refinement of both ports, FENCE.I, liveness |
| `FetchPort` | the port of the L1 I-cache as fetch sees it | abstract: one fetch at a time |
| `Fetch` | IFQ.sv, with `jr_stall` and the wait after an empty queue of DISPATCH.sv | `Cycle(hold, jr, ready, done, to)` |
| `FetchProperties`, `MCFetch` | - | properties and fairness |
| `AsyncFifo`, `MCAsyncFifo` | BasicModules/asyncFIFO bit by bit: fifo.sv, pointer handlers, memory, synchronizers | an edge of either clock, or of both at once |
| `PointerFifo`, `FifoParams` | the same FIFO with its pointers as numbers | what `AsyncFifo` implements |
| `BoundedQueue` | what a FIFO promises | one step pushes, pops or does both |
| `ReorderBufferProofs` | - | lemmas on circular buffers and the ROB |
| `RenameProofs`, `ExecuteProofs`, `MemoryOrderProofs`, `FetchProofs`, `MemoryProofs` | - | theorems about `RenameCommit`, the back end, the load and store path, fetch and the memory system |
| `PointerFifoProofs`, `AsyncFifoProofs` | - | theorems about the FIFO on pointers, and that the bits implement it |

Each component is a set of operators over its own variables, one per clocked
process, that take the values of its input ports as parameters; `RenameCommit`
connects them as CPU_FRONT_END does, the other compositions likewise. `Next` is
therefore a single action in each. In `RenameCommit` it has three inputs: the
instruction that fetch offers (or none), the broadcast of the CDB (or none), and
what the store buffer and the coherence controller report.
Operators named "Mutant of ..." are deliberately wrong versions of the definition
they precede; they are not used by the specification.

Abstractions. Data values, immediates, PCs and opcodes are left out: an
instruction is a kind, a destination and one source (several sources differ in
nothing the properties see). A full issue queue shows as an empty fetch. The
predictor may predict anything. In `RenameCommit` the back end is an environment,
trusted to complete a live instruction once, after its source register is ready,
and never an instruction a flush removed; `Execute` checks those promises against
the back end itself (`OnePlace`, `NoLostWakeup`); the two cases in which they are
broken are described below. Physical registers without a reset value in the code hold
any value that no valid bit exposes.

`Execute` composes the back end with the ROB and drops renaming: free list and
ROB are allocated and rolled back together, so among live instructions the
physical register of an instruction is named by its ROB tag, and the ready bits
of stage 2 are an input that may report as missing any result not yet broadcast.
An instruction is a class (`Ops`). The divider's DesignWare core is external: it
completes `DIV_CYCLES + 1` cycles after its start, which is what the issue unit
reserves the bus for. The load and store path in front of the LSB buffer is a set
of operations that finish in any order, one per cycle; all of them write a
register. The FIFO, its grant and its flush compaction are modelled. Instructions
that only pass through the ROB (CSR, traps, fences) belong to `RenameCommit`.

The core and the memory system meet at two ports, each a module of its own.
`MemoryOrder` is built on `CachePort` and `Fetch` on `FetchPort`, and
`MemorySystem` implements both (`ImplementsPorts`): together they say that loads
and stores in program order reach the SRAM, without one model of everything.

`MemoryOrder` has the ROB again, with loads, stores, branches and fences only, and
drops renaming. An access is a double word. A store writes the value its double
word does not have at that point of the program, so that a load can tell the
store it must see from its predecessor; `memOp` keeps, for a load, the value
program order gives it. Operands arrive, branches resolve and the cache answers at
any time. The sizes of accesses and the byte strobes are left out: the LSQ
compares double words only. The SB entry and its release reach the address buffer
one cycle late (`sbEntry`, `sbFlush`), as in the code.

`MemorySystem` moves lines word by word through engine, bridge, crossbar and SRAM,
a register at a time. Its environment, the core, asks for anything the ports
allow, and starts FENCE.I under the rules of the ROB (no store under way, no access
behind it before it commits). The pseudo-LRU bits are left out: any way may be
the victim, so that the replacement policy is trusted for performance only.
Transactions are single beats, as the bridges make them, and never fail, since the
bridges never leave the SRAM. `fresh` and `old` are history.

In `Fetch` an instruction is its address; one requested before the last redirect
is marked. Dispatch is what it tells the queue: read enable, `dis_jmpbr` and the
target.

The asynchronous FIFO is modelled on three levels. `AsyncFifo` has the binary
pointers, the Gray codes behind them, their conversions and the two registers of
each synchronizer. Its two clocks are unrelated, so that a step is an edge of one of
them or of both; when both fall together, a synchronizer samples a pointer while it
changes. No register holds the Gray code (`assign` with an exclusive or in
write_ptr_handler.sv:17 and read_ptr_handler.sv:16), so what changes are the bits of
the binary pointer. The constant `SKEW` says whether they are caught together, as in a
simulation of the code, or each old or new (`Sampled`); in the second case the code
caught may be that of a pointer that never was: between 1 and 2 (01 and 10) a
synchronizer can see 0 or 3. `PointerFifo` sees such a pointer as any (`Caught`).
`BoundedQueue` is the promise (`WordsInOrder`), which holds either way; the order of
the views and the room behind almost_full hold only for pointers caught whole (see
the findings). Left out are one side held in reset while the other runs (the test
benches reset both), a synchronizer register that stays metastable for longer than a
cycle, and a pointer that is still changing at the next edge of either clock.

## Runs

| run | instance | question |
|---|---|---|
| `rename_kinds` | 3 architectural registers, 2 free, 2 ROB entries, all kinds of instruction | conservation, renaming, ready bits, serialization, traps |
| `rename_branch` | 2 registers, 2 free, 4 ROB entries, 4 checkpoints, writers and branches | nested branches, checkpoints, allocation order |
| `rename_live` | 2 registers, 1 free, 2 ROB entries, legal programs | commit progress, release of stalls |
| `rename_checkpoints` | as `rename_branch`, 2 checkpoints | finding: a branch with no checkpoint |
| `exec_pipes` | 4 ROB entries, queues of 2, MUL 2 and DIV 3 cycles, LSB of 2, one operand to wait for; branches with MUL and memory, or INT and DIV with MUL and memory | one place each, one result per cycle, no lost wake-up, queue slots |
| `exec_live` | 3 ROB entries, two operands, pairs of rival classes | the head executes |
| `exec_flush_div` | as `exec_pipes`, branches and DIV | finding: an older division is dropped in a flush |
| `memory_order` | 3 ROB entries, LSQ 2, address buffer 4, store buffer 2, LSB 2, two double words, up to 3 stores; branches or fences with loads and stores | program order of memory, address buffer, counters, fences, late answers |
| `memory_flush` | as `memory_order`, a branch may flush in the cycle after a store commits | finding: a committed store loses its address |
| `memory_system` | 2 lines of 2 words; D-cache of one line, I-cache of two; stores to one word, loads that evict it, fetches of it that may cross a line | both ports refined, FENCE.I, every access answered |
| `fetch` | 9 addresses, 4 sub-queues of 2, 3 instructions per response, redirects to two targets | order and supply of instructions |
| `fifo_clocks` | `ADDR_WIDTH` 2 (4 words), two different words, both gaps 1, no skew | the FIFO is a bounded queue on unrelated clocks |

Bounds. Every pointer wraps in every run (a buffer of D entries has 2D pointer
values and runs are unbounded). Two ROB entries already give a committing head,
an instruction behind it, one in stage 2 and one in stage 1; four entries allow
three branches that mispredict in any order, with tags reused. One or two free
registers make the free list run empty. No counter is cut off: the state spaces
are complete. The view `LiveState` merges states that differ only in names of
physical registers, which are copied and compared but never computed with, or in
the contents of slots that are not occupied.

The passing runs have as many checkpoints as ROB entries, so that every branch
in flight can have one. The code ships with 16 ROB entries and 8 checkpoints,
and there the finding applies: `frat_full` is read one cycle before the branch in
stage 2 takes the last checkpoint, and a JALR through x1 never waits for one.
`rename_checkpoints` shows the first of the two.

Bounds of `Execute`. Four ROB entries with queues of two fill every queue, leave
one vacancy with stage 2 about to take it, and let an instruction in each unit
compete for the bus. `MUL_CYCLES` = 2 and `DIV_CYCLES` = 3 are the least values
the assertions of ISSUEUNIT.sv admit, so that all of its conflict rules apply
within a few cycles. `REFETCH`, the cycles from a flush to the next offer, must
be at least `MUL_CYCLES - 1` (`ExecAssumption`): a multiplication granted in the
cycle of a flush enters the multiplier although it is younger than the branch
(MUL.sv:118 does not look at the flush) and broadcasts in cycle f + MUL_CYCLES;
since a fetch after a redirect passes the registered cache response first, no
instruction has taken its tag by then in the shipped configuration. Divisions
and branches are not in flight together in the passing runs (`Apart`), because
of the finding `exec_flush_div`; each meets everything else. The view `ByDepth`
replaces tags by distances from the head: the back end only ever compares
distances.

Bounds of `MemoryOrder`. Three ROB entries give a load between two stores, or a
branch between a load and a store; two LSQ slots with a store buffer of two let
younger stores overtake a waiting load and stores of earlier instructions still
drain. Branches and fences are in flight with loads and stores, not with each other
(`Mixes`). Three more bounds leave out cases in which the code fails and which are
described below: `MAX_STORES` < `SAB_DEPTH` (the address buffer is never full),
`FLUSH_AFTER_COMMIT` = FALSE and `FLUSH_COUNTED` = FALSE. Nothing in the code enforces
any of them: the shipped ROB and store buffer together hold more stores than the address
buffer has places. The run says what holds where the code does not fail. The view `ByDepth` counts tags and
slots from the heads and values from memory; the double words are symmetric, and
no property of the run is one of liveness.

Bounds of `MemorySystem`. With one line in the data cache every access to the other
line is a miss with a dirty victim; the instruction cache holds the stored line and
the one a fetch runs into. The same properties also hold for a data cache of two
ways with three lines, an instruction cache of two ways, and stores to two lines
(up to 307,000 states), which are not kept as runs. Two cases do not arise at these
sizes and rest on the theorems, which hold for all: stores to the second word of
a fetch that crosses a line (`FetchesSeeFence`), and a second `flush_done` that answers the
next FENCE.I (`CleanAtDone`). A fetch may cross from the last two words of a line, as the
four instructions of a response can.

Bounds of `Fetch`. Nine addresses are more than the eight the queue holds, three
instructions do not divide four sub-queues, so every alignment of the write and read
pointers occurs, and two targets give redirects that overlap.

Bounds of `AsyncFifo`. Two bits of address are the least for which the full test of
the Gray codes (two bits inverted, the rest equal) makes sense; the pointers pass
every code, at every lag of either view, without end. Two words tell
apart order, loss and repetition; the memory starts with any contents. `SKEW` is FALSE,
as in a simulation; what remains with `SKEW` = TRUE is proved for every size
(`FifoOnPointers`, `ClockIsAQueue`), and what does not is among the findings.

Fairness of `Execute`. The clock runs, and an operation in the load/store queue
that stays able to enter the LSB eventually does (`Finishes`). Nothing is
assumed of the issue unit: `HeadExecutes` says its fixed preferences starve nobody.

Fairness of `MemorySystem`. The clock runs (`WF_vars(Next)`), and nothing else: that the
crossbar serves both masters and that the walk ends are properties of the design.

Fairness of `Fetch`. The cache accepts and answers (`Accepts`, `Answers`; `memory_system`
shows the latter), and dispatch is not held for ever for reasons of its own
(`Unheld`). Nothing makes redirects happen.

`MemoryOrder` states no liveness: that a load is not held for ever rests on
`JuniorCountersExact`, `AddressBufferExact` and `AnswersAreTaken`, which are its waits.

Fairness of `AsyncFifo`. Each clock runs as long as a view on its side has not
caught up with the pointer it follows; nothing is assumed of the user of either side.

Findings. `PROJECT.json` quotes the lines.

* A branch may have no checkpoint (`rename_checkpoints`).
* A division that arrives in the cycle of a flush is killed or kept by the tag of
  an earlier division (`exec_flush_div`); when it is lost although it is older than
  the branch, the ROB waits for it for ever.
* A store that committed in the cycle before a flush is not yet marked as committed
  in the address buffer; its tag is the one behind the head, its age wraps, and the
  flush removes it as younger than the branch. A load to its address then passes it
  while it is still in the store buffer (`memory_flush`).

Three more concern bounds of `MemoryOrder`; changing the bound in `memory_order.cfg`
shows each.

* A store leaves the queue although the address buffer is full and overwrites its
  entry 0 (LSQ.sv:251): `MAX_STORES` as large as `SAB_DEPTH` violates
  `AddressBufferExact`.
* A flush lowers the counters of the loads it removes, not of those it spares
  (LSQ.sv:384): a load that has counted a removed store waits for a match that
  does not come, or passes an older store later.
  `FLUSH_COUNTED` = TRUE violates `JuniorCountersExact`, and with four ROB entries
  `LoadsSeeProgramOrder`.
* The counters are as wide as an index of the address buffer and wrap when all of
  its entries match (LSQ.sv:203): `SAB_DEPTH` = 2 violates `LoadsSeeProgramOrder`.

And one concerns `SKEW` of the FIFO; setting it to TRUE in `fifo_clocks.cfg` shows it.

* The Gray code is formed by logic behind the pointer register and not registered
  before it crosses (write_ptr_handler.sv:17, read_ptr_handler.sv:16). If the bits of
  the pointer reach the synchronizer apart, it can catch a pointer that never was,
  for one cycle. Words are neither lost nor reordered by it (`WordsInOrder`): near empty
  the reader, and near full the writer, has seen the other's pointer settle. But almost_full
  may stay low with no room left, which violates `AlmostFullInTime`, and a view may be
  ahead of its pointer, which violates `ViewsLag`.

Two oddities turn out to be harmless. `flush_done` of the data cache pulses while
`flush_req` is still high, so that a second walk starts and its pulse comes later
(dcache_core.sv:528) and may answer the next FENCE.I early: the cache takes no store
during a walk, so nothing is dirty at its end and `CleanAtDone` holds. And a fill of
the instruction cache may be under way over a FENCE.I: what it installs in the end is
new enough (`FetchesSeeFence`, proved below).

Fairness (`FairSpec`) of the front end. The clock runs, so stage 2 moves (`Stage2Moves`); an
entry that stays completable is completed by the back end (`Completes(t)`); a
head that stays ready to commit is let go by the store buffer and the coherence
controller (`HeadCommits`). Nothing is assumed of fetch.
The programs of `rename_live` have no stores and no FENCE.I, so the waits of the head for
store buffer and coherence are an assumption (`HeadCommits`) there and not exercised.
Liveness uses programs without undecodable instructions: the code gives those
a ROB entry that nothing ever completes.

## Theorems

The theorems hold for all sizes, programs and mixes that the named assumptions
admit: one or more registers, free slots and checkpoints and two or more ROB
entries (`SizeAssumption`); two or more slots in a queue (`QueueAssumption`); at
least two cycles in the multiplier and more in the divider (`CyclesAssumption`,
the assertions of ISSUEUNIT.sv); any LSB depth and `REFETCH` of at least
`MUL_CYCLES - 1` (`ExecAssumption`); any depth of load-store queue, LSB and store
buffer and two or more entries of the address buffer (`LsqAssumption`,
`StoreBufferAssumption`, `MemoryOrderAssumption`, `PortAssumption`); any number of
ways that holds a response (`FetchAssumption`); at least one line, word per line, set
and way in memory and caches (`FabricAssumption`, `CacheAssumption`,
`ICacheAssumption`) and accesses within memory (`ProgramAssumption`); any depth, gap
and set of words of the FIFO (`FifoAssumption`), and for its bits any width of address
from two up (`AddrAssumption`).

| module | invariant proved inductive | theorems about properties of the runs |
|---|---|---|
| `ReorderBufferProofs` | - | lemmas on circular buffers and on `RobClock` |
| `RenameProofs`, part one | `TypeOK`, `SerialInv` | `Stage2FindsEntry`, `SerializingIsYoungest`, `CsrPortExclusive` |
| `RenameProofs`, part two | `RenameInv` | `RegistersConserved`, `AllocationOrder`, `RenamingFollowsProgramOrder`, `CheckpointOfBranch`, `SourceNotFree`, `ReadyBitsTruthful`, `TrapIsPrecise` |
| `ExecuteProofs` | `TypeOK`, `ReserveInv`, `ExecInv` | `CdbExclusive`, `Stage2FindsSlot`, `OnePlace`, `NoLostWakeup` |
| `MemoryOrderProofs` | `PathInv`, `ChainInv`, `AddressInv`, `JuniorInv`, `SeenInv` | `TypeOK`, `AnswersAreTaken`, `FenceHoldsLoads`, `WritesInProgramOrder`, `AddressBufferExact`, `JuniorCountersExact`, `LoadsSeeProgramOrder` |
| `FetchProofs` | `TypeOK`, `FetchInv` | `FetchInOrder` |
| `MemoryProofs` | `TypeOK`, `FenceInv`, `CacheInv`, `SeesInv` | `CleanAtDone`, `ImplementsPorts`, `FetchesSeeFence` |
| `PointerFifoProofs` | `EndInv`, `FifoInv` | what the next module derives for the bits |
| `AsyncFifoProofs` | `TypeOK` | `TypeOK`, `ImplementsPointerFifo`, `WordsInOrder`; without skew `ViewsLag`, `AlmostFullInTime` |

* `ReorderBufferProofs`: the occupied places of a circular buffer have distinct
  slots (`SlotsDistinct`), and how append, removal and cut change the set of
  occupied places (`WindowStep`); the same of the ROB, for both compositions that
  use it. It also proves `NatSetInduction`: a set of numbers
  that holds 0 and is closed under successor holds all. It is the form of
  induction the backends can use, because the set is a term and not an operator.
* `RenameProofs`, serialization: `Typing` is proved component by component; the one deep
  part is that a matching checkpoint exists in the highest slot (`MatchPtr` is a
  CHOOSE), hence `MaxExists`. `SerialInv` strengthens the properties by
  what they silently rely on: the ROB count is within its depth, the last vacancy
  is reserved for stage 2, `csrStall` covers every serializing instruction in
  flight, and such an instruction is the youngest.
  A flush is harmless because the flushed tag is live (`FlushPtrLive`).
* `RenameProofs`, registers: none of the register properties is inductive.
  Conservation of registers survives a flush only if the registers that
  return are the ones the flushed instructions took; that holds because they left
  the free list in program order (`AllocInv`) and because the checkpoint restored
  is the one of the branch, with map and head as program order gives them behind
  it (`CkptInv`, `MapInv`). A checkpoint in turn must outlive older commits and be
  younger than every checkpoint of an older branch, which `CkptInv` says by comparing
  the rank of a checkpoint with the place of its owner. `RenameInv` is their
  conjunction, with `JrInv` for the jumps that take no checkpoint and stall instead.
* `RenameProofs`, properties. They follow from `RenameInv` and hold
  in every behaviour in which each open branch has a checkpoint
  (`[]BranchHasCheckpoint`), which the code does not ensure: it is the property that
  `rename_checkpoints` violates for 16 entries and 8 checkpoints. The hypothesis is
  a property of behaviours and not of the invariant, so the proofs say that the
  missing checkpoint is the only way to lose them. With as many checkpoints as
  ROB entries (`CheckpointsSuffice`, the sizes of the passing runs) it is itself proved,
  and `RegistersBySize` needs no hypothesis.
* `ExecuteProofs`, reservations. `CdbExclusive` is about one cycle; what keeps two
  results apart was decided when the operations were issued. `ReserveInv` says where
  each announcement stands: `mulDone[j]` announces a product j + 1 cycles ahead,
  `divCount` a quotient, each operation in a unit has its announcement, and a grant
  leaves the next cycle free. It needs no hypothesis, nor does room in the queues
  (`RoomInv`): dispatch judges a queue one cycle before it fills the slot.
* `ExecuteProofs`, places. `HomeInv`, `UniqueInv` and `PresentInv` say that a pending
  instruction is in exactly one place, and that each place holds a pending
  instruction of a class that fits, or a leftover: a multiplication granted in the
  cycle of a flush keeps a tag the flush freed. `REFETCH` is what keeps new
  instructions from that tag until it is broadcast. `WaitInv` says that what an
  operand waits for is older, pending and writes a register. The step takes the
  origin of each place of the next state (`At`, `Origin`) and shows that
  nothing is copied and, except by a flush, nothing dropped.
  They hold in every behaviour in which no division reaches the divider in a
  cycle of a flush (`[]NoDivAtFlush`): this is exactly what happens in the finding
  `exec_flush_div`, and under it `FlushSparesTheOlder` holds, the property
  that run violates. The code does not ensure it; programs that keep divisions and
  branches apart do (`DivisionsMeetNoFlush`), and for them `BackEndByMix` needs no
  hypothesis. These are the mixes (`Apart`) of the passing runs.
* `MemoryOrderProofs`, places. `PathInv` says that queue, load slot and LSB buffer hold
  accesses in the ROB that have not completed, each in one place, and that the store
  the cache works on is the oldest of the store buffer. With it the types hold (the
  buffer of the LSB does not overflow although load and store may enter it in one
  cycle), the LSB is ready for every answer, and a load behind a fence stays in the
  queue: a fence ahead of it was there when it entered.
* `MemoryOrderProofs`, writes. That the cache performs a store in order is a fact about the
  whole path behind dispatch, from the ROB through the store buffer to memory.
  `Places` are the accesses of store buffer and ROB, `Before` their order; a commit
  moves a store from one to the other (`Origin`) and leaves the order as it is
  (`OrderStep`). In `ChainInv` each access has found the value of the last store to its
  double word before it, and the oldest that of memory, one write ahead between the
  write and its answer. A store found the opposite of its own value, so a write that
  changes nothing would be a store performed twice or out of turn. Flushes cut the chain
  at its young end only. None of this needs the bounds of `memory_order` on
  flushes and on the number of stores.
* `MemoryOrderProofs`, addresses. A store has a name in the address buffer: its tag,
  and from two cycles after its commit until one after the answer of the cache its
  slot in the store buffer (`Names`). `AddressInv` says that entries in use and names
  correspond one to one, with the address of the store, so that counting one counts
  the other (`OccupiedCount`). A cycle renames, adds and drops on both sides alike,
  as long as the buffer is not full (`[]~SabFull`, a hypothesis on the behaviour) and no
  branch flushes in the cycle after a commit (`FlushesWait`): in that cycle a committed
  store has still its tag, and the depth of the tag makes it look young. Neither holds
  of the code by itself: they are the cases in which the findings say it fails.
* `MemoryOrderProofs`, counters and loads. `JuniorInv` holds under a third hypothesis,
  that no branch flushes a store which a load it spares has counted (`CountsSpared`): a
  store that leaves the queue is counted by every older load to its double word,
  since it waits until their addresses are known. A load that leaves finds as many
  matching entries as it has counted, so all of them are younger (`LoadReads`): no
  store to its double word is ahead of it in the queue, behind the queue or in the
  store buffer, it is the first of the chain, and by `ChainInv` memory has its value.
  `SeenInv` carries the value through cache, load slot and buffer. Each of the
  three hypotheses excludes one of the findings, and without it the property fails as
  described there. The two on flushes are the switches `FLUSH_AFTER_COMMIT` and
  `FLUSH_COUNTED` of the environment: a behaviour in which no such flush happens
  is one of the specification with the switch off, so the theorems cover every behaviour
  of the code without the three. That the buffer does not fill stays a hypothesis on
  the behaviour, at any sizes, for no size in the code ensures it.
* `FetchProofs`: `FetchInOrder` is not inductive, since an answer may belong to a
  request made before a redirect. In `FetchInv` the sub-queues, read in turn from
  `rdWay`, are one run of consecutive addresses that ends at `imemPc`, the
  request under way asks for `imemPc` unless it is stale, and it is discarded if and
  only if it is stale. The arithmetic modulo `NUM_WAYS` and `PC_COUNT`, which the SMT
  backend does not know for moduli that are constants, is proved first
  (`ModOf`, `QuotientUnique`).
* `MemoryProofs`, fences. `FenceInv` places each handshake of a FENCE.I in the state of
  its partner and says, in `WalkInv`, that no line behind the walk is dirty and that no
  store is under way from the request on. The walk restarts when `flush_done`
  pulses early, and that is harmless because clean lines stay clean.
* `MemoryProofs`, ports. `Contents` is the memory that a client of the D-cache sees: the
  cached word if its line is valid, the SRAM's word otherwise. `CacheInv` is what keeps
  it still while words move. A bridge carries the word of its engine, and the
  crossbar serves the owner only (`BridgeInv`). The words an engine has moved equal
  memory (`MovedInv`). A valid line lies in its set, in one way, and equals memory unless
  it is dirty (`LineInv`). The victim of a miss reached memory before its slot is filled
  (`MissInv`). So `Contents` changes by a performed store and by nothing else
  (`ContentsStep`), an answer is the value of the word (`AnswerValue`), and every cycle
  of the system is a step of `CachePort` and of `FetchPort`, or a stutter
  (`DataPortStep`, `FetchPortStep`, `CachesImplementPorts`).
* `MemoryProofs`, fetches after a fence. The controller does not wait for the
  instruction cache: a fill that is under way when FENCE.I starts may install a line
  after the invalidation, with words it read before the data cache wrote them
  back. That no fetch sees them is a matter of pace. `LeadInv` says that as long as a
  fill holds such a word, the write-back of that line is still under way, and that the
  fill is ahead of it by the words each has had transferred; when only level, the fill
  is next at the crossbar (`Ahead`). It stays so (`AheadStep`): a bridge that has been
  served needs two cycles to ask again, in which the crossbar takes the other, and is back
  within the transaction of the other (`TurnInv`). The arbitration rule plays no part.
  So such a fill has ended before the walk has. What is in a fill when FENCE.I commits
  is therefore in memory, and what a later fetch gets was in its word since
  (`FreshInv`, `FetchSeesStoresBeforeFence`).
* `PointerFifoProofs`, order. `EndInv` holds with skew and without. A pointer that is
  caught between two values may be seen as any, but only near the limits does it matter
  what a side sees, and there it has settled (`EndsSeen`): when the FIFO is empty both
  registers of the reader's synchronizer hold the write pointer, with one word left the
  first of them does as soon as the reader may take it, and the writer at full
  likewise. So a side that moves finds a word, or a place (`FlagsSafe`), a push appends
  to the words inside (`PushAppends`), a pop takes the first (`PopTakesHead`), and
  every step is one of the queue: `FifoIsAQueue`.
* `PointerFifoProofs`, views. `FifoInv` needs pointers caught whole (`~SKEW`). It has
  `ViewsLag` (counted from the read pointer that the writer sees, the other views
  and pointers follow in a fixed order) and `RoomSeen`, which ties the registered almost_full to
  the pointers of the cycle before; `AlmostFullKeepsRoom` follows.
* `AsyncFifoProofs`, codes. Powers of two are sizes of power sets (`TwoPower`, from the
  library's `FS_SUBSET`), a bit is the parity of a number shifted down (`ShrFacts`), and
  induction over bits goes through sets of them (`UpFrom`, `DownFrom`). A code
  determines its pointer, bit by bit from the top (`GrayDetermines`), so decoding undoes
  encoding (`Decoded`). All bits and all codes are those of
  some pointer (`BitsReached`, `CodeFacts`), and so is whatever is caught of a changing
  one (`SampledPointer`).
  Adding `FIFO_DEPTH` flips the top bit of the pointer and hence the upper two of the
  code (`TopBit`, `FullOfCodes`).
* `AsyncFifoProofs`, clocks. The flags are those of the pointers decoded (`SameFlags`),
  and every edge is a step of `PointerFifo` (`FifoOnPointers`). That Gray codes of
  neighbours differ in one bit is used nowhere, since the code sends no registered
  Gray pointer. The theorems of `PointerFifoProofs`
  then apply to the decoded pointers, through an instance of that module.

All safety properties that the passing runs check are theorems, some of them under the
hypotheses named above, which those runs satisfy by their bounds and which the code
itself does not ensure. Model-checked only is liveness, which is out of the prover's reach with ENABLED and fairness. Recursive
definitions are avoided in every module.

## Not modelled

* IF_BP with BTB, BPB, RAS, response queues and fetch buffer: the CPU tops
  instantiate IFQ, and only the test benches use IF_BP. The predictor in
  `RenameCommit` is free to predict anything.
* The contents of the CSR file: what it does to the pipeline (serialization, the
  ready-bit port, traps, MRET) is in `RenameCommit`; values and PCs are data.
* The arbiters of BasicModules: no part of the CPU instantiates them.
* The AXI-Lite and burst features of the bus, error responses, and the default slave:
  the bridges never use them.
* DMA: the repository has an interface and no engine.
* The decoder beyond the classes of instruction, and the arithmetic of the execution
  units: pure functions of data. The divider is a DesignWare core.
* The test benches, the UVM environment and its scoreboards. The scripts under
  `src/Tomasulo3CPU/uvm/uvm_cov_report/js` belong to a generated coverage report
  (jQuery and plugins) and take no part in the design.

## Plan

Done: all components above with their runs, and the proofs of every safety property
that the passing runs check.

What could come next: a model of IF_BP with its response queues, should a CPU top
come to use it, and the liveness properties as theorems with a prover that knows
ENABLED.
