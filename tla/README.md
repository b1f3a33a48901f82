# A verification of the Sun-2 in an FPGA

This directory models the logic of `rtl/` and `boards/` in TLA+: the machine around a 68010 core,
its memory path across clock domains, its bus masters and its cards; and the diagnostic programs
of `tools/`, which are the machine's own account of what can be wrong with it. TLC checks small
instances; TLAPS proves what is worth proving for every size. Every definition that models
code names the lines it stands for in `PROJECT.json`, under `map`.

## 1. The system

A Sun-2/120 (MultiBus) or 2/50 (VME) is rebuilt as one design with one bus clock, C100, a
memory controller on a clock of its own, a pixel clock, and the PHY's clocks. What keeps state:

| Part | Source | State | Operations | Talks to |
|---|---|---|---|---|
| Clock-crossing FIFO | `sun2_async_fifo.v` | storage, two pointers, two copies of each other's Gray code | push, pop | both bridges |
| Queued bridge | `sun2_fifo_bridge.v` | request and answer queues, a tag, the transaction under way | take a phase, queue it, answer it, drop stale answers | bus cycle, memory front end |
| Cached bridge | `sun2_cached_fifo_bridge.v` | the same, and a direct-mapped read cache | the same, look-up, fill, write through, sweep | the same |
| Synchronous bridge | `sun2_wishbone_bridge.v` | `issued`, `done` | one transaction per phase | bus cycle, `wb_mig_sync` |
| Wukong memory front end | `wb_mig_sync.sv`, `wb_to_mig_ui.sv`, `mig_arb.sv` | toggles, request registers, owner, the two write handshakes | cross, arbitrate, command, return data | the MIG |
| DECA memory front end | `deca_wb_ddr3_sync.sv`, `deca_wb_to_ddr3.sv` | toggles, request registers | the same for one client | the UniPHY |
| Scan-out, timing | `fb_scanout.sv`, `video_timing.sv` | two line buffers, fetch position, screen counters | fetch a line, show a line | `mig_arb` |
| Bus cycle | `sun2_fpga.v` | C_S chain, refusal latch, timeout, bus error register | decode, acknowledge, refuse, time out | everything on the bus |
| MMU | `sun2_mmu.v`, `smap.v`, `pmap.v`, `ctx_reg.v` | maps, context, statistics | translate, protect, update | bus cycle |
| DVMA | `sun2_dvma.v`, `sun2_bus_arb.v` | a state machine per master, lock and owner | ask, take, run one or two cycles, release | CPU, cards |
| 3C400 | `sun2_mb_3c400.sv` | ownership bits, three buffers, two sequencers | receive, transmit, turn a buffer round, reset | host, MII |
| Sun Ethernet cards | `sun2_mb_ether.sv`, `sun2_ethernet.sv`, `sun2_ether_ctl.v` | page map, local memory, control register | host access, 82586 access, channel attention | 82586 core |
| SCSI | `sun2_scsi_core.sv`, `sun2_vme_scsi.sv`, `sun2_mb_scsi.sv` | register file, REQ/ACK handshake, DMA engine with a staged longword | programmed byte, DMA byte, flush, fetch | target core, DVMA |
| Xylogics 450 | `sun2_xy450.sv` | registers, parameter block, sector buffer | GO, fetch, transfer, complete, reset | DVMA, block device |
| Timers, clock | `ttl_am9513.v`, `mm58167.v` | counters, pointers; date | load, arm, count; read, roll over | CPU |
| Board set-up | `phy_*_init.sv`, `deca_adv7513_init.sv` | a sequencer over MDIO or I2C | write, read back, retry, watch | PHY, HDMI transmitter |
| Boot blocks | `tools/ctxprobe` ... `tools/xychain` | the maps they change, handlers, verdicts | prepare, access, restore, say | MMU, timers, disk controller |
| Host tools | `tools/patwr.c`, `memdwell.c`, `memchk.c`, `memloop.s`, `netchk.c`, `rompatch.c` | a buffer, a count | fill, verify, walk, patch | buffer cache, memory, a stream, an image |
| JTAG console | `deca_jtag_console.sv`, `deca_uart_*.sv` | bytes in flight both ways | relay | SCC, host |

The behaviours that make this hard, and what must hold in spite of them:

* **Clock crossings.** A queue that is a queue, a toggle whose companion data stand still,
  a handshake that never answers twice or for another.
* **Phases that are withdrawn.** A master reset in mid-cycle leaves a read on its way; its
  answer must go nowhere. Two masters share one memory path and must see one memory.
* **One bus, several drivers.** Grant, release, and the clocks in between.
* **Cycles that fail.** Refusals latched a clock late, timeouts against late answers, the
  second half of a longword faulting after the first was done.
* **Buffers that change hands** between a card and a host, with resets in the middle.
* **Bytes that are gathered** into longwords while the phase they belong to may end, the host
  may disarm the channel, or the bus may fail.
* **Diagnoses.** A program that sees the hardware through registers, faults and interrupts must
  blame what is broken and nothing else, and put back what it changed.

`PROJECT.json` lists every component, the ones left out included, and under `hazards` each
thing that can go wrong, at its line, with the property that would show it.

## 2. Modules

| Module | Models | Checked by |
|---|---|---|
| `AsyncFifo` | the FIFO register by register, each bit of a sampled word resolving on its own | `MCAsyncFifo` |
| `PointerFifo` | the FIFO with positions for Gray codes; a sample is the old position or the new | `MCAsyncFifo`; `PointerFifoProofs` |
| `DelayedQueue` | what a FIFO promises: a queue whose fullness and contents become known late | through `PointerFifo`, `FifoBridge` |
| `SerialMemory` | what a memory path promises: one memory, each request performed once, in order, answered to its own phase | through every bridge |
| `FifoBridge`, `SyncBridge`, in `MemoryPaths` | the queued bridge and the synchronous one, either of which a machine is built with | `MCMemoryPaths`; `MemoryPathsProofs` |
| `CachedBridge` | the queued bridge with a read cache | `MCCachedBridge`; `CachedBridgeProofs` |
| `MigArb` | arbiter, MIG interface, a controller that performs commands late | `MCMigArb`; `FbPathProofs` |
| `FbScanout` | both clock domains of the scan-out | `MCFbScanout`; `FbPathProofs` |
| `BusCycle` | one CPU cycle after another, from strobe to termination, interrupt acknowledges included | `MCBusCycle`; `BusCycleProofs` |
| `Dvma` | the masters, the arbiter, the CPU's side of BR/BG | `MCDvma`; `DvmaProofs` |
| `ByteLanes`, `ScsiDma`, in `CardPaths` | the lane and address arithmetic of every path to memory; the SCSI channel, which moves bytes by those lanes | `MCCardPaths`; `DvmaProofs` |
| `Mb3c400Rx`, `Mb3c400Tx`, in `Mb3c400` | the two halves of the 3C400 | `MCMb3c400`; `Mb3c400Proofs` |
| `ProbeMachine` | the machine as a boot block meets it, with faults it cannot see | through the programs |
| `CtxProbe`, `MmuProbes`, `CoreProbes`, `ClockProbes`, `DiskProbes`, `LoopProbe`, `HostTools`, in `Diagnostics` | the programs, one of which runs at a time | `MCDiagnostics`; `DiagnosticsProofs` |

They fit together by refinement rather than by one huge product. `AsyncFifo`,
which carries `PointerFifo`'s variables beside its gray words, implements it (`PointersSpec`),
`PointerFifo` implements `DelayedQueue` (`QueueSpec`, and `IsAQueue` for every depth), and the
bridges instantiate `DelayedQueue` for their two FIFOs, so what they assume of a FIFO is what
the register-level circuit was shown to do. `FifoBridge`, `CachedBridge`, `SyncBridge` (with
`wb_mig_sync` behind it) and `MigArb` each implement `SerialMemory` (`SerialMemorySpec`; `OneMemory`
for every size), the mapping being *the memory as it will be once everything queued is performed*:
of the writes to a place, queued or under way, the last. `MemoryPaths`,
`Mb3c400`, `CardPaths` and `Diagnostics` put side by side what shares variables and a promise
but never runs in the same behaviour: a machine has one bridge, the 3C400's halves do not look
at each other, one program is loaded at a time.

How modules correspond to code: in a clocked model an action is one clock edge of one domain,
and primed variables are that edge's non-blocking assignments; names are the code's. Where two
domains meet, edges interleave freely and a synchroniser's first flop takes the old value or
the new one. What is combinational in the code is an operator. In a program an action is a step
between two points where the machine beside it can move. Data are abstract: an address is
a page, a line or a location; a datum is a member of a small set.

### Memory path

`FifoBridge` keeps `bus` (the phase on the bus or none), the tag, the two queues with how much
of each the far side knows of, and the Wishbone side's transaction. `AbandonPhase` releases a phase
unanswered: a master may be reset, and the masters of `SyncBridge` are the same ones. `CachedBridge` adds RAMs with registered outputs that may show old or new contents on a
simultaneous write, an address that moves before the strobes, and a location that aliases a
line. `SyncBridge` includes the toggles of `wb_mig_sync` and `wb_to_mig_ui`; `stray` marks a
transaction whose phase is gone. `MigArb` has
a scan-out that may change its mind, and a controller whose two ready lines come in any order.

### Bus cycle and masters

`BusCycle` has both edges of C100, the C_S chain, the map lookup that settles a clock after the
address, the latched refusal, the timeout and the bus error register. A page stands for an
address; `Entry` says what the map holds. `space` says what kind of cycle it is: translated, a
program fetch in boot state (`"boot"`), the map's own port, another register of control space,
or an acknowledge. A boot fetch comes from the PROM at C_S4 and is over half a clock after its
page could match anything, so what the page leads to never sees it at an edge of C100. The boot
bit itself is software's; any program fetch may be a boot fetch. Of a map entry software here
rewrites the statistics bits (`ps_sw_wr`); its validity and protection are constants of a run.
An interrupt acknowledge is a cycle like the others:
`DriveLevel` puts function code 7 and the level out in S1, over a positive edge with AS still up,
`RequestMoves` is the SCSI card lowering or raising its request at any moment, `iack_lat` is what
the request was when AS fell, and `vec` remembers whether the request has stood since. `Dvma`
puts sun2_dvma's seven states, the half clock of AS it adds, the arbiter's lock, and a CPU that
grants, lets go, sees BR negated, withdraws its grant and drives again, in up to `Hold` clocks.

### Cards

`Mb3c400Rx` has one action per state of the receive sequencer; each performs the whole edge:
registers, the write that lands a clock later, MECSR, and the host. A host access is a level: it
is in force on every clock it lasts, and so is the RESET bit. `Mb3c400Tx` has the two clocks and the four phase
handshake; `mii_tx` is outside the repository and is modelled as the comment at
`sun2_mb_3c400.sv:438` describes it.

`ScsiDma` has one action, `Clk`: an edge of CLK on which the engine, the register file, the
acknowledge and the request latch all move, and with it perhaps a bus cycle of the CPU, a move
of the target and a clock of the DVMA master of `sun2_dvma.v`. The CPU runs a driver's command as
`tb_vme_scsi`'s `dma_read` does: select, arm, set up, CDB, wait for IntReq, status; it may give
up and reset at any access. A CPU cycle takes at least four clocks, there is a fetch between two
accesses of the card, and of a bus that has been asked for the CPU has at most the cycle in
hand. One CDB byte stands for six, and STATUS for STATUS and MESSAGE IN. A register that is
written again before it is read goes back to blank (`Forget`), which changes nothing but the
number of states. `Master` has the master's states, those from S_REQ to S_DONE as one (`"BUS"`)
whose clocks belong to `Dvma`: it refuses a request when software has DVMA off or an error is
latched, latches a bus error, acknowledges whatever RST is (the card's RST is its `ether_reset`,
which clears the latch and nothing else), and leaves the low half stored when the high half fails.
It may end its bus cycles at any clock at which the CPU has none. A byte's content is its address, so a byte found anywhere tells where it belongs.

### Programs

A boot block owns the machine, so its world is a record `m`: context registers, segment and page
maps, the bus error register, and `m.faults`, the faults of this hardware, which the program
cannot see. `r` is what the program has saved or counted, `said` the set of its verdicts. The
helpers the blocks share (`setpgmap`, `getbuserr`, the handler that mends a map entry and
reruns) are operators on `m` in `ProbeMachine`. `clkprobe`, `xychain` and `wrprobe` run beside a
device that moves while they poll: the Am9513's counters tick between any two accesses
(`ttl_am9513.v` in 16-bit mode), and the Xylogics takes one parameter block after another
(`sun2_xy450.sv`: status register, GO, Busy Conflict, chain limit, interrupts, write-back). The
host tools share the variables; for them `m` is a disk behind the kernel's buffer cache, a
buffer, a TCP stream or a PROM image.

## 3. Runs

| Run | What it checks | Bounds |
|---|---|---|
| `async_fifo` | The FIFO never overruns (`NoOverrun`), never writes a cell being read (`SeenCellsStable`), its torn samples are positions (`PointersSpec`), and it is a queue whose news arrives (`QueueSpec`) | depth 4, the least the source allows; two values |
| `memory_paths` | Either bridge is one memory, the synchronous one but for the phase that takes an abandoned one's acknowledgement (`SerialMemorySpec`), answers (`PhaseAnswered`), and performs what it acknowledged (`Settles`); the queued one never lacks room for an answer (`RoomForTheAnswer`); what the synchronous one passes unsynchronised stands still (`HeldAcross`) | two addresses, two tags, queues of one; phases walked away from at any moment |
| `cached_bridge` | The cache is never stale (`CacheCoherent`, `SerialMemorySpec`) | two lines in one set, a frame buffer that aliases one of them |
| `mig_arb` | The arbiter performs each request once and answers the one who asked (`SerialMemorySpec`), lets nobody wait for two (`WaitsForOneAtMost`) and serves everybody (`Served`) | two addresses, a controller two deep |
| `fb_scanout` | The picture is the frame buffer (`PictureTrue`), beats are not mixed (`BeatForBeat`) | three rows of two beats of two pixels on a screen of 8 by 5 |
| `bus_cycle` | A refused cycle reaches nothing (`RefusedReachesNothing`); a cycle ends (`CycleEnds`), in one way (`AckOrError`); statistics (`OnlyOwnStatistics`, `StatisticsKept`) and error register (`ReportTrue`) tell the truth; an acknowledge keeps its promise (`VectorOrAutovector`) | one page each: memory, read-only memory, an invalid one, a slot that may be empty; boot fetches of each, software writing the statistics of one (`Rewritten`) |
| `dvma` | No master drives the bus with the CPU (`NeverTogether`), a channel that stops on an error (`StoppedDead`), and an answer for every access (`Answered`) | two masters; a CPU that takes up to two clocks to give up a grant |
| `dvma_stale_grant` | *(violated)* `NeverTogether` with three clocks | two masters, single halves |
| `card_paths` | All paths, the picture's included, agree where a byte is (`PathsAgree`); a SCSI transfer that reads good is all there, in place, with its residue and its odd byte (`EveryByteInPlace`); a request the count has room for is met (`RequestMet`) | three longwords, every sequence of writes; four transfers; DVMA on or off, bus errors and RST at any moment |
| `ec_card` | A buffer the host owns holds one whole frame (`WholeFrame`), the card keeps out of it (`KeepsOut`), RBBA tells the truth when set (`RbbaMeansBOlder`); a frame is sent once, unmixed (`SentIsTaken`), and the buffer comes back, resets or not (`ComesBack`) | three frames, the first perhaps too long or damaged; resets and writes at any moment; two texts, two offsets |
| `diagnostics` | No program accuses sound hardware (`NoFalseAlarm`), misses or misnames a fault it looks for (`NothingMissed`), or leaves the maps otherwise than it should (`RestLeftAsFound`); counts are exact (`CountsTrue`), the controller is left alone while busy (`NeverConflicts`), and every wait ends (`Finishes`) | up to two faults at once; lengths scaled down |
| `am9513_hold` | *(violated)* on a sound machine `clkprobe` reads a hold register nobody wrote (`HoldReadsHold`) | as above |

Why the bounds are enough. The queues are as short as they can be and still be full, empty and
in between while the other side is stale; what longer ones add is only more of the same
entries, and for the FIFO and the queued bridge the proofs cover every depth. Two addresses tell
"the same place" from "another place". Two tags are the least that distinguish, and bound the
abandoned reads: `Outstanding` *assumes* that no more reads are on their way than there are tags.
The code has sixteen tags and queues that hold more, so nothing in it enforces that; it takes
sixteen reads abandoned one after another, faster than the memory answers, to break it.
A cache needs two lines in one set to collide. The scan-out's
screen has a visible line, blank lines and blank columns, and four fetch rows, one more than
are shown, so that a fetch past the end exists; the proofs cover every geometry. `CardLatest` is
how late a card may answer and still be in time, which is every card here; `Crossed` in
`FbScanout` says a toggle crosses within a line.

In `Mb3c400Rx` lengths are scaled so that a frame can be as long as fits, or too
long; `Apart` and `Pace` say a byte comes every two clocks (ten at 10 Mb/s and 12.5 MHz),
`HeldFor` and `Gap` that a host access lasts two clocks and the next follows at least two
later. **One relation among those matters**: after a reset in mid-frame the rest of the frame is
still arriving, and is thrown away only because its next byte comes before the host can have
given a buffer back: `Pace <= HeldFor + Gap + 1`, the hypothesis of `WholeFrames`, and one clock
more and TLC finds a buffer handed over with half a frame in it. Nothing in the card enforces it;
it is what ten clocks to a byte and a 68010's next access leave. `Traffic` bounds the
wire's history and is the one counter that ends a run.

The SCSI transfers start and end inside a longword: six bytes in over three longwords, three
bytes (odd, in word mode and in byte mode), six bytes out. The target moves nothing,
less than was asked for, as much, or wants more (`Moved`). Longer transfers add whole longwords
between the two ends, each gathered and flushed as the one here is.

In `diagnostics` the constants are the programs' own, scaled down with their order kept (the
`ASSUME`s of the program modules say what matters of each): the fast load is shorter than the
slow one and both end within their watches, a chain can pass the limit of links, a chunk of
`memloop.s` does not divide the buffer, a longword of the stream is cut in pieces of any size.
`MaxFaults` of two shows that one fault does not hide another. The copy lengths are the shortest
three and the longest.

Bytes of the cached bridge are interchangeable (`ByteSymmetry`); no run with a liveness property
uses symmetry. Deadlock is checked everywhere but in `diagnostics`, whose programs end.

### What the violated runs show

**`dvma_stale_grant`.** A master waits in S_IDLE until the last grant is withdrawn, but it
tests the grant the arbiter lets through, which is negated for everybody but the owner. The
master that did not have the last grant asks at once and, made owner, takes the CPU's old grant
as its own. It needs a CPU that takes three clocks to withdraw and drive again; the comment at
`sun2_dvma.v:263` allows 3.5. The run `dvma` shows that two clocks are safe.

**`am9513_hold`.** The pointer commands of the Am9513 are decoded by one `casex` item,
`8'b000xxxx` (`ttl_am9513.v:315`), which has seven digits; the eighth is filled with zero. The
command that points at a hold register has that bit set, so nothing takes it, the pointer stays
where the load command left it, and `clkprobe`, which expects the hold register "untouched"
(`clkprobe.c:173-174`, `:194`), reads the load register. `caprobe` calls the same register its
witness.

### Read off the synchronous bridge while modelling it

`sun2_wishbone_bridge.v:71` says "One transaction per bus cycle, and only its own
acknowledgement". It is so as long as every phase is seen to its end. When a master is reset under
its phase the adapter runs the transaction to completion, and if the next phase's request has been
out for a clock by then, that acknowledgement is taken for its own (156, 171), as
`sun2_fifo_bridge.v:24-30` says and `tb_orphan_ack.sv` shows. `SerialMemorySpec` says how far it
goes (`OrphanTaken`): the phase that takes it is told it was served when it was not, so its read
brings the abandoned phase's word and its write is not done; that phase and no other is spoilt,
and every phase is still answered. The queued bridge, whose answers carry tags, keeps the promise
without exception. In the machine the refusal latch (`sun2_fpga.v:655-685`) removes the one
source of such phases that was met; a reset of a master is the other.

### Read off the 3C400 while modelling it

Three sentences of `sun2_mb_3c400.sv` say more than the code does; the properties are stated
for what it does.

* Line 619, "The status word goes in before the ownership bit is released": only its high byte
  does. The low byte lands one clock later, too soon for any bus cycle to notice, which is why
  `WholeFrame` and `KeepsOut` except the byte that is landing.
* Lines 220-222, RBBA decides "which packet is older" when both buffers are full: not always. A
  may have been read and filled again while B waited, and RBBA, written only when B is filled,
  still says that A is older. `RbbaMeansBOlder` is the direction that holds.
* Lines 438-440, "len/offset stable for the whole exchange": unless the RESET bit clears them
  under it (302, 457). `disturbed` marks those exchanges. A frame given soon after such a RESET
  may come back unsent: the done it sees is the old frame's.

### Read off the SCSI core while modelling it

`EveryByteInPlace` is stated for what the core does. Four things about it are worth knowing.

* **An abandoned fetch.** Leaving D_FETCH when the channel is disarmed (610-611) does not lower
  `wb_req`. The request stands, and the next transfer's first D_FLUSH or D_FETCH takes its answer
  for its own: a longword of the next transfer is lost, with good status and no residue, or a
  stale one is sent. It takes a driver that gives up in the middle of a fetch and starts again
  before the bus has answered. The property excepts the transfer that meets such a request
  (`cut`); without the exception TLC shows it. The hazard is listed with no property: the code
  does not keep it.
* **Overruns.** The comment at 580-583 calls the manufactured bus error "the only way software
  tells an overrun from a short read". It is made only if the target's REQ is already up when the
  engine looks at an exhausted count; if it is not yet, D_IN goes back to D_IDLE, which ignores
  REQ while the count is done. Outbound there is no such test at all.
* **New Request** "drops when that request is acknowledged" (232-234): when it is acknowledged by
  programmed access, or the bus goes free. The engine's own acknowledge does not drop it, so after
  a data phase moved by DMA it reads 1 from the change of phase, before the target's REQ.
* `st_odd` never falls but by RESET.

### What the boot blocks leave

`RestLeftAsFound` is stated for what they do. At its end `mmuprobe` has put the kernel's entries
back (419-420) and no others: its probe page keeps its last case's entry, and so does what was denied in
the group of SEGINV and, in context 0, the segment of the probe page. `usrprobe` leaves its fault page denied (299), `beprobe`
and `dogprobe` their probe page. All the rest, both context registers included, is as the monitor
set it; a program loaded without a reset in between would find those entries changed.

## 4. Fairness

Every clock keeps running: weak fairness of each domain's edge. A synchroniser resolves in the
end: weak fairness of the step that brings the news. The memory answers what it has accepted; the
controller finishes calibration and raises each ready line in the end. A CPU cycle ends and a
read-modify-write reaches its second half. For `Dvma` the CPU core grants a request it keeps
seeing and withdraws a grant it need not give; that a bus cycle ends is strong fairness of an
answer, which `CycleEnds` shows the machine gives. `mii_tx` ends every frame: its retries and
deferral are bounded. For `CardPaths` CLK runs and the DVMA master gets the bus and is done with it,
which is `Answered` of `Dvma`; the target, the driver and the errors are free. For `Diagnostics` only the three programs
that wait for a device are fair (`ClkNext`, `XyNext`, `WrNext`): they poll a counter that ticks
and a controller that works, unless it is one that hangs. Nothing is assumed of the order or the
ratio of clocks, nor that masters ask, hold or release.

## 5. Proofs

Each proof module extends the module it is about, and uses nothing of it but its named
assumption on the constants. Each has an inductive invariant, strengthened from the property
until it carries itself; the theorems are listed in `PROJECT.json`.

**`PointerFifoProofs`** (any `Depth`, any `Data`). `NoOverrun` alone is not inductive: that the
queue does not overrun depends on what the write side *believes* of the read pointer. `IInv` adds
that each belief is late but never ahead, and that the older copy is no newer than the younger
(`WriteSideLate`, `ReadSideLate`), as distances on a circle of `2 * Depth` positions.
`NeverOverruns` and `SeenStable` follow; the latter is the argument of the header of
`sun2_async_fifo.v` for reading storage asynchronously. The arithmetic on the circle is four
lemmas (`DistAhead`, `DistBehind`, `DistZero`, `DistType`).

`IsAQueue`: each edge of either clock is a step of `DelayedQueue` or a stutter, on the queue that
storage and pointers stand for. It is the safety half of `QueueSpec`; that news arrives stays with
TLC.

**`MemoryPathsProofs`** (either bridge; any depths, tags, lines and bytes). `OneMemory`: every step
of the bridge the machine is built with is a step of `SerialMemory` or a stutter, or, with the
synchronous bridge, the phase spoilt by an abandoned one.

* *Queued.* `TInv` types the registers and queues and counts credits: answers queued and the one
  under way never exceed the depth, because the Wishbone side starts a read only with room left as
  it knows it, and what it knows is late on the safe side (`AnswersNeverDropped`). `TagsApart` says
  that a read's tag tells how many reads were queued after it, and that no more are on their way
  than there are tags, so that an abandoned phase's cannot have the tag of the present one; it
  needs the bound on outstanding reads. `Awaited` says where the one read waited for is: the last
  thing queued, or with the memory and nothing queued after it, or answered last with what memory
  still holds.
* *Synchronous.* `QueuesAtRest`, `Asked` and `Told` say at which point of its two toggles a
  transaction is, and `Standing` that the request held there is the one on the bus unless it is a
  stray. An edge at which a stray's acknowledgement is up while a request has been out for a clock is
  `OrphanTaken`, and every other one a step of `SerialMemory` or a stutter.
  `PayloadStands` is the comment of `wb_to_mig_ui.sv` for letting 32 bits cross unsynchronised.

Taking the head off a queue, or adding to its tail, leaves the *last* write to a place the last: the
lemmas about `Max` prove it from the order of the naturals (`NatLessThanWellFounded`), a least
counterexample in place of an induction.

**`CachedBridgeProofs`** (any depths, lines, tags, and any frame buffer aliased beneath). To the
queued bridge's invariant it adds what the cache's registered outputs show of its RAMs, of which a
look-up may see the contents before or after a simultaneous write, and when such a look-up is used
at all. `NeverStale`: a valid line is what memory will hold once everything queued is performed;
a fill brings what memory held when the read was performed, and no write to its place can have been
queued meanwhile, because the one phase waits for it. `OneMemory` follows as above, a hit being an
answer from the cache. What the proof needs of the constants, and `CachedAssumption` states, is
that two lines are told apart by index and tag, that no tag is the invalid one, that the frame
buffer's locations are apart from memory's lines, and that an alias is such a line.

**`FbPathProofs`**, the arbiter (any memory, any depth of the controller's queues). `NextInTurn`: a client that
has sat out one transaction of the other's is next, or is being served; `WaitsForOne` follows. `Ports` and
`PairedOff` say what the controller has been offered and has taken: a read is the last command
taken and is waited for, so the writes and their data pair off in place, except for the half of a
write that came first. `OneMemory` follows: the machine's memory changes at the edge the arbiter
takes its write up, and neither the order of the halves nor the time of the performance shows.

**`BusCycleProofs`** (any pages, any map entries, any card that answers two stages before the
timeout). The invariant ties the C_S chain to AS and the clock, the looked-up entry to the page
being accessed from the clock it has settled, the refusal latch to the refusal it must outlive,
the statistics on their way to the entry they came from, and `iack_lat` to the request of the
moment AS fell. A boot fetch has ended before C_S8 could latch its refusal or an edge write its
statistics, and a software write of the map goes to the entry of the address on the bus because
the segment map has settled by then. Six theorems rest on it, one for each safety property of the run.

**`DvmaProofs`** (any masters). `LatchStopsTheChannel` needs only that a latched error is never
met in a state that starts a cycle. `ApartFromTheCpu` is `NeverTogether` for a master without
a rival, whatever `Hold` is, and for two with `Hold` of at most two: at the first clock after the
CPU has seen the request go nobody asks, at the second the arbiter has locked no grant (`Counted`),
and so nobody can take one that is about to go (`NobodyTakes`). With three clocks somebody can:
`dvma_stale_grant` is the counterexample. `EveryPathAgrees` is `PathsAgree` for any transfers of
the SCSI channel beside the CPU's writes and the DVMA writes of every kind. The lanes alone need
only `Agreed`: what has been written stands across from its address and nothing else is there. That
each longword the engine stores holds, byte for byte, its own addresses (`Staged`) needs the whole
channel: the address counts the bytes the target moved (`Tracks`), because an acknowledge does
not outlive its byte (`Acknowledged`), a driver and a target never part (`InStep`, `Controlled`),
and the engine of a transfer given up is idle before the CPU, at four clocks a cycle, can select
again (`WoundUp`, `AtRest`). Induction stops at each of these without the others.
`TransfersAreWhole` is `EveryByteInPlace`, which adds the way of a transfer (`OneWay`), whose
request stands (`Asking`), and that in STATUS the address has followed every byte and an error is
told before the CPU, four clocks later, can look (`AtStatus`). On these rest two accounts: reading,
each byte the engine has taken is in memory, or staged, or is the odd one held (`Accounted`);
writing, the buffer is full and the longword in hand is that of the byte being moved (`Supplied`,
with `PathsAgree` for what the master reads). `HandedBack` counts the clocks between the master's
giving the bus back and the engine's seeing the answer: the CPU, at four clocks a cycle, cannot look
in between. The two accounts are for `~cut` only, as the property is: the request of an abandoned
fetch breaks `Asking`.

**`FbPathProofs`**, the scan-out (any geometry with a blank line above and three blank columns to
the left; its definitions are called `ScanInit`, `ScanNext`, `ScanSpec` because the two ends of the
picture's path are proved in one module). The invariant says how many lines the fetcher has been asked for by the position of the screen
(`LinesBegun`), through the toggle and its three flops (`CrossingOK`), which beat of which line
it has reached (`FetcherOK`), what is on the port (`PortOK`), which lines the two buffers hold
(`BufferOK`), and what the pixel registers hold of them (`PixelsOK`). `ThePictureIsTrue` and
`BeatsInOrder` follow, for every frame whose fetches end in time.

**`Mb3c400Proofs`** (any traffic, lengths and pace). `OwnershipOK`: the sequencer writes only
into a buffer that is the card's, but for the last status byte of the frame just handed over.
`OrderOK`: frames in the FIFO, the sequencer and the buffers are in the order of the wire.
`CardKeepsOut` and `OlderFirst` follow. `WholeFrames` adds `FInv`: the words in the FIFO follow
one another as the frames did (`Chained`); the sequencer, idle in the middle of a frame, was
reset there, owns nothing, and gets the next word before it can (`BetweenFrames`, `ClocksOK`);
while it writes, the buffer holds the frame's first bytes, as many as its registers say, counting
the write that is on its way (`Received`); and what was handed over holds all (`Kept`). It is for
any frames and lengths, and for every pace with `Pace <= HeldFor + Gap + 1`. The assumption on the
constants says that the limits on a frame's length are within the buffer, as 60, 1514 and 6 are
within 2046. All of it is about a behaviour of the receive half, and `ReceiveHalf` makes it the
card's.

`TheFrameIsSent` is for the transmit half: `Lent` says that what is being sent is the card's and
stays as it is, and `FourPhases` what go, done and their crossings may show at each state of
an exchange no RESET has come upon. `SentIsTaken` follows for any texts and offsets, and any way
the two clocks interleave.

**`DiagnosticsProofs`** (however many faults at once, any sizes). Only one program is loaded, and
`NextByProgram` says that a step is that program's; so each program needs an inductive invariant
of its own and nothing of the others.

* *The disk probes.* `DiskInv`: at each place a probe comes to only after a wait (`IdlePlaces`) the
  controller is idle, and the engine never makes itself busy, whatever an IOPB holds and wherever
  its next pointer leads (`EngineKeeps`). `DiskNeverConflicts` follows.
* *The counts.* `memchk`'s walk goes by chunks, and the next place it finds is the first wrong one
  there is, in whichever chunk (`FirstBad`, by the quotient of a place by the chunk); so each
  restart passes one wrong word and no more (`NextBad`, `ChkInv`). `netchk` counts a buffer when
  it is full: the buffer holds the stream from the last full one on (`HoldsFrom`, `NetInv`), however
  the pieces came. `CountsAreTrue` is both.
* *The maps.* A case of a probe is a string of accesses and writes of the maps. `r.was` is the
  machine the program was loaded on, and each program has a frame: what of it stands at every
  point of the program (`FrameOf`, `MmuFrame`, `CtxFrame`), each access (`AccessReplaces`) and each
  write through FC 3 (`SetPageReplaces`, `SetSegment`) being shown once to replace one entry or
  one segment (`FrameKept`, `FrameOfSegment`). What a case puts back is what it saved, and that is
  what `r.was` has: `RefInv` and `MmuInv` between the cases, `CtxInv`, which also has the two
  contexts and the place where `ctxprobe` stops for lack of a second one, and `CoreInv` for the
  three 68010 probes that write the maps. `RomInv` is the same for the image.
  `MapsLeftAsFound` follows.

Only model-checked: liveness, which is beyond the prover, and with it the fair half of
`QueueSpec`; the gray words of `AsyncFifo`, which for every width would need the laws of `2 ^ n`;
the return of the 3C400's transmit buffer; and of the programs what they conclude
(`NoFalseAlarm`, `NothingMissed`), which is every verdict of every program against every fault,
with sums over buffers and ticks of a counter in some. What a recursive definition or a fold
computes for every input needs induction over data, which the prover does not do; the modules
with proofs therefore say what they mean of a queue by its positions.

## 6. Not modelled, and why

* Resets after the start of the bridges and of the machine: both sides are held far longer than
  the crossings take. One-sided reset of the FIFO is excluded by its own header.
* The DVMA channel's own reset while a request waits for the bus.
* The register-space decode and the data multiplexer of `sun2_fpga.v`, and the ports of the maps:
  selections without a sequence. The interrupt register and the priority encoder: wiring.
* Of the SCSI cards: parity, the interrupt vector register, the gate of the interrupt output and
  the two window decodes. Of the 3C400: the address RAM, the backoff register, the interrupts.
* Of the Xylogics 450 and the Am9513: what no program of `tools/` exercises (the attention
  protocol, DVMA faults and the lanes of the sector engine; save, step, prescalers, 8-bit mode).
* `caprobe`'s device part (184-224), which judges nothing; `netchk`'s sending side; `patwr -u`;
  `rom.c`, which prints.
* The 82586 cards, the DECA board's front end and console, the PHY and HDMI sequencers, the
  MM58167: components with sequences of their own that this project does not reach yet.
* CPU, 82586, SCC, SCSI target, block device, MII and MIG cores: they are not in the
  repository. What is assumed of them is marked `external` in `map`.
* Of the boot state, the system enable register that ends it and the reset that begins it; of the map,
  software's writes of validity, protection and place while a cycle could be looking.
* Wiring (`top_fpga.v`, board tops), vendor clock primitives, tables, build scripts, test benches.

## 7. What would come next

1. **Modules.** `DecaDdr3`, the other memory front end, as a third path of `MemoryPaths`;
   `EtherCtl` and `MbEther`, the control register, the core reset against an access, two masters
   of one local memory; the rest of `Xy450`, with its driver; `Mm58167`; the set-up sequencers.
2. **Compositions.** `BusCycle` with `Dvma`: a master's cycles through the same chain. `ScsiDma`
   with the register-level `Dvma` in place of its promise, so that the abandoned fetch meets the
   arbiter's own timing.
3. **Proofs.** The fair half of `QueueSpec` stays with TLC; of the programs, `NoFalseAlarm` and
   `NothingMissed` one program at a time for any memory size, with the folds of `Diagnostics` restated as invariants of its loops.
