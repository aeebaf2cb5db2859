# TLA+ verification of riscv_sim

`riscv_sim` puts several RISC-V cores under Verilator.  Its own work is what
ties them together: the OBI data-port interconnect and its peripherals in
SystemVerilog (`rtl/dport`), one wrapper and one set of test benches per core
(`tb`), and the software that runs on them (`sw`: ring-buffer DMA drivers,
FreeRTOS ports, start-up code and trap handlers, demos).  The cores, the AXI
components, the FIFO and the FreeRTOS kernel are git submodules and not part of
the repository.

This directory holds TLA+ modules that model that logic, the TLC runs that check
them on small instances, and proofs for every value of the constants, checked
by TLAPS.  `PROJECT.json` maps every definition to the lines it models and lists
the components, the hazards, the runs, the findings and the theorems.

In the commands below, run in this directory, a run is a row of the table of
runs:

    tlc -config xbar_safety.cfg MCXbar.tla
    tlapm ObiXbarProofs.tla

## Inventory

Paths are relative to `src/`.

| part | state | operations | how it interacts | what is hard | what makes it correct |
|---|---|---|---|---|---|
| **OBI crossbar** `rtl/dport/obi_xbar, obi_demux, obi_mux, obi_rsp_queue, obi_dummy` | per initiator a FIFO of granted segments and one response queue per segment; the dummy's answer | request, grant, route, answer, all in each clock | core ports on one side, targets on the other; combinational between | two cores contend; targets of different latency answer out of order; queues that have no back-pressure | each core gets the answers to its own requests, in order, once; the assertions in the code; nobody starves but by priority |
| **Crossbar targets** `obi_ram, sim_ctrl, obi_dtcm` | memory, registered answer | serve a request at the clock edge | crossbar; the dtcm also an AXI port for DMA | dtcm: two ports in one clock; a request held over reset | one answer per grant; reads see the last write |
| **OBI to AXI bridge** `obi2axi, obi2axil` | request, write-data and response FIFOs | accept, send on AR / AW / W, take R / B | crossbar on one side, any AXI slave on the other | three FIFOs that must stay in step; five channels that move independently | no FIFO overflows; an answer is that of the request it names; address and data paired |
| **OBI to IOb bridge** `obi2iob` | request and response FIFOs | the same with a cache behind it | `tb/misc/iobcache` only | writes answered at once, reads when the cache does | answers in order, none lost |
| **Address decode** `obi_addrdecode, obi_pkg` | none | address to one-hot segment | demultiplexer | regions that overlap | one segment per address |
| **Machine timers** `mtime32, mtime64` | clock, compare register, interrupt | count, compare, register access | core's timer line, FreeRTOS port | interrupt by equality; set beats clear; word wrap; 64 bits in two accesses | an interrupt per compare value |
| **FreeRTOS tick** `sw/*/freertos/RISC-V_*/port.c, portASM.S` | compare register, tick count | arm, take the interrupt, move on by a period | machine timer, kernel | the clock runs while the handler does | no tick lost, doubled, early; no drift |
| **FreeRTOS context switch** `portContext.h, portASM.S, portmacro.h` | a frame per task, the stacks' tops, the critical nesting, `mstatus` | create, start, save, choose, restore, critical sections, yield | kernel, every trap | traps at any instruction; the nesting is one global; the start of the first task lets interrupts in half way | a task's registers, place and nesting are its own; interrupts off exactly in critical sections |
| **Ring buffer drivers** `sw/common/ringbuffer` | local and device head / tail, buffer | put, get, level, room, commit, flush, register writes | DMA engine through its registers and the shared buffer | pointers one behind; the engine moves during a call; wrap | the bytes stream in order, none lost, overwritten or read twice |
| **Ring buffer demo** `sw/cv32e40p/apps/ringbuffer_demo, tb/cv32e40p/ringbuffer` | pattern, semaphores, counters | send task, receive task, interrupt handler, the test bench's counter check | drivers, FreeRTOS, engine interrupts | the level is cleared after the work; the handler acknowledges while channels raise; nobody looks at what put took | the received pattern is the one sent; no wake-up is lost; it ends |
| **Bare-metal start-up and demo** `sw/cv32e40p/baremetal, apps/baremetal_demo, sw/common/riscv/riscv_hpm.c, riscv_csr.h` | control and status registers, `mtimecmp`, counters | start-up access by access, vectored traps, `do_mtime`, counter set-up and dump | timer, the core's counters, the exit register | the timer's line is up out of reset; a `wfi` needs an interrupt of its own; 16 counters are read one after the other | every trap has its vector and its reason; counters of one instant; it ends |
| **Simulator main and ELF loader** `tb/cv32e40p/demo/sim_main.cpp, tb/common/elf_load.cpp` | options, memories, `sigint`, Verilator's flags | load, reset, loop, message | the program's exit register, a signal from the host | four reasons to stop in one evaluation; a loader that nobody tells of a failure | what runs is what was linked; the message says how it ended |
| **JTAG debug server** `tb/common/jtagdpi` | two byte buffers, the connection, thread flags | socket thread: accept, read, send; simulation: execute, answer, close | OpenOCD through a socket, the test bench through DPI | two threads, no locks, `cfd` shared; both can wait | commands once and in order, answers in order and to who asked; it shuts down |
| **Trap dispatch** `sw/common/riscv/mtvec.c` | `mip`, `mie` | dispatch all pending, clear them | no program: the bare-metal programs take vectored traps, the others FreeRTOS's | | |
| **Core wrappers and boards** `tb/*` | wiring | | cores, crossbar | one wrapper does not look at `gnt` | the OBI handshake |
| **The rest** | syscalls, console, benchmarks, AXI wrappers, generated register maps | sequential | | | |

Concurrency in this system is of five kinds: everything clocked moves in the
same clock; a CPU and a timer or DMA engine share registers and memory; traps
interrupt tasks at any instruction; two host threads share buffers and a
descriptor; and a socket separates OpenOCD from both.  Nothing is stored across
runs, so there is no crash recovery, and no channel loses or repeats what it
carries: failures are those of order, room and timing.

## Modules

| module | models | state and actions |
|---|---|---|
| `Sfifo` | the external FIFO `sfifo`, as the blocks instantiate it | a FIFO is a sequence; `Pushed`, `Popped`, `AfterClock` are one clock of it |
| `ObiPort` | **abstract**: what an initiator's port promises | requests raised and unanswered; answers come oldest first |
| `ObiXbar` | crossbar, dummy, memory-like targets and bridges | the registers are VARIABLES, the combinational nets (`Granted`, `Forwarded`, `Arriving`, `Visible`, `Response`) are operators, and one action `Clock` moves all registers: `CoreClock`, `DemuxClock`, `TargetClock` are its parts |
| `SeqCount` | how often a value occurs in a queue | used by the invariants of `ObiXbar` |
| `ObiTarget` | **abstract**: what the crossbar expects of a target with variable latency | requests held, a grant only with room, answers in order |
| `Obi2Axi` | the AXI bridge and any AXI slave | three FIFOs, the five channels' pins; one action `Clock` |
| `Mtime` | the timer mtime32 | one operator `TimerClock(write)`; the state of the timer |
| `TickTimer` | mtime32 with the FreeRTOS port on top | each action is one clock, with the software's access in it; `Idle` is a clock without |
| `TaskCode` | what an instruction of a task does to its own context | operators only: compute, the two halves of entering and of leaving a critical section, yield |
| `TaskView` | **abstract**: every task has a processor of its own | the context of every task; `Born`, `First`, `Step` |
| `PortContext` | the context switch | registers, `mstatus`, `mepc`, nesting, the frames on every stack; creation, the start of the first task and the restore in steps, `portYIELD`, `Interrupt` before any instruction, the running task's instructions |
| `RingOps` | the pointer arithmetic of both drivers | operators only |
| `RingMap` | the registers, fields and structs of the ring buffer core, and what `set_buffer` takes | operators, and assumptions TLC evaluates: structs and offsets agree, fields do not overlap, a capacity taken fits its registers |
| `Mm2sRing` | transmit driver, `send_task`, the DMA engine as environment | `Put`, `Commit`, `Exit`, `Stream` |
| `S2mmRing` | receive driver, the receive task, the DMA engine as environment | `Store`, `Drop`, `Get`, `Commit`, `Check`, `Wake`, `Flush`; `expected` is the task's pattern, which `Check` moves a word at a time, `taken` counts the bytes |
| `RingDemo` | the demo: both rings, the loop-back, interrupts, handler, semaphore, tasks by priority | `Beat`, `Burst`, `RaiseLevel`, `RaiseOther`, `HandlerRead`, `HandlerWrite`, `Take`, `Look`, `Drain`, `ClearLevel`, `OtherTask`, `SendTask` |
| `Csr` | the system registers of `riscv_csr.h`: fields, masks, accessors by kind | operators, and the assumption that fields of a register do not overlap |
| `SimMain` | the host's main, the ELF loader, the exit register | `Usage`, `Options`, `CannotOpen`, `LoadSection`, `LoadDone`, `Reset`, `Signal`, `Report`; whoever extends it says what an evaluation does |
| `BareMetal` | start-up code, vectored traps, the demo's main, timer and counters | one action per access to a register; `TimerRaises`, `CountEvents`, `TimerInterrupt`, `Exception` are the hardware |
| `ByteQueue` | **abstract**: a bounded queue of bytes | `Put`, `Get` |
| `TcpBuf` | `struct tcp_buf`, each load and store a step | writer and reader; which access comes first, and whether a pointer is loaded or stored twice, are CONSTANTS, as they are the compiler's choice; `torn` records that a check fell in the middle of an update |
| `JtagServer` | socket thread, simulation thread, OpenOCD | the buffers of `TcpBuf` are queues here; one action per system call or buffer access |
| `MC*` | the same for TLC | `MCXbar`, `MCBridge`, `MCTick`, `MCContext`, `MCMm2s`, `MCS2mm`, `MCRing`, `MCTcpBuf`, `MCJtag`, `MCBareMetal` |
| `QueueLemmas` | lemmas on queues | induction over numbers, for recursive functions; how often a value occurs; a queue that is the part of another with a given mark |
| `ObiXbarProofs`, `Obi2AxiProofs`, `TickTimerProofs`, `PortContextProofs`, `RingDemoProofs`, `JtagServerProofs`, `BareMetalProofs` | proofs | of the module each is named after; `RingDemoProofs` also of `S2mmRing` and `Mm2sRing`, `JtagServerProofs` also of `TcpBuf` |

How the modules fit:

* `ObiXbar` takes a bridge to be a target that grants with room and answers in
  order; `Obi2Axi` is shown to be one (`TargetSpec`).  `ObiXbar` in turn is shown
  to implement `ObiPort` (`PortSpec`), which is what a core may rely on.
* `RingDemo` extends `S2mmRing` and has an instance `Send` of `Mm2sRing`: the bytes
  the one streams are the bytes the other stores, and the semaphore and the
  interrupt registers of `RingMap` say when the receive task runs.  The drivers'
  own properties are checked in this composition.
* `PortContext` implements `TaskView` (`TaskSpec`): the refinement mapping takes a
  task's context from the processor where it runs and from its last frame
  where it waits.
* `BareMetal` extends `SimMain` and `Csr`: the program's steps are evaluations of the
  simulator's loop, and its exit is the simulator's.
* `JtagServer` takes a byte buffer to be a queue of `BufSize - 1` bytes.  `TcpBuf` is
  one in the builds named by `Tight` (`TightBufIsQueue`), and in every build until
  `torn` (`QueueSpec`); the `-Og` build of the debug bench is not `Tight`, so there the
  properties of `JtagServer` are about runs in which no buffer is torn.

An operator named `M_x` is `x` with a plausible bug in it (a dropped guard, a
forgotten case, the wrong FIFO).  `PROJECT.json` names, for every property of
every run, one that breaks it: put in the place of `x`, TLC finds the property
violated.  Nothing else refers to an `M_x`.

What is abstracted: an address is the segment it decodes to; data are the
transaction id of the request they belong to; a byte is its number in its
stream, so that a lost, repeated or stale byte is a number out of place; a
register holds a value or one of the marks for what nobody computed (fill, junk);
a byte of an ELF section is its section and place; a JTAG command is its number
and whether it asks for an answer or quits.

## Runs

| run | instance | properties | what it shows |
|---|---|---|---|
| `xbar_safety` | 2 cores, a bridge and the dummy, 2 ids, FIFOs of 2, 2 outstanding | `Conservation` `DemuxAsserts` `RspQueuesHaveRoom` `PortSafety` | answers are never lost, doubled, reordered or given to the other core; the assertions in `obi_demux` hold |
| `xbar_live` | 2 cores, a memory, a bridge and the dummy, 1 id | `BlockedOnlyByHigher` `PortSpec` | a core is kept out for ever only by cores of higher priority; answers of three kinds of targets come in order and do come |
| `bridge` | 2 ids, FIFOs of 2 | `NoOverflow` `AnswersMatch` `WritesPaired` `TargetSpec` | the bridge against any slave; it is the target `ObiXbar` assumes |
| `tick` | words of 32, period 6, up to 5 late | `DueWithinPeriod` `NoSpuriousTick` `NoDrift` | every tick once, on time |
| `context` | 2 tasks, loops of 2 instructions, nesting of 2 | `MaskedExactly` `OneFrame` `TaskSpec` | whatever interrupts and other tasks do, a task goes on where it was with what it had |
| `ring_demo` | rings of 34, chunks of 8, 40 bytes, the engine stores 2 or 4 at a time | `StreamInOrder` `RingHoldsTheRest` `StaleTailIsSafe` `PutIsPutDumb` `GetInOrder` `CopiedCellsStay` `RingHoldsUnread` `WakeUnderWay` `NothingDropped` `DemoEnds` | every byte put is received, in order; no wake-up is lost; the demo ends |
| `mm2s_backpressure` | the transmit side alone, 136 bytes, the DMA arbitrarily far behind | `StreamInOrder` **violated** | finding 1 |
| `s2mm_last_cell` | the receive side alone, a ring of 9, gets of one word of 4, the engine stores a word at a time | `GetInOrder` **violated** | finding 2 |
| `baremetal` | two small images, two waits, 4 counters | `ImageLoaded` `TimerTrapsInWait` `CountersAgree` `VerdictTrue` `RunEnds` | from the command line to the message at the end |
| `tcpbuf_fifo` | buffer of 4, 12 bytes, the accesses as written, `wptr` moved before the byte is stored | `BytesInOrder` `NoOverwrite` `QueueSpec` `PutReturns` | the buffer is a queue until a check falls in the middle of an update, and no put waits for ever |
| `jtag` | buffers of 3, 2 reads outstanding, 5 commands, 3 connections | `CommandsInOrder` `AnswersInOrder` `SimNeverBlocks` `EveryReadAnswered` `ServerShutsDown` | commands and answers in order, the simulation never waits, reads are answered |
| `jtag_reconnect` | the same, 4 commands | `NoAssertionFails` **violated** | finding 3 |

The modules' `TypeOK` are not in the table: they are proved (see *What is proved*).
So are the inductive invariants; those that do not quantify over an
infinite set are state predicates TLC can check as well (`IInv` of `ObiXbar`, `TickTimer`,
`TcpBuf` and `BareMetalProofs`, for instance).

### The bounds and why they are enough

* **Crossbar.** The code has FIFOs of 8 and one bridge FIFO set of 2 and 4;
  a depth of 2 reaches full and empty, and the proofs remove the bound for every
  safety property.  A memory's behaviours are among a bridge's (grant always,
  answer at the next clock), so `xbar_safety` leaves the memory out; `xbar_live`
  has all three kinds, because it is their different latency that puts answers out
  of order.  Two ids are enough to tell a request from the next one; a third
  would only rename them.
* **Bridge.** `MaxAxi = RspDepth` is the largest number of unanswered addresses
  the bridge is safe with (see *Further observations*); the slaves the test
  benches use take at most two.
* **Tick.** The word is 2^32 and the period 100000 clocks (100 MHz, 1 kHz:
  `FreeRTOSConfig.h`) in the code; here the clock is a word of 32 that wraps
  every five ticks or so, on a phase that moves, as 6 does not divide 32.
  The state space is closed: there is no bound on the length of a run.
* **Context switch.** One register besides those that traps use is enough to see
  a register that is not restored, since all words of a frame are saved and
  loaded by the same rule; a frame has all 31 words.  A modelled stack has room
  for `MaxFrames = 3` frames, one more than `OneFrame` allows at any time.  The state space is closed.
* **Rings.** The demo's ring is 2048 bytes and its chunk 496: a chunk does not
  divide the ring, so the pointers visit different cells in each lap.  34 and 8
  keep that (34 = 4*8 + 2, 2048 = 4*496 + 64).  In `ring_demo` the 40 bytes take both rings
  past their wrap (`Limit = 80`, two laps, passes as well, in four times the time); in `mm2s_backpressure` 136 bytes are four laps.  Pointers
  wrap at 2^32 in the code; the word of the model is far above the ring's size.
  The engine of `ring_demo` stops on even cells only and gets are of even
  length: the tail stays on even cells and the last cell of the buffer, 33, is
  odd, so no get ends in it (finding 2 is the case where one does).  Words there are
  of two bytes (four in the code), the engine's smallest store, as a get is of whole
  words in the demo.  `Check` rounds a batch up to words as the loop does; what a last,
  partial word shows may match the pattern or not.  The pattern repeats every 256 bytes, which a
  number does not: the model sees a stale byte the demo's check would miss.  `Lag = 1`: at a tick the transmit
  engine is at most one byte behind, so that put never meets a full ring;
  finding 1 is the case where it does.
* **Bare metal.** Memories of two bytes each and images with a section in either,
  one outside both, and a `.bss`; two of the ten waits, so that one follows another;
  counters up to the first programmable one, values up to 2.  `FatalOnError` is Verilator's
  default, so the run does not print "Simulation Error"; the proof of `VerdictTrue` covers both.
  `ImageLoaded` is about PROGBITS and NOBITS sections, in the memories.
* **Byte buffer.** Three laps of a buffer of 4 (1024 in the code).  The run has the build
  in which most can go wrong, every access as it is written: `wptr` moved before the byte is stored, both
  pointers stored twice, `rptr` loaded twice.  gcc 12 with `-Og` makes this one but for the second load.  The theorems are about all 32 builds and every size.
* **Debug server.** Buffers of 3 fill with two commands.  Two connections are
  needed for one to overlap the close of the other, a third for one that is
  accepted after a descriptor was lost.

`CHECK_DEADLOCK FALSE` is there only for the systems that end: the demos exit,
the numbered bytes or commands run out; and for `PortContext`, which stands
still at an instruction that is no code (`lost`), which `TypeOK` excludes.

### What is assumed of external parts

* The receive engine's LEVEL bit is set whenever the level is at the threshold, and a
  bit of the top level INTR_ACTIVE register by the rise of its channel's bit.
* A tick (1 ms) is long: before `send_task` wakes from its delay the engines have
  moved what there is to move, interrupts are served, and the other channel
  reaches its threshold at most once (`Settled`, `spent_1`: a tick brings it 496 bytes, fewer
  than the threshold of 500).
* The kernel may choose any created task at a trap, and runs the ready task of highest
  priority.
* The handler of the timer is done before the clock passes the value it writes.

### Fairness

* `ObiXbar`: the clock does not stop; the bus behind a bridge answers what the bridge holds.
  For `BlockedOnlyByHigher` also `BridgesGrant`: a bridge that can grant again
  and again does.  `TargetSpec` shows of `Obi2Axi` what is assumed of a bridge here.
* `Obi2Axi`: the clock does not stop, and the AXI slave, while it has room, goes on accepting on
  each channel and answers what it has accepted.  Nothing is assumed of the
  bridge itself.
* `RingDemo`: the engines work (weak, for streaming, storing and raising the level), the
  processor serves interrupts (weak).  The receive task and the send task
  are strongly fair: the scheduler runs the ready task of highest priority and
  interrupts, which suspend a task for a while, leave it the processor again.  The send
  task is enabled only when the receiver is blocked, so its fairness does not
  rule out a receiver that never blocks: `DemoEnds` shows there is none.
  Nothing makes the other channel raise its interrupt.
* `BareMetal`: the host's loop and the core go on (weak, for start-up and traps, which nothing
  interrupts); main is strongly fair, since the timer may
  interrupt it at any step of `do_mtime` but not for ever, a period being longer than a
  handler.  The timer raises its line and the core takes the interrupt (weak).
* `TcpBuf`: both threads are scheduled, the reader gets again and again, and each turn of
  put's loop loads the pointers anew.  The loop has no synchronisation; `-Og` does not move the
  loads out of it, and `PutReturns` is about builds that do not (gcc 12 does from `-O1` on:
  such a put looks at the pointers once, and one that finds the buffer full never returns).
* `JtagServer`: both threads are scheduled and the client takes answers that
  have come.  Nothing makes the client send or connect.  It quits only with no
  read outstanding and sends fewer reads ahead than the buffers are long; that is
  the premise the comment on `BUFSIZE_BYTE` makes ("Otherwise deadlock occurs").
* `PortContext` and `TickTimer` state no fairness: their properties are safety.

## Findings

1. `mm2s_backpressure`: `_roomfor` counts `buffer_size - level`
   (`mm2s_ringbuffer.c:46`), one more than the capacity, so a put may fill the ring until head
   meets tail, which `_level` reads as empty; and the send task ignores how many
   bytes put took.  With the DMA stalled (the test bench passes `tready` through)
   the stream misses bytes and the assertion `tdata == x00_counter` fails.
2. `s2mm_last_cell`: a get that ends exactly in the last cell of the buffer leaves
   `tailptr` at `0 + 0 - 1` (`s2mm_ringbuffer.c:330-333`); the next level is `head + size + 1`,
   and the next get returns stale bytes.  `get_dumb` is right.  The run has a ring of one
   byte more than whole words, which `set_buffer` takes, gets of one word, and an engine that stores
   a word at a time; the demo's check, a word at a time, asks of a get what
   `GetInOrder` does.  The demo's own ring of 2048 does not get there.
3. `jtag_reconnect`: the assertion `ctx->cfd == 0` in `client_tryaccept`
   fails if a client connects before the simulation has executed the last client's `Q`.

### Further observations

Met while modelling, each visible in a model or in the lines it maps, none a run
of its own:

* With more requests outstanding than the pending FIFO has entries (the cocotb
  initiator has no limit) `obi_demux` grants and loses the entry: `ObiXbar` with
  `MaxOut > Depth` violates `DemuxAsserts` and `Conservation`, which is why the
  theorems assume `MaxOut <= Depth`.
* The grant of `obi2axi` does not count the requests still in its request FIFO: with
  a slave that accepts more than `RspDepth` addresses unanswered (`MaxAxi >
  RspDepth`) `NoOverflow` is violated.
* `tcp_buf` has plain fields, and a check can meet a pointer in the middle of an update
  (`torn`).  `tcp_server.c:66-67` increments `wptr` in the subscript and reduces it in the next
  statement; `src/tb/ibex/debug` compiles it with `-Og`, which keeps both stores and makes the
  first before the byte's.  Three things can go wrong: the reader goes for the byte before it is there; it
  meets `wptr` one past the end while `rptr` is 0, and takes an empty buffer for one with a
  byte; and `is_full` (`tcp_server.c:51-54`) compares `wptr` with an `rptr` one past the end and
  subtracts the `rptr` that is back at 0, so that full looks like room.  Without
  `~torn =>` in them, `BytesInOrder` and `QueueSpec` are violated in `tcpbuf_fifo`.  With it they hold in every build:
  nothing else goes wrong.  Of the 32 builds those
  of `Tight` (the byte stored first, `wptr` stored once, and not both `rptr` stored twice
  and loaded twice) never tear, and gcc 12 makes one of them from `-O1` on; in each of the others TLC finds a behaviour that
  tears and one in which a byte is lost, repeated or not there.
* In `JtagServer` the socket thread can read standard input, when the simulation
  thread zeroes `cfd` between `select` and `read` (state `spc = "stdin"`); it
  can be asked to stop while it waits in put for room that nobody will make;
  and a connection accepted between the simulation's `close` and its `cfd = 0`
  is forgotten.  `ServerShutsDown` and `EveryReadAnswered` name these exemptions.
* `xPortStartFirstTask` enables interrupts before it has released the first frame, so the
  first task may have two frames on its stack for a while; `OneFrame` allows that
  task alone the second, and `TaskSpec` holds all the same.
* The hand-written headers of the ring buffer core place channels 0x40 apart, the generated struct
  0x38; the base address of the instance macro is 0xa0000000 and the demo's 0xB0000000.
  `set_buffer` shifts `1` by `ptr_width * 8`, which is undefined for pointers of
  four bytes, and the drivers' pointer to the registers is not volatile.  The demo
  adds to its `n_bytes` statistic (`main.c:295`) what the first look saw, not what was got.
* The breakpoint handler of the ibex start-up code adds four to `mepc`, whatever the
  length of the instruction (`sw/ibex/baremetal/entry.c:92`).  The vector table of the
  bare-metal programs is zero between its entries: a cause that has none runs what is no code.
* `elf_load` returns false only before its first section; `write` drops a byte outside of both
  memories and `read` always reads the instruction memory.  Nothing clears
  `.bss`: it reads as zero because the simulator starts with `randReset(0)`.
  `--cycles` counts evaluations, two a clock, where the help says instructions.  `main`
  returns 0 whatever happened, and "Simulation Error" is printed only by a build in which
  `$error` does not abort, which is not Verilator's default.

## What is proved

For every value of the constants, with no bound (about 10000 obligations).  Every
invariant the passing runs check is stated by a theorem:

| theorem | statement | premise |
|---|---|---|
| `XbarInvariant`, `XbarTypeCorrect` | `Spec => []IInv`, `[]TypeOK` | `MaxOut <= Depth` |
| `XbarConserves` | `Spec => []Conservation` | same |
| `XbarAsserts` | `Spec => []DemuxAsserts` | same |
| `XbarQueuesHaveRoom` | `Spec => []RspQueuesHaveRoom` | same |
| `XbarKeepsOrder` | `Spec => []OrderInv` | same |
| `XbarIsPort` | `Spec => PortSafety` | same |
| `BridgeInvariant`, `BridgeTypeCorrect` | `Spec => []IInv`, `[]TypeOK` | `MaxAxi <= RspDepth` |
| `BridgeNoOverflow` | `Spec => []NoOverflow` | same |
| `BridgeAnswersMatch` | `Spec => []AnswersMatch` | same |
| `BridgePairsWrites` | `Spec => []WritesPaired` | same |
| `BridgeIsTarget` | the safety part of `TargetSpec` | same |
| `TickInvariant`, `TickTypeCorrect` | `Spec => []IInv`, `[]TypeOK` | `MaxLate < Period` |
| `TickIsDue` | `Spec => []DueWithinPeriod` | same |
| `TickIsNotSpurious` | `Spec => []NoSpuriousTick` | same |
| `TickDoesNotDrift` | `Spec => []NoDrift` | same |
| `ContextInvariant`, `ContextTypeCorrect` | `Spec => []IInv`, `[]TypeOK` | none |
| `ContextMasksExactly` | `Spec => []MaskedExactly` | none |
| `ContextOneFrame` | `Spec => []OneFrame` | none |
| `ContextImplementsView` | `Spec => TaskSpec` | none |
| `ReceiveInvariant` | `Spec => []ReceiveInv` | `RecvAligned` |
| `ReceiveRing` | `Spec => [](GetInOrder /\ CopiedCellsStay /\ RingHoldsUnread)` | same |
| `DemoHasReceiveRing`, `DemoHasTransmitRing` | `DemoSpec => Spec`, `DemoSpec => Send!Spec` | none |
| `DemoGetsInOrder`, `DemoCopiesStay`, `DemoHoldsUnread` | `DemoSpec => []GetInOrder`, `[]CopiedCellsStay`, `[]RingHoldsUnread` | `RecvAligned` |
| `TransmitInvariant` | `Send!Spec => []TransmitInv` | `SendAligned` |
| `TransmitRing` | `Send!Spec => [](StreamInOrder /\ RingHoldsTheRest /\ PutIsPutDumb)` | same |
| `DemoStreamsInOrder`, `DemoHoldsTheRest`, `DemoPutIsPutDumb` | `DemoSpec => []StreamInOrder`, `[]RingHoldsTheRest`, `[]PutIsPutDumb` | same |
| `DemoStaleTailIsSafe` | `DemoSpec => []StaleTailIsSafe` | `SendAligned`, `ChunksNeverFill` |
| `DemoWakes` | `DemoSpec => []WakeUnderWay` | none |
| `DemoDropsNothing` | `DemoSpec => []NothingDropped` | `RecvAligned`, `SendAligned`, `Roomy` |
| `BufInvariant`, `BufTypeCorrect` | `BufSpec => []IInv`, `[]BufTypeOK` | none; `IInv` says where the bytes are until `torn` |
| `BufKeepsOrder` | `BufSpec => []BytesInOrder` | none; until `torn` |
| `BufNeverOverwrites` | `BufSpec => []NoOverwrite` | none; until `torn` |
| `BufIsQueue` | `BufSpec => QueueSpec` | none; until `torn` |
| `BufNeverTorn` | `BufSpec => []~torn` | `Tight` |
| `TightBufIsQueue` | `BufSpec => Queue!Spec` | `Tight` |
| `JtagTypeCorrect` | `Spec => []TypeInv` | none |
| `JtagOrder`, `JtagCommandsInOrder` | `Spec => []OrderInv`, `[]CommandsInOrder` | none |
| `JtagAnswers`, `JtagAnswersInOrder` | `Spec => []AnswerInv`, `[]AnswersInOrder` | none |
| `JtagSimNeverBlocks` | `Spec => []SimNeverBlocks` | `WindowFits` |
| `ProgramInvariant`, `ProgramTypeCorrect` | `Spec => []IInv`, `[]TypeOK` | none |
| `ProgramVerdictTrue` | `Spec => []VerdictTrue` | none |
| `ProgramTimerTraps` | `Spec => []TimerTrapsInWait` | none |
| `ProgramCountersAgree` | `Spec => []CountersAgree` | none |
| `ProgramImageLoaded` | `Spec => []ImageLoaded` | `Linked` |

The premises, and why the code meets them:

* `MaxOut <= Depth`: a core has no more outstanding than the pending FIFO has entries.
  The code leaves this to the cores; the cocotb initiator need not keep to it (*Further
  observations*).
* `MaxAxi <= RspDepth`: the slave accepts no more unanswered addresses than the response FIFO
  holds.
* `MaxLate < Period`: the tick's handler is done before the next tick is due.
* `RecvAligned`: the receive ring's size, the size of a get and what the engine stores
  at a time are multiples of one number above one: the ring is 2048, a get 512 bytes, and the
  engine, which is not in the repository, is taken to store whole words of its 32-bit bus.
  Without it a get may end in the last cell, and finding 2 is what happens then.
* `SendAligned`: the transmit ring and the chunk have such a number (2048 and 496: 16), and a chunk fits beside what a tick
  may find still to stream.  Without the second part finding 1 is what happens.
* `ChunksNeverFill`: no number of chunks, with what a tick may find still to stream, is
  exactly the ring.  2048 is 4 chunks and 64 bytes.
* `Roomy`: a lag, a chunk, what the threshold leaves and one store of the engine are together within the receive ring's capacity.
* `WindowFits`: the client keeps no more reads outstanding than `buf_out` holds.
* `Linked`: an image is a sequence of sections, and those that are allocated, with contents or
  to be cleared, do not overlap in the memories, which is what a linker makes.
* `Tight`: the build stores the byte before `wptr`, stores `wptr` once, and does not load `rptr`
  twice if it stores it twice.  This is a premise on the compiler, which the source does not make
  sure of and the `-Og` build does not meet (*Further observations*); only the two theorems that name it
  need it.

Besides these premises the proofs use only the assumptions on the constants
each module declares: sizes are positive, kinds of targets are disjoint, the
period is less than half the word, a task's loop has an instruction, the registers it
computes into are registers, the value for "no task" is not a task, a counter
has a bit in `mcountinhibit`.

**The crossbar counts.** That a response queue never fills cannot be seen from the
queue.  `Conservation` counts: the entries of the pending FIFO for a segment are
as many as the answers waiting in its queue and the requests in the segment.
`CoreInv` ties the pending FIFO's length to what the core has outstanding, at
most `MaxOut`, hence at most `Depth`; an entry is left over for the arrival,
so the queue has room, so (the other half) nothing is dropped and the count
stays exact.  The two halves need each other, and the invariant is their
conjunction with `TypeOK`, `CoreInv` and `TargetInv`.  The proof follows the
parts of `Clock`; the counting is in `QueueLemmas`: what an append, a tail
and an empty sequence do to `Occurrences`.

**The crossbar keeps order.** Counting does not say whose answer it is.  `OrderInv`
says that for each core there is one sequence `G`, its granted requests without an
answer, that explains everything that holds a part of one: what the core is
owed is `G` and the request on its pins; the pending FIFO is the segments of `G`; and for
each segment, the response queue followed by the core's requests in the
target is exactly the requests of `G` for that segment, in their order.  The answer a
core sees is the head of the queue of the head of the pending FIFO, so
that of the head of `G`: a step of `ObiPort`.  A grant appends to `G`, an answer drops its head,
and everything else leaves it alone; `QueueLemmas` says what an append and a
tail do to a list of the entries with a given mark.

**The bridge.** The slave keeps reads and writes in two channels with no order between
them.  The invariant says the read channel lists the reads of the response FIFO and the
write channel its writes, and that together they are as long as it is: the one
merged from the other.  Only the channel of the oldest entry is ready, so its answer
is that channel's first.  The response FIFO's length being that of the two channels, a slave
with at most `RspDepth` unanswered never fills it.  For write data: what the slave has
and what waits is, in order, the accepted writes and those of the request FIFO, so
addresses and data pair up although they travel apart.  `BridgeIsTarget` then
says a step takes the head of the requests held, adds a new one with room, or neither.

**The tick.** The comparison is by equality on a clock that wraps, so "the
compare value is in the past" has no meaning in the registers alone.  The
invariant says it with the interrupt line: up, `mtime` is 1 to `MaxLate` clocks
past the compare value; down, the compare value is at most a period ahead.
The software in between holds a copy of the register, and is late by what it
has used up of `MaxLate`.  Each action is one clock and the proof has one step
per action.  `NoDrift` needs the number of laps the word has made: `BeatInv` says
the compare register and whole laps add up to the start and one period for each
tick counted, and one more.

**The context switch.** The invariant says of the task that runs, of each that waits
and of the handler, how many frames there are (`DepthOf`), where they may resume, and
what is sane at that place: enabled interrupts go with nesting zero, the two
instructions of entering and leaving run masked, and between the start's three
steps the registers loaded so far are the first frame's.  A frame saved holds the
running context, so the refinement mapping does not change at a trap; a choice of
another task moves nobody's context; a restore is the identity on it.  Every
step is thus a step of one task's context, the birth of a task, or a stutter.

**The byte buffer.** Until `torn`, `BytesStored` says every cell between the pointers
holds the byte of its place, in both directions of the wrap, but for the one a put has yet to
store; `PointersAgree` ties the pointers to the counts; `SeenBefore`, `WriterHasRoom` and
`ReaderHasByte` say what each thread has learnt from its loads of the pointers and the other one
cannot undo.  A pointer one past the end stands for cell 0 (`Seat`, `Free`), which is
how the same invariant serves builds that store a pointer twice; what `torn` excludes
is a check that takes it for something else.  The queue of the abstract specification is the cells between the
pointers; the put is the step that moves `wptr`, the get the one that moves `rptr`, whether the
byte was copied before or comes after.  `BufNeverTorn` has an invariant of its own: under
`Tight` no pointer is out of the array where it matters (`PointersWithin`).

**The rings.** `RInv` and `SInv` say which byte is in which cell: the ring holds, from
the tail to the head, the bytes not given back or not streamed yet, in order, and a driver's pointers
are where its device's are, or where its own moves since have left them.  What makes this inductive is
where the pointers may stop: all moves are multiples of a unit `d`, so heads and tails stop only in
cells that are multiples of `d` (`Stops`), never in the last one, where the drivers' pointer arithmetic
goes wrong.  A ring is proved alone, whatever its engine does; the demo's steps
are steps of either ring or leave it (`DemoHasReceiveRing`, `DemoHasTransmitRing`), so
what holds of each holds in the composition, and only what is about both is proved of the
demo.  `put` computes with a tail it has read before: by that tail the ring holds
a whole number of chunks and what a tick found (`TailRemembered`), which is never the
size of the ring, so an old tail errs towards full.

**The demo.** `WakeUnderWay` follows the level from the engine's bit to the top
register, the handler's read and acknowledgement, the semaphore, and the
look after it, and is inductive by itself: one step per action.  `DemoDropsNothing` bounds what is on
its way: the bytes put and not given back are at most a lag, a chunk, and what the
threshold and the grain of the engine's stores leave (`OnTheWay`, `Burden`), since the send task
puts a chunk only when the receiver is blocked and no wake-up is under way, hence below the threshold.

**The debug server.** A command's number says when it was sent.  `OrderInv` says
the numbers ascend along the way: executed, held (`buf_in`, then the socket thread's hand), on the
connection served, on those waiting to be accepted, one connection after the other; and that
every number above the executed one is somewhere on the way or on a connection.  For answers, `InReads`
strings the queues together: what the client waits for is the answers on its connection, the one in the
hand, those in `buf_out`, the simulation's, and the reads among the commands to come.
Only the latest connection asks for anything (`OthersQuiet`), and until it is accepted nothing is on
its way to it (`Fresh`), as a client quits with no read outstanding.  `Reads` is a recursive
function; what it makes of a concatenation is proved with `Induction` of `QueueLemmas`.
The room in `buf_out` follows: its answers and the one in the simulation's
hands are among those the client waits for.

**The bare-metal program.** `Place` is where main is: `mepc` in a handler, `pc`
elsewhere.  `TrapInv` says of each place which interrupts may be taken there: from the first
access until the timer is set up its line is down, and after the last wait it is masked.
`CounterInv` says where the counters stand still, what they count, and which of them a loop has read or cleared.
`VerdictInv` ties the flags of the host's loop to what the program did.
Loading is an invariant of its own: the sections before the current
one are in their memories, and nothing else is (`LoadInv`).

**Only model-checked**: the liveness properties (`EveryReadAnswered`, `ServerShutsDown`,
`PutReturns`, `DemoEnds`, `RunEnds`, `BlockedOnlyByHigher`), as liveness and `ENABLED` are out of the prover's
reach, and the fairness part of the refinements `TargetSpec` and `PortSpec`, whose safety parts are
`BridgeIsTarget` and `XbarIsPort`.  What a recursive operator computes cannot be
proved with the provers installed; the models use recursive functions, and the few facts
about them rest on an induction over sets of numbers.

## What is not modelled

`PROJECT.json` has a row for each part.  In short:

* `obi2iob` has one user, a test bench of a cache that is a submodule: its answers are wrong or
  right with the timing of `ready` and `rvalid`, which the repository does not say.
* `mtime64` and its halves: no program of the modelled boards is built with `MTIME64`.
* The dispatcher of `mtvec.c` is compiled into no program.
* The core wrappers are wiring around submodules, as are the AXI wrappers, which are
  generated.  The benchmarks are third-party code; the FreeRTOS demo passes a message
  through a queue of the kernel.
* Left out of the modules there are: response codes of the AXI bridge, contents of memories,
  the console, the second port of the dtcm, the comparison of address bits, the FPU part
  of a frame (compiled out by every configuration), the start, stop and reset bits of the DMA
  engine, failed start-up of the debug server and resets of its target.
* Environments left out: a core that lowers `rready` or ignores `gnt`, a reset in the middle
  of a run, a debug client that goes away without a `Q`.
* The cores, the DMA engine, the AXI memories, the FIFO and the FreeRTOS kernel are
  submodules: where the code needs them they are environments, marked external.

## Plan

Done, in this order: the crossbar and its abstract port; its proof; the bridge
and the abstract target; the rings; the tick and its proof; the byte buffer,
its abstract queue and its proof; the debug server; the ring demo composed; the context
switch, its abstract view and its proof; the register maps; the bare-metal program under
the simulator's main; the proofs of the bridge, of the crossbar's order, of the tick's
rate, of the buffer's refinement; the proofs of the rings and of the demo, of the debug
server, and of the bare-metal program.

Next, models:

1. `AddrDecode`: regions to one-hot segments, with the theorem that disjoint regions
   decode to one segment.
2. The bridge with memory behind it: is a read ordered after an earlier write to
   the same address?  Response codes.
3. The wrappers as environments of `ObiXbar`: the one that ignores `gnt`, a core that
   lowers `rready`; reset; the dual-port dtcm.
4. `JtagServer` with clients that disconnect, failing accepts and target resets.
5. `Obi2Iob` and `Mtime64`, when something of the repository fixes their environment.

Next, proofs: that `JtagServer` with two `TcpBuf` of a `Tight` build in place of its queues implements it as it is;
what the new models promise.
