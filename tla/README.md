# conspiración in TLA+

conspiración is a four-core ARM processor with coherent caches, written in
SystemVerilog, together with its simulator, its test benches, a bare-metal demo
and two generations of a GPU. Its README calls it *Lord of the rings: MESI &
cache coherence*, and that ring is the heart of this project: four direct-mapped
MESI caches that talk to each other over a ring of messages and agree over a
ring token on who may ask for which line. Around it stand the core that fetches
through its MMU, the programs of the demo that depend on the exclusive monitors,
the simulator that lets a debugger into the running machine, and wavelet3d, the
second platform, with its own simulator, host software and boot of a GPU.

Everything here is written from the code under `src/`; paths below are relative
to it. Run the tools in this directory:

    tlc -workers 2 -config CacheToken.cfg CacheToken.tla
    tlc -workers 2 -config MemPorts.cfg MemPorts.tla
    tlc -workers 2 -config Ring2.cfg MCCacheSystem.tla     (and Live2, Ring4, Lost4, Stale4)
    tlc -workers 2 -config Wavelet.cfg MCWavelet.tla
    tlc -workers 2 -config W3dHost.cfg MCW3dHost.tla
    tlc -workers 2 -config Demo.cfg MCDemo.tla      (and Mixed)
    tlc -workers 2 -config Simulator.cfg MCSimulator.tla
    tlapm CacheToken_proof.tla      (and MemPorts_proof, CacheSystem_proof, CacheCoherence_proof,
                                    Simulator_proof, Demo_proof, Wavelet_proof, W3dHost_proof)

## The system

### Components

| Component | Code | State | Operations | What makes it correct |
|---|---|---|---|---|
| Cache controller | `rtl/cache/cache_control.sv` | `state`, `wait_reply` | one of ACCEPT, CORE, SNOOP, REPLY per cycle, or a retry of it | MESI: one owner, current copies; every request ends |
| Data ring | `rtl/cache/cache_ring.sv` | `in_hold`, `stall_data` and their valid bits | send, forward, hold back | no message lost or duplicated |
| Lock token | `rtl/cache/cache_token.sv` | `out_token`, `locked` | pass the token, lock, unlock | one request per line at a time |
| SRAM | `rtl/cache/cache_sram.sv` | tag, state and data per index, output latch | read, write | |
| Memory access | `rtl/cache/cache_mem.sv` | the access under way | begin, end | no writeback overtaken |
| Routing | `rtl/cache/cache_routing.sv` | `state`, the port's registers | cached, bypass | both users of the port get it |
| Monitor | `rtl/cache/cache_monitor.sv` | linked words, what they held, what is collected | ldrex, strex | a strex succeeds only over unchanged words |
| Debug port | `rtl/cache/cache_debug.sv` | a copy of a line | dump a line | does not disturb the rest |
| Memory arbiter | `tb/mem_interconnect.sv` | `last_select`, `last_hold` | select a port | fair; the bus protocol is kept |
| Bus master | `rtl/core/bus_master.sv` | the request on the bus | start, end | requests are constant while they wait |
| MMU | `rtl/core/core_mmu*.sv` | master, hold register, both page walks | arbitrate, walk, fault | each request answered once, by its own answer |
| Fetch | `rtl/core/core_fetch.sv`, `core_prefetch.sv`, `core_porch.sv` | queue, `pending`, `discard`, the porch | fetch, flush, issue | the instructions that are due, none left out |
| Core control | `rtl/core/core_control*.sv` | cycle, bubble, step | issue, stall, halt, break, except | one instruction per step; a halted core does nothing |
| Core datapath, CP15 | rest of `rtl/core/` | registers | | functional |
| SMP control | `rtl/smp/` | `halt`, `step`, status per core | run, halt, step | a request is not lost to a breakpoint |
| Demo: locks, mailboxes | `demo/atomic.S`, `mem.c`, `smp.c`, `start.S` | `_boot_num`, the lock, a mailbox per core | `spin_lock`, `compare_exchange_64`, `remote_send`, `run_cpus`, ... | mutual exclusion; messages are whole and taken once |
| Demo: console | `demo/console.c`, `main.c`, `util.c`, `gfx.c`, ... | the line, `input_*`, the screen | print, edit in an interrupt handler, commands | what is typed stays on the screen and is carried out |
| UART | `tb/top/conspiracion/jtag_uart.cpp` | ring of keys, `ac`, countdown | tick, read, write | no key is lost |
| Simulator | `tb/top/conspiracion/conspiracion.cpp` and the bus | the loop, the session, what is forced on each core | fast and accurate loop, session, signal | a session leaves no trace in the program |
| Devices | `tb/top/conspiracion/*.cpp`, `avalon.impl.hpp` | ready, latches, registers | read, write, tick | an access happens once |
| Display | `tb/top/conspiracion/vga.impl.hpp` | mode, state machine, position | measure, find the corner, put pixels | it finds any signal that it knows |
| wavelet3d: JTAG server | `platform/wavelet3d/remote_jtag.*` | buffers, `readable`, mutex, two threads | accept, read, process, write | answers in order; one thread has the buffers |
| wavelet3d: memory, screen | `platform/wavelet3d/main.cpp` | AXI queues, memory, frame buffer | a bus cycle | bursts land, and end |
| wavelet3d: host, boot | `host_sw/*.c`, `rtl/axilemu/`, `rtl/gfx/firmware/` | emulated registers, the DMA's descriptor, memories | load, store, DMA, probe | the firmware starts, and whole |
| wavelet3d: renderer | `host_sw/demo.c` | edge sums, depth buffer | triangle, raster loop | the picture is that of the geometry |
| Performance monitor | `rtl/perf/` | counters | count, clear | observes and does not disturb |
| Interrupt controller | `rtl/intc.sv` | `mask` | | |
| Shader GPU | `rtl/gfx/` | scheduler, warps, FIFOs | | FIFOs keep order, nothing overflows |
| Older GPU | `rtl/legacy_gfx/` | | | |
| Video output | `rtl/vdc/` | | | |
| Test benches | `sim/`, `tb/sim`, `tb/top/*.py` | | | |
| Vendored cores | `rtl/picorv32`, `rtl/dma_axi32`, `rtl/wb2axip`, `rtl/fpu`, `ip/`, `args.hxx` | | | |

### How they interact

A core's bus master holds a load or a store up until `waitrequest` is low.
`cache_routing` sends it to the cache controller, or past it to the memory port
if the address is not cached. The controller gives its one SRAM port either to
the core (CORE) or to the ring (SNOOP, REPLY). A miss, or a store to a shared
line, goes around the data ring as a message; each cache in turn snoops it,
possibly attaches its copy, and passes it on. Back at the sender (`ttl` 0) it
brings the data, or the cache reads the memory itself. The lock token circulates
beside the data ring, one cache per cycle; a cache may only send a request while
no other lock in the token is on its line, and keeps its own lock there until
the core's access is done. Caches beyond `CONFIG_CPUS` are null: they pass
everything through, counting `ttl` down. The memory ports meet in a round-robin
arbiter. All of this is one clock domain.

Above the bus master a core has two page walks, one for its fetch and one for its
loads and stores, with an arbiter between them. The fetch reads ahead into a
queue; a branch, an exception or a halt empties it.

The demo's cores share a console behind a spin lock, and messages in mailboxes
behind a two-word compare and exchange. Both rest on ldrex and strex. Core 0 also
has the interrupt handler that edits the line, and it runs and halts the others
through `smp_ctrl`.

The simulator ticks the design and serves its bus. When a core halts at a
breakpoint, after a step or because a signal asked for it, `main()` writes out
where the cores are, carries out what the debugger answers, and forces a branch
to get them going again.

In the simulator of wavelet3d a thread polls a socket for JTAG commands and hands
batches of them to the main thread, which runs bus cycles in between. On the
platform itself, the host uploads the GPU's firmware by DMA while the GPU's boot
ROM waits, and the two talk through registers that are emulated by software.

### What is hard in it

There are four controllers, four ring segments, a token, four memory ports and a
memory of any speed, all advancing in the same cycles. What goes wrong in such a
design goes wrong in one alignment of these in thousands: a retry in the cycle of
an answer, a forward that stalls just before a send, a writeback that is still in
a queue, two page walks that start in the same cycle, an answer to a fetch of
before the branch. The software has the rest: an interrupt handler that edits what
a print erases and redraws, a lock word that changes between ldrex and strex, a
mailbox of two words, two threads with one pair of buffers, posted stores and a
DMA between a program and the memory it reads, a device whose access takes longer
than a tick. The `hazards` of PROJECT.json list these at their lines, with the
properties that watch them; two have none yet (the debug port and the GPU's FIFO).

## The modules

| Module | Models | Used by |
|---|---|---|
| `CacheToken` | `cache_token.sv` and what a controller can do to it | `CacheSystem` (signals, and refinement) |
| `CacheToken_proof` | theorems about it | |
| `CacheMonitor` | `cache_monitor.sv`, as operators on a monitor's registers | `CacheSystem`, `SpinLock`, `Demo` |
| `MemInterconnect` | `tb/mem_interconnect.sv`, as operators | `CacheSystem`, `MemPorts` |
| `MemPorts` | the arbiter with four free masters | |
| `MemPorts_proof` | theorems about it | |
| `CoherentMemory` | the abstract specification: what the caches promise to the cores | `CacheSystem` (refinement) |
| `CacheSystem` | all of a cache, the ring, the bus masters and the memory, cycle by cycle | `MCCacheSystem` |
| `CacheSystem_proof` | theorems about it, for any number of caches | `CacheCoherence_proof` |
| `CacheCoherence_proof` | coherence, for a ring full of caches | |
| `MCCacheSystem` | the lines, indexes and requests of the TLC runs | |
| `CoreFetch` | `core_fetch.sv`, `core_prefetch.sv` and `core_porch.sv` over a port that answers when it likes | `CoreMmu` |
| `CoreMmu` | the port: both page walks, the MMU's arbiter and the bus master, cycle by cycle | `Simulator` |
| `SpinLock` | `spin_lock`, `spin_unlock` on the monitors; the abstract view of the demo's locks | `Console`, and `Demo` (refinement) |
| `Mailbox` | two abstract specifications of `remote_send` and `remote_recv`: what they take for granted, and what they have | `Demo` (refinement) |
| `JtagUart` | the UART, as operators | `Console` |
| `Console` | `print`, the line editor and its interrupt handler | `Demo` |
| `Float16`, `Commands` | half precision numbers; what each command makes a core do | `Demo` |
| `Demo` | boot, SMP control, mailboxes, memory and graphics commands, the user | `MCDemo` |
| `Demo_proof` | theorems about the lock, alone and in the demo, the boot, the console, the mailboxes and the vectors | |
| `SimBus` | the simulator's interconnect and devices, as operators | `Simulator` |
| `Display` | the screen of the simulator, as operators | `Simulator` |
| `PageWalk` | the MMU's page walk and the debugger's | `Simulator` |
| `Simulator` | `main()`, sessions, signals; composes the three and `CoreMmu` | `MCSimulator` |
| `Simulator_proof` | theorems about `CoreFetch`, `CoreMmu` and `Simulator` | |
| `RemoteJtag` | the JTAG server's two threads | `Wavelet` |
| `W3dDram` | wavelet3d's flash, AXI memory and screen | `Wavelet` |
| `Wavelet` | `main.cpp`: both together, with a debugger and an AXI master | `MCWavelet` |
| `Wavelet_proof` | theorems about the JTAG server and the AXI memory | |
| `Raster` | the software renderer | `W3dHost` |
| `AxilEmu` | `axilemu.sv`: registers that software emulates | `W3dBoot` |
| `W3dBoot` | the host's program, the DMA, the boot ROM and the firmware | `W3dHost` |
| `W3dHost` | the host's `main()`: first it draws, then it boots the GPU | `MCW3dHost` |
| `W3dHost_proof` | theorems about the renderer and the boot | |
| `MCDemo`, `MCSimulator`, `MCWavelet`, `MCW3dHost` | users, programs, page tables, bursts and pictures of the TLC runs | |

### A step is a clock cycle

This is so in `CacheSystem`, `MemPorts`, `CoreFetch` and `CoreMmu`. All registers
change on the same edge, so interleaving the components' steps would model a
machine that does not exist. A step of `CacheSystem` is one cycle
of everything: the operators named after the code's wires (`Out`, `Retry`,
`AcceptSnoop`, `MaySend`, ...) are functions of the registers, and `Step` gives
every register its next value from them. What is free in a cycle is what comes
from outside: which requests the idle cores begin, and whether the memory keeps
the access at its port waiting (`MemAnswers`, `MemDelays`).

`Wanted(n)` is the big `always_comb` of the controller before the retry logic,
one operator per state; `Signals(n)` is what is left after it. A record `hold`
or `stall` is a message with its valid bit (`None` when it is down). `rd` is the
SRAM's output latch, kept only in the cycles in which the controller looks at
it; the data of an INVALID entry, of an unanswered message and of a read access
are not kept, since nothing depends on them. `latest` is a history variable: the
data of every line after all stores done so far.

The data path is abstract. A line is a model value that stands for a tag and an
index, a word is a number of a small set, an address outside the cached region is
`IO`. Byte enables are left out: a store writes one word.

### Two promises

`CacheToken` on its own lets every controller do anything the token permits, in
any cycle; `CacheSystem` is shown to use the token like that (`TokenSpec`), with
the refinement mapping of its `Token` instance: TLC checks it, and
`TokenRefinement` proves it. What is proved of `CacheToken` therefore holds of the
caches (`LinesExclusive`).

`CoherentMemory` is what software relies on: one memory, in which a request takes
effect at once in the cycle in which `waitrequest` is low. `CacheSystem`
implements it (`Coherent`) with `mem <- latest`, and with an answer shown in the
CORE cycle that ends the request. Its `Right` says what a load returns and when a
strex may succeed, and `StoresAlone` that nobody else is answered for a line in
the cycle in which it is stored to.

### Or an access that others can see

The other modules are about programs. Each access to memory, a device, a lock or
a socket that somebody else can see is a step; what is seen by one thread only is
done together with the next such access.

* `Demo`: core `c` goes through the operations in `todo[c]`, each of which takes
  one step or several (`step[c]`): a word printed, a mailbox word linked, a
  request to `smp_ctrl`. What follows an operation (`Reset`, `Command`,
  `DoWrite`, ...) is worked out when the code does it, from what it has read by
  then: `run_cpus` reads the status, prints, and writes what it decided before.
  Core 0's handler (`irqAt`) comes before the next instruction of core 0 while
  interrupts are on. Keys are words of commands.
* `Wavelet`: `poller` and `main` say where the threads are, `lock` who has the
  mutex. Reads and writes of the socket may be partial. A cycle of the bus is one
  step of the main thread (`SysBusCycle`), in the order in which the code looks at
  the channels.
* `W3dHost`: the renderer's loops, sample by sample; then the host's posted stores
  (`Offer`, `Land`), the DMA, the GPU's program and the clock of `axilemu`, all
  interleaved.
* `Simulator`: a step of `main()` is a cycle of the platform (falling edge, rising
  edge, devices), a command of the debugger, or a signal. Core 0 runs a small
  program whose loads and stores reach the devices; the others run in their
  caches. `history` says what the program should do next, so that a session can be
  checked to leave no trace. The display, the page walks and the fetch with its
  MMU are parts beside the loop, each followed alone (`setup.part`).

### The core's side of the bus

In `CoreFetch` an instruction, or the fault in its place, is known by the address
it was read from. Branches, halts and stalls come when they like; `wanted` is a
history variable, the instruction that is due. `CoreMmu` puts the walk, the
arbiter and the bus master in the place of the port. What the page tables say is
free there: a walk leads over one table, over two, or fails. `PageWalk` has the
tables, for one walk at a time, and next to it the walk that the simulator's
debugger makes over the same tables, in memory and in the caches.

## The runs

| Run | Question | Bounds | Result |
|---|---|---|---|
| `token` | Can two caches have requests for one line under way? Can a cache lose its lock? | 4 caches, 3 locks, 2 lines | holds, 87 thousand states |
| `arbiter` | Can the arbiter starve a port, or move while the memory waits? | 4 ports | holds, 1153 states |
| `ring2` | MESI, no lost message, ldrex and strex, the token's and the cores' view | 2 caches and 2 null ones, 2 lines on one index, 2 values; ldrex and strex of one line, which one core also stores to, and loads of the other | holds, 1019 thousand states |
| `live2` | Does every cached request end? | 2 caches, 2 lines on one index, uncached loads | holds, 100 thousand states |
| `ring4` | The same with a full ring | 4 caches, 3 cores, 1 line | holds, 183 thousand states |
| `demo` | Does the demo boot, talk and obey? | 3 cores at most, 2 keys in the UART (of 64), lines of 9 (of 64), an unsigned of 12 bits (of 32), room for 8 vectors (of 740000 in hex), one sequence of keys per user | holds, 393 thousand states |
| `simulator` | Does the debugger leave no trace, is the display right, are the walks? | 2 cores, bursts of 2 cycles (of 4096), 2 small video modes, 32 words of page tables, 4 addresses and a queue of 3 in the core | holds, 173 thousand states |
| `wavelet` | Do two threads share the buffers, do bursts land? | buffers of 3 (of 512), 4 commands or 3 bursts of 2 beats, 2 words of memory and 1 of flash | holds, 268 thousand states |
| `w3dhost` | Is the picture right, does the GPU start? | a screen of 4 by 4, 48 pictures of two quads, a firmware of 2 words | holds, 19 thousand states |
| `lost4` | The same with requests for three lines | 4 caches, 3 lines | **violated** |
| `stale4` | Does a load return the last store? | 4 caches, 3 lines, 2 indexes, 2 values | **violated** |
| `mixed` | Does a core take the messages that it was sent? | 2 cores, four messages to one of them, two by two the same | **violated** |

Why these bounds are enough to be interesting. Two lines on one index give every
eviction there is in a direct-mapped cache; two values tell a current copy from
an old one; the requests of a core may come in any order, at any time, for ever,
and the memory may take any time for each access, so the depth of a run is not
bounded. Two cores with null caches behind them exercise the ttl count, answers,
invalidations and retries; it takes four caches for several messages to be on the
ring at a time, and for a message to be held back by the next cache.

With four cores the state space of all requests is out of reach. `ring4` keeps
three cores on one line. With cores 0 and 2 alone on two lines of one index
(533 thousand states) the invariants hold too; no run is kept for it.

The bounds of the other runs. In `demo` the users between them use every command
(of `gfx` all but draw), delete and escape, fill the line and the UART, and
meet cores that do not exist or are halted; a `patient` one waits for the
console before each key, so that all of a long command can be followed. One types the
vector with the last number of all, and then three with the place of vector 0, one of
which wraps as an unsigned and one as an address. In
`simulator` the programs run and halt the other core, use the debug port, the
timer with its interrupt and a hole in the bus, and stop at breakpoints; the user
signals, steps, patches and hangs up. The display starts at every place of the
picture. All types of page-table entries occur on both levels, with tables in
memory, in a cache, or old in memory. The fetch has its real queue of three; with
addresses modulo four, a wrong instruction is told from the right one. In
`wavelet` bursts go over the end of the memory, the image is longer than the
flash, and queues of two (`MaxPending`) fill up. In `w3dhost` the quads cross the
border of the screen, cover each other, are slanted, and one is seen from its
edge.

### What each property says

* `MutualExclusion`, `ClaimKept` (token): the reason for the token and the reason
  for the lock.
* `SingleOwner`: MESI's exclusion with the one exception that the code makes: a
  SHARED line is marked EXCLUSIVE when its upgrade is sent. The others are SHARED
  then, and its cache waits, for a request of this line whose messages all tell the
  others to give their copies up; so nobody can be MODIFIED, nor a second one
  EXCLUSIVE, until they have.
* `CopiesCurrent`, `MemoryCurrent`: no store is lost, wherever it is.
* `NoLostRequest`: a cache that waits has one message, or one read, that will end
  its wait, counted by the ttl of what is on the ring; a cache that does not wait
  has none.
* `TokenSpec`, `Coherent`: the two refinements.
* `Progress`: every cached request ends.
* `ReadsLatest`: a load returns the word of the last store. (`Coherent` says so
  too; it is stated apart for the run that violates it.)
* `NoOvertaking`, `HoldStable` (arbiter): fairness, and the bus protocol.
* `RightInstructions`: what is issued was read from where the program is, with
  nothing left out or repeated over stalls, branches, halts and answers to fetches
  of before. `OwnAnswers`: what is at the bus is what the arbiter's master asked
  for last, and it still waits. `CoreServed`: neither walk loses a request or keeps
  the other from the bus.
* `MutualExclusion` (demo): the lock, although the monitors only compare data.
  `PromptShowsInput`, `LinesWhole`: what is typed is on the screen whenever the
  console is free, and no print is cut by another. `NumbersRight`: the unlocked
  count in `start.S` gives every core its own number. `VectorsRight`: what is typed
  in decimals is in the GPU's memory as the right half, and the header covers it,
  although vector numbers and addresses wrap; of vectors with one place the last counts. `MailOnceSpec`: no message is
  taken twice, or lost but for one that replaces it, and one that was put once since
  the mailbox was empty is taken whole. (`MailSpec` has no such exception, and is
  stated for the run that violates it.) `Served`: in the end all is carried out, or the
  console is `Stuck` in a way that nothing in the code prevents (see below).
* `AccessOnce`: an access that takes several ticks happens once, and reads what
  was there. `RunsOnce`: sessions leave out or repeat no instruction.
  `HaltServed`: a halt asked for by a signal is granted. `Shown`: the display
  finds every signal that it knows. `WalksAgree`: each walk ends, and the MMU and
  the debugger translate alike.
* `RepliesRight`: the debugger gets what its commands would answer if they were
  given to the pins one by one; after it hung up, nothing more. `OneHasBuffers`, `BatchOnce`: the hand-over of the
  buffers. `WritesLand`, `ReadsCurrent`: the memory is that of the answered writes
  and of a first part of those under way. `DebuggerServed`, `BurstsAnswered`: all
  of it ends.
* `EdgesExact`: the sums of the raster loop are the edge functions at its sample,
  on every path through `continue`. `PictureRight`: each pixel is that of the
  triangle with the greatest depth over it, which is the farthest one (see below), where
  those over it have a depth (0/0 may draw anything). `QuadWhole`: no hole along a diagonal.
  `FirmwareWhole`: the DMA uses the descriptor that was written, and the GPU starts
  with all of the firmware. `Boots`: the start-up ends.

### Fairness

`FairSpec` assumes weak fairness of the clock (`WF_vars(Tick)`), and that an
access at the memory's port is not kept waiting for ever
(`WF_vars(Busy /\ MemAnswers)`). The first is what a clock is; the second is the
contract of the memory controller behind `avl_waitrequest`. Nothing is assumed of
the cores, of the ring or of the arbiter: who gets a turn is decided by the model
of the code. `CoreFairness` is the same for a core: the clock runs and the bus
answers (`WF_coreVars(CoreCycle(wire # Nil))`).

* `Wavelet`: both threads run (weak), and a thread that wants a mutex which is
  free again and again gets it (strong, `Lock`). A wake-up that nobody asked for
  need not happen. The AXI master does not refuse answers or keep back write
  data for ever.
* `W3dHost`: host and DMA run, posted stores land, and the GPU's program gets
  turns at its clock; each is a processor or a bus that nothing can hold up.
* `Demo`: cores that are not stopped run, a core obeys `smp_pe`, the interrupt is
  taken, the user types on. For cores other than 0 also: a core that sees the lock
  free again and again gets it in the end (strong, `SeesFree` and `Takes`). No code
  sees to that, `spin_lock` has no queue; it is the bus and its delays that do.
* `Simulator`: `main()` goes on while it is not in a session, the video source
  sends pixels, the bus answers. `GoesOn` says so as one formula, which TLC checks
  faster than the weak fairness of each action that it stands for; since only one
  part moves in a behaviour, it is the same. The cores' programs, the debugger and
  the user promise nothing.

### Disagreements between the code and what is said of it

**A request that is never sent** (`lost4`). In ACCEPT the controller lets an
answer to somebody else pass (`cache_control.sv:133-134`), and in the same cycle
chooses CORE as its next state, since there is nothing to snoop. If the next cache
does not take the answer, the ring segment holds it back, and its output is taken
in the next cycle: `send` in CORE is then ignored (`cache_ring.sv:36`, `73-74`).
The controller sets `wait_reply` all the same. In the run, core 1 waits for ever.
`next_state` looks at `out_stall` (`339-340`), but that is the stall of a message
from before. It takes three messages on the ring, so two cores do not meet it.

**A load that returns old data** (`stale4`). An evicted MODIFIED line is INVALID
as soon as its write begins; that write then waits for its turn at the memory.
Another core's request for the line finds no owner, and its read of the memory may
have its turn first. The token does not help: the lock of the evicting core is on
the line it asks for now, not on the one that it gave up. In the run the arbiter
serves a third core's access meanwhile. With two cores it takes an uncached access
of the evicting core, which keeps the memory port away from its own writeback
(`cache_routing.sv:100`, `125`); without it, two cores are safe, as `ring2` shows.

**A message that nobody sent** (`mixed`). A mailbox is two words. `remote_recv` links
both and then stores both, and takes what its two ldrexes returned for what it has
exchanged (`mem.c:26-30`, `atomic.S:32-50`). The monitor, however, compares the line
with `monitor_rd`, which a second ldrex of the line leaves as the first one read it
(`cache_monitor.sv:103-106`). If core 0 sends A, B and A again while a core is between
its ldrexes, that core has one word of A and one of B, the line is A as it was, and
both strexes succeed: it carries out a command with the value of one message and the
address of the other, and the last A is lost. That a message is sent again is
essential: if none is, `MailOnceSpec` holds, and `MailOnceRight` proves it.

Not a disagreement, but worth knowing: a token has three locks, and the argument
below needs exactly one less than there are caches. With `CONFIG_CPUS` 3 the
token still carries a lock when its owner sees it again; the owner takes it for
somebody else's, leaves none, and two caches can then request the same line. The
shipped value is 4 (`rtl/config.sv`). With 2 there are two spare slots, which
`ring2` runs with, and TLC finds `MutualExclusion` to hold of `CacheToken` with
`N = 2` and `Slots = 3` too; the theorems do not cover that size.

Also met, and stated as an exception of a property rather than in a run of its own:

* A session that finds core 0 with a branch under way, or not halted, loses the
  branch or repeats an instruction: `main()` takes the program counter of control
  and forces a branch to it (`conspiracion.cpp:664-768`). A breakpoint of another
  core and a signal in the fast loop lead there. `RunsOnce` is about the sessions
  that find core 0 halted, with no branch under way.
* The first access to a device in the design is answered without being made if
  `latch` is born set, since the constructor leaves it uninitialised
  (`lost` in `AccessOnce`). A dump of such a device in a session never returns:
  time stands still, and `dump` waits for a tick (`avalon.impl.hpp:148`; `"stuck"`).
* A core that is halted while it holds the console's lock, and a print that waits for
  `ac` (`console.c:98`) with interrupts off while the UART's ring is full, leave the
  console dead (`Stuck`).
* The depth test of the renderer keeps the greatest depth (`host_sw/demo.c:260`, over a
  buffer of zeros), and `mat_frustum`, which its comment takes from glFrustum, has -1
  for what is near and 1 for what is far (`demo.c:114-129`, and `DepthIsDistance`): what
  is behind hides what is in front. `PictureRight` says what the code draws.
* `gfx_data` looks neither at the block nor at the sum (`gfx.c:107-117`): a block from
  1d0000 on stores outside of the GPU's memory, 8000000 and 40000000 are block 0 again,
  the former with a header that covers more than the memory, and the header does not
  count the vector of 3fffffff in lane 3.
* `ok >> 29` (`conspiracion.cpp:500`) is 0 for the `bool` that `ok` is, so that
  addresses which are not cached are looked for in the caches all the same;
  `conspiracion.cpp:756` clears a signal that came during the session; `main.cpp:115`
  of wavelet3d goes on for ever if `fread` gives nothing, and its `fb_ptr` (line 243)
  has no bound. These are outside of what the
  properties look at.

## The proofs

### CacheToken_proof: mutual exclusion for any number of caches

For any `N`, any set of lines and `Slots = N - 1`:

* `TypeCorrect`: `Spec => []TypeOK`
* `Exclusion`: `Spec => []MutualExclusion`
* `ClaimIsKept`: `Spec => ClaimKept`

`MutualExclusion` is not inductive: nothing in it says why two caches cannot
send one after the other. The invariant `TokenInv` says where a cache's lock is:
`Claimed(n)` holds when the lock of cache `n` is in the slot that the token's
position assigns to it, or, when the token is about to reach `n` and the slot has
been shifted out, when no other lock in the token is on its line
(`EntitledClaims`). Locks in the token are on different lines (`LocksDistinct`),
so two caches cannot both be claimed on one line: `ClaimsDiffer`. Whoever waits
for an answer has locked its line (`WaitLocked`), and whoever has locked one has
a request (`HasLine`). The step lemma follows the token: every slot moves on by
one (`SlotMoves`), a new lock is left only if no other is on its line, and a
locked cache renews its own because nobody else can have taken the line. That is
where `Slots = N - 1` is used: with fewer slots a lock would be forgotten before
its owner sees the token again, with more a cache would meet its own.

### CacheSystem_proof: the caches, any number of them

For 1 to `RingSize` cores, any lines, indexes, words, values and requests:

* `TypeCorrect`: `Spec => []TypeOK`
* `TokenRefinement`: `Spec => TokenSpec`, a refinement
* `NeverTwice`: `Spec => []RequestOnce`, the half of `NoLostRequest` that holds of
  every ring: no request is under way twice, and none that is not waited for

`TypeOK` alone is not inductive: that a latched SRAM entry has data to answer with,
that an answer has somewhere to go, that a store fits the entry of its line, all
depend on where a request is. So `Inv` follows what is under way. A `Place` is a
message register of a cache (`hold`, `stall`) or its memory access; `Going(p)` says
that there is something there and `Home(p)` whose it is, worked out from `ttl`.

* `OneEach`: a cache has one thing under way at most.
* `HomeWaits`: its home waits for it, so that CORE, which waits for nothing, cannot
  send a second one.
* `About`: it is about the line that the core at home asked for, it invalidates if
  that is a store, and if it is to bring data the entry at home is INVALID.
* `Serving`: the state of the controller and its registers agree. In particular
  SNOOP has looked at the entry that is there, or at none.

A cycle is taken apart once (`SignalsOf`, and one lemma per state of the
controller); `Flow` says from which place of the cycle before (`Origin`) whatever is
at a place has come, `Kept` that it is the same request, and `OriginsDiffer` that two
places never have one origin, which is that the ring does not duplicate. `Entries`
says what the SRAM's port can write in each state.

### CacheCoherence_proof: MESI on a full ring

For `CPUS = RingSize`, that is four caches, and otherwise any constants:

* `LinesExclusive`: `Spec => []Token!MutualExclusion`
* `OneOwner`: `Spec => []SingleOwner`
* `OneValue`: `Spec => []CopiesAgree`: all copies of a line have the same data

The shipped processor has four (`rtl/config.sv`). The theorems of `CacheToken_proof`
need a slot for every cache but one, and a `ring_token` has three (`SameToken` and
`RingFull` bring them here); smaller rings stay with TLC (`ring2`).

`CoherenceInv` adds to `Inv` and `TokenInv`:

* `Sensible`: a message asks for data, or tells the others to give up their copies;
* `SnoopSees`: where SNOOP finds no copy, there is none;
* `Clean`: a message that has passed a cache has left no copy of its line there,
  unless it is the answer to a load; and once there is an answer, no cache but the
  one that it goes to owns the line;
* `Alone`: an owner is alone, or waits for its own upgrade to go round;
* `AnswersAgree`: an answer has the data of the copies that there are.

A new copy can only come from data that arrive, from an upgrade or from a store
(`CopyMoves`), and all of these belong to the cache that holds the line's lock.
So nobody but the sender gets a copy while its message is under way
(`NoNewCopies`); a message cleans each cache that it passes (`PassingCleans`);
and when it is home it has passed them all (`HomeCleans`). What arrives is then
either an answer, which agrees with the copies, or comes from the memory, and there
are none (`BringsAlike`). A store changes the data of an owner that does not wait
(`DataMoves`), which is alone.

None of this depends on the order in which the memory serves the caches, which is
why it holds of a ring on which `stale4` shows that a load can return old data: what
the caches then agree on is not what was stored last.

### MemPorts_proof: the arbiter is fair

For any number of ports, and masters that come and go as they like:

* `FairArbiter`: `Spec => []NoOvertaking`
* `PortHeld`: `Spec => HoldStable`

`Ahead(p)` is the place of a port in the round-robin queue. The invariant
`ArbiterInv` says that whoever has passed a waiting port stands behind it
(`PassedIsBehind`) unless that port is at the memory already, and that the memory
is not kept by one who has passed somebody (`HeldIsNew`). A selected port goes to
the end of the queue and those behind it keep their order (`QueueMoves`). That
there is a first port at all (`FirstIsFirst`) rests on the well-foundedness of
the natural numbers.

### Simulator_proof: a core and its bus, the devices and the debugger

A core, for any memory and any queue:

* `FetchRight`: `FetchSpec => []RightInstructions`
* `ArbiterRight`: `CoreSpec => []OwnAnswers`
* `CoreFetches`: `CoreSpec => FetchSpec`, a refinement
* `CoreRight`: `CoreSpec => []RightInstructions`, from the first and the third
* `SimulatorRight`: both hold of `Simulator`'s `Spec`, which implements `CoreSpec`

`FetchInv` lines up what the fetch has: the queue goes on from the porch
(`InPorch`), each slot from the one before and `hold_addr` from the last
(`InQueue`), and an answer that is awaited and not to be thrown away is the one
for `hold_addr` (`Awaited`). A flush empties all of it at once (`FlushedQueue`).
That an answer of before the flush is thrown away rests on `discard` staying up
until that answer has come.

`MmuInv` says that a request of a walk is in one place: it has just started, it
is held, or it is at the bus (`AtBus`, `Held`). A cycle in which the bus waits
changes neither the master nor the bus (`BusWaits`); in any other, what was held
goes to the bus before what starts (`BusMoves`), and with something held nothing of
that walk can start. So `OwnAnswers`. A walk in the place of the port is then
one: busy from its request to its answer, and it answers for the address that
it was asked for (`WalkIsPort`).

The devices and the debugger, for any number of cores, devices and values, any programs
and any user:

* `AccessRight`: `Spec => []AccessOnce`
* `SessionsRight`: `Spec => []RunsOnce`

`AccessInv` has a device's wires up exactly while it has the access that waits
(`Wired`), so that one device at most can take something, and nothing has been taken
while the platform waits. A latch is never set between two cycles but by its birth: an
edge that sets it is followed by the tick that lowers the wires and by the access that
finds it, in this order (`SlaveCycles`, `WaitingCycle`). A latch that is born set stays
so until the first access of its device, which is then `lost`, by a core or by the
debugger (`QuietCycle`, `AccessReached`). Once main() is `stuck`, only the property is
left: the debugger has raised wires that nobody lowers.

`RunsInv` says what is due at each place of main(). While it runs: what the branch
under way leads to, or what is in the porch (`Going`). In a session: what the forced
branch leads to, unless it is unknown (`Resuming`). A session takes the program counter
of control; that is the instruction that is due only if core 0 neither issues in the
last cycle nor has a branch in it that leads elsewhere, which is what halted
means in `Noted` (`RunsCycle`). The cycle with the forced branch executes
nothing, whatever was under way (`RunsResume`).

### Demo_proof: the lock, the boot, the console, the mailboxes and the vectors of the demo

* `LockExclusive`: `LockSpec => []MutualExclusion`, for any number of cores
* `DemoLocks`: `Spec => LockSpec`, a refinement
* `DemoExclusive`: `Spec => []MutualExclusion`

The monitor does not watch the ring, so exclusion is not there for free: what a
strex compares is the data that was linked. The invariant says that a core
between ldrex and strex has linked the lock's word as 0 (`Linked`), and that the
word is 1 while somebody has the lock (`Taken`), so no second strex commits
(`StrexFails`). For that, ldrex must always read the line again
(`LdrexLinks`), which the monitor only does if no other word of the line is
linked. The demo also links mailboxes, with the same monitors; `DemoLocks` shows
that these are other lines and that nothing else in it touches the lock.

For any cores, up to the four that the code has names for, any user and any commands,
as long as what the user has written goes to memory that is neither the program's own
nor a device's (see below, "Not modelled"):

* `NumbersAlwaysRight`: `Spec => []NumbersRight`
* `PromptAlwaysShows`: `Spec => []PromptShowsInput`
* `LinesAlwaysWhole`: `Spec => []LinesWhole`

None of these is inductive, and they need each other: what `print` puts on the screen
has the number of its core, and what a key does to the screen is right only because a
line is read after something has been printed. `DemoInv` joins four parts:

* `LockInv`, from above;
* `BootInv`: `k` of the `n` cores have been counted (`Counted`), the next one is the
  only one that can be in `start.S`, and the later ones are halted and stopped. That
  stays so because of what the cores still have to do: no operation in any `todo` runs
  a core after the next one, or ends the boot before all are counted (`Fit`, `Each`).
  Core 0 is followed through its program: `ZeroIs(n, k, w, x)` says that it has the
  operations `x` to do and then the rest of `bsp_main` from the `w`-th on (`Rest`), and
  what `_boot_num`, `input_buf` and the screen are like there. So a line is read only
  after all have booted, and a command can run any core (`TellsCommand`);
* `PrintInv`: a core in the middle of `print` has the lock, and core 0 is not in its
  handler then, which is what `spin_lock` masks the interrupt for;
* `ConsoleInv`: `input_len` is the length of the line while it is typed (`InputInv`),
  and the line with the cursor is the prompt and that line, or during `print` what the
  core has printed, and blanks after it (`Shows`, `Printed`, `ScreenInv`).

Each step of the screen is a lemma about `Put`: the line is blanked as far as it was
typed (`Erases`), something shorter goes there (`Says`), the prompt and the line come
again (`PromptIs`, `TypesOn`), a key adds a place or blanks one (`TypesOn`, `RubsOut`).
What can be seen of a line does not depend on the blanks behind it (`VisibleSame`).

Under the same conditions:

* `MailOnceRight`: `Spec => MailOnceSpec`, a refinement

The exchange of a core takes six steps or more, with the other cores' between them, and the
monitor that it rests on also serves the lock; core 0's handler may use it in the middle
of a `send`. `MailInv` says what is left of a mailbox at each place of an exchange:

* `LastSent`: a mailbox has the last of the messages put there since it was empty;
* `MonInv`: a monitor has either nothing, or the lock's line, or what `LinkIs` says for
  the place of its core. Both words can only be linked in one turn, `stlo` with both or
  with the upper one alone (`LdrexHiLinks`); so a strex of both commits only if the
  lower word is the one of `monitor_rd`, and the upper word was put there then or later
  (`SawLater`). A word that is put later does not change this (`LinkKeeps`), which is why
  it survives what other cores do. Nothing says that the line is still as it was: it is
  the commit that finds it equal (`StrexHiCommits`), and then the message taken has the
  lower word of what is there, and the upper word of that or of one put after an equal
  one. If what is there was put once, that is the message itself;
* `SentLate`: nothing is sent before core 0 reads lines, so that `bsp_init`, which clears
  the mailboxes without an exchange, loses nothing. That it is over by then
  (`LateIs`) follows from where `ZeroIs` has core 0.

A receiver that finds nothing tries again: a message has a bit in its upper word that is
always set (`MessageIs`), so none is taken for an empty mailbox.

For any words, too:

* `VectorsKept`: `Spec => []GfxInv`
* `VectorsAlwaysRight`: if `Reads(Half16[w], Decimal[w])` for each word `w`, then
  `Spec => []VectorsRight`

`GfxInv` says that each vector is in `vram`, at its place (`Slot`), as the halves of its
words, and below `head` if that place is in the data (`VectorIs`), and that `size`, which
`gfx.c` compares with, is the `head` that the GPU has. The two are set apart, `size` at
the start of `gfx_init` and `head` at its end, and agree at each write because both are
done before core 0 reads lines; that is again `ZeroIs` and `Late`. That the data of a
line are the halves of its words (`AcceptedVector`) goes along with the rest of `Fit`
from the command to the write.

`block << 2 | lane` and `vec_num + 1` wrap at the width of an unsigned, `Word`, and the
address of a vector, eight bytes each, at an eighth of it. What makes this harmless for
the header is `SlotIs`: the place of a vector is no higher than its number, and the one
number after which the sum is 0, which leaves the header as it was, has its place in
front of the data, in the GPU's program. Two blocks with one place are not told apart by
the code, and the last one stays; a block with a number far above its place makes the
header cover more than there is. `VectorsRight` forbids neither.

What is proved is the way of a number, not the arithmetic: `float16.c` shifts by as
many bits as it takes (`2 ^ k`) and divides bit by bit (a recursion over data), which
the provers do not reach. That `parse_fp16` reads each word right by itself is thus a hypothesis of
`VectorsAlwaysRight`. TLC finds it true of the words of `demo` when they are typed; it
need not be true of words that no half has room for.

### Wavelet_proof: one thread has the buffers, the replies and the memory are right

* `JtagInvariant`: `Spec => []JtagInv`
* `BuffersExclusive`: `Spec => []OneHasBuffers`
* `BatchesOnce`: `Spec => []BatchOnce`

`JtagInv` relates the mutex, `readable` and the places of both threads: the lock
is held exactly between taking and giving it (`LockInv`); `readable` is up only
while the poller waits, and whenever the main thread acts on a batch
(`ReadableInv`); there are no more replies than commands so far (`RoomInv`),
which is why `out_buffer` never overflows though nothing checks it.

* `RepliesAlwaysRight`: `Spec => []RepliesRight`, for any commands in batches of any size

`RepliesRight` compares what the debugger has with a run of all commands one by one
(`Course`). `RepliesInv` says where the server is on that run: the pins and the port
are those after the first `Done` commands (all, but for a batch that is not begun and
for the rest of one that is under way), and what the debugger has, with the replies
that it is still to get (`Unsent`: the batch's, or what is left of them to write), are
the replies of those commands. While the poller closes the connection, or once the
debugger has hung up, only the first half of that is left: what it has is a beginning.
`Course` is a recursive function, so what it does is proved by induction. The library's
theorems of induction take an operator; `Induction` here takes a set instead, and
follows from the least element that any set of numbers has (`WFMin`).
The proof found an error of the model: replies that the kernel took after the debugger
had hung up were counted as received, and then those of a later batch behind a lost
one. It needs four commands, so `wavelet` has four.

For memories, images, queues and bursts of any size:

* `MemoryInvariant`: `Spec => []DramInv`
* `ReadsAlwaysCurrent`: `Spec => []ReadsCurrent`
* `WritesAlwaysLand`: `Spec => []WritesLand`

Both properties speak of the answer on the pins and of the beats that have none yet.
What makes them true is spread over the master's registers, the pins and the three
queues, and `DramInv` joins those: a channel carries its queue and, behind it, the
request that is not taken yet (`ReadsAsked`, `WritesAsked`, `BeatsToCome`). `Laid`
says that beats are what a list of bursts comes to, one after the other, with the
places where each starts as its witness; the answers that the master waits for are so
laid out by the reads that are asked for (`ReadInv`), and the beats on their way by
what is left of the writes (`WriteOrder`), although address and data travel
separately. The simulator serves the first burst in its queue one beat at a time by
changing its address and length in place; `LaidPop` and `LaidShorter` say that this
takes the first beat away and nothing else. So the memory is `settled` with the first
`Landed` beats: those answered, `Part` of the write at the front, and one that is
written but `Refused`. This last beat is written again in every cycle until its answer
is taken, which changes nothing because a beat that is put twice leaves the same bytes
(`PutNext`).

### W3dHost_proof: the raster loop, the picture and the boot

* `EdgesAlwaysExact`: `Spec => []EdgesExact`, for any screen and any pictures
* `PictureAlwaysRight`: `Spec => []PictureRight`, for any screen with a middle and any
  pictures
* `FirmwareStarts`: `Spec => []FirmwareWhole`, for firmware of any length

`Edge` is linear, so a step of one sample adds a constant (`EdgeSteps`), which is
what the loop adds; the invariant is the property with the types.

`PictureRight` needs that no sample which a triangle is over is left out, though the
loops start at a bound cut at the screen's edge and rounded towards zero, and that what
`raster` computes with two corners exchanged is the depth and the colour of the
triangle as it was given. Both follow from the areas `L1`, `L2` and `L3` that a point
makes with the corners (`Areas`). They add up to the triangle's area, so corners in the
right order have positive ones exactly inside (`InsideIsWithin`), and an exchange turns
all of them round, which the quotients do not see (`OrderDepth`, `OrderColor`).
Weighted with them the corners have their centre at the point, so a point inside cannot
have all corners to one side (`WithinAround`), and the bounds are around it, rounded or
not, since samples lie on the grid (`RoundsInside`, `LoopsCover`). Where the three areas
are 0 this fails, and that is why the property asks for a depth there. `PaintInv` says
that each pixel shows the deepest of the triangles that the loops have drawn there so
far (`DrawnAt`): in the columns before `x`, and in column `x` before `y`. To begin a
triangle or a column, or to finish, does not change what that is (`BeginPaints`,
`ColumnPaints`, `FinishPaints`); a sample changes it at its own pixel, which no other
sample has (`PixelIs`), and there the depth test keeps the deepest (`NextShows`).

* `DepthIsDistance`: with the matrix of `mat_frustum`, a corner that is farther from the
  eye has the greater depth, for any bounds `0 < n < f`

So what `PictureRight` says is seen is the farthest triangle. The two quotients of the
matrix do not depend on the corner (`FrustumCorner`), and the second is positive
(`FrustumDepth`): the depth is the first less the second by the distance.

`FirmwareWhole` speaks of the DMA and of the GPU, but what makes it true is what the
host has done so far, so `BootInv` follows the host. Its program is one of two lists
(`First` until it knows the boot ROM, then `Second`); `Place(plan, k, i)` says that it
has done `k` items of its list, that `i` of them have reached their device, and that
the posted stores are the ones between. `Stage(i)` is what the devices are like then:
after the poll, the copy is complete (`Copying`, `Stages`). The GPU's side is the other
half. `ReadInv` and `WriteInv` say where in the registers of `AxilEmu` a load and the
store to the GPU can be, for each place of the GPU's program; with them the one
store that is ever answered is the handover's (`DoneAtGpu`, `DoneKeeps`). By then the
host has seen the DMA end, so what is true at the handover stays true: the GPU's
memory is the firmware (`HandedOverWhole`), and what start.S copies is that (`GpuInv`).
A cycle of the GPU is taken apart once, in `Regs` and `GpuStepIs`.

The assumptions are those that the modules name (`TokenAssumption`,
`SystemAssumption`, `NoneAssumption`, `PortsAssumption`, `FetchAssumption`,
`SlaveAssumption`, `ProgramAssumption`, `SpinAssumption`, `BspAssumption`, `SetupsAssumption`, `HexAssumption`, `GfxAssumption`,
`BufAssumption`, `DramAssumption`, `BurstAssumption`, `RasterAssumption`, `SceneAssumption`, `ImageAssumption`,
...), which say only what a constant is. `SetupsAssumption` has at most four cores, as
`all_cpus` and the names in `print`, of which the first few exist. `BurstAssumption` is about the master, which is not in
the code: words are numbered from 0, and the last beat of a write, and no other, is
marked, as AXI has it.
`SlaveAssumption` keeps the names of the devices in the design apart from those in C++, and
`ProgramAssumption` has a program end with a branch and branches stay in it.
`RasterAssumption` has an even width and height, as 640 and 480 are, and
`SceneAssumption` has the corners coloured in order, as `tri` does.
`HexAssumption` has words be unsigned, of a width that is a multiple of a byte or more, and
`GfxAssumption` a GPU's memory that fits into the addresses, with a program in it.
`FetchAssumption` asks for a queue of two slots or more: with one the code would
lose the first word.

### What is only model-checked

Of `CacheSystem`: `CopiesCurrent`, `MemoryCurrent`, `Coherent` and `ReadsLatest`,
which `stale4` shows to be false of four caches; that no request is lost (the rest
of `NoLostRequest`), which `lost4` shows to be false of them; the cores' view of ldrex and strex, which is
in `Coherent`; and coherence with fewer than four caches. The arithmetic of
`float16.c` that `VectorsAlwaysRight` supposes, and that quads have no hole (`QuadWhole`), which is not so for any two
triangles. Liveness everywhere (`Progress`, `CoreServed`, `Served`,
`Boots`, ...) is beyond the proof system.

## Not modelled

* Caches: byte enables and sub-word stores (`cache_offsets.sv` is modelled for
  words), and the debug port (`cache_debug.sv`), which takes an ACCEPT cycle per
  request.
* Core: decoder, data path, multi-cycle instructions, exceptions and hazards
  (`next_bubble`). Conditions of instructions. Whether an access has permission is
  a free choice in `PageWalk`.
* Demo: the sums, products and comparisons of `float16.c` and the table of
  `sin_cos.c`, which nothing calls; how a line is split into words and the text of
  numbers. The cores that exist are the first few, as `CONFIG_CPUS` makes them. A core's
  status is taken as whether it has stopped. Memory is atomic, which `Coherent` says
  of the caches (where it holds: see `stale4`).
  The console writes wherever the user says: `write`, `read` and messages to any
  address, `gfx data` with blocks from 1d0000 on to the GPU's registers, or with the
  highest ones to its header and frame buffers, and in between to all of memory, the
  program included. A session is followed until it does so: `MemStep` has only `Pointers`,
  `GfxStep` only places in the data and in front of it (`IsData`, `IsProgram`), and the core
  takes no step any more where an operation goes elsewhere. All that is shown of the demo
  is shown up to there.
* Simulator: arguments (`args.hxx` is third-party), register dumps and traces;
  `raise()` in the UART. The requests of core 0 go straight to the bus, as single aligned
  words, and the keyboard is idle there (it is in `Demo`). The source of video is
  outside of the code: the CRTC in `vga_domain.sv:57-62` is commented out. The loaded
  image is the initial memory.
* wavelet3d: `vdc_rayas.c`, another test program, and logs. The bus between the host
  and its devices is external. The renderer's floating point is exact fractions, so
  rounding is left out; matrices have integer entries.
* The GPUs, the video output, the interrupt controller, the performance monitor
  and CP15: data paths, registers without interplay, or superseded. PROJECT.json has
  the reason for each component.
* Test benches and third-party code.

## Plan

Done: the token, the arbiter, the monitor, the cache system and its abstract
memory; the programs of the demo over the monitors; the fetch and the MMU of a
core; SMP control; the simulator; wavelet3d. Proofs of the first two, the
caches, the core, the simulator's bus and sessions, the lock, the boot, the console, the mailboxes and the vectors of the demo, the JTAG server, the AXI memory, the raster loop, the picture and the boot.

1. `GfxFifo`: `rtl/gfx/gfx_fifo.sv` with its skid buffers, as a refinement of a
   bounded queue. Theorem: it implements the queue.
2. The debug port and byte enables in `CacheSystem`.
3. `CopiesCurrent` and the other half of `NoLostRequest` for two caches, from the
   invariants there are.
