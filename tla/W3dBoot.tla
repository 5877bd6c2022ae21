------------------------------ MODULE W3dBoot -------------------------------
(***************************************************************************)
(* How the wavelet3d platform starts: the host's program                   *)
(* (platform/wavelet3d/host_sw) sets up the screen, finds the GPU, copies  *)
(* the firmware into its memory by DMA and tells its boot ROM to start it. *)
(* The GPU runs the boot ROM and then the firmware (rtl/gfx/firmware),     *)
(* which answer the host through the registers of AxilEmu.                 *)
(*                                                                         *)
(* The host's stores are posted: they reach the devices one at a time, in  *)
(* order, and a load waits until all have (the bus of w3d_host_vexriscv.v  *)
(* and the crossbars, which are not modelled in detail).                   *)
(***************************************************************************)
EXTENDS AxilEmu, Integers, Sequences

CONSTANT Image   \* words of the firmware

VARIABLES
  program,   \* what the host has still to do
  bootrom,   \* argument of init_gfx: the firmware has been loaded
  posted,    \* its stores that are under way
  offered,   \* the channels of the GPU's port on which the store to it has been put
  reading,   \* its load from the GPU has not been answered
  magic, rev, \* what it has read
  host,      \* "running", "ok" or "failed"
  vdc,       \* the screen controller's registers that have been set
  entry,     \* the DMA descriptor's place on the host's stack: "entry" or "other"
  table,     \* SGDMA_TBLLO and TBLHI that have been set
  dma,       \* SGDMA: [busy, at, entry]
  vram,      \* the GPU's memory
  gpu,       \* the program of the GPU: [code, at, offset, data]
  seen,      \* the firmware's copy of CTRL
  ram        \* the firmware's copy of itself

bootVars == <<emuVars, program, bootrom, posted, offered, reading, magic, rev, host, vdc, entry,
              table, dma, vram, gpu, seen, ram>>

Words == DOMAIN Image

ASSUME ImageAssumption == Image \in Seq({Image[k] : k \in Words})

-----------------------------------------------------------------------------
(***************************************************************************)
(* The host's program, as loads and stores.                                *)
(***************************************************************************)
Load(reg) == [op |-> "load", arg |-> reg]
Store(reg) == [op |-> "store", arg |-> reg]
Poll == [op |-> "poll", arg |-> "dma"]
Switch == [op |-> "switch", arg |-> "rev"]

VdcInit == <<Store("front"), Store("stream"), Store("geometry"), Store("dacen")>>

\* What the registers of the GPU are called in its word offsets.
Magic == 0
HwId == 1
FwId == 2
HostifRev == 3
GfxProbe == <<Load(Magic), Load(HwId), Load(FwId), Load(HostifRev), Switch>>

\* The descriptor is a local variable: its place is used again after the return.
SgdmaMemcpyNoBarrier ==
  <<Store("entry"), Store("tbllo"), Store("tblhi"), Store("start"), Store("frame")>>
SgdmaMemcpy ==
  <<Store("entry"), Store("tbllo"), Store("tblhi"), Store("start"), Poll, Store("frame")>>

GfxFwLoad == SgdmaMemcpy \o <<Poll, Store("handover")>>

\* init_gfx: the first probe finds the boot ROM, the second one must not.
InitGfxStep ==
  CASE rev = "rev1" -> host' = "ok" /\ program' = <<>> /\ UNCHANGED bootrom
    [] rev = "rev0" /\ ~bootrom -> program' = GfxFwLoad \o GfxProbe /\ bootrom' = TRUE /\ UNCHANGED host
    [] OTHER -> host' = "failed" /\ program' = <<>> /\ UNCHANGED bootrom

-----------------------------------------------------------------------------
(***************************************************************************)
(* The host and what is on its bus.                                        *)
(***************************************************************************)
\* A load takes its turn after all posted stores.
MayLoad == posted = <<>>

Step == Head(program)
hostVars == <<program, bootrom, posted, reading, magic, rev, host>>
deviceVars == <<vdc, entry, table, dma, vram>>
gpuVars == <<gpu, seen, ram>>

\* One load, store or decision of the program.
HostStep ==
  /\ host = "running" /\ program # <<>> /\ ~reading
  /\ CASE Step.op = "store" ->
            /\ posted' = Append(posted, Step.arg)
            /\ program' = Tail(program)
            /\ UNCHANGED <<bootrom, reading, host, araddr>>
       [] Step.op = "load" ->
            /\ MayLoad
            /\ reading' = TRUE /\ araddr' = Step.arg
            /\ UNCHANGED <<program, bootrom, posted, host>>
       [] Step.op = "poll" ->
            /\ MayLoad
            /\ program' = IF dma.busy THEN program ELSE Tail(program)
            /\ UNCHANGED <<bootrom, posted, reading, host, araddr>>
       [] OTHER -> InitGfxStep /\ UNCHANGED <<posted, reading, araddr>>
  /\ UNCHANGED <<magic, rev, offered, deviceVars, gpuVars, awaddr, wdata, arready, awready, wready,
                 rvalid, arint, awint, ctrl, rdone, bdone, arAsked, awAsked, rData, bvalid, irq>>

\* The GPU's answer to a load; a bad magic ends the probe.
Answered ==
  /\ reading' = FALSE
  /\ magic' = IF Step.arg = Magic THEN rData ELSE magic
  /\ rev' = IF Step.arg = HostifRev THEN rData ELSE rev
  /\ IF Step.arg = Magic /\ rData # "magic"
       THEN host' = "failed" /\ program' = <<>>
       ELSE program' = Tail(program) /\ UNCHANGED host

\* The oldest store reaches its device.
Land ==
  LET reg == Head(posted)
  IN /\ posted # <<>> /\ reg # "handover"
     /\ posted' = Tail(posted)
     /\ vdc' = IF reg \in {"front", "stream", "geometry", "dacen"} THEN vdc \cup {reg} ELSE vdc
     /\ entry' = CASE reg = "entry" -> "entry" [] reg = "frame" -> "other" [] OTHER -> entry
     /\ table' = IF reg \in {"tbllo", "tblhi"} THEN table \cup {reg} ELSE table
     /\ dma' = IF reg = "start" THEN [busy |-> TRUE, at |-> 1, entry |-> "none"] ELSE dma
     /\ UNCHANGED <<emuVars, program, bootrom, offered, reading, magic, rev, host, vram, gpuVars>>

\* The store to the GPU is put on the address and the data channel, in any order.
Offer(channel) ==
  /\ posted # <<>> /\ Head(posted) = "handover" /\ channel \notin offered
  /\ offered' = offered \cup {channel}
  /\ awaddr' = IF channel = "aw" THEN FwId ELSE awaddr
  /\ wdata' = IF channel = "w" THEN "vram" ELSE wdata
  /\ UNCHANGED <<hostVars, deviceVars, gpuVars, araddr, arready, awready, wready, rvalid, arint,
                 awint, ctrl, rdone, bdone, arAsked, awAsked, rData, bvalid, irq>>

\* SGDMA: started, it reads the descriptor, then copies word by word.
DmaStep ==
  /\ dma.busy
  /\ CASE dma.entry = "none" ->
            /\ dma' = [dma EXCEPT !.entry = IF table = {"tbllo", "tblhi"} THEN entry ELSE "other"]
            /\ UNCHANGED vram
       [] dma.entry # "none" /\ dma.at \in Words ->
            /\ vram' = [vram EXCEPT ![dma.at] = IF dma.entry = "entry" THEN Image[dma.at] ELSE None]
            /\ dma' = [dma EXCEPT !.at = @ + 1]
       [] OTHER -> dma' = [dma EXCEPT !.busy = FALSE] /\ UNCHANGED vram
  /\ UNCHANGED <<emuVars, hostVars, offered, vdc, entry, table, gpuVars>>

-----------------------------------------------------------------------------
(***************************************************************************)
(* The GPU's programs.                                                     *)
(***************************************************************************)
Go(at) == gpu' = [gpu EXCEPT !.at = at]

\* What each of them answers to a load.  The boot ROM knows four words, and takes
\* any other for one of them; the firmware answers -1.
BootromData(offset) ==
  CASE offset % 4 = Magic -> "magic" [] offset % 4 = HostifRev -> "rev0" [] OTHER -> "id"
FirmwareData(offset) ==
  CASE offset = Magic -> "magic" [] offset = HostifRev -> "rev1"
    [] offset \in {HwId, FwId} -> "id" [] OTHER -> "ones"
ReadData == IF gpu.code = "bootrom" THEN BootromData(gpu.offset) ELSE FirmwareData(gpu.offset)

Get(reg) == [NoAccess EXCEPT !.reg = reg]
Set(reg, value) == [reg |-> reg, write |-> TRUE, value |-> value]

\* The access the program makes when it is its turn, if any.
GpuAccess ==
  CASE gpu.at = "enable" -> Set("CTRL", 3)
    [] gpu.at \in {"look", "rdone", "bdone"} -> Get("CTRL")
    [] gpu.at = "ar" -> Get("AR")
    [] gpu.at = "aw" -> Get("AW")
    [] gpu.at = "w" -> Get("W")
    [] gpu.at = "r" -> Set("R", ReadData)
    [] gpu.at = "b" -> Set("B", 1)
    [] gpu.at = "disable" -> Set("CTRL", 0)
    [] OTHER -> NoAccess

\* Where the programs go for the next command: the boot ROM sleeps, the firmware
\* looks whether there was a write too when it last read CTRL.
NextRead == IF gpu.code = "bootrom" THEN "sleep" ELSE IF seen.aw /\ seen.w THEN "aw" ELSE "look"
NextCommand == IF gpu.code = "bootrom" THEN "sleep" ELSE "look"

Look ==
  CASE ctrl.ar -> Go("ar")
    [] ~ctrl.ar /\ ctrl.aw /\ ctrl.w -> Go("aw")
    [] OTHER -> Go(NextCommand)

\* Boot ROM: a store to word 2 is the handover; the firmware is at the word stored.
AfterWrite ==
  IF gpu.code = "bootrom" /\ gpu.offset % 16 = FwId THEN Go("disable") ELSE Go(NextCommand)

GpuStep ==
  /\ CASE gpu.at = "enable" -> Go("sleep")
       [] gpu.at = "sleep" -> IF irq THEN Go("look") ELSE UNCHANGED gpu
       [] gpu.at = "look" -> Look
       [] gpu.at = "ar" -> IF arAsked THEN gpu' = [gpu EXCEPT !.at = "r", !.offset = araddr]
                           ELSE Go(NextRead)
       [] gpu.at = "r" -> Go("rdone")
       [] gpu.at = "rdone" ->
            IF rdone
              THEN IF gpu.code = "firmware" /\ ctrl.aw /\ ctrl.w THEN Go("aw") ELSE Go(NextCommand)
              ELSE UNCHANGED gpu
       [] gpu.at = "aw" -> IF awAsked THEN gpu' = [gpu EXCEPT !.at = "w", !.offset = awaddr]
                           ELSE Go(NextCommand)
       [] gpu.at = "w" -> gpu' = [gpu EXCEPT !.at = "b", !.data = wdata]
       [] gpu.at = "b" -> Go("bdone")
       [] gpu.at = "bdone" -> IF bdone THEN AfterWrite ELSE UNCHANGED gpu
       [] gpu.at = "disable" -> Go("copy")
       [] gpu.at = "copy" -> IF Len(ram) < Len(Image) THEN UNCHANGED gpu
                             ELSE gpu' = [gpu EXCEPT !.code = "firmware", !.at = "look"]
  /\ seen' = IF GpuAccess = Get("CTRL") THEN ctrl ELSE seen
  /\ ram' = IF gpu.at = "copy" /\ Len(ram) < Len(Image) THEN Append(ram, vram[Len(ram) + 1])
            ELSE ram

\* A cycle of the GPU's clock, in which its program may use the registers, and the
\* host takes the answers that are there, or not yet.
Clock(go, takes) ==
  LET done == TakesDone(takes)
  IN /\ EmuEdge(IF go THEN GpuAccess ELSE NoAccess, takes, takes)
     /\ IF go THEN GpuStep ELSE UNCHANGED gpuVars
     /\ araddr' = IF arready THEN None ELSE araddr
     /\ awaddr' = IF awready THEN None ELSE awaddr
     /\ wdata' = IF wready THEN None ELSE wdata
     /\ IF TakesRead(takes) THEN Answered ELSE UNCHANGED <<program, reading, magic, rev, host>>
     /\ posted' = IF done THEN Tail(posted) ELSE posted
     /\ offered' = IF done THEN {} ELSE offered
     /\ UNCHANGED <<bootrom, deviceVars>>

HostDone == host # "running"

BootInit ==
  /\ EmuInit
  /\ program = VdcInit \o GfxProbe
  /\ bootrom = FALSE /\ posted = <<>> /\ offered = {} /\ reading = FALSE
  /\ magic = None /\ rev = None /\ host = "running"
  /\ vdc = {} /\ entry = "other" /\ table = {}
  /\ dma = [busy |-> FALSE, at |-> 1, entry |-> "none"]
  /\ vram = [k \in Words |-> None]
  /\ gpu = [code |-> "bootrom", at |-> "enable", offset |-> None, data |-> None]
  /\ seen = ctrl
  /\ ram = <<>>
=============================================================================
