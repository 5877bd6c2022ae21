------------------------------ MODULE AxilEmu -------------------------------
(***************************************************************************)
(* The window through which a program on the GPU answers the host's bus    *)
(* accesses (rtl/axilemu/axilemu.sv and axilemu_if.rdl).                   *)
(*                                                                         *)
(* The host side is an AXI-Lite port, the driver side a block of registers *)
(* of which the program uses one in a cycle at most.  What an access reads *)
(* is the registers of that cycle; its effects and those of the hardware   *)
(* come with the clock edge.                                               *)
(***************************************************************************)
EXTENDS Naturals

CONSTANT None

VARIABLES
  (* the host's port *)
  araddr,     \* address of the read command that is offered (arvalid), or None
  awaddr,     \* the same of the write command
  wdata,      \* the write data that is offered (wvalid), or None
  arready, awready, wready, rvalid,
  (* the registers *)
  arint, awint, \* CTRL: interrupt enables
  ctrl,       \* CTRL: [ar, aw, w], the commands and data as they were a cycle ago
  rdone, bdone, \* CTRL: an answer has been taken since it was last read
  arAsked, awAsked, \* AR.VALID and AW.VALID
  rData,      \* R.DATA
  bvalid,     \* B.VALID
  irq

emuVars == <<araddr, awaddr, wdata, arready, awready, wready, rvalid, arint, awint, ctrl, rdone,
             bdone, arAsked, awAsked, rData, bvalid, irq>>

\* An access of the program: a register, and the value of a write.
Reads(access, reg) == access.reg = reg /\ ~access.write
Writes(access, reg) == access.reg = reg /\ access.write
NoAccess == [reg |-> "none", write |-> FALSE, value |-> 0]

\* Answers that the host takes in this cycle.
TakesRead(rready) == rvalid /\ rready
TakesDone(bready) == bvalid /\ bready

\* Reading CTRL clears the done flags, but what happens in the same cycle stays.
RdoneReadWins(access, taken) == (taken \/ rdone) /\ ~Reads(access, "CTRL")
Rdone(access, taken) == taken \/ (rdone /\ ~Reads(access, "CTRL"))
Bdone(access, taken) == taken \/ (bdone /\ ~Reads(access, "CTRL"))

\* Reading AR or AW takes the command (rclr, swmod): ready in the next cycle.
EmuEdge(access, rready, bready) ==
  /\ irq' = ((arint /\ araddr # None) \/ (awint /\ awaddr # None))
  /\ rvalid' = (Writes(access, "R") \/ (rvalid /\ ~rready))
  /\ wready' = (wdata # None /\ Reads(access, "W"))
  /\ arready' = (araddr # None /\ Reads(access, "AR"))
  /\ awready' = (awaddr # None /\ Reads(access, "AW"))
  /\ ctrl' = [ar |-> araddr # None, aw |-> awaddr # None, w |-> wdata # None]
  /\ rdone' = Rdone(access, TakesRead(rready))
  /\ bdone' = Bdone(access, TakesDone(bready))
  /\ arAsked' = ((araddr # None /\ ~arready /\ ~arAsked) \/ (arAsked /\ ~Reads(access, "AR")))
  /\ awAsked' = ((awaddr # None /\ ~awready /\ ~awAsked) \/ (awAsked /\ ~Reads(access, "AW")))
  /\ rData' = IF Writes(access, "R") THEN access.value ELSE rData
  /\ bvalid' = ((bvalid \/ Writes(access, "B")) /\ ~TakesDone(bready))
  /\ arint' = IF Writes(access, "CTRL") THEN access.value = 3 ELSE arint
  /\ awint' = IF Writes(access, "CTRL") THEN access.value = 3 ELSE awint

EmuInit ==
  /\ araddr = None /\ awaddr = None /\ wdata = None
  /\ arready = FALSE /\ awready = FALSE /\ wready = FALSE /\ rvalid = FALSE
  /\ arint = FALSE /\ awint = FALSE
  /\ ctrl = [ar |-> FALSE, aw |-> FALSE, w |-> FALSE]
  /\ rdone = FALSE /\ bdone = FALSE
  /\ arAsked = FALSE /\ awAsked = FALSE
  /\ rData = None /\ bvalid = FALSE /\ irq = FALSE
=============================================================================
