----------------------------- MODULE Simulator ------------------------------
(***************************************************************************)
(* The simulator of the platform (tb/top/conspiracion/conspiracion.cpp):   *)
(* main() runs the cores cycle by cycle, stops for a debugger at           *)
(* breakpoints, after single steps and when a signal asks for it, and      *)
(* resumes them with a branch that it forces into their fetch.             *)
(*                                                                         *)
(* Core 0 runs a program that reaches the devices of the bus, the others   *)
(* run in their caches.  A core is a record c: pc (of control, what the    *)
(* debugger is told), at and nop (the instruction that waits in the porch, *)
(* or an empty place for it), busy (in an access of the bus), branch and   *)
(* goto (a branch on its way to the fetch), trigger (of a step), and the   *)
(* registers of its smp_pe: halt, step and status.                         *)
(*                                                                         *)
(* Three more parts live beside the loop, and are followed alone: the      *)
(* display, the walks of the page tables, and the fetch and the MMU of one *)
(* core, cycle by cycle.                                                   *)
(***************************************************************************)
EXTENDS SimBus, Display, PageWalk, CoreMmu, FiniteSets

CONSTANTS
  NumCores,   \* 4
  Burst,      \* cycles between two looks at the signals in the fast loop (4096)
  OthersRun,  \* the program of the others
  Setup,      \* what is followed: records of part, program (of core 0: instructions, the
              \* last one a branch), slow, limit (--cycles), halted (--start-halted), born
              \* (the latches are), and user (what the user may do)
  Patch,      \* what the debugger may write: records of addr and data
  Pixels      \* addresses in the frame buffer

Core == 0 .. NumCores - 1

ASSUME CoreAssumption == NumCores \in Nat /\ 0 \in Core

\* A branch stays in its program, and no program is left at its end.
ASSUME ProgramAssumption ==
  \A s \in Setup : LET p == s.program
                       n == Len(p)
                   IN /\ n \in Nat \ {0} /\ p[n].kind = "branch"
                      /\ \A i \in 1 .. n : p[i].kind = "branch" => p[i].to \in 0 .. n - 1

VARIABLES
  setup,
  host,      \* where main() is
  cycles,    \* i, or iters in the fast loop
  async,     \* async_halt
  failed,
  force,     \* what is forced upon each core: halt, step, and target
  plat,      \* the platform: core, bus, and dbg (a register behind a debug port)
  ran, due,  \* history: the instruction that core 0 executed last, and the one that was due
  next,      \* history: the one that is due now; Anywhere if main() has lost it
  lost,      \* history: the next access of this device is answered by the latch of its birth
  taken,     \* history: how often the access of now took effect, and the value it saw
  screen     \* the display: d, the source of video s, and the pixel that was put last

history == <<ran, due, next, lost, taken>>
runVars == <<host, cycles, async, failed, force, plat, history>>
vars == <<setup, runVars, screen, walkVars, coreVars>>

Anywhere == -1

program == setup.program

InsnAt(c, at) == LET p == IF c = 0 THEN program ELSE OthersRun IN p[(at % Len(p)) + 1]

-----------------------------------------------------------------------------
(***************************************************************************)
(* A core.  `f' is what is forced, `go' a forced branch.                   *)
(***************************************************************************)
Halts(p, f, c) == p.core[c].halt \/ f[c].halt
NextIssue(p, c) == ~p.core[c].busy \/ ~p.bus.wait
Stable(p, c) == NextIssue(p, c) /\ ~p.core[c].nop
Halted(p, f, c) == Halts(p, f, c) /\ NextIssue(p, c)

\* Neither halt nor a branch hides an instruction from the debugger's breakpoint.
Breakpoint(p, c) == Stable(p, c) /\ (p.core[c].trigger \/ InsnAt(c, p.core[c].at).kind = "bkpt")

Flushed(p, f, go, c) == Halts(p, f, c) \/ p.core[c].branch \/ go
Issues(p, f, go, c) == Stable(p, c) /\ ~Flushed(p, f, go, c)

\* smp_pe.sv: what the software asks of a core, and what the debugger's breakpoint does.
PeHalt(p, c, asked) ==
  (p.core[c].halt \/ Breakpoint(p, c) \/ "halt" \in asked) /\ asked \cap {"run", "step"} = {}

\* A clock edge.  `fetched' says that the fetch has the next instruction.
CoreEdge(p, f, go, c, fetched, asked) ==
  LET me == p.core[c]
      insn == InsnAt(c, me.at)
      issues == Issues(p, f, go, c)
      flush == Flushed(p, f, go, c)
      ready == NextIssue(p, c)
  IN [pc |-> IF ready THEN me.at ELSE me.pc,
      at |-> CASE flush -> (IF go THEN f[c].target ELSE IF me.branch THEN me.goto ELSE me.at)
               [] ~flush /\ ready /\ ~me.nop -> (me.at + 1) % Len(IF c = 0 THEN program ELSE OthersRun)
               [] OTHER -> me.at,
      nop |-> IF flush THEN TRUE ELSE IF ready THEN ~fetched ELSE me.nop,
      busy |-> IF ready THEN issues /\ insn.kind = "bus" ELSE TRUE,
      branch |-> issues /\ insn.kind = "branch",
      goto |-> IF issues /\ insn.kind = "branch" THEN insn.to ELSE me.goto,
      trigger |-> (me.step \/ f[c].step) /\ (me.trigger \/ Stable(p, c)) /\ ~Breakpoint(p, c),
      halt |-> PeHalt(p, c, asked),
      step |-> (me.step /\ ~Breakpoint(p, c)) \/ "step" \in asked,
      status |-> {"alive"} \cup (IF Breakpoint(p, c) THEN {"breakpoint"} ELSE {})
                           \cup (IF Halted(p, f, c) THEN {"halted"} ELSE {})]

\* core_control_issue and smp_pe after a reset: core 0 starts at 0, the others wait.
CoreReset(c) ==
  [pc |-> 0, at |-> 0, nop |-> TRUE, busy |-> FALSE, branch |-> TRUE, goto |-> 0, trigger |-> FALSE,
   halt |-> c # 0, step |-> FALSE, status |-> {}]

-----------------------------------------------------------------------------
(***************************************************************************)
(* A cycle of the platform: the falling edge, then the rising one.  A      *)
(* write to a debug port waits until the port is ready.                    *)
(***************************************************************************)
SlaveWaits(b, ready, d) == d = "dbg" /\ ~ready /\ ~b.slave[d].read
SlaveValue(p, d) == IF d = "dbg" THEN p.dbg ELSE [c \in Core |-> p.core[c].status]

Request(p) ==
  IF p.core[0].busy THEN LET i == InsnAt(0, p.core[0].pc) IN [op |-> i.op, addr |-> i.addr, data |-> i.data]
  ELSE Idle

\* What a device in the design takes at the rising edge.
Takes(b, ready, d) == (b.slave[d].read \/ b.slave[d].write) /\ ~SlaveWaits(b, ready, d)

Fallen(go, ready, fetched) ==
  LET b == plat.bus
      asked(c) == IF b.slave["smp"].write THEN b.slave["smp"].data[c] ELSE {}
  IN [core |-> [c \in Core |-> CoreEdge(plat, force, go, c, fetched, asked(c))],
      bus |-> TickFalling(b, [d \in SimSlave |-> SlaveWaits(b, ready, d)],
                             [d \in SimSlave |-> SlaveValue(plat, d)]),
      dbg |-> IF b.slave["dbg"].write /\ Takes(b, ready, "dbg") THEN b.slave["dbg"].data ELSE plat.dbg]

\* The one platform that comes of it (as a set, for TLC to work it out once).
Cycled(go, ready, fetched) ==
  {[p EXCEPT !.bus = TickRising(@, Request(p))] : p \in {Fallen(go, ready, fetched)}}

\* A branch that the halt overtakes: pc is still the place after it.
Turns(c) == plat.core[c].branch /\ plat.core[c].goto # plat.core[c].at

\* The history of core 0 and of the accesses.  When a session starts, what is due next
\* is only known if core 0 had halted: then `pc' is the instruction that it will resume.
Noted(p, f, go, ready, stops) ==
  LET at == plat.core[0].at
      insn == InsnAt(0, at)
      runs == Issues(plat, f, go, 0)
      still == Halted(plat, f, 0) /\ Halted(p, f, 0) /\ ~Turns(0)
      took == {d \in SimSlave : Takes(plat.bus, ready, d)}
      before == IF plat.bus.wait THEN taken.times ELSE 0
  IN /\ ran' = IF runs THEN at ELSE ran
     /\ due' = IF runs THEN next ELSE due
     /\ next' = CASE stops /\ ~still -> Anywhere
                  [] ~(stops /\ ~still) /\ ~runs -> next
                  [] OTHER -> IF insn.kind = "branch" THEN insn.to ELSE at + 1
     /\ lost' = IF plat.bus.wait THEN lost ELSE lost \ {plat.bus.active}
     /\ taken' = IF took = {} THEN [taken EXCEPT !.times = before]
                 ELSE [times |-> before + 1, saw |-> SlaveValue(plat, CHOOSE d \in took : TRUE)]

-----------------------------------------------------------------------------
(***************************************************************************)
(* main().                                                                 *)
(***************************************************************************)
\* maybe_halt: who is to be stopped.  The signal is not looked at.
MaybeHaltBreakpoints(p, f) == [c \in Core |-> [f[c] EXCEPT !.halt = @ \/ Breakpoint(p, c)]]

MaybeHalt(p, f) == [c \in Core |-> [f[c] EXCEPT !.halt = @ \/ Breakpoint(p, c) \/ async]]

HasHalted(f) == \E c \in Core : f[c].halt

\* The top of the outer loop.
Choose ==
  /\ host = "loop"
  /\ host' = IF setup.slow \/ setup.limit > 0 \/ \E c \in Core : force[c].halt \/ force[c].step
               THEN "accurate" ELSE "fast"
  /\ cycles' = IF host' = "fast" THEN 0 ELSE cycles
  /\ UNCHANGED <<async, failed, force, plat, history>>

\* How a session starts, with the program counters of now.
StopsNext(p, f) == [c \in Core |-> [halt |-> f[c].halt, step |-> FALSE, target |-> p.core[c].pc + 1]]

Stops(p, f) == [c \in Core |-> [halt |-> f[c].halt, step |-> FALSE, target |-> p.core[c].pc]]

FastCycle(ready, fetched) ==
  /\ host = "fast"
  /\ \E p \in Cycled(FALSE, ready, fetched) : \E f \in {MaybeHalt(p, force)} :
       LET ends == cycles + 1 = Burst
           stops == ends /\ HasHalted(f)
       IN /\ plat' = p
          /\ Noted(p, force, FALSE, ready, ~p.bus.hole /\ stops)
          /\ cycles' = IF p.bus.hole \/ ends THEN 0 ELSE cycles + 1
          /\ failed' = (failed \/ p.bus.hole)
          /\ force' = IF p.bus.hole \/ ~stops THEN force ELSE Stops(p, f)
          /\ host' = CASE p.bus.hole \/ (stops /\ failed) -> "end"
                       [] ~p.bus.hole /\ stops /\ ~failed -> "session"
                       [] OTHER -> "fast"
  /\ UNCHANGED async

AccurateCycle(ready, fetched) ==
  /\ host = "accurate"
  /\ \E p \in Cycled(FALSE, ready, fetched) : \E f \in {MaybeHalt(p, force)} :
       \E exit \in {HasHalted(f) /\ \E c \in Core : Halted(p, force, c)} :
       LET fails == failed \/ p.bus.hole
           more == ~exit /\ ~fails /\ setup.limit > 0
       IN /\ plat' = p
          /\ Noted(p, force, FALSE, ready, exit)
          /\ cycles' = IF more THEN cycles + 1 ELSE cycles
          /\ failed' = fails
          /\ force' = IF exit THEN Stops(p, f) ELSE f
          /\ host' = CASE fails \/ (more /\ cycles + 1 = setup.limit) -> "end"
                       [] ~fails /\ exit -> "session"
                       [] OTHER -> "accurate"
  /\ UNCHANGED async

\* SIGUSR1.
Signal ==
  /\ "signal" \in setup.user /\ ~async /\ async' = TRUE
  /\ UNCHANGED <<host, cycles, failed, force, plat, history>>

-----------------------------------------------------------------------------
(***************************************************************************)
(* The debugger's session.  Time stands still.                             *)
(***************************************************************************)
InSession == host = "session" /\ UNCHANGED <<cycles, async>>

\* The end of the commands, too, lets the program go on.
Continue == InSession /\ host' = "resume" /\ UNCHANGED <<failed, force, plat, history>>

Unreadable == InSession /\ host' = "resume" /\ failed' = TRUE /\ UNCHANGED <<force, plat, history>>

Step ==
  /\ InSession
  /\ host' = "resume"
  /\ force' = [force EXCEPT ![0].step = TRUE]
  /\ UNCHANGED <<failed, plat, history>>

PatchPc(at) ==
  /\ InSession
  /\ force' = [force EXCEPT ![0].target = at]
  /\ next' = at
  /\ UNCHANGED <<host, failed, plat, ran, due, lost, taken>>

\* A word of memory or of a device.  Nothing changes the wires of a device in the
\* design while time stands still, and main() asks it for ever.
Reaches(addr, access) ==
  /\ InSession
  /\ plat' = [plat EXCEPT !.bus = access.bus]
  /\ host' = IF access.ok THEN host ELSE "stuck"
  /\ lost' = IF access.ok THEN lost \ {Binding(addr).dev} ELSE lost
  /\ UNCHANGED <<failed, force, ran, due, next, taken>>

Dump(addr) == Reaches(addr, Outside(plat.bus, "read", addr, 0))
PatchMem(addr, data) == Reaches(addr, Outside(plat.bus, "write", addr, data))

\* A cycle with the branch, in which the halts still hold.
Resume(ready, fetched) ==
  /\ host = "resume"
  /\ host' = "loop"
  /\ async' = FALSE
  /\ \E p \in Cycled(TRUE, ready, fetched) :
       /\ plat' = p
       /\ Noted(p, force, TRUE, ready, FALSE)
       /\ failed' = (failed \/ p.bus.hole)
  /\ force' = [c \in Core |-> [force[c] EXCEPT !.halt = FALSE]]
  /\ UNCHANGED cycles

Command ==
  \/ Continue
  \/ "hang up" \in setup.user /\ Unreadable
  \/ "step" \in setup.user /\ Step
  \/ "patch pc" \in setup.user /\ \E at \in 0 .. Len(program) - 1 : PatchPc(at)
  \/ "memory" \in setup.user /\ \E patch \in Patch : Dump(patch.addr) \/ PatchMem(patch.addr, patch.data)

Clock == \E ready, fetched \in BOOLEAN :
           FastCycle(ready, fetched) \/ AccurateCycle(ready, fetched) \/ Resume(ready, fetched)

Main == Choose \/ Clock

-----------------------------------------------------------------------------
(***************************************************************************)
(* The display: in the accurate mode it follows the signal of a source of  *)
(* video, which may be replaced once; in the fast mode it is written to.   *)
(***************************************************************************)
Source == {[mode |-> m, x |-> x, y |-> y] : m \in DOMAIN Modes, x \in 0 .. 20, y \in 0 .. 20}
Sources == {s \in Source : s.x < Whole(Modes[s.mode].h) /\ s.y < Whole(Modes[s.mode].v)}

Receive(s) ==
  screen' = [screen EXCEPT !.s = s, !.d = SignalTick(@, Hsync(s), Vsync(s)), !.pixel = PutPixel(screen.d),
                           !.right = screen.d.window = 0 \/ PutPixel(screen.d) = Place(screen.s)]

VideoSignal == setup.part = "signal" /\ Receive(NextPixel(screen.s))

NewSource ==
  /\ setup.part = "signal" /\ ~screen.changed
  /\ \E s \in Sources :
       screen' = [screen EXCEPT !.s = s, !.d = SignalTick(@, Hsync(s), Vsync(s)), !.changed = TRUE,
                                !.pixel = PutPixel(screen.d)]

FastVideo ==
  /\ setup.part = "video"
  /\ \/ screen' = [screen EXCEPT !.d = DisplayTick(@)]
     \/ \E addr \in Pixels : screen' = [screen EXCEPT !.pixel = WrittenPixel(screen.d, addr)]

-----------------------------------------------------------------------------
Next ==
  \/ setup.part = "run" /\ (Main \/ Command \/ Signal) /\ UNCHANGED <<setup, screen, walkVars, coreVars>>
  \/ (VideoSignal \/ NewSource \/ FastVideo) /\ UNCHANGED <<setup, runVars, walkVars, coreVars>>
  \/ setup.part = "walk" /\ WalkStep /\ UNCHANGED <<setup, runVars, screen, coreVars>>
  \/ setup.part = "core" /\ CoreNext /\ UNCHANGED <<setup, runVars, screen, walkVars>>

Init ==
  /\ setup \in Setup
  /\ host = "loop" /\ cycles = 0 /\ async = FALSE /\ failed = FALSE
  /\ force = [c \in Core |-> [halt |-> c = 0 /\ setup.halted, step |-> FALSE, target |-> 0]]
  /\ plat = [core |-> [c \in Core |-> CoreReset(c)], dbg |-> 0,
             bus |-> NewBus([d \in SimSlave |-> setup.born], Half - 1, [a \in {0} |-> 0])]
  /\ lost = IF setup.born THEN SimSlave ELSE {}
  /\ ran = 0 /\ due = 0 /\ next = 0
  /\ taken = [times |-> 0, saw |-> 0]
  /\ \E s \in (IF setup.part = "signal" THEN Sources ELSE {CHOOSE s \in Sources : TRUE}) :
       screen = [d |-> NewDisplay, s |-> s, pixel |-> NoPixel, right |-> TRUE, changed |-> FALSE]
  /\ IF setup.part = "walk" THEN WalkInit
     ELSE space = (CHOOSE m \in Space : TRUE) /\ walk = WalkStart(0)
  /\ CoreInit /\ (halting => setup.part = "core")

Spec == Init /\ [][Next]_vars

(***************************************************************************)
(* main() goes on unless it has ended or waits for the debugger, the       *)
(* source sends pixels, and the bus answers the MMU, or the core that is   *)
(* followed alone.  Except for the walks, this is weak fairness of each    *)
(* part in a form that TLC checks fast: outside of sessions only Main      *)
(* changes what is named, a second source comes once, and `wire' changes   *)
(* whenever the bus has answered.                                          *)
(***************************************************************************)
Rests ==
  \/ setup.part = "run" /\ host \notin {"loop", "fast", "accurate", "resume"}
  \/ setup.part \in {"video", "walk"}

GoesOn ==
  \/ []<>Rests
  \/ []<><<setup.part = "core" => wire = Nil \/ wire' # wire>>_<<host, cycles, plat, screen, coreVars>>

FairSpec == Spec /\ GoesOn /\ WF_walk(setup.part = "walk" /\ WalkStep)

-----------------------------------------------------------------------------
\* sim_slave.cpp: an access to a device in the design takes effect at exactly one edge
\* before the platform has its answer, and a read gives what the device had then.  The
\* exception is the first one, if `latch' was born set: it is never made.
AccessOnce ==
  (plat.bus.active \in SimSlave /\ ~plat.bus.wait) =>
    \/ plat.bus.active \in lost
    \/ taken.times = 1 /\ (plat.bus.op = "read" => plat.bus.rdata = taken.saw)

\* conspiracion.cpp:664-768: a debugger's session leaves no instruction of core 0 out
\* and repeats none, if it found the core halted and no branch under way; and the core
\* goes on where the debugger wants it to.
RunsOnce == due \in {Anywhere, ran}

\* conspiracion.cpp:598-639: whoever asks for a halt while the cores run has a session
\* in the end, whatever the cores do and also if they have been halted all the time.
HaltServed == (async /\ host \in {"fast", "accurate"}) ~> (host \in {"session", "end"})

\* vga.impl.hpp: the display follows any signal of a mode that it knows, wherever it
\* finds it, and again after another one has come, and puts the pixels in their places.
Shown == setup.part = "signal" => <>[](InStep(screen.d, screen.s) /\ screen.right)

\* Every walk ends, whatever is in the tables: `default: ;' of L1 leaves the state
\* alone and counts on access_fault (core_mmu_pagewalk.sv:216,256).  The debugger,
\* which knows neither domains nor permissions, finds the same word or also none, be
\* the tables in the memory or in caches.
WalksAgree == setup.part = "walk" => <>[]Agreed
=============================================================================
