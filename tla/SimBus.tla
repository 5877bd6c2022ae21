------------------------------- MODULE SimBus -------------------------------
(***************************************************************************)
(* The bus of the simulator (tb/top/conspiracion): the interconnect and    *)
(* the devices behind it.  Devices in C++ answer at once.  A device in the *)
(* design (the SMP control, the debug ports, the counters) is reached      *)
(* through a sim_slave, which puts the access on the device's wires and    *)
(* takes the answer at the next falling edge.                              *)
(*                                                                         *)
(* A bus is a record b: active (the device of the access, or None), op,    *)
(* addr and data (the access), wait and rdata (what the platform sees),    *)
(* hole (nobody is at the address), irq, and the devices: slave (those     *)
(* behind a sim_slave), timer, mask (of the interrupt controller) and ram. *)
(* Addresses are of words: the caches ask for whole lines or one word.     *)
(***************************************************************************)
EXTENDS Integers, Sequences

CONSTANTS
  Bindings,   \* the devices as they are attached: records of dev, base and size
  SimSlave,   \* those in the design
  Half,       \* values of half a register of the timer (2^16)
  ConstValue  \* what --const gives

None == "none"

\* The devices in the design are not those in C++.
ASSUME SlaveAssumption == SimSlave \cap {None, "hps_ddr3", "timer", "intc", "const"} = {}

Idle == [op |-> "none", addr |-> 0, data |-> 0]

-----------------------------------------------------------------------------
(***************************************************************************)
(* sim_slave.  The constructor leaves latch as it finds it.                *)
(***************************************************************************)
NewSlave(born) == [read |-> FALSE, write |-> FALSE, at |-> 0, data |-> 0, latch |-> born, got |-> 0]

\* The wires keep the access after it was done.
SlaveTickNever(v) == v

SlaveTick(v) == IF v.latch THEN [v EXCEPT !.read = FALSE, !.write = FALSE] ELSE v

SlaveFalling(v, waits, value) ==
  IF (v.read \/ v.write) /\ ~waits THEN [v EXCEPT !.latch = TRUE, !.got = value] ELSE v

SlaveRead(v, pos) ==
  CASE v.latch -> [v EXCEPT !.latch = FALSE]
    [] ~v.latch /\ ~v.read /\ ~v.write -> [v EXCEPT !.read = TRUE, !.at = pos]
    [] OTHER -> v

SlaveWrite(v, pos, data) ==
  CASE v.latch -> [v EXCEPT !.latch = FALSE]
    [] ~v.latch /\ ~v.read /\ ~v.write -> [v EXCEPT !.write = TRUE, !.at = pos, !.data = data]
    [] OTHER -> v

-----------------------------------------------------------------------------
(***************************************************************************)
(* interval_timer and interrupt_controller.                                *)
(***************************************************************************)
\* The counters are not initialised.
NewTimer(junk) == [count |-> junk, period |-> junk, snap |-> junk, to |-> FALSE, run |-> FALSE,
                   ito |-> FALSE, cont |-> FALSE]

TimerTick(t) ==
  CASE ~t.run -> t
    [] t.run /\ t.count > 0 -> [t EXCEPT !.count = @ - 1]
    [] OTHER -> [t EXCEPT !.count = t.period, !.to = TRUE, !.run = t.cont]

Bit(flag, n) == IF flag THEN n ELSE 0

TimerRead(t, pos) ==
  CASE pos = 0 -> Bit(t.run, 2) + Bit(t.to, 1)
    [] pos = 1 -> Bit(t.cont, 2) + Bit(t.ito, 1)
    [] pos = 2 -> t.period % Half
    [] pos = 3 -> t.period \div Half
    [] pos = 4 -> t.snap % Half
    [] OTHER -> t.snap \div Half

\* `data' of the control register is a set of the bits ito, cont, start and stop; a
\* timer that runs goes on only if stop is set.
TimerWrite(t, pos, data) ==
  LET Period(p) == [t EXCEPT !.period = p, !.count = p]
  IN CASE pos = 0 -> [t EXCEPT !.to = FALSE]
       [] pos = 1 -> [t EXCEPT !.ito = "ito" \in data, !.cont = "cont" \in data,
                               !.run = (@ /\ "stop" \in data) \/ "start" \in data]
       [] pos = 2 -> Period(Half * (t.period \div Half) + data)
       [] pos = 3 -> Period((t.period % Half) + (Half * data))
       [] OTHER -> [t EXCEPT !.snap = t.count]

\* The line of the UART is idle here; see Console.
Status(b) == IF b.timer.ito /\ b.timer.to THEN {"timer"} \cap b.mask ELSE {}

IntcRead(b, pos) == IF pos = 0 THEN Status(b) ELSE b.mask
IntcWrite(b, pos, data) == IF pos = 0 THEN b ELSE [b EXCEPT !.mask = data]

\* mem, asked for one word: the byte enables of the others are off.
MemRead(ram, pos) == ram[pos]
MemWrite(ram, pos, data) == [ram EXCEPT ![pos] = data]

-----------------------------------------------------------------------------
(***************************************************************************)
(* The devices together.                                                   *)
(***************************************************************************)
NewBus(born, junk, ram) ==
  [active |-> None, op |-> "none", addr |-> 0, data |-> 0, wait |-> FALSE, rdata |-> 0, hole |-> FALSE,
   irq |-> FALSE, slave |-> [d \in SimSlave |-> NewSlave(born[d])], timer |-> NewTimer(junk),
   mask |-> {}, ram |-> ram]

\* The first one that was attached there.
Binding(addr) ==
  LET hits == {i \in DOMAIN Bindings : addr \in Bindings[i].base .. Bindings[i].base + Bindings[i].size - 1}
  IN IF hits = {} THEN [dev |-> None, base |-> 0, size |-> 0]
     ELSE Bindings[CHOOSE i \in hits : \A j \in hits : i <= j]

\* A read: whether the device answers, with what, and what becomes of it.
DeviceRead(b, dev, pos) ==
  LET Gives(value) == [ok |-> TRUE, value |-> value, bus |-> b]
  IN CASE dev = "hps_ddr3" -> Gives(MemRead(b.ram, pos))
       [] dev = "timer" -> Gives(TimerRead(b.timer, pos))
       [] dev = "intc" -> Gives(IntcRead(b, pos))
       [] dev = "const" -> Gives(ConstValue)
       [] dev \in SimSlave -> [ok |-> b.slave[dev].latch, value |-> b.slave[dev].got,
                               bus |-> [b EXCEPT !.slave[dev] = SlaveRead(@, pos)]]
       [] OTHER -> Gives(0)

DeviceWrite(b, dev, pos, data) ==
  LET Takes(c) == [ok |-> TRUE, value |-> 0, bus |-> c]
  IN CASE dev = "hps_ddr3" -> Takes([b EXCEPT !.ram = MemWrite(@, pos, data)])
       [] dev = "timer" -> Takes([b EXCEPT !.timer = TimerWrite(@, pos, data)])
       [] dev = "intc" -> Takes(IntcWrite(b, pos, data))
       [] dev \in SimSlave -> [ok |-> b.slave[dev].latch, value |-> 0,
                               bus |-> [b EXCEPT !.slave[dev] = SlaveWrite(@, pos, data)]]
       [] OTHER -> Takes(b)

DeviceAccess(b, dev, op, pos, data) ==
  IF op = "read" THEN DeviceRead(b, dev, pos) ELSE DeviceWrite(b, dev, pos, data)

-----------------------------------------------------------------------------
(***************************************************************************)
(* The interconnect.                                                       *)
(***************************************************************************)
\* The wires of the devices in the design are waits[d] and value[d].
TickFalling(b, waits, value) ==
  [b EXCEPT !.slave = [d \in SimSlave |-> SlaveFalling(@[d], waits[d], value[d])],
            !.active = IF b.wait THEN @ ELSE None]

TickDevices(b) ==
  LET ticked == [b EXCEPT !.timer = TimerTick(@), !.slave = [d \in SimSlave |-> SlaveTick(@[d])]]
  IN [ticked EXCEPT !.irq = Status(ticked) # {}, !.hole = FALSE]

\* `request' is what the platform asks for.
TickRising(b, request) ==
  LET ticked == TickDevices(b)
      new == [ticked EXCEPT !.op = request.op, !.addr = request.addr, !.data = request.data,
                            !.active = IF request.op = "none" THEN None ELSE Binding(request.addr).dev]
      now == IF b.active = None THEN new ELSE ticked
      access == DeviceAccess(now, now.active, now.op, now.addr - Binding(now.addr).base, now.data)
  IN CASE now.active = None -> [now EXCEPT !.hole = now.op # "none"]
       [] now.active # None /\ now.op = "read" ->
            [access.bus EXCEPT !.wait = ~access.ok, !.rdata = access.value]
       [] OTHER -> [access.bus EXCEPT !.wait = ~access.ok]

\* dump and patch reach the device while time stands still, and ask until it answers.
Outside(b, op, addr, data) ==
  LET at == Binding(addr)
  IN IF at.dev = None THEN [ok |-> TRUE, value |-> 0, bus |-> b]
     ELSE DeviceAccess(b, at.dev, op, addr - at.base, data)
=============================================================================
