---------------------------- MODULE MCSimulator -----------------------------
EXTENDS Simulator

Timing(active, front, sync, back) == [active |-> active, front |-> front, sync |-> sync, back |-> back]
MCModes == <<[clk |-> 100, h |-> Timing(3, 1, 2, 1), v |-> Timing(3, 1, 2, 1)],
             [clk |-> 100, h |-> Timing(7, 1, 2, 2), v |-> Timing(3, 1, 2, 1)]>>

DevAt(dev, base, size) == [dev |-> dev, base |-> base, size |-> size]
\* The last one lies behind another, and is never reached.
MCBindings == <<DevAt("hps_ddr3", 0, 1), DevAt("timer", 8, 8), DevAt("dbg", 16, 2), DevAt("smp", 18, 1), DevAt("intc", 20, 2),
                DevAt("const", 22, 1), DevAt("vram_null", 24, 4), DevAt("const", 8, 1)>>

Plain == [kind |-> "plain"]
Break == [kind |-> "bkpt"]
To(at) == [kind |-> "branch", to |-> at]
Read(addr) == [kind |-> "bus", op |-> "read", addr |-> addr, data |-> 0]
Write(addr, data) == [kind |-> "bus", op |-> "write", addr |-> addr, data |-> data]
Ask(zero, others) == [c \in Core |-> IF c = 0 THEN zero ELSE others]

\* Core 0 runs the other core; it uses a debug port, and halts both; sets the timer;
\* stops at a breakpoint; and goes through the other devices, to a hole.
Begins == <<Write(18, Ask({}, {"run"})), Plain, To(1)>>
Debugs == <<Write(17, 1), Read(17), Read(18), Write(18, Ask({}, {"halt"})), To(1)>>
Times == <<Write(10, 1), Write(11, 0), Write(21, {"timer"}), Write(9, {"start", "ito"}), Write(12, 0),
           Read(12), Read(20), Write(8, 0), To(5)>>
Breaks == <<Plain, Break, Write(18, Ask({"halt"}, {"step"})), To(0)>>
Falls == <<Write(0, 1), Read(22), Write(25, 1), Write(22, 1), Read(30), To(0)>>
MCOthersRun == <<Plain, To(0)>>

Run(insns, slow, limit, halted, born, user) ==
  [part |-> "run", program |-> insns, slow |-> slow, limit |-> limit, halted |-> halted, born |-> born,
   user |-> user]
Part(part) == [Run(Falls, FALSE, 0, FALSE, FALSE, {}) EXCEPT !.part = part]
MCSetup ==
  {Run(Begins, TRUE, 0, TRUE, FALSE, {"signal", "step", "patch pc"}),
   Run(Begins, FALSE, 0, FALSE, TRUE, {"signal", "patch pc"}),
   Run(Debugs, FALSE, 0, FALSE, FALSE, {"signal"}),
   Run(Debugs, TRUE, 0, FALSE, TRUE, {}),
   Run(Times, TRUE, 20, FALSE, FALSE, {}),
   Run(Breaks, FALSE, 0, TRUE, FALSE, {"signal", "step", "patch pc"}),
   Run(Falls, TRUE, 0, FALSE, FALSE, {}),
   Run(Falls, FALSE, 0, TRUE, FALSE, {"signal", "memory", "hang up"}),
   Part("signal"), Part("video"), Part("walk"), Part("core")}

MCPatch == {[addr |-> 0, data |-> 0], [addr |-> 16, data |-> 1], [addr |-> 30, data |-> 1]}

\* Page tables.  All entries of the first level have a type, all of the second another,
\* and the base of each entry tells which it is.  A table of the second level is in the
\* memory, or one of its entries in a cache and old in the memory.
Entry(typ, a) == [typ |-> typ, base |-> 8 + ((5 * a) % 13)]
Tables(t1, t2) == [a \in 0 .. 31 |-> IF a < 2 THEN Entry(t1, a) ELSE Entry(t2, a)]
Nothing == [a \in {} |-> 0]
MCSpace ==
  {[mmu |-> mmu, ttbr |-> 0, ram |-> Tables(t1, t2), copies |-> copies] :
     mmu \in BOOLEAN, t1 \in 0 .. 3, t2 \in 0 .. 3,
     copies \in {[i \in 0 .. 1 |-> Nothing]} \cup
                {[i \in 0 .. 1 |-> IF i = j \/ both THEN [a \in A |-> Entry(t, a + 1)] ELSE Nothing] :
                   j \in 0 .. 1, both \in BOOLEAN, t \in 1 .. 2, A \in {{0}, {8, 9, 10, 11}}}}
=============================================================================
