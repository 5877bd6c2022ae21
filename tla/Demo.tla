-------------------------------- MODULE Demo --------------------------------
(***************************************************************************)
(* The demo (demo/) without its console: the cores boot one after the      *)
(* other, core 0 reads commands, and the others wait for its messages.     *)
(* Also the control of the cores (rtl/smp/smp_pe.sv).                      *)
(***************************************************************************)
EXTENDS Console, Commands

CONSTANTS
  Pointers,   \* the addresses that may be read and written: not what the program has
              \* for itself, nor a device
  Vectors,    \* vectors from DATA_BASE to the end of the GPU's memory (740000 in hex)
  Programs,   \* vectors from CODE_BASE to DATA_BASE (20000 in hex)
  Setups      \* the cores that exist, the keys that the user types, and whether the
              \* user waits for the console before each key

\* The cores that exist are the first ones (CONFIG_CPUS), and all have a name in print().
ASSUME SetupsAssumption ==
  /\ NumCpus \in 1 .. 4 /\ Cpu = 0 .. NumCpus - 1
  /\ \A s \in Setups : \E n \in 1 .. NumCpus : s.alive = 0 .. n - 1

\* A vector is eight bytes.
Slots == Word \div 8

ASSUME GfxAssumption == Vectors \in Nat /\ Programs \in Nat \ {0} /\ Vectors + Programs <= Slots

VARIABLES
  bootNum, bootDone,
  halt,             \* smp_pe: the core is to stop
  box, cas, got,    \* mailboxes; compare_exchange_64; last message taken
  sent,             \* history: the messages put since the mailbox was last empty
  mem,              \* what the commands read and write
  gfx,              \* gfx.c, and the registers and memory of the GPU
  want,             \* history: the vectors given since the last clear, by their slot
  keys, patient     \* the keys that are left; from Setups

boot == <<bootNum, bootDone, num>>
mail == <<box, cas, got, sent>>
graphics == <<gfx, want>>
irqVars == <<irqAt, irqOn>>
program == <<todo, step>>
user == <<alive, keys, patient>>
vars == <<user, program, boot, halt, stopped, lockVars, irqVars, consoleVars, mail, mem,
          graphics>>

-----------------------------------------------------------------------------
(***************************************************************************)
(* Boot and control of the cores.                                          *)
(***************************************************************************)
\* kick_cpus: cores that do not exist are passed over, and the first that does is run;
\* it runs the next one.  The last one ends the boot.
KickAll(n) == IF n = 0 THEN <<[op |-> "runread", mask |-> alive \ {0}], [op |-> "bootdone"]>>
                       ELSE <<>>

Kick(n) ==
  LET later == {i \in n + 1 .. NumCpus - 1 : i \in alive}
      first == CHOOSE i \in later : \A j \in later : i <= j
  IN IF later = {}
       THEN Times(Say("dead"), NumCpus - 1 - n) \o <<[op |-> "bootdone"]>>
       ELSE Times(Say("dead"), first - n - 1) \o <<[op |-> "runread", mask |-> {first}]>>

ReadLine == <<[op |-> "setline"], [op |-> "poll"]>>

\* reset(), with bsp_main and ap_main.
Reset(n) ==
  IF n = 0
    THEN <<[op |-> "consoleinit"], [op |-> "gfxinit"]>> \o Say("gfx: loading") \o <<[op |-> "gfxload"]>>
           \o Say("exited reset") \o <<[op |-> "bspinit"]>> \o Kick(n)
           \o <<[op |-> "waitboot"]>> \o Say("booted") \o <<[op |-> "clearnum"]>> \o ReadLine
    ELSE Say("exited reset") \o Kick(n) \o <<[op |-> "haltread", mask |-> {n}], [op |-> "recv"]>>

\* start.S: _boot_num is read, and written later.
Start(c) ==
  /\ Next0(c, "start") /\ step[c] = "go"
  /\ num' = [num EXCEPT ![c] = bootNum]
  /\ Goto(c, "count")
  /\ UNCHANGED <<todo, bootNum, bootDone>>

Count(c) ==
  /\ Next0(c, "start") /\ step[c] = "count"
  /\ bootNum' = num[c] + 1
  /\ Goto(c, "go") /\ Become(c, Reset(num[c]))
  /\ UNCHANGED <<bootDone, num>>

BootDone(c) ==
  /\ Next0(c, "bootdone") /\ Become(c, <<>>)
  /\ bootDone' = TRUE
  /\ UNCHANGED <<step, bootNum, num>>

WaitBoot(c) ==
  /\ Next0(c, "waitboot") /\ Become(c, <<>>)
  /\ bootDone
  /\ UNCHANGED <<step, boot>>

ClearNum(c) ==
  /\ Next0(c, "clearnum") /\ Become(c, <<>>)
  /\ bootNum' = 0
  /\ UNCHANGED <<step, bootDone, num>>

BootStep(c) ==
  /\ Start(c) \/ Count(c) \/ BootDone(c) \/ WaitBoot(c) \/ ClearNum(c)
  /\ UNCHANGED <<halt, stopped, lockVars, irqVars, consoleVars, mail, mem, graphics>>

\* run_cpus and halt_cpus: what is printed and written depends on the status of the
\* cores that was read once.  A core that does not exist is seen as halted.
Status == {i \in 0 .. NumCpus - 1 : i \in alive => stopped[i]}

Requests(mask, fit, verb, already, run) ==
  LET says(i) == IF i \notin mask THEN <<>> ELSE IF i \in fit THEN Say(verb) ELSE Say(already)
  IN FlattenSeq([i \in 1 .. NumCpus |-> says(i - 1)])
       \o <<[op |-> "ctrl", run |-> IF run THEN mask \cap fit ELSE {},
                            halt |-> IF run THEN {} ELSE mask \cap fit]>>

RunRead(c) ==
  /\ Next0(c, "runread")
  /\ Become(c, Requests(Head(todo[c]).mask, Status, "run", "already running", TRUE))
  /\ UNCHANGED halt

HaltRead(c) ==
  /\ Next0(c, "haltread")
  /\ Become(c, Requests(Head(todo[c]).mask, (0 .. NumCpus - 1) \ Status, "halt",
                        "already halted", FALSE))
  /\ UNCHANGED halt

\* smp_pe: a request to run is stronger than one to halt.
CtrlHaltsFirst(c) ==
  /\ Next0(c, "ctrl") /\ Become(c, <<>>)
  /\ halt' = [i \in Cpu |-> halt[i] \/ i \in Head(todo[c]).halt]

Ctrl(c) ==
  /\ Next0(c, "ctrl") /\ Become(c, <<>>)
  /\ halt' = [i \in Cpu |-> (halt[i] \/ i \in Head(todo[c]).halt) /\ i \notin Head(todo[c]).run]

SmpStep(c) ==
  /\ RunRead(c) \/ HaltRead(c) \/ Ctrl(c)
  /\ UNCHANGED <<step, boot, stopped, lockVars, irqVars, consoleVars, mail, mem, graphics>>

\* The core does what smp_pe wants some time later.
Obey(c) ==
  /\ c \in alive /\ stopped[c] # halt[c]
  /\ stopped' = [stopped EXCEPT ![c] = halt[c]]
  /\ UNCHANGED <<program, boot, halt, lockVars, irqVars, consoleVars, mail, mem, graphics>>

-----------------------------------------------------------------------------
(***************************************************************************)
(* Messages, and memory.                                                   *)
(***************************************************************************)
NoMessage == [lo |-> 0, hi |-> 0]
Messages == LET words == {0} \cup Range(Hex)
            IN {SendWord(ptr, write, val) : ptr \in words, write \in 0 .. 1, val \in words}
NoExchange == [old |-> NoMessage, read |-> NoMessage]
BoxLine(n) == <<"box", n>>
BoxOf(c) == IF Head(todo[c]).op = "send" THEN Head(todo[c]).to ELSE num[c]
NewWord(c) == IF Head(todo[c]).op = "send" THEN Head(todo[c]).msg ELSE NoMessage

Mailing(c) == \E op \in {"send", "recv"} : Next0(c, op)

\* `current' is read first, one word after the other.
ReadCurrent(c, off) ==
  /\ step[c] = IF off = "lo" THEN "go" ELSE "current"
  /\ cas' = [cas EXCEPT ![c].old[off] = box[BoxOf(c)][off]]
  /\ Goto(c, IF off = "lo" THEN "current" ELSE "ldlo")
  /\ UNCHANGED <<todo, lockVars, box, got, sent>>

\* compare_exchange_64: link both words,
LdrexBox(c, off) ==
  LET n == BoxOf(c)
      read == [cas[c].read EXCEPT ![off] = box[n][off]]
      same == read = cas[c].old
  IN /\ step[c] = IF off = "lo" THEN "ldlo" ELSE "ldhi"
     /\ lk[c] = "out"
     /\ mon' = [mon EXCEPT ![c] = Acquire(@, BoxLine(n), off, box[n])]
     /\ Goto(c, IF off = "lo" THEN "ldhi" ELSE IF same THEN "stlo" ELSE "ldlo")
     /\ cas' = [cas EXCEPT ![c].read = read, ![c].old = IF off = "hi" THEN read ELSE @]
     /\ UNCHANGED <<todo, lockVal, lk, box, got, sent>>

\* then store both.  The result of the first strex is not looked at.
StrexLo(c) ==
  LET n == BoxOf(c)
      word == NewWord(c).lo
  IN /\ step[c] = "stlo"
     /\ lk[c] = "out"
     /\ box' = IF Commit(mon[c], BoxLine(n), "lo", box[n])
                 THEN [box EXCEPT ![n] = Update(mon[c], "lo", word)] ELSE box
     /\ mon' = [mon EXCEPT ![c] = Release(@, BoxLine(n), "lo", word)]
     /\ Goto(c, "sthi")
     /\ UNCHANGED <<todo, lockVal, lk, cas, got, sent>>

\* What the caller does with a message: do_write or do_read, and it waits again.
Obeyed(m) ==
  LET ptr == m.hi - (m.hi % 4)
  IN (IF (m.hi \div 2) % 2 = 1 THEN DoWrite(ptr, m.lo) ELSE DoRead(ptr)) \o <<[op |-> "recv"]>>

\* A receiver that has exchanged nothing for nothing tries again.
StrexHi(c) ==
  LET n == BoxOf(c)
      old == cas[c].old
      sends == Head(todo[c]).op = "send"
      taken == ~sends /\ old # NoMessage
  IN /\ step[c] = "sthi"
     /\ lk[c] = "out"
     /\ mon' = [mon EXCEPT ![c] = Release(@, BoxLine(n), "hi", NewWord(c).hi)]
     /\ IF Commit(mon[c], BoxLine(n), "hi", box[n])
          THEN /\ box' = [box EXCEPT ![n] = Update(mon[c], "hi", NewWord(c).hi)]
               /\ got' = IF taken THEN [got EXCEPT ![n] = old] ELSE got
               /\ sent' = CASE sends -> [sent EXCEPT ![n] = Append(@, Head(todo[c]).msg)]
                            [] taken -> [sent EXCEPT ![n] = <<>>]
                            [] OTHER -> sent
               /\ IF taken \/ sends
                    THEN /\ Become(c, IF taken THEN Obeyed(old) ELSE <<>>)
                         /\ Goto(c, "go") /\ cas' = [cas EXCEPT ![c] = NoExchange]
                    ELSE UNCHANGED <<todo, cas>> /\ Goto(c, "ldlo")
          ELSE /\ cas' = [cas EXCEPT ![c].old = cas[c].read]
               /\ Goto(c, "ldlo")
               /\ UNCHANGED <<todo, box, got, sent>>
     /\ UNCHANGED <<lockVal, lk>>

MailStep(c) ==
  /\ Mailing(c)
  /\ \/ \E off \in {"lo", "hi"} : ReadCurrent(c, off) \/ LdrexBox(c, off)
     \/ StrexLo(c) \/ StrexHi(c)
  /\ UNCHANGED <<boot, halt, stopped, irqVars, consoleVars, mem, graphics>>

BspInit(c) ==
  /\ Next0(c, "bspinit") /\ Become(c, <<>>)
  /\ box' = [n \in Cpu |-> NoMessage]
  /\ bootDone' = FALSE
  /\ UNCHANGED <<step, bootNum, num, halt, stopped, lockVars, irqVars, consoleVars, cas, got, sent,
                 mem, graphics>>

\* A session is followed as far as its reads and writes go to Pointers.
MemStep(c) ==
  /\ \/ Next0(c, "peek") /\ UNCHANGED mem
     \/ Next0(c, "poke") /\ mem' = [mem EXCEPT ![Head(todo[c]).ptr] = Head(todo[c]).val]
  /\ Head(todo[c]).ptr \in Pointers
  /\ Become(c, <<>>)
  /\ UNCHANGED <<step, boot, halt, stopped, lockVars, irqVars, consoleVars, mail, graphics>>

-----------------------------------------------------------------------------
(***************************************************************************)
(* gfx.c.                                                                  *)
(***************************************************************************)
\* gfx_write_scan.
Scan(g, clear) == [g EXCEPT !.scan = [clear |-> clear, swap |-> g.swap, color |-> g.color]]

\* Addresses have 32 bits too, so each place is that of eight values of vec_num.  Slot 0
\* is at DATA_BASE, and the last slots are the ones in front of it.
Slot(vec) == vec % Slots

\* What is there.  Elsewhere a vector goes into the frame buffers, the header, the GPU's
\* registers or the memory of the program, and the session is not followed any more.
IsData(slot) == slot < Vectors
IsProgram(slot) == slot >= Slots - Programs

\* A vector goes to the memory of the GPU, and the header grows if it is the last one.
\* There is none after the last one of all: vec_num + 1 is 0 then.
PutVector(g, slot, data) ==
  [g EXCEPT !.vram = [s \in DOMAIN @ \cup {slot} |-> IF s = slot THEN data ELSE @[s]]]

GfxWriteShort(g, vec, data) ==
  LET put == PutVector(g, Slot(vec), data)
  IN IF vec > g.size THEN [put EXCEPT !.size = vec, !.head = vec] ELSE put

GfxWrite(g, vec, data) ==
  LET put == PutVector(g, Slot(vec), data)
      size == (vec + 1) % Word
  IN IF size > g.size THEN [put EXCEPT !.size = size, !.head = size] ELSE put

GfxAfter(g, op) ==
  CASE op.op = "gfxinit"  -> Scan([g EXCEPT !.size = 0, !.color = 0, !.swap = FALSE], TRUE)
    [] op.op = "gfxload"  -> [g EXCEPT !.head = 0]
    [] op.op = "gfxclear" -> Scan([g EXCEPT !.size = 0, !.head = 0], TRUE)
    [] op.op = "gfxswap"  -> Scan([g EXCEPT !.swap = ~@], FALSE)
    [] op.op = "gfxbg"    -> Scan([g EXCEPT !.color = op.color], FALSE)
    [] op.op = "gfxdraw"  -> [g EXCEPT !.started = TRUE]
    [] op.op = "gfxdata"  -> GfxWrite(g, op.vec, op.data)

GfxStep(c) ==
  /\ \E op \in {"gfxinit", "gfxload", "gfxclear", "gfxswap", "gfxbg", "gfxdraw", "gfxdata"} :
       Next0(c, op)
  /\ gfx' = GfxAfter(gfx, Head(todo[c]))
  /\ LET op == Head(todo[c])
         slot == Slot(op.vec)
     IN /\ op.op = "gfxdata" => IsData(slot) \/ IsProgram(slot)
        /\ want' = CASE op.op = "gfxdata" ->
                          [s \in DOMAIN want \cup {slot} |-> IF s = slot THEN op.words ELSE want[s]]
                     [] op.op = "gfxclear" -> <<>>
                     [] OTHER -> want
  /\ Become(c, <<>>)
  /\ UNCHANGED <<step, boot, halt, stopped, lockVars, irqVars, consoleVars, mail, mem>>

-----------------------------------------------------------------------------
Talk(c) ==
  /\ ConsoleStep(c, Command(input) \o ReadLine)
  /\ UNCHANGED <<boot, halt, stopped, mail, mem, graphics>>

Program(c) ==
  /\ BootStep(c) \/ SmpStep(c) \/ MailStep(c) \/ BspInit(c) \/ MemStep(c) \/ GfxStep(c) \/ Talk(c)
  /\ UNCHANGED user

Handler ==
  /\ IrqStep
  /\ UNCHANGED <<user, boot, halt, stopped, mail, mem, graphics>>

\* A tick of the UART that looks for a key.
Types == keys # <<>> /\ (patient => inputBuf /\ ~inputRun /\ uart.avail = 0)

Tick ==
  /\ \/ /\ uart' = Ticked(uart, NoKey)
        /\ UNCHANGED keys
     \/ /\ Types /\ ~UartFull(uart)
        /\ uart' = Ticked(uart, Head(keys))
        /\ keys' = Tail(keys)
  /\ UNCHANGED <<alive, patient, program, boot, halt, stopped, lockVars, irqVars, screen, line, mail, mem,
                 graphics>>

Next ==
  \/ \E c \in Cpu : Program(c) \/ (Obey(c) /\ UNCHANGED user)
  \/ Handler
  \/ Tick

Init ==
  /\ \E s \in Setups : alive = s.alive /\ keys = s.keys /\ patient = s.patient
  /\ ConsoleStart
  /\ todo = [c \in Cpu |-> <<[op |-> "start"]>>]
  /\ step = [c \in Cpu |-> "go"]
  /\ bootNum = 0 /\ bootDone = FALSE /\ num = [c \in Cpu |-> 0]
  /\ halt = [c \in Cpu |-> c # 0] /\ stopped = halt
  /\ box = [c \in Cpu |-> NoMessage] /\ got = box /\ sent = [c \in Cpu |-> <<>>]
  /\ cas = [c \in Cpu |-> NoExchange]
  /\ mem = [p \in Pointers |-> 0]
  /\ gfx = [size |-> 0, color |-> 0, swap |-> FALSE, head |-> 0, vram |-> <<>>, started |-> FALSE,
            scan |-> [clear |-> FALSE, swap |-> FALSE, color |-> 0]]
  /\ want = <<>>

Spec == Init /\ [][Next]_vars

\* The lock is free when core c looks, and still free when it stores.
SeesFree(c) == ~stopped[c] /\ lockVal = 0 /\ Ldrex(c)
Takes(c) == ~stopped[c] /\ lockVal = 0 /\ Strex(c) /\ lk'[c] = "in"

(***************************************************************************)
(* Cores that are not stopped run, and the user goes on.  Core 0 asks for  *)
(* the lock again and again while it waits for a line; another core that   *)
(* wants it as often finds it free when it looks and, when it stores, its  *)
(* line as it was.  No code sees to that: the bus and its delays do.       *)
(***************************************************************************)
Fairness ==
  /\ \A c \in Cpu : /\ WF_<<todo[c], step[c], lk[c]>>(Program(c))
                    /\ WF_<<stopped[c]>>(Obey(c))
  /\ \A c \in Cpu \ {0} : SF_<<lk[c]>>(SeesFree(c)) /\ SF_<<lk[c]>>(Takes(c))
  /\ WF_<<irqAt, lk[0]>>(Handler) /\ WF_<<uart.avail>>(Handler)
  /\ WF_<<uart.ac>>(Tick) /\ WF_<<keys>>(Tick)

FairSpec == Spec /\ Fairness

-----------------------------------------------------------------------------
(***************************************************************************)
(* Properties.                                                             *)
(***************************************************************************)
\* _boot_num is read and written by hand (start.S:32-36), and a core that is woken
\* takes its name and its stack from it.  No two cores boot at once: each has the
\* number by which smp_ctrl knows it, and all have been counted when core 0 goes on.
NumbersRight ==
  /\ \A c \in alive : Head(todo[c]).op # "start" => num[c] = c
  /\ \A c \in alive : step[c] = "count" => \A d \in alive : d # c => step[d] # "count"
  /\ bootDone /\ Head(todo[0]).op = "waitboot" => bootNum = Cardinality(alive)

\* remote_recv uses what compare_exchange_64 leaves in `current' as what the mailbox
\* had: messages are not torn, lost or taken twice (see Mailbox).
Mail == INSTANCE Mailbox WITH Box <- Cpu, Message <- Messages, Empty <- NoMessage
MailSpec == Mail!Spec

\* That holds for a message that has been put once since the mailbox was empty.  The
\* monitor compares the line as the first ldrex found it, and the second may have
\* returned a later word; a message that is put again in between hides that.
MailOnceSpec == Mail!OnceSpec

\* What is in the GPU's memory has the numbers that were typed, cut off to the precision
\* of a half.
Reads(x, d) ==
  LET n == d.digits * 2 ^ (25 - x.e)
      exact == d.digits < 2048
  IN /\ x.neg = d.neg
     /\ Mantissa(x) * d.denominator <= n
     /\ n < (Mantissa(x) + (IF exact THEN 1 ELSE 2)) * d.denominator

\* Each vector given since the last clear that is in the data is inside of what the
\* header says, whatever else was typed before and after it (gfx.c:107-117).  Of vectors
\* that share a place since an unsigned or an address has no more bits, the last counts
\* (blocks 0, 8000000, 40000000 and so on are one), and one that lands in front of the
\* data is in the GPU's program, where no header tells.
VectorsRight ==
  \A s \in DOMAIN want :
    /\ IsData(s) => s < gfx.head
    /\ \A i \in 0 .. 3 : Reads(gfx.vram[s][i], Decimal[want[s][i]])

\* Nothing is left to do: the user has typed all, and core 0 waits for a line, the
\* others for messages or to be run.
Idle ==
  /\ keys = <<>> /\ uart.avail = 0
  /\ todo[0] = <<[op |-> "poll"]>> /\ ~inputRun
  /\ \A c \in alive \ {0} : halt[c] \/ (todo[c] = <<[op |-> "recv"]>> /\ box[c] = NoMessage)

\* What the console cannot get out of: a core that holds the lock is stopped, or waits
\* for ac, which a UART that is full does not set, or core 0 is stopped.
Stuck ==
  \/ stopped[0]
  \/ \E c \in alive : lk[c] = "in" /\ stopped[c]
  \/ UartFull(uart) /\ ~uart.ac /\ \E c \in alive : Holds(c, "print") /\ step[c] = "go"

\* The cores boot, and every key, command and message is dealt with.
Served == <>Idle \/ <>[]Stuck
=============================================================================
