----------------------------- MODULE Demo_proof -----------------------------
(***************************************************************************)
(* The spin lock of the demo keeps the cores apart, for any number of      *)
(* cores, first by itself and then in the whole demo, in which the same    *)
(* monitors also serve the mailboxes.  Then, for any cores and any user,   *)
(* the boot gives each core its number, and the screen shows the line that *)
(* is typed whatever is printed.  The two need each other: a line is       *)
(* read only after something has been printed, and print() labels what it  *)
(* prints with the number of the core.  Then the mailboxes: what two cores *)
(* that exchange words of 64 bits lose, and what they do not.  Last, the   *)
(* vectors that go from a line that is typed to the GPU's memory.          *)
(***************************************************************************)
EXTENDS Demo, SequenceTheorems, FiniteSetTheorems, WellFoundedInduction, TLAPS

USE SpinAssumption

Places == {"out", "ldrex", "strex", "in"}

LockType ==
  /\ lockVal \in {0, 1}
  /\ mon = [c \in Cpu |-> mon[c]]
  /\ lk \in [Cpu -> Places]

\* A monitor that has linked the lock's line has linked the word of the lock and no
\* other, so that ldrex always reads it again; between ldrex and strex that is the
\* free lock, with which strex then compares the word in memory.
Linked ==
  /\ \A c \in Cpu : mon[c].line = LockLine => mon[c].mask \subseteq {"lo"}
  /\ \A c \in Cpu : lk[c] = "strex" => mon[c].rd["lo"] = 0

Taken == \A c \in Cpu : lk[c] = "in" => lockVal = 1

LockInv == LockType /\ Linked /\ Taken /\ MutualExclusion

\* ldrex links what the lock has now.
LEMMA LdrexLinks ==
  ASSUME LockInv, NEW c \in Cpu, NEW m, m = Acquire(mon[c], LockLine, "lo", LockData)
  PROVE  m.mask = {"lo"} /\ m.rd["lo"] = lockVal
<1> DEFINE more == Hit(mon[c], LockLine) /\ ~Known(mon[c], "lo") /\ ~mon[c].dirty
<1>1. more => mon[c].mask = {}
  BY DEF LockInv, Linked, Hit, Known
<1>2. m.rd = LockData
  BY <1>1 DEF Acquire
<1>3. LockData["lo"] = lockVal
  BY DEF LockData
<1> QED BY <1>1, <1>2, <1>3 DEF Acquire

\* strex does not commit when the lock has been taken.
LEMMA StrexFails ==
  ASSUME LockInv, NEW c \in Cpu, lk[c] = "strex", Commit(mon[c], LockLine, "lo", LockData)
  PROVE  lockVal = 0
<1>1. mon[c].rd = LockData /\ mon[c].rd["lo"] = 0
  BY DEF LockInv, Linked, Commit
<1> QED BY <1>1 DEF LockData

\* The lock's line has one linked word at most: none is left after strex.
LEMMA StrexReleases ==
  ASSUME LockInv, NEW c \in Cpu
  PROVE  Release(mon[c], LockLine, "lo", 1).mask = {}
BY DEF LockInv, Linked, Release, Hit, Known, ResetMonitor

LEMMA LockStarts == LockInit => LockInv
BY DEF LockInit, LockInv, LockType, Linked, Taken, MutualExclusion, Places, ResetMonitor

LEMMA LockStays ==
  ASSUME LockInv, [LockNext]_lockVars
  PROVE  LockInv'
<1>1. CASE UNCHANGED lockVars
  BY <1>1 DEF LockInv, LockType, Linked, Taken, MutualExclusion, lockVars
<1>2. CASE SpinInit
  BY <1>2 DEF SpinInit, LockInv, LockType, Linked, Taken, MutualExclusion
<1>3. ASSUME NEW c \in Cpu, Enter(c) PROVE LockInv'
  BY <1>3 DEF Enter, LockInv, LockType, Linked, Taken, MutualExclusion, Places
<1>4. ASSUME NEW c \in Cpu, Ldrex(c) PROVE LockInv'
  <2>1. mon'[c].mask = {"lo"} /\ mon'[c].rd["lo"] = lockVal
    BY <1>4, LdrexLinks DEF Ldrex, LockInv, LockType
  <2>2. \A d \in Cpu : d # c => mon'[d] = mon[d] /\ lk'[d] = lk[d]
    BY <1>4 DEF Ldrex, LockInv, LockType
  <2>3. lk'[c] = (IF lockVal = 0 THEN "strex" ELSE "ldrex") /\ lockVal' = lockVal
    BY <1>4 DEF Ldrex, LockInv, LockType
  <2>4. LockType'
    BY <1>4 DEF Ldrex, LockInv, LockType, Places
  <2>5. Linked'
    BY <2>1, <2>2, <2>3 DEF LockInv, Linked
  <2>6. Taken' /\ MutualExclusion'
    BY <2>2, <2>3 DEF LockInv, Taken, MutualExclusion
  <2> QED BY <2>4, <2>5, <2>6 DEF LockInv
<1>5. ASSUME NEW c \in Cpu, Strex(c) PROVE LockInv'
  <2> DEFINE ok == Commit(mon[c], LockLine, "lo", LockData)
  <2>1. ok => lockVal = 0
    BY <1>5, StrexFails DEF Strex
  <2>2. mon'[c].mask = {}
    BY <1>5, StrexReleases DEF Strex, LockInv, LockType
  <2>3. \A d \in Cpu : d # c => mon'[d] = mon[d] /\ lk'[d] = lk[d]
    BY <1>5 DEF Strex, LockInv, LockType
  <2>4. /\ lk'[c] = (IF ok THEN "in" ELSE "ldrex")
        /\ lockVal' = (IF ok THEN 1 ELSE lockVal)
    BY <1>5 DEF Strex, LockInv, LockType
  <2> HIDE DEF ok
  <2>5. LockType'
    BY <1>5, <2>4 DEF Strex, LockInv, LockType, Places
  <2>6. Linked'
    BY <2>2, <2>3, <2>4 DEF LockInv, Linked
  <2>7. Taken' /\ MutualExclusion'
    BY <2>1, <2>3, <2>4 DEF LockInv, Taken, MutualExclusion
  <2> QED BY <2>5, <2>6, <2>7 DEF LockInv
<1>6. ASSUME NEW c \in Cpu, Unlock(c) PROVE LockInv'
  BY <1>6 DEF Unlock, LockInv, LockType, Linked, Taken, MutualExclusion, Places
<1>7. ASSUME NEW c \in Cpu, OtherLine(c) PROVE LockInv'
  <2>1. PICK m \in {mon'[c]} : /\ m.line = LockLine => m.mask = {}
                               /\ mon' = [mon EXCEPT ![c] = m]
    BY <1>7 DEF OtherLine
  <2>2. \A d \in Cpu : d # c => mon'[d] = mon[d]
    BY <2>1 DEF LockInv, LockType
  <2>3. mon'[c].line = LockLine => mon'[c].mask = {}
    BY <2>1
  <2>4. lk[c] = "out" /\ lk' = lk /\ lockVal' = lockVal
    BY <1>7 DEF OtherLine
  <2>5. LockType'
    BY <2>1, <2>4 DEF LockInv, LockType
  <2>6. Linked'
    BY <2>2, <2>3, <2>4 DEF LockInv, Linked
  <2> QED BY <2>4, <2>5, <2>6 DEF LockInv, Taken, MutualExclusion
<1> QED BY <1>1, <1>2, <1>3, <1>4, <1>5, <1>6, <1>7 DEF LockNext

\* No two cores are past spin_lock at once, whatever they link besides the lock
\* (atomic.S:7-30).
THEOREM LockExclusive == LockSpec => []MutualExclusion
<1>1. LockInit => LockInv
  BY LockStarts
<1>2. LockInv /\ [LockNext]_lockVars => LockInv'
  BY LockStays
<1>3. LockInv => MutualExclusion
  BY DEF LockInv
<1> QED BY <1>1, <1>2, <1>3, PTL DEF LockSpec

-----------------------------------------------------------------------------
(***************************************************************************)
(* The demo uses the lock as SpinLock says.                                *)
(***************************************************************************)
LEMMA BoxesApart == \A n : BoxLine(n) # LockLine
BY DEF BoxLine, LockLine

\* The exchange of a message leaves the word of the lock alone.
LEMMA MailLinksBoxes ==
  ASSUME LockType, NEW c \in Cpu, MailStep(c)
  PROVE  OtherLine(c) \/ UNCHANGED lockVars
<1>1. ASSUME NEW off \in {"lo", "hi"}, ReadCurrent(c, off) PROVE UNCHANGED lockVars
  BY <1>1 DEF ReadCurrent
<1>2. ASSUME lk[c] = "out", UNCHANGED <<lockVal, lk>>, NEW m, mon' = [mon EXCEPT ![c] = m],
             m.line = LockLine => m.mask = {}
      PROVE  OtherLine(c)
  <2>1. mon'[c] = m
    BY <1>2 DEF LockType
  <2> QED BY <1>2, <2>1 DEF OtherLine
<1>3. ASSUME NEW off \in {"lo", "hi"}, LdrexBox(c, off) PROVE OtherLine(c)
  <2> DEFINE m == Acquire(mon[c], BoxLine(BoxOf(c)), off, box[BoxOf(c)])
  <2>1. lk[c] = "out" /\ UNCHANGED <<lockVal, lk>> /\ mon' = [mon EXCEPT ![c] = m]
    BY <1>3 DEF LdrexBox
  <2>2. m.line # LockLine
    BY BoxesApart DEF Acquire
  <2> HIDE DEF m
  <2> QED BY <1>2, <2>1, <2>2
<1>4. \A off, word : LET m == Release(mon[c], BoxLine(BoxOf(c)), off, word)
                     IN m.line = LockLine => m.mask = {}
  <2> SUFFICES ASSUME NEW off, NEW word
               PROVE  LET m == Release(mon[c], BoxLine(BoxOf(c)), off, word)
                      IN m.line = LockLine => m.mask = {}
    OBVIOUS
  <2>1. CASE Hit(mon[c], BoxLine(BoxOf(c)))
    BY <2>1, BoxesApart DEF Release, Hit, ResetMonitor
  <2>2. CASE ~Hit(mon[c], BoxLine(BoxOf(c)))
    BY <2>2 DEF Release, ResetMonitor
  <2> QED BY <2>1, <2>2
<1>5. ASSUME StrexLo(c) PROVE OtherLine(c)
  <2> DEFINE m == Release(mon[c], BoxLine(BoxOf(c)), "lo", NewWord(c).lo)
  <2>1. lk[c] = "out" /\ UNCHANGED <<lockVal, lk>> /\ mon' = [mon EXCEPT ![c] = m]
    BY <1>5 DEF StrexLo
  <2>2. m.line = LockLine => m.mask = {}
    BY <1>4
  <2> HIDE DEF m
  <2> QED BY <1>2, <2>1, <2>2
<1>6. ASSUME StrexHi(c) PROVE OtherLine(c)
  <2> DEFINE m == Release(mon[c], BoxLine(BoxOf(c)), "hi", NewWord(c).hi)
  <2>1. lk[c] = "out" /\ UNCHANGED <<lockVal, lk>> /\ mon' = [mon EXCEPT ![c] = m]
    BY <1>6 DEF StrexHi
  <2>2. m.line = LockLine => m.mask = {}
    BY <1>4
  <2> HIDE DEF m
  <2> QED BY <1>2, <2>1, <2>2
<1> QED BY <1>1, <1>3, <1>5, <1>6 DEF MailStep

\* print and read_line.
LEMMA TalkLocks ==
  ASSUME NEW c \in Cpu, NEW ops, ConsoleStep(c, ops)
  PROVE  [LockNext]_lockVars
<1>1. CASE ConsoleInit(c)
  BY <1>1 DEF ConsoleInit, LockNext
<1>2. CASE LockStep(c)
  BY <1>2 DEF LockStep, LockNext
<1>3. CASE PrintWait(c) \/ PrintText(c)
  BY <1>3 DEF PrintWait, PrintText
<1>4. CASE PrintPrompt(c) \/ SetLine(c) \/ PollAgain(c) \/ Poll(c, ops)
  BY <1>4 DEF PrintPrompt, SetLine, PollAgain, Poll, LockNext
<1> QED BY <1>1, <1>2, <1>3, <1>4 DEF ConsoleStep

\* The handler, which is core 0's.
LEMMA HandlerLocks == IrqStep => [LockNext]_lockVars
<1>1. CASE Irq
  BY <1>1 DEF Irq
<1>2. CASE IrqLock
  BY <1>2, BspAssumption DEF IrqLock, LockNext
<1>3. CASE IrqKey
  <2>1. Unlock(0) \/ UNCHANGED lockVars
    BY <1>3 DEF IrqKey
  <2> QED BY <2>1, BspAssumption DEF LockNext
<1> QED BY <1>1, <1>2, <1>3 DEF IrqStep

LEMMA ProgramLocks ==
  ASSUME LockType, NEW c \in Cpu, Program(c)
  PROVE  [LockNext]_lockVars
<1>1. CASE BootStep(c) \/ SmpStep(c)
  BY <1>1 DEF BootStep, SmpStep
<1>2. CASE MailStep(c)
  BY <1>2, MailLinksBoxes DEF LockNext
<1>3. CASE BspInit(c) \/ MemStep(c) \/ GfxStep(c)
  BY <1>3 DEF BspInit, MemStep, GfxStep
<1>4. CASE Talk(c)
  BY <1>4, TalkLocks DEF Talk
<1> QED BY <1>1, <1>2, <1>3, <1>4 DEF Program

LEMMA StepLocks ==
  ASSUME LockType, [Next]_vars
  PROVE  [LockNext]_lockVars
<1>1. ASSUME NEW c \in Cpu, Program(c) PROVE [LockNext]_lockVars
  BY <1>1, ProgramLocks
<1>2. ASSUME NEW c \in Cpu, Obey(c) PROVE [LockNext]_lockVars
  BY <1>2 DEF Obey
<1>3. CASE Handler
  BY <1>3, HandlerLocks DEF Handler
<1>4. CASE Tick
  BY <1>4 DEF Tick
<1>5. CASE UNCHANGED vars
  BY <1>5 DEF vars
<1> QED BY <1>1, <1>2, <1>3, <1>4, <1>5 DEF Next

\* What the cores, the handler and the user do in the demo with the lock and the
\* monitors is what LockSpec allows, although the mailboxes share the monitors.
THEOREM DemoLocks == Spec => LockSpec
<1>1. Init => LockInit
  BY DEF Init, ConsoleStart
<1>2. LockInit => LockInv
  BY LockStarts
<1>3. LockInv /\ [Next]_vars => LockInv'
  BY StepLocks, LockStays DEF LockInv
<1>4. LockInv /\ [Next]_vars => [LockNext]_lockVars
  BY StepLocks DEF LockInv
<1> QED BY <1>1, <1>2, <1>3, <1>4, PTL DEF Spec, LockSpec

\* The demo's cores never are in the console, the screen and the line at once
\* (console.c:90-237), with any number of cores, users and messages.
THEOREM DemoExclusive == Spec => []MutualExclusion
BY DemoLocks, LockExclusive, PTL

-----------------------------------------------------------------------------
(***************************************************************************)
(* The boot and the console of the demo, for any user and any commands.    *)
(***************************************************************************)
\* What a core may have to do: core 0 before all have booted, core 0 for a line, and
\* the other cores.
FirstOps == {"consoleinit", "gfxinit", "gfxload", "print", "bspinit", "runread", "ctrl", "bootdone"}
LineOps == {"print", "runread", "haltread", "ctrl", "peek", "poke", "send",
            "gfxswap", "gfxdraw", "gfxclear", "gfxdata", "gfxbg"}
OtherOps == {"print", "runread", "haltread", "ctrl", "bootdone", "peek", "poke", "recv"}

\* A vector that was typed, with the halves that parse_fp16 makes of its numbers.
IsVector(o) ==
  /\ o.vec \in 0 .. Word - 1
  /\ \A i \in 0 .. 3 : o.words[i] \in DOMAIN Decimal /\ o.data[i] = Half16[o.words[i]]

\* When k of n cores have been counted no operation runs a core after the next one, and
\* one that ends the boot is there only if k are all.
Fit(o, ops, k, n) ==
  /\ o.op \in ops
  /\ o.op = "print" => o.text # Space
  /\ o.op = "runread" => \A i \in o.mask \cap (0 .. n - 1) : i <= k
  /\ o.op = "ctrl" => \A i \in o.run \cap (0 .. n - 1) : i <= k
  /\ o.op = "bootdone" => k = n
  /\ o.op = "send" => o.to \in Cpu /\ o.msg \in Messages
  /\ o.op = "gfxdata" => IsVector(o)

Each(x, ops, k, n) == x \in Seq(Range(x)) /\ \A o \in Range(x) : Fit(o, ops, k, n)
Prints(x) == \E o \in Range(x) : o.op = "print"

\* The end of core 0's program, of which it has w - 1 operations behind it.
Rest(w) ==
  << <<[op |-> "waitboot"], [op |-> "print", text |-> "booted"], [op |-> "clearnum"],
       [op |-> "setline"], [op |-> "poll"]>>,
     <<[op |-> "print", text |-> "booted"], [op |-> "clearnum"], [op |-> "setline"], [op |-> "poll"]>>,
     <<[op |-> "clearnum"], [op |-> "setline"], [op |-> "poll"]>>,
     <<[op |-> "setline"], [op |-> "poll"]>>,
     <<[op |-> "poll"]>> >>[w]
OpsAt(w) == IF w = 1 THEN FirstOps ELSE IF w = 4 THEN LineOps ELSE {}

\* Core 0, when k of n cores have been counted, has x to do before the end of its program.
ZeroIs(n, k, w, x) ==
  /\ todo[0] = x \o Rest(w) /\ Each(x, OpsAt(w), k, n)
  /\ IF w <= 3 THEN bootNum = k ELSE bootNum = 0
  /\ w >= 2 => k = n /\ bootDone
  /\ inputBuf = (w = 5)
  /\ screen.line = <<>> => w = 1 /\ Prints(x)

ProgramType ==
  /\ todo = [c \in Cpu |-> todo[c]] /\ step = [c \in Cpu |-> step[c]]
  /\ num = [c \in Cpu |-> num[c]]
  /\ halt \in [Cpu -> BOOLEAN] /\ stopped \in [Cpu -> BOOLEAN]
  /\ inputBuf \in BOOLEAN

\* k of the n cores have been counted.
Counted(n, k) ==
  /\ alive = 0 .. n - 1
  /\ \A c \in 0 .. k - 1 : num[c] = c /\ step[c] # "count"
  /\ \A c \in 1 .. k - 1 : Each(todo[c], OtherOps, k, n)
  /\ \A c \in k .. n - 1 :
       /\ todo[c] = <<[op |-> "start"]>>
       /\ step[c] \in {"go", "count"}
       /\ step[c] = "count" => c = k /\ num[c] = k
       /\ c # k => halt[c] /\ stopped[c]
  /\ bootDone => k = n
  /\ k = 0 => bootNum = 0 /\ ~inputBuf /\ screen.line = <<>>

\* k of the n cores have been counted, and core 0, if it has been, goes on with the boot.
Booting(n, k) ==
  /\ ProgramType
  /\ n \in 1 .. NumCpus /\ k \in 0 .. n
  /\ Counted(n, k)
  /\ k # 0 => \E w \in 1 .. 5 : \E x : ZeroIs(n, k, w, x)

BootInv == \E n, k : Booting(n, k)

\* The typed line that the screen shows.
Typed == IF inputBuf /\ ~inputRun THEN input ELSE <<>>

InputInv ==
  /\ inputRun \in BOOLEAN /\ (inputRun => inputBuf)
  /\ input \in Seq(Range(input))
  /\ inputLen = Len(Typed)

IsScreen(s) == s = [line |-> s.line, col |-> s.col, above |-> s.above]

\* What the line with the cursor has: nothing, the prompt with the typed line, or what
\* core c has printed; and blanks after it.
IsLine(s, n) == n \in Nat /\ DOMAIN s = 1 .. n /\ s = [i \in 1 .. n |-> s[i]]
Shows(s, t, n) ==
  /\ IsScreen(s) /\ IsLine(s.line, n) /\ 2 + Len(t) <= n /\ s.col = 2 + Len(t)
  /\ s.line[1] = ">" /\ s.line[2] = Space
  /\ \A i \in 1 .. Len(t) : s.line[2 + i] = t[i]
  /\ \A i \in 3 + Len(t) .. n : s.line[i] = Space
Printed(s, c, n) ==
  /\ IsScreen(s) /\ IsLine(s.line, n) /\ 2 <= n
  /\ s.line[1] = Label(c) /\ s.line[2] # Space
  /\ \A i \in 3 .. n : s.line[i] = Space
Clean == \/ IsScreen(screen) /\ screen.line = <<>> /\ screen.col = 0 /\ Typed = <<>>
         \/ \E n \in Nat : Shows(screen, Typed, n)

\* A core is in the middle of print() with the lock, and core 0 not in its handler.
PrintInv ==
  \A c \in Cpu : step[c] \in {"text", "prompt"} =>
    /\ lk[c] = "in" /\ c \in alive
    /\ todo[c] # <<>> /\ Head(todo[c]).op = "print"
    /\ c = 0 => irqAt = "no"

ScreenInv ==
  /\ (\A c \in Cpu : step[c] # "prompt") => Clean
  /\ \A c \in Cpu : step[c] = "prompt" => \E n \in Nat : Printed(screen, c, n)

ConsoleInv == InputInv /\ ScreenInv /\ LinesWhole

\* What all steps of the demo keep.
DemoInv == LockInv /\ BootInv /\ PrintInv /\ ConsoleInv

-----------------------------------------------------------------------------
(***************************************************************************)
(* Lists of operations that fit in.                                        *)
(***************************************************************************)
\* Whoever fits in is in a list of such.
LEMMA EachIs ==
  ASSUME NEW S, NEW x \in Seq(S), NEW ops, NEW k, NEW n, \A o \in S : Fit(o, ops, k, n)
  PROVE  Each(x, ops, k, n)
<1>1. x \in Seq(Range(x)) /\ Range(x) \subseteq S
  BY SeqOfRange, RangeOfSeq
<1> QED
  BY <1>1 DEF Each

\* Nothing to do.
LEMMA EachEmpty == \A ops, k, n : Each(<<>>, ops, k, n)
<1> SUFFICES ASSUME NEW ops, NEW k, NEW n PROVE Each(<<>>, ops, k, n)
  OBVIOUS
<1>1. PICK S : S = {}
  OBVIOUS
<1>2. <<>> \in Seq(S)
  BY EmptySeq
<1>3. \A o \in S : Fit(o, ops, k, n)
  BY <1>1
<1> QED
  BY ONLY <1>2, <1>3, EachIs

LEMMA EachOne ==
  ASSUME NEW o, NEW ops, NEW k, NEW n, Fit(o, ops, k, n)
  PROVE  Each(<<o>>, ops, k, n)
<1>1. PICK S : S = {o}
  OBVIOUS
<1>2. <<o>> \in Seq(S) /\ \A p \in S : Fit(p, ops, k, n)
  BY <1>1
<1> QED
  BY ONLY <1>2, EachIs

\* One list after another.
LEMMA EachJoin ==
  ASSUME NEW x, NEW y, NEW ops, NEW k, NEW n, Each(x, ops, k, n), Each(y, ops, k, n)
  PROVE  Each(x \o y, ops, k, n)
<1> DEFINE S == Range(x) \cup Range(y)
<1>1. \A o \in S : Fit(o, ops, k, n)
  BY DEF Each
<1>2. x \in Seq(S) /\ y \in Seq(S)
  BY SeqMonotonic DEF Each
<1> HIDE DEF S
<1>3. x \o y \in Seq(S)
  BY <1>2, ConcatProperties
<1> QED
  BY <1>1, <1>3, EachIs

\* What is done first, and the rest.
LEMMA EachTail ==
  ASSUME NEW x, NEW ops, NEW k, NEW n, Each(x, ops, k, n), x # <<>>
  PROVE  Fit(Head(x), ops, k, n) /\ Each(Tail(x), ops, k, n)
<1> DEFINE S == Range(x)
<1>1. x \in Seq(S) /\ \A o \in S : Fit(o, ops, k, n)
  BY DEF Each
<1> HIDE DEF S
<1>2. Head(x) \in S /\ Tail(x) \in Seq(S)
  BY <1>1, HeadTailProperties
<1> QED
  BY <1>1, <1>2, EachIs

\* As cores are counted more fits.
LEMMA EachMore ==
  ASSUME NEW x, NEW ops, NEW k \in Nat, NEW n \in Nat, k < n, Each(x, ops, k, n)
  PROVE  Each(x, ops, k + 1, n)
<1> DEFINE S == Range(x)
<1>1. x \in Seq(S) /\ \A o \in S : Fit(o, ops, k, n)
  BY DEF Each
<1> HIDE DEF S
<1>2. ASSUME NEW o \in S PROVE Fit(o, ops, k + 1, n)
  <2>1. Fit(o, ops, k, n)
    BY <1>1
  <2>2. \A i \in 0 .. n - 1 : i <= k => i <= k + 1
    OBVIOUS
  <2>3. o.op # "bootdone"
    <3>1. k # n
      OBVIOUS
    <3> QED
      BY <2>1, <3>1 DEF Fit
  <2> QED
    BY <2>1, <2>2, <2>3 DEF Fit
<1> QED
  BY <1>1, <1>2, EachIs

\* Each of a list, by its number.
LEMMA EachAt ==
  ASSUME NEW x, NEW ops, NEW k, NEW n, Each(x, ops, k, n), NEW i \in DOMAIN x
  PROVE  Fit(x[i], ops, k, n)
BY DEF Each, Range

\* What is said fits in anywhere.
LEMMA EachSay ==
  ASSUME NEW text, text # Space, NEW ops, "print" \in ops, NEW k, NEW n
  PROVE  Each(Say(text), ops, k, n)
<1>1. Fit([op |-> "print", text |-> text], ops, k, n)
  BY DEF Fit
<1> QED
  BY <1>1, EachOne DEF Say

LEMMA EachTimes ==
  ASSUME NEW text, text # Space, NEW ops, "print" \in ops, NEW k, NEW n, NEW m \in Nat
  PROVE  Each(Times(Say(text), m), ops, k, n)
<1>1. PICK o : o = [op |-> "print", text |-> text]
  OBVIOUS
<1>2. PICK S : S = {o}
  OBVIOUS
<1>3. \A p \in S : Fit(p, ops, k, n)
  BY <1>1, <1>2 DEF Fit
<1>4. PICK s : s = <<o>>
  OBVIOUS
<1>5. Len(s) = 1 /\ s[1] = o /\ Say(text) = s
  BY <1>1, <1>4 DEF Say
<1>6. m * 1 = m
  OBVIOUS
<1>7. \A i \in 1 .. m : ((i - 1) % 1) + 1 = 1
  <2>1. ASSUME NEW i \in 1 .. m PROVE ((i - 1) % 1) + 1 = 1
    <3>1. PICK j \in Nat : j = i - 1
      OBVIOUS
    <3>2. j % 1 = 0
      OBVIOUS
    <3> QED
      BY <3>1, <3>2
  <2> QED
    BY <2>1
<1>8. PICK x : x = [i \in 1 .. m |-> o]
  OBVIOUS
<1>9. Times(Say(text), m) = x
  BY <1>5, <1>6, <1>7, <1>8 DEF Times
<1>10. x \in Seq(S)
  <2>1. x \in [1 .. m -> S]
    BY <1>2, <1>8
  <2> QED
    BY ONLY m \in Nat, <2>1, SeqDef
<1> QED
  BY ONLY <1>3, <1>9, <1>10, EachIs

\* FlattenSeq, unfolded.
LEMMA FlattenIs ==
  ASSUME NEW m \in Nat, m # 0, NEW s, Len(s) = m
  PROVE  FlattenSeq(s) = (CHOOSE f : f = [i \in 1 .. m |-> IF i = 1 THEN s[i] ELSE f[i - 1] \o s[i]])[m]
BY Zenon DEF FlattenSeq

\* Four lists in one, or fewer.
LEMMA EachFlat ==
  ASSUME NEW m \in 1 .. 4, NEW s, s = [i \in 1 .. m |-> s[i]], NEW ops, NEW k, NEW n,
         \A i \in 1 .. m : Each(s[i], ops, k, n)
  PROVE  Each(FlattenSeq(s), ops, k, n)
<1>1. Len(s) = m
  <2>1. s \in [1 .. m -> Range(s)]
    BY DEF Range
  <2>2. PICK S : S = Range(s)
    OBVIOUS
  <2>3. s \in [1 .. m -> S] /\ m \in Nat
    BY <2>1, <2>2
  <2>4. s \in Seq(S) /\ DOMAIN s = 1 .. m
    BY ONLY <2>3, SeqDef
  <2> QED
    BY ONLY <2>3, <2>4, LenProperties
<1>2. PICK a, b, c, d : a = s[1] /\ b = a \o s[2] /\ c = b \o s[3] /\ d = c \o s[4]
  OBVIOUS
<1>3. PICK g : g = [i \in 1 .. m |-> IF i = 1 THEN a ELSE IF i = 2 THEN b ELSE IF i = 3 THEN c ELSE d]
  OBVIOUS
<1>4. ASSUME NEW i \in 1 .. m PROVE g[i] = IF i = 1 THEN s[i] ELSE g[i - 1] \o s[i]
  <2>1. CASE i = 1
    BY <2>1, <1>2, <1>3
  <2>2. CASE i = 2
    <3>1. 2 - 1 = 1 /\ 1 \in 1 .. m
      BY <2>2
    <3>2. g[2] = b /\ g[1] = a
      BY <2>2, <3>1, <1>3
    <3> QED
      BY ONLY <2>2, <3>1, <3>2, <1>2
  <2>3. CASE i = 3
    <3>1. 3 - 1 = 2 /\ 2 \in 1 .. m
      BY <2>3
    <3>2. g[3] = c /\ g[2] = b
      BY <2>3, <3>1, <1>3
    <3>3. c = b \o s[3]
      BY <1>2
    <3>4. g[i] = c /\ g[i - 1] = b /\ s[i] = s[3] /\ i # 1
      BY ONLY <2>3, <3>1, <3>2
    <3> QED
      BY ONLY <3>3, <3>4
  <2>4. CASE i = 4
    <3>1. 4 - 1 = 3 /\ 3 \in 1 .. m
      BY <2>4
    <3>2. g[4] = d /\ g[3] = c
      BY <2>4, <3>1, <1>3
    <3>3. d = c \o s[4]
      BY <1>2
    <3>4. g[i] = d /\ g[i - 1] = c /\ s[i] = s[4] /\ i # 1
      BY ONLY <2>4, <3>1, <3>2
    <3> QED
      BY ONLY <3>3, <3>4
  <2> QED
    BY <2>1, <2>2, <2>3, <2>4
<1>5. g = [i \in 1 .. m |-> IF i = 1 THEN s[i] ELSE g[i - 1] \o s[i]]
  BY <1>3, <1>4
<1>6. PICK f : f = CHOOSE h : h = [i \in 1 .. m |-> IF i = 1 THEN s[i] ELSE h[i - 1] \o s[i]]
  OBVIOUS
<1>7. f = [i \in 1 .. m |-> IF i = 1 THEN s[i] ELSE f[i - 1] \o s[i]]
  BY ONLY <1>5, <1>6
<1>8. FlattenSeq(s) = f[m]
  <2>1. m \in Nat /\ m # 0
    OBVIOUS
  <2> QED
    BY ONLY <2>1, <1>1, <1>6, FlattenIs
<1>9. ASSUME NEW i \in 1 .. m PROVE f[i] = IF i = 1 THEN s[i] ELSE f[i - 1] \o s[i]
  BY <1>7
<1>10. Each(f[1], ops, k, n)
  BY <1>9
<1>11. 2 <= m => Each(f[2], ops, k, n)
  <2> SUFFICES ASSUME 2 <= m PROVE Each(f[2], ops, k, n)
    OBVIOUS
  <2>2. 2 \in 1 .. m /\ 1 \in 1 .. m /\ 2 # 1 /\ 2 - 1 = 1
    OBVIOUS
  <2>3. f[2] = f[1] \o s[2]
    BY ONLY <2>2, <1>9
  <2>1. f[2] = f[1] \o s[2] /\ Each(s[2], ops, k, n)
    BY <2>2, <2>3
  <2> QED
    BY ONLY <2>1, <1>10, EachJoin
<1>12. 3 <= m => Each(f[3], ops, k, n)
  <2> SUFFICES ASSUME 3 <= m PROVE Each(f[3], ops, k, n)
    OBVIOUS
  <2>2. 3 \in 1 .. m /\ 2 \in 1 .. m /\ 3 # 1 /\ 3 - 1 = 2
    OBVIOUS
  <2>3. f[3] = f[2] \o s[3]
    BY ONLY <2>2, <1>9
  <2>1. f[3] = f[2] \o s[3] /\ Each(s[3], ops, k, n) /\ Each(f[2], ops, k, n)
    BY <2>2, <2>3, <1>11
  <2> QED
    BY ONLY <2>1, EachJoin
<1>13. 4 <= m => Each(f[4], ops, k, n)
  <2> SUFFICES ASSUME 4 <= m PROVE Each(f[4], ops, k, n)
    OBVIOUS
  <2>2. 4 \in 1 .. m /\ 3 \in 1 .. m /\ 4 # 1 /\ 4 - 1 = 3
    OBVIOUS
  <2>3. f[4] = f[3] \o s[4]
    BY ONLY <2>2, <1>9
  <2>1. f[4] = f[3] \o s[4] /\ Each(s[4], ops, k, n) /\ Each(f[3], ops, k, n)
    BY <2>2, <2>3, <1>12
  <2> QED
    BY ONLY <2>1, EachJoin
<1>14. m = 1 \/ m = 2 \/ m = 3 \/ m = 4
  OBVIOUS
<1> QED
  BY <1>8, <1>10, <1>11, <1>12, <1>13, <1>14

-----------------------------------------------------------------------------
(***************************************************************************)
(* What a line of the user makes core 0 do.                                *)
(***************************************************************************)
\* A list that is for a line of the user, who comes when all have been counted.
Told(x, n) == Each(x, LineOps, n, n)

LEMMA TellsNothing == \A n : Told(<<>>, n)
BY EachEmpty DEF Told

LEMMA TellsText ==
  ASSUME NEW text, text # Space, NEW n
  PROVE  Told(Say(text), n)
<1>1. "print" \in LineOps
  BY DEF LineOps
<1> QED
  BY <1>1, EachSay DEF Told

LEMMA TellsTexts ==
  ASSUME NEW text, text # Space, NEW n, NEW m \in Nat
  PROVE  Told(Times(Say(text), m), n)
<1>1. "print" \in LineOps
  BY DEF LineOps
<1> QED
  BY <1>1, EachTimes DEF Told

LEMMA TellsOne ==
  ASSUME NEW o, o.op \in LineOps \ {"print"}, NEW n \in Nat,
         o.op = "send" => o.to \in Cpu /\ o.msg \in Messages,
         o.op = "gfxdata" => IsVector(o)
  PROVE  Told(<<o>>, n)
<1>1. o.op \in LineOps /\ o.op # "print" /\ o.op # "bootdone"
  BY DEF LineOps
<1>2. \A i \in 0 .. n - 1 : i <= n
  OBVIOUS
<1>3. Fit(o, LineOps, n, n)
  BY <1>1, <1>2 DEF Fit
<1> QED
  BY <1>3, EachOne DEF Told

LEMMA TellsBoth ==
  ASSUME NEW x, NEW y, NEW n, Told(x, n), Told(y, n)
  PROVE  Told(x \o y, n)
BY EachJoin DEF Told

LEMMA TellsUnless ==
  ASSUME NEW x, NEW y, NEW n, Told(x, n), Told(y, n)
  PROVE  Told(Unless(x, y), n)
BY Zenon DEF Unless

LEMMA TellsRefused ==
  ASSUME NEW a, NEW kinds, NEW n
  PROVE  Told(Refused(a, kinds), n)
<1>1. \A kind, w : Complaint(kind, w) # Space
  BY Zenon DEF Complaint, Space
<1>2. Told(Say("unexpected end-of-input"), n)
  BY TellsText, Zenon DEF Space
<1>3. \A kind, w : Told(Say(Complaint(kind, w)), n)
  BY <1>1, TellsText, Zenon
<1>4. Told(<<>>, n)
  BY TellsNothing
<1> QED
  BY <1>2, <1>3, <1>4, Zenon DEF Refused

LEMMA TellsWhole ==
  ASSUME NEW a, NEW kinds, NEW n
  PROVE  Told(RefusedWhole(a, kinds), n)
<1>1. Told(Say("too many arguments"), n)
  BY TellsText, Zenon DEF Space
<1> QED
  BY <1>1, TellsRefused, Zenon DEF RefusedWhole

LEMMA TellsMask ==
  ASSUME NEW a, NEW n
  PROVE  Told(RefusedMask(a), n)
<1>1. Told(Say("bad input"), n)
  BY TellsText, Zenon DEF Space
<1>2. Told(Say("must specify at least one cpu"), n)
  BY TellsText, Zenon DEF Space
<1> QED
  BY <1>1, <1>2, TellsNothing, Zenon DEF RefusedMask

LEMMA TellsRunHalt ==
  ASSUME NEW a, NEW n \in Nat
  PROVE  Told(CmdRun(a), n) /\ Told(CmdHalt(a), n)
<1>1. Told(<<[op |-> "runread", mask |-> MaskOf(a)]>>, n)
  BY TellsOne DEF LineOps
<1>2. Told(<<[op |-> "haltread", mask |-> MaskOf(a)]>>, n)
  BY TellsOne DEF LineOps
<1>3. Told(CmdRun(a), n)
  BY <1>1, TellsMask, TellsUnless, Zenon DEF CmdRun
<1>4. Told(CmdHalt(a), n)
  BY <1>2, TellsMask, TellsUnless, Zenon DEF CmdHalt
<1> QED
  BY <1>3, <1>4

LEMMA TellsRead ==
  ASSUME NEW ptr, NEW n \in Nat
  PROVE  Told(DoRead(ptr), n)
<1>1. Told(<<[op |-> "peek", ptr |-> ptr]>>, n)
  BY TellsOne DEF LineOps
<1>2. Told(Say("p -> v"), n)
  BY TellsText, Zenon DEF Space
<1> QED
  BY <1>1, <1>2, TellsBoth, Zenon DEF DoRead

LEMMA TellsWrite ==
  ASSUME NEW ptr, NEW val, NEW n \in Nat
  PROVE  Told(DoWrite(ptr, val), n)
<1>1. Told(<<[op |-> "poke", ptr |-> ptr, val |-> val]>>, n)
  BY TellsOne DEF LineOps
<1>2. Told(Say("p <- v"), n)
  BY TellsText, Zenon DEF Space
<1> QED
  BY <1>1, <1>2, TellsBoth, Zenon DEF DoWrite

LEMMA TellsCache ==
  ASSUME NEW a, NEW n
  PROVE  Told(CmdCache(a), n)
<1>1. Told(Say("req_addr") \o Say("cacheability"), n)
  BY TellsText, TellsBoth, Zenon DEF Space
<1>2. Told(Times(Say("index, tag or line"), 5) \o Say("state") \o Say("hit or miss"), n)
  <2>1. "index, tag or line" # Space
    BY Zenon DEF Space
  <2>2. Told(Times(Say("index, tag or line"), 5), n)
    BY <2>1, TellsTexts
  <2>3. Told(Say("state"), n) /\ Told(Say("hit or miss"), n)
    BY TellsText, Zenon DEF Space
  <2> DEFINE five == Times(Say("index, tag or line"), 5)
  <2> HIDE DEF five
  <2>4. Told(five, n)
    BY <2>2 DEF five
  <2>5. Told(five \o Say("state") \o Say("hit or miss"), n)
    BY <2>3, <2>4, TellsBoth, Zenon
  <2> QED
    BY <2>5, Zenon DEF five
<1>3. "word" # Space
  BY Zenon DEF Space
<1>4. Told(Times(Say("word"), 4), n)
  BY <1>3, TellsTexts
<1>5. ASSUME NEW ptr PROVE Told(CacheDebug(ptr), n)
  <2> DEFINE x == Say("req_addr") \o Say("cacheability")
             y == Times(Say("index, tag or line"), 5) \o Say("state") \o Say("hit or miss")
             z == IF ptr < IoBase THEN y \o Times(Say("word"), 4) ELSE <<>>
  <2>1. Told(x, n) /\ Told(y, n)
    BY <1>1, <1>2, Zenon
  <2>2. CacheDebug(ptr) = x \o z
    BY Zenon DEF CacheDebug
  <2> HIDE DEF x, y
  <2>3. Told(y \o Times(Say("word"), 4), n)
    BY <1>4, <2>1, TellsBoth, Zenon
  <2>4. Told(z, n)
    BY <2>3, TellsNothing, Zenon
  <2> HIDE DEF z
  <2> QED
    BY <2>1, <2>2, <2>4, TellsBoth, Zenon
<1> QED
  BY <1>5, TellsRefused, TellsUnless, Zenon DEF CmdCache

LEMMA TellsPerf ==
  ASSUME NEW a, NEW n
  PROVE  Told(CmdPerf(a), n)
<1>1. Told(PerfClear, n)
  BY TellsText, Zenon DEF PerfClear, Space
<1>2. "counters" # Space
  BY Zenon DEF Space
<1>3. Told(Times(Say("counters"), 7), n)
  BY <1>2, TellsTexts
<1>4. Told(Say("dumping"), n)
  BY TellsText, Zenon DEF Space
<1>5. Told(PerfShow, n)
  BY <1>3, <1>4, TellsBoth DEF PerfShow
<1>6. Told(Unknown, n)
  BY TellsText, Zenon DEF Unknown, Space
<1>7. Told(CASE a[2] = "clear" -> PerfClear [] a[2] = "show" -> PerfShow [] OTHER -> Unknown, n)
  BY <1>1, <1>5, <1>6, Zenon
<1> QED
  BY <1>7, TellsWhole, TellsUnless, Zenon DEF CmdPerf

\* No complaint is empty: what is not refused has all its arguments, and each is good.
LEMMA Accepted ==
  ASSUME NEW a, NEW kinds, Refused(a, kinds) = <<>>
  PROVE  \A i \in DOMAIN kinds : Complaint(kinds[i], a[i]) = "none"
<1> DEFINE fails == {i \in DOMAIN kinds : i > Len(a) \/ Complaint(kinds[i], a[i]) # "none"}
           first == CHOOSE i \in fails : \A j \in fails : i <= j
<1>1. Refused(a, kinds) = CASE fails = {} -> <<>>
                            [] fails # {} /\ first > Len(a) -> Say("unexpected end-of-input")
                            [] OTHER -> Say(Complaint(kinds[first], a[first]))
  BY Zenon DEF Refused
<1>2. \A text : Say(text) # <<>>
  BY DEF Say
<1>3. fails = {}
  <2> HIDE DEF fails, first
  <2> QED
    BY <1>1, <1>2, Zenon
<1> QED
  BY <1>3, Zenon

LEMMA AcceptedCpu ==
  ASSUME NEW w, Complaint("cpu", w) = "none"
  PROVE  CpuOf(w) \in Cpu
<1>1. Listed(CpuWords, w)
  BY Zenon DEF Complaint
<1>2. PICK i : i = At(CpuWords, w)
  OBVIOUS
<1>3. i \in DOMAIN CpuWords
  BY <1>1, <1>2, Zenon DEF Listed, At
<1>4. DOMAIN CpuWords = 1 .. NumCpus
  BY Zenon DEF CpuWords
<1>5. NumCpus \in 1 .. 4 /\ Cpu = 0 .. NumCpus - 1
  BY SetupsAssumption
<1>6. i - 1 \in Cpu
  BY ONLY <1>3, <1>4, <1>5
<1> QED
  BY <1>2, <1>6, Zenon DEF CpuOf

LEMMA AcceptedHex ==
  ASSUME NEW w, NEW kind \in {"hex", "aligned"}, Complaint(kind, w) = "none"
  PROVE  Hex[w] \in {0} \cup Range(Hex)
<1>1. w \in DOMAIN Hex
  <2>1. kind # "cpu" /\ kind # "lane" /\ kind # "fp16"
    OBVIOUS
  <2> QED
    BY <2>1, Zenon DEF Complaint
<1> QED
  BY <1>1 DEF Range

LEMMA WholeIs ==
  ASSUME NEW a, NEW kinds, RefusedWhole(a, kinds) = <<>>
  PROVE  Refused(a, kinds) = <<>>
<1>1. \A text : Say(text) # <<>>
  BY DEF Say
<1> QED
  BY <1>1, Zenon DEF RefusedWhole

LEMMA SendsMessage ==
  ASSUME NEW ptr \in {0} \cup Range(Hex), NEW write \in 0 .. 1, NEW val \in {0} \cup Range(Hex)
  PROVE  SendWord(ptr, write, val) \in Messages
<1>1. PICK words : words = {0} \cup Range(Hex)
  OBVIOUS
<1>2. Messages = {SendWord(p, w, v) : p \in words, w \in 0 .. 1, v \in words}
  BY <1>1 DEF Messages
<1>3. ptr \in words /\ val \in words
  BY <1>1
<1> QED
  BY ONLY <1>2, <1>3, write \in 0 .. 1

LEMMA TellsRemote ==
  ASSUME NEW a, NEW n \in Nat
  PROVE  Told(CmdRemote(a), n)
<1>1. ASSUME NEW cpu \in Cpu, NEW ptr, NEW write, NEW val, SendWord(ptr, write, val) \in Messages
      PROVE  Told(RemoteSend(cpu, ptr, write, val), n)
  <2>1. PICK m \in Messages : m = SendWord(ptr, write, val)
    BY <1>1
  <2>2. Told(<<[op |-> "send", to |-> cpu, msg |-> m]>>, n)
    BY TellsOne DEF LineOps
  <2> QED
    BY <2>1, <2>2, Zenon DEF RemoteSend
<1>2. Told(Unknown, n)
  BY TellsText, Zenon DEF Unknown, Space
<1>3. Told(Say("cannot send remote cmd to bsp"), n)
  BY TellsText, Zenon DEF Space
<1> DEFINE sub == SubSeq(a, 3, Len(a))
           reads == Unless(RefusedWhole(sub, <<"aligned">>), RemoteSend(CpuOf(a[1]), Hex[sub[1]], 0, 0))
           writes == Unless(RefusedWhole(sub, <<"aligned", "hex">>),
                            RemoteSend(CpuOf(a[1]), Hex[sub[1]], 1, Hex[sub[2]]))
           ops == CASE a[2] = "read" -> reads [] a[2] = "write" -> writes [] OTHER -> Unknown
<1>4. ASSUME Refused(a, <<"cpu">>) = <<>> PROVE CpuOf(a[1]) \in Cpu
  <2>1. 1 \in DOMAIN <<"cpu">> /\ <<"cpu">>[1] = "cpu"
    OBVIOUS
  <2>2. Complaint("cpu", a[1]) = "none"
    BY <1>4, <2>1, Accepted, Zenon
  <2> QED
    BY <2>2, AcceptedCpu
<1>5. ASSUME NEW kinds, RefusedWhole(sub, kinds) = <<>> PROVE Refused(sub, kinds) = <<>>
  BY <1>5, WholeIs
<1>6. ASSUME Refused(a, <<"cpu">>) = <<>> PROVE Told(reads, n)
  <2>1. ASSUME RefusedWhole(sub, <<"aligned">>) = <<>>
        PROVE  Told(RemoteSend(CpuOf(a[1]), Hex[sub[1]], 0, 0), n)
    <3>1. Refused(sub, <<"aligned">>) = <<>>
      BY <1>5, <2>1
    <3>2. 1 \in DOMAIN <<"aligned">> /\ <<"aligned">>[1] = "aligned"
      OBVIOUS
    <3>3. Complaint("aligned", sub[1]) = "none"
      BY <3>1, <3>2, Accepted, Zenon
    <3>4. Hex[sub[1]] \in {0} \cup Range(Hex)
      BY <3>3, AcceptedHex
    <3>5. 0 \in 0 .. 1 /\ 0 \in {0} \cup Range(Hex)
      OBVIOUS
    <3>6. SendWord(Hex[sub[1]], 0, 0) \in Messages
      BY ONLY <3>4, <3>5, SendsMessage
    <3> QED
      BY <1>1, <1>4, <1>6, <3>6, Zenon
  <2> QED
    BY <2>1, TellsWhole, Zenon DEF Unless
<1>7. ASSUME Refused(a, <<"cpu">>) = <<>> PROVE Told(writes, n)
  <2>1. ASSUME RefusedWhole(sub, <<"aligned", "hex">>) = <<>>
        PROVE  Told(RemoteSend(CpuOf(a[1]), Hex[sub[1]], 1, Hex[sub[2]]), n)
    <3>1. Refused(sub, <<"aligned", "hex">>) = <<>>
      BY <1>5, <2>1
    <3>2. /\ 1 \in DOMAIN <<"aligned", "hex">> /\ <<"aligned", "hex">>[1] = "aligned"
          /\ 2 \in DOMAIN <<"aligned", "hex">> /\ <<"aligned", "hex">>[2] = "hex"
      OBVIOUS
    <3>3. Complaint("aligned", sub[1]) = "none" /\ Complaint("hex", sub[2]) = "none"
      BY <3>1, <3>2, Accepted, Zenon
    <3>4. Hex[sub[1]] \in {0} \cup Range(Hex) /\ Hex[sub[2]] \in {0} \cup Range(Hex)
      BY <3>3, AcceptedHex
    <3>5. 1 \in 0 .. 1
      OBVIOUS
    <3>6. SendWord(Hex[sub[1]], 1, Hex[sub[2]]) \in Messages
      BY ONLY <3>4, <3>5, SendsMessage
    <3> QED
      BY <1>1, <1>4, <1>7, <3>6, Zenon
  <2> QED
    BY <2>1, TellsWhole, Zenon DEF Unless
<1>8. ASSUME Refused(a, <<"cpu">>) = <<>> PROVE Told(ops, n)
  <2> HIDE DEF reads, writes
  <2> QED
    BY <1>2, <1>6, <1>7, <1>8, Zenon
<1>9. CmdRemote(a) = CASE Refused(a, <<"cpu">>) # <<>> -> Refused(a, <<"cpu">>)
                       [] Refused(a, <<"cpu">>) = <<>> /\ CpuOf(a[1]) = 0 ->
                            Say("cannot send remote cmd to bsp")
                       [] OTHER -> Unless(Refused(a, <<"cpu", "word">>), ops)
  BY Zenon DEF CmdRemote
<1> HIDE DEF ops
<1>10. ASSUME Refused(a, <<"cpu">>) = <<>> PROVE Told(Unless(Refused(a, <<"cpu", "word">>), ops), n)
  BY <1>8, <1>10, TellsRefused, TellsUnless, Zenon
<1> QED
  BY <1>3, <1>9, <1>10, TellsRefused, Zenon

LEMMA AcceptedLane ==
  ASSUME NEW w, Complaint("lane", w) = "none"
  PROVE  LaneOf(w) \in 0 .. 3
<1>1. Listed(LaneWords, w)
  BY Zenon DEF Complaint
<1>2. PICK i : i = At(LaneWords, w)
  OBVIOUS
<1>3. i \in DOMAIN LaneWords
  BY <1>1, <1>2, Zenon DEF Listed, At
<1>4. DOMAIN LaneWords = 1 .. 4
  BY DEF LaneWords
<1>5. i - 1 \in 0 .. 3
  BY ONLY <1>3, <1>4
<1> QED
  BY <1>2, <1>5, Zenon DEF LaneOf

LEMMA AcceptedVector ==
  ASSUME NEW b, Refused(b, <<"hex", "lane", "fp16", "fp16", "fp16", "fp16">>) = <<>>
  PROVE  IsVector(GfxData(b))
<1> DEFINE kinds == <<"hex", "lane", "fp16", "fp16", "fp16", "fp16">>
<1>1. /\ DOMAIN kinds = 1 .. 6 /\ kinds[1] = "hex" /\ kinds[2] = "lane"
      /\ \A i \in 3 .. 6 : kinds[i] = "fp16"
  OBVIOUS
<1>2. \A i \in DOMAIN kinds : Complaint(kinds[i], b[i]) = "none"
  BY Accepted
<1> HIDE DEF kinds
<1>3. /\ Complaint("hex", b[1]) = "none" /\ Complaint("lane", b[2]) = "none"
      /\ \A i \in 3 .. 6 : Complaint("fp16", b[i]) = "none"
  <2>1. 1 \in 1 .. 6 /\ 2 \in 1 .. 6 /\ \A i \in 3 .. 6 : i \in 1 .. 6
    OBVIOUS
  <2> QED
    BY ONLY <1>1, <1>2, <2>1, Zenon
<1>4. Hex[b[1]] \in Int
  <2>1. b[1] \in DOMAIN Hex
    BY <1>3, Zenon DEF Complaint
  <2> QED
    BY <2>1, HexAssumption
<1>5. LaneOf(b[2]) \in 0 .. 3
  BY <1>3, AcceptedLane
<1>6. \A i \in 3 .. 6 : b[i] \in DOMAIN Decimal
  BY <1>3, Zenon DEF Complaint
<1>7. (4 * Hex[b[1]] + LaneOf(b[2])) % Word \in 0 .. Word - 1
  BY ONLY <1>4, <1>5, HexAssumption
<1>8. \A i \in 0 .. 3 : 6 - i \in 3 .. 6
  OBVIOUS
<1>9. /\ GfxData(b).vec = (4 * Hex[b[1]] + LaneOf(b[2])) % Word
      /\ GfxData(b).data = [i \in 0 .. 3 |-> Half16[b[6 - i]]]
      /\ GfxData(b).words = [i \in 0 .. 3 |-> b[6 - i]]
  BY DEF GfxData
<1> QED
  BY ONLY <1>6, <1>7, <1>8, <1>9 DEF IsVector

LEMMA TellsGfx ==
  ASSUME NEW a, NEW n \in Nat
  PROVE  Told(CmdGfx(a), n)
<1>1. Told(Unknown, n)
  BY TellsText, Zenon DEF Unknown, Space
<1>2. Told(Say("unexpected end-of-input"), n)
  BY TellsText, Zenon DEF Space
<1>3. Told(Say("bad color"), n)
  BY TellsText, Zenon DEF Space
<1>4. Told(<<[op |-> "gfxswap"]>>, n) /\ Told(<<[op |-> "gfxdraw"]>>, n) /\ Told(<<[op |-> "gfxclear"]>>, n)
  BY TellsOne DEF LineOps
<1>5. \A color : Told(<<[op |-> "gfxbg", color |-> color]>>, n)
  BY TellsOne DEF LineOps
<1>6. ASSUME NEW b, IsVector(GfxData(b)) PROVE Told(<<GfxData(b)>>, n)
  <2>1. GfxData(b).op = "gfxdata"
    BY DEF GfxData
  <2> QED
    BY <1>6, <2>1, TellsOne DEF LineOps
<1> DEFINE sub == Tail(a)
           alone(ops) == Unless(RefusedWhole(sub, <<>>), ops)
           color == Hex[sub[1]]
           data == Unless(RefusedWhole(sub, <<"hex", "lane", "fp16", "fp16", "fp16", "fp16">>),
                          <<GfxData(sub)>>)
           bg == Unless(RefusedWhole(sub, <<"hex">>),
                        IF color >= Word \div 256 THEN Say("bad color") ELSE <<[op |-> "gfxbg", color |-> color]>>)
           ops == CASE a[1] = "swap"  -> alone(<<[op |-> "gfxswap"]>>)
                    [] a[1] = "draw"  -> alone(<<[op |-> "gfxdraw"]>>)
                    [] a[1] = "clear" -> alone(<<[op |-> "gfxclear"]>>)
                    [] a[1] = "data"  -> data
                    [] a[1] = "bg"    -> bg
                    [] OTHER -> Unknown
<1>7. Told(alone(<<[op |-> "gfxswap"]>>), n)
  BY <1>4, TellsWhole, TellsUnless, Zenon
<1>8. Told(alone(<<[op |-> "gfxdraw"]>>), n)
  BY <1>4, TellsWhole, TellsUnless, Zenon
<1>9. Told(alone(<<[op |-> "gfxclear"]>>), n)
  BY <1>4, TellsWhole, TellsUnless, Zenon
<1>10. Told(data, n)
  <2>1. ASSUME RefusedWhole(sub, <<"hex", "lane", "fp16", "fp16", "fp16", "fp16">>) = <<>>
        PROVE  Told(<<GfxData(sub)>>, n)
    BY <1>6, <2>1, WholeIs, AcceptedVector, Zenon
  <2> QED
    BY <2>1, TellsWhole, Zenon DEF Unless
<1>11. Told(IF color >= Word \div 256 THEN Say("bad color") ELSE <<[op |-> "gfxbg", color |-> color]>>, n)
  BY <1>3, <1>5, Zenon
<1>12. Told(bg, n)
  BY <1>11, TellsWhole, TellsUnless, Zenon
<1>13. CmdGfx(a) = IF a = <<>> THEN Say("unexpected end-of-input") ELSE ops
  BY Zenon DEF CmdGfx
<1>14. Told(ops, n)
  <2> HIDE DEF alone, data, bg
  <2> QED
    BY <1>1, <1>7, <1>8, <1>9, <1>10, <1>12, Zenon
<1> HIDE DEF ops
<1> QED
  BY <1>2, <1>13, <1>14, Zenon

LEMMA TellsCommand ==
  ASSUME NEW words, NEW n \in Nat
  PROVE  Told(Command(words), n)
<1> DEFINE a == Tail(words)
<1>1. Told(CmdRun(a), n) /\ Told(CmdHalt(a), n)
  BY TellsRunHalt
<1>2. Told(CmdRead(a), n)
  BY TellsRead, TellsWhole, TellsUnless, Zenon DEF CmdRead
<1>3. Told(CmdWrite(a), n)
  <2>1. Told(DoWrite(Hex[a[1]], Hex[a[2]]), n)
    BY TellsWrite
  <2>2. Told(RefusedWhole(a, <<"aligned", "hex">>), n)
    BY TellsWhole
  <2> QED
    BY <2>1, <2>2, TellsUnless, Zenon DEF CmdWrite
<1>4. Told(CmdCache(a), n) /\ Told(CmdPerf(a), n) /\ Told(CmdRemote(a), n) /\ Told(CmdGfx(a), n)
  BY TellsCache, TellsPerf, TellsRemote, TellsGfx
<1>5. Told(Unknown, n)
  BY TellsText, Zenon DEF Unknown, Space
<1> HIDE DEF a
<1>6. Told(CASE words[1] = "run"    -> CmdRun(a)
             [] words[1] = "halt"   -> CmdHalt(a)
             [] words[1] = "read"   -> CmdRead(a)
             [] words[1] = "write"  -> CmdWrite(a)
             [] words[1] = "cache"  -> CmdCache(a)
             [] words[1] = "perf"   -> CmdPerf(a)
             [] words[1] = "remote" -> CmdRemote(a)
             [] words[1] = "gfx"    -> CmdGfx(a)
             [] OTHER -> Unknown, n)
  BY <1>1, <1>2, <1>3, <1>4, <1>5, Zenon
<1> QED
  BY <1>6, TellsNothing, Zenon DEF Command, a

-----------------------------------------------------------------------------
(***************************************************************************)
(* What the cores do to each other in the boot, and with a message.        *)
(***************************************************************************)
\* What has nothing to do with the boot and says nothing fits in where it is allowed.
LEMMA EachDo ==
  ASSUME NEW o, NEW ops, o.op \in ops, o.op \notin {"print", "runread", "ctrl", "bootdone", "send", "gfxdata"},
         NEW k, NEW n
  PROVE  Each(<<o>>, ops, k, n)
<1>1. Fit(o, ops, k, n)
  BY DEF Fit
<1> QED
  BY <1>1, EachOne

\* run_cpus and halt_cpus, if they run no core that may not be run.
LEMMA RequestsFit ==
  ASSUME NEW mask, NEW fit, NEW verb, verb # Space, NEW already, already # Space,
         NEW run \in BOOLEAN, NEW ops, "print" \in ops, "ctrl" \in ops, NEW k, NEW n,
         run => \A i \in mask \cap (0 .. n - 1) : i <= k
  PROVE  Each(Requests(mask, fit, verb, already, run), ops, k, n)
<1> DEFINE says(i) == IF i \notin mask THEN <<>> ELSE IF i \in fit THEN Say(verb) ELSE Say(already)
           o == [op |-> "ctrl", run |-> IF run THEN mask \cap fit ELSE {},
                                halt |-> IF run THEN {} ELSE mask \cap fit]
<1>1. PICK s : s = [i \in 1 .. NumCpus |-> says(i - 1)]
  OBVIOUS
<1>2. Requests(mask, fit, verb, already, run) = FlattenSeq(s) \o <<o>>
  BY <1>1, Zenon DEF Requests
<1>3. \A i : Each(says(i), ops, k, n)
  BY EachEmpty, EachSay, Zenon
<1>4. Fit(o, ops, k, n)
  <2>1. o.op = "ctrl" /\ o.run = IF run THEN mask \cap fit ELSE {}
    OBVIOUS
  <2> HIDE DEF o
  <2> QED
    BY <2>1 DEF Fit
<1> HIDE DEF says, o
<1>5. s = [i \in 1 .. NumCpus |-> s[i]] /\ \A i \in 1 .. NumCpus : Each(s[i], ops, k, n)
  BY <1>1, <1>3
<1>6. NumCpus \in 1 .. 4
  BY SetupsAssumption
<1>7. Each(FlattenSeq(s), ops, k, n)
  BY ONLY <1>5, <1>6, EachFlat
<1>8. Each(<<o>>, ops, k, n)
  BY ONLY <1>4, EachOne
<1> QED
  BY ONLY <1>2, <1>7, <1>8, EachJoin

LEMMA RunFits ==
  ASSUME NEW mask, NEW fit, NEW ops, "print" \in ops, "ctrl" \in ops, NEW k, NEW n,
         \A i \in mask \cap (0 .. n - 1) : i <= k
  PROVE  Each(Requests(mask, fit, "run", "already running", TRUE), ops, k, n)
<1>1. PICK verb, already : verb = "run" /\ already = "already running"
  BY Zenon
<1>2. verb # Space /\ already # Space
  BY <1>1, Zenon DEF Space
<1>3. PICK run \in BOOLEAN : run
  OBVIOUS
<1>4. Each(Requests(mask, fit, verb, already, run), ops, k, n)
  BY <1>2, <1>3, RequestsFit
<1> QED
  BY <1>1, <1>3, <1>4, Zenon

LEMMA HaltFits ==
  ASSUME NEW mask, NEW fit, NEW ops, "print" \in ops, "ctrl" \in ops, NEW k, NEW n
  PROVE  Each(Requests(mask, fit, "halt", "already halted", FALSE), ops, k, n)
<1>1. PICK verb, already : verb = "halt" /\ already = "already halted"
  BY Zenon
<1>2. verb # Space /\ already # Space
  BY <1>1, Zenon DEF Space
<1>3. PICK run \in BOOLEAN : ~run
  OBVIOUS
<1>4. Each(Requests(mask, fit, verb, already, run), ops, k, n)
  BY <1>2, <1>3, RequestsFit
<1> QED
  BY <1>1, <1>3, <1>4, Zenon

\* What a core does with a message.
LEMMA ObeyedFits ==
  ASSUME NEW m, NEW k, NEW n
  PROVE  Each(Obeyed(m), OtherOps, k, n)
<1>1. \A ptr, val : Each(<<[op |-> "poke", ptr |-> ptr, val |-> val]>>, OtherOps, k, n)
  BY EachDo DEF OtherOps
<1>2. \A ptr : Each(<<[op |-> "peek", ptr |-> ptr]>>, OtherOps, k, n)
  BY EachDo DEF OtherOps
<1>3. Each(<<[op |-> "recv"]>>, OtherOps, k, n)
  BY EachDo DEF OtherOps
<1>4. "print" \in OtherOps
  BY DEF OtherOps
<1>5. Each(Say("p -> v"), OtherOps, k, n) /\ Each(Say("p <- v"), OtherOps, k, n)
  BY <1>4, EachSay, Zenon DEF Space
<1>6. \A ptr : Each(DoRead(ptr), OtherOps, k, n)
  BY <1>2, <1>5, EachJoin, Zenon DEF DoRead
<1>7. \A ptr, val : Each(DoWrite(ptr, val), OtherOps, k, n)
  BY <1>1, <1>5, EachJoin, Zenon DEF DoWrite
<1> DEFINE ptr == m.hi - (m.hi % 4)
           does == IF (m.hi \div 2) % 2 = 1 THEN DoWrite(ptr, m.lo) ELSE DoRead(ptr)
<1>8. Obeyed(m) = does \o <<[op |-> "recv"]>>
  BY Zenon DEF Obeyed
<1>9. Each(does, OtherOps, k, n)
  BY <1>6, <1>7, Zenon
<1> HIDE DEF does
<1> QED
  BY <1>3, <1>8, <1>9, EachJoin

\* A core that has been counted runs the next one, or ends the boot if it is the last.
LEMMA KickFits ==
  ASSUME NEW m \in 1 .. NumCpus, alive = 0 .. m - 1, NEW c \in 0 .. m - 1,
         NEW ops, "print" \in ops, "runread" \in ops, "bootdone" \in ops
  PROVE  Each(Kick(c), ops, c + 1, m)
<1>1. NumCpus \in 1 .. 4 /\ m \in Nat /\ c \in Nat /\ c < m /\ m <= NumCpus /\ NumCpus \in Nat
  BY SetupsAssumption
<1> DEFINE later == {i \in c + 1 .. NumCpus - 1 : i \in alive}
           first == CHOOSE i \in later : \A j \in later : i <= j
<1>2. "dead" # Space
  BY Zenon DEF Space
<1>3. \A j \in Nat : Each(Times(Say("dead"), j), ops, c + 1, m)
  BY <1>2, EachTimes
<1>4. CASE later = {}
  <2>1. c + 1 = m
    <3>1. c + 1 < m => c + 1 \in c + 1 .. NumCpus - 1 /\ c + 1 \in 0 .. m - 1
      BY <1>1
    <3>2. c + 1 < m => c + 1 \in later
      BY <3>1
    <3>3. ~(c + 1 < m)
      <4> HIDE DEF later
      <4> QED
        BY <1>4, <3>2
    <3> QED
      BY ONLY <1>1, <3>3
  <2>2. Fit([op |-> "bootdone"], ops, c + 1, m)
    BY <2>1 DEF Fit
  <2>3. Each(<<[op |-> "bootdone"]>>, ops, c + 1, m)
    BY <2>2, EachOne
  <2>4. NumCpus - 1 - c \in Nat
    BY <1>1
  <2>5. Kick(c) = Times(Say("dead"), NumCpus - 1 - c) \o <<[op |-> "bootdone"]>>
    BY <1>4, Zenon DEF Kick
  <2>6. Each(Times(Say("dead"), NumCpus - 1 - c), ops, c + 1, m)
    BY <1>3, <2>4
  <2> QED
    BY <2>3, <2>5, <2>6, EachJoin
<1>5. CASE later # {}
  <2>1. later \subseteq Nat /\ \A j \in later : c + 1 <= j /\ j < m
    BY <1>1
  <2>2. c + 1 \in later
    BY <1>1, <1>5, <2>1
  <2>3. c + 1 \in Nat
    BY <1>1
  <2>4. first = c + 1
    <3> HIDE DEF later
    <3>1. \A i \in later : (\A j \in later : i <= j) <=> i = c + 1
      BY ONLY <2>1, <2>2, <2>3
    <3>2. first \in later /\ \A j \in later : first <= j
      BY <2>2, <3>1
    <3> QED
      BY ONLY <3>1, <3>2
  <2>5. Kick(c) = Times(Say("dead"), first - c - 1) \o <<[op |-> "runread", mask |-> {first}]>>
    BY <1>5, Zenon DEF Kick
  <2> HIDE DEF first, later
  <2>6. first - c - 1 \in Nat
    BY <1>1, <2>4
  <2>7. Each(Times(Say("dead"), first - c - 1), ops, c + 1, m)
    BY <1>3, <2>6
  <2>8. Fit([op |-> "runread", mask |-> {first}], ops, c + 1, m)
    BY <2>3, <2>4 DEF Fit
  <2>9. Each(<<[op |-> "runread", mask |-> {first}]>>, ops, c + 1, m)
    BY <2>8, EachOne
  <2> QED
    BY <2>5, <2>7, <2>9, EachJoin
<1> QED
  BY <1>4, <1>5

LEMMA ResetOther ==
  ASSUME NEW m \in 1 .. NumCpus, alive = 0 .. m - 1, NEW c \in 0 .. m - 1, c # 0
  PROVE  Each(Reset(c), OtherOps, c + 1, m)
<1>1. "print" \in OtherOps /\ "runread" \in OtherOps /\ "bootdone" \in OtherOps
  BY DEF OtherOps
<1>2. Each(Say("exited reset"), OtherOps, c + 1, m)
  BY <1>1, EachSay, Zenon DEF Space
<1>3. Each(Kick(c), OtherOps, c + 1, m)
  BY <1>1, KickFits
<1>4. PICK o, p : o = [op |-> "haltread", mask |-> {c}] /\ p = [op |-> "recv"]
  OBVIOUS
<1>5. Fit(o, OtherOps, c + 1, m) /\ Fit(p, OtherOps, c + 1, m)
  BY <1>4 DEF Fit, OtherOps
<1>6. PICK S : S = {o, p}
  OBVIOUS
<1>7. Each(<<o, p>>, OtherOps, c + 1, m)
  <2>1. <<o, p>> \in Seq(S) /\ \A q \in S : Fit(q, OtherOps, c + 1, m)
    BY <1>5, <1>6
  <2> QED
    BY ONLY <2>1, EachIs
<1>8. Each(Say("exited reset") \o Kick(c), OtherOps, c + 1, m)
  BY <1>2, <1>3, EachJoin, Zenon
<1>9. Each((Say("exited reset") \o Kick(c)) \o <<o, p>>, OtherOps, c + 1, m)
  BY <1>7, <1>8, EachJoin, Zenon
<1> QED
  BY <1>4, <1>9, Zenon DEF Reset

\* Two lists, of which the first says something.
LEMMA PrintsJoin ==
  ASSUME NEW S, NEW x \in Seq(S), NEW y \in Seq(S), Prints(x) \/ Prints(y)
  PROVE  Prints(x \o y)
BY RangeConcatenation DEF Prints

\* The operations of the end of core 0's program.
LEMMA RestIs ==
  ASSUME NEW w \in 1 .. 5
  PROVE  \E S : Rest(w) \in Seq(S)
<1>1. PICK a, b, c, d, e : /\ a = [op |-> "waitboot"] /\ b = [op |-> "print", text |-> "booted"]
                           /\ c = [op |-> "clearnum"] /\ d = [op |-> "setline"] /\ e = [op |-> "poll"]
  OBVIOUS
<1>2. PICK S : S = {a, b, c, d, e}
  OBVIOUS
<1>3. /\ <<a, b, c, d, e>> \in Seq(S) /\ <<b, c, d, e>> \in Seq(S) /\ <<c, d, e>> \in Seq(S)
      /\ <<d, e>> \in Seq(S) /\ <<e>> \in Seq(S)
  BY <1>2
<1>4. /\ Rest(1) = <<a, b, c, d, e>> /\ Rest(2) = <<b, c, d, e>> /\ Rest(3) = <<c, d, e>>
      /\ Rest(4) = <<d, e>> /\ Rest(5) = <<e>>
  BY <1>1 DEF Rest
<1>5. Rest(w) \in Seq(S)
  <2>1. w = 1 \/ w = 2 \/ w = 3 \/ w = 4 \/ w = 5
    OBVIOUS
  <2> QED
    BY <1>3, <1>4, <2>1, Zenon
<1> QED
  BY <1>5

\* reset() of core 0.
LEMMA ResetFirst ==
  ASSUME NEW m \in 1 .. NumCpus, alive = 0 .. m - 1
  PROVE  \E x : Reset(0) = x \o Rest(1) /\ Each(x, FirstOps, 1, m) /\ Prints(x)
<1>1. PICK S : Rest(1) \in Seq(S)
  BY RestIs
<1>2. PICK says, said, booted : /\ says = Say("gfx: loading") /\ said = Say("exited reset")
                                /\ booted = [op |-> "print", text |-> "booted"]
  BY Zenon
<1>3. PICK a, b, c, d : /\ a = [op |-> "consoleinit"] /\ b = [op |-> "gfxinit"]
                        /\ c = [op |-> "gfxload"] /\ d = [op |-> "bspinit"]
  OBVIOUS
<1>4. "print" \in FirstOps /\ "runread" \in FirstOps /\ "bootdone" \in FirstOps
  BY DEF FirstOps
<1>5. Each(says, FirstOps, 1, m) /\ Each(said, FirstOps, 1, m)
  BY <1>2, <1>4, EachSay, Zenon DEF Space
<1>6. PICK T : T = {a, b}
  OBVIOUS
<1>7. Fit(a, FirstOps, 1, m) /\ Fit(b, FirstOps, 1, m)
  BY <1>3 DEF Fit, FirstOps
<1>8. Each(<<a, b>>, FirstOps, 1, m)
  <2>1. <<a, b>> \in Seq(T) /\ \A o \in T : Fit(o, FirstOps, 1, m)
    BY <1>6, <1>7
  <2> QED
    BY ONLY <2>1, EachIs
<1>9. Each(<<c>>, FirstOps, 1, m) /\ Each(<<d>>, FirstOps, 1, m)
  BY <1>3, EachDo DEF FirstOps
<1>10. Each(Kick(0), FirstOps, 1, m)
  <2>1. 0 \in 0 .. m - 1 /\ 0 + 1 = 1
    OBVIOUS
  <2> QED
    BY <1>4, <2>1, KickFits
<1>11. PICK x1, x2, x3, x4, x5 : /\ x1 = <<a, b>> \o says /\ x2 = x1 \o <<c>> /\ x3 = x2 \o said
                                 /\ x4 = x3 \o <<d>> /\ x5 = x4 \o Kick(0)
  BY Zenon
<1>12. /\ Each(x1, FirstOps, 1, m) /\ Each(x2, FirstOps, 1, m) /\ Each(x3, FirstOps, 1, m)
       /\ Each(x4, FirstOps, 1, m) /\ Each(x5, FirstOps, 1, m)
  BY <1>5, <1>8, <1>9, <1>10, <1>11, EachJoin, Zenon
<1>13. Prints(x5)
  <2>1. PICK U : U = Range(x4) \cup Range(x3) \cup Range(said) \cup Range(<<d>>) \cup Range(Kick(0)) \cup Range(x2)
    OBVIOUS
  <2>2. x2 \in Seq(U) /\ said \in Seq(U)
    BY <1>5, <1>12, <2>1, SeqMonotonic DEF Each
  <2>3. x3 \in Seq(U) /\ <<d>> \in Seq(U)
    BY <1>9, <1>12, <2>1, SeqMonotonic DEF Each
  <2>4. x4 \in Seq(U) /\ Kick(0) \in Seq(U)
    BY <1>10, <1>12, <2>1, SeqMonotonic DEF Each
  <2>5. \A text : Prints(Say(text))
    BY DEF Prints, Say, Range
  <2>6. Prints(said)
    BY <1>2, <2>5, Zenon
  <2>7. Prints(x3)
    BY <1>11, <2>2, <2>6, PrintsJoin
  <2>8. Prints(x4)
    BY <1>11, <2>3, <2>7, PrintsJoin
  <2> QED
    BY <1>11, <2>4, <2>8, PrintsJoin
<1>14. PICK e, f, g, h : /\ e = [op |-> "waitboot"] /\ f = [op |-> "clearnum"]
                         /\ g = [op |-> "setline"] /\ h = [op |-> "poll"]
  OBVIOUS
<1>15. Reset(0) = (((x5 \o <<e>>) \o <<booted>>) \o <<f>>) \o <<g, h>>
  BY <1>2, <1>3, <1>11, <1>14, Zenon DEF Reset, Say, ReadLine
<1>16. Rest(1) = <<e, booted, f, g, h>>
  BY <1>2, <1>14 DEF Rest
<1>17. (((x5 \o <<e>>) \o <<booted>>) \o <<f>>) \o <<g, h>> = x5 \o <<e, booted, f, g, h>>
  <2>1. PICK U : U = Range(x5) \cup {e, booted, f, g, h}
    OBVIOUS
  <2>2. x5 \in Seq(U)
    BY <1>12, <2>1, SeqMonotonic DEF Each
  <2>3. <<e>> \in Seq(U) /\ <<booted>> \in Seq(U) /\ <<f>> \in Seq(U) /\ <<g, h>> \in Seq(U)
    BY <2>1
  <2>4. <<e, booted, f, g, h>> = ((<<e>> \o <<booted>>) \o <<f>>) \o <<g, h>>
    OBVIOUS
  <2>5. /\ <<e>> \o <<booted>> \in Seq(U) /\ (<<e>> \o <<booted>>) \o <<f>> \in Seq(U)
    BY ONLY <2>3, ConcatProperties
  <2>6. (x5 \o <<e>>) \o <<booted>> = x5 \o (<<e>> \o <<booted>>)
    BY ONLY <2>2, <2>3, ConcatAssociative
  <2>7. (x5 \o (<<e>> \o <<booted>>)) \o <<f>> = x5 \o ((<<e>> \o <<booted>>) \o <<f>>)
    BY ONLY <2>2, <2>3, <2>5, ConcatAssociative
  <2>8. (x5 \o ((<<e>> \o <<booted>>) \o <<f>>)) \o <<g, h>>
        = x5 \o (((<<e>> \o <<booted>>) \o <<f>>) \o <<g, h>>)
    BY ONLY <2>2, <2>3, <2>5, ConcatAssociative
  <2> QED
    BY <2>4, <2>6, <2>7, <2>8, Zenon
<1> QED
  BY <1>12, <1>13, <1>15, <1>16, <1>17, Zenon

-----------------------------------------------------------------------------
(***************************************************************************)
(* The end of core 0's program.                                            *)
(***************************************************************************)
\* The first of two lists, if it has one, is the first of both.
LEMMA HeadOfBoth ==
  ASSUME NEW S, NEW x \in Seq(S), NEW r \in Seq(S), x # <<>>
  PROVE  /\ x \o r # <<>>
         /\ Head(x \o r) = Head(x) /\ Tail(x \o r) = Tail(x) \o r
<1>1. PICK i \in Nat, j \in Nat : i = Len(x) /\ j = Len(r)
  BY LenProperties
<1>2. i > 0
  BY <1>1, EmptySeq
<1>3. PICK y : y = x \o r
  OBVIOUS
<1>4. y \in Seq(S) /\ Len(y) = i + j /\ \A l \in 1 .. i + j : y[l] = IF l <= i THEN x[l] ELSE r[l - i]
  BY <1>1, <1>3, ConcatProperties
<1>5. y # <<>>
  BY <1>2, <1>4, EmptySeq
<1>6. y[1] = x[1]
  <2>1. 1 \in 1 .. i + j /\ 1 <= i
    BY ONLY <1>1, <1>2
  <2> QED
    BY ONLY <1>4, <2>1
<1>7. Head(y) = y[1] /\ Head(x) = x[1]
  BY <1>4, <1>5
<1>8. PICK s, t : s = Tail(y) /\ t = Tail(x)
  OBVIOUS
<1>9. s \in Seq(S) /\ Len(s) = Len(y) - 1 /\ \A l \in 1 .. Len(s) : s[l] = y[l + 1]
  BY ONLY <1>4, <1>5, <1>8, HeadTailProperties
<1>10. t \in Seq(S) /\ Len(t) = Len(x) - 1 /\ \A l \in 1 .. Len(t) : t[l] = x[l + 1]
  BY ONLY x \in Seq(S), x # <<>>, <1>8, HeadTailProperties
<1>11. PICK u : u = t \o r
  OBVIOUS
<1>12. PICK h \in Nat : h = i - 1
  BY ONLY <1>1, <1>2
<1>13. Len(t) = h /\ Len(s) = h + j
  BY ONLY <1>1, <1>2, <1>4, <1>9, <1>10, <1>12
<1>14. u \in Seq(S) /\ Len(u) = h + j /\ \A l \in 1 .. h + j : u[l] = IF l <= h THEN t[l] ELSE r[l - h]
  <2>1. t \in Seq(S) /\ r \in Seq(S) /\ Len(r) = j
    BY <1>1, <1>10
  <2> QED
    BY ONLY <2>1, <1>11, <1>13, ConcatProperties
<1>15. \A l \in 1 .. h + j : s[l] = u[l]
  <2> SUFFICES ASSUME NEW l \in 1 .. h + j PROVE s[l] = u[l]
    OBVIOUS
  <2>1. l + 1 \in 1 .. i + j /\ (l + 1 <= i <=> l <= h) /\ (l + 1) - i = l - h
    BY ONLY l \in 1 .. h + j, <1>1, <1>2, <1>12
  <2>2. s[l] = y[l + 1]
    BY ONLY l \in 1 .. h + j, <1>9, <1>13
  <2>3. y[l + 1] = IF l <= h THEN x[l + 1] ELSE r[l - h]
    BY ONLY <1>4, <2>1
  <2>4. l <= h => l \in 1 .. h
    BY ONLY l \in 1 .. h + j, <1>12, <1>1
  <2>5. l <= h => t[l] = x[l + 1]
    BY ONLY <2>4, <1>10, <1>13
  <2>6. u[l] = IF l <= h THEN t[l] ELSE r[l - h]
    BY ONLY l \in 1 .. h + j, <1>14
  <2> QED
    BY ONLY <2>2, <2>3, <2>5, <2>6
<1>16. s = u
  <2>1. Len(s) = Len(u) /\ \A l \in 1 .. Len(s) : s[l] = u[l]
    BY ONLY <1>13, <1>14, <1>15
  <2> QED
    BY ONLY <1>9, <1>14, <2>1, SeqEqual
<1> QED
  BY <1>3, <1>5, <1>6, <1>7, <1>8, <1>11, <1>16

RestOp(w) == <<"waitboot", "print", "clearnum", "setline", "poll">>[w]

\* What is first in the end of core 0's program, and what is left after it.
LEMMA RestGoes ==
  /\ \A w \in 1 .. 5 : Rest(w) # <<>> /\ Head(Rest(w)).op = RestOp(w)
  /\ \A w \in 1 .. 4 : Tail(Rest(w)) = Rest(w + 1)
  /\ Tail(Rest(5)) = <<>>
  /\ Head(Rest(2)).text # Space
<1>1. PICK a, b, c, d, e : /\ a = [op |-> "waitboot"] /\ b = [op |-> "print", text |-> "booted"]
                           /\ c = [op |-> "clearnum"] /\ d = [op |-> "setline"] /\ e = [op |-> "poll"]
  OBVIOUS
<1>2. /\ Rest(1) = <<a, b, c, d, e>> /\ Rest(2) = <<b, c, d, e>> /\ Rest(3) = <<c, d, e>>
      /\ Rest(4) = <<d, e>> /\ Rest(5) = <<e>>
  BY <1>1 DEF Rest
<1>3. /\ RestOp(1) = "waitboot" /\ RestOp(2) = "print" /\ RestOp(3) = "clearnum"
      /\ RestOp(4) = "setline" /\ RestOp(5) = "poll"
  BY DEF RestOp
<1>4. Rest(1) # <<>> /\ Head(Rest(1)) = a /\ Tail(Rest(1)) = Rest(2)
  <2>1. <<a, b, c, d, e>> # <<>> /\ Head(<<a, b, c, d, e>>) = a /\ Tail(<<a, b, c, d, e>>) = <<b, c, d, e>>
    OBVIOUS
  <2> QED
    BY <1>2, <2>1, Zenon
<1>5. Rest(2) # <<>> /\ Head(Rest(2)) = b /\ Tail(Rest(2)) = Rest(3)
  <2>1. <<b, c, d, e>> # <<>> /\ Head(<<b, c, d, e>>) = b /\ Tail(<<b, c, d, e>>) = <<c, d, e>>
    OBVIOUS
  <2> QED
    BY <1>2, <2>1, Zenon
<1>6. Rest(3) # <<>> /\ Head(Rest(3)) = c /\ Tail(Rest(3)) = Rest(4)
  <2>1. <<c, d, e>> # <<>> /\ Head(<<c, d, e>>) = c /\ Tail(<<c, d, e>>) = <<d, e>>
    OBVIOUS
  <2> QED
    BY <1>2, <2>1, Zenon
<1>7. Rest(4) # <<>> /\ Head(Rest(4)) = d /\ Tail(Rest(4)) = Rest(5)
  <2>1. <<d, e>> # <<>> /\ Head(<<d, e>>) = d /\ Tail(<<d, e>>) = <<e>>
    OBVIOUS
  <2> QED
    BY <1>2, <2>1, Zenon
<1>8. Rest(5) # <<>> /\ Head(Rest(5)) = e /\ Tail(Rest(5)) = <<>>
  <2>1. <<e>> # <<>> /\ Head(<<e>>) = e /\ Tail(<<e>>) = <<>>
    OBVIOUS
  <2> QED
    BY <1>2, <2>1, Zenon
<1>9. /\ a.op = "waitboot" /\ b.op = "print" /\ c.op = "clearnum" /\ d.op = "setline" /\ e.op = "poll"
  BY <1>1
<1>10. ASSUME NEW w \in 1 .. 5 PROVE Rest(w) # <<>> /\ Head(Rest(w)).op = RestOp(w)
  <2>1. w = 1 \/ w = 2 \/ w = 3 \/ w = 4 \/ w = 5
    OBVIOUS
  <2> QED
    BY <1>3, <1>4, <1>5, <1>6, <1>7, <1>8, <1>9, <2>1, Zenon
<1>11. ASSUME NEW w \in 1 .. 4 PROVE Tail(Rest(w)) = Rest(w + 1)
  <2>1. (w = 1 /\ w + 1 = 2) \/ (w = 2 /\ w + 1 = 3) \/ (w = 3 /\ w + 1 = 4) \/ (w = 4 /\ w + 1 = 5)
    OBVIOUS
  <2> QED
    BY <1>4, <1>5, <1>6, <1>7, <2>1, Zenon
<1>12. b.text # Space
  <2>1. b.text = "booted"
    BY <1>1
  <2> QED
    BY <2>1, Zenon DEF Space
<1> QED
  BY <1>5, <1>8, <1>10, <1>11, <1>12

\* No list has at once what is in several of these sets.
LEMMA OpsApart ==
  ASSUME NEW w \in 1 .. 5
  PROVE  /\ OpsAt(w) \in {FirstOps, LineOps, {}}
         /\ w # 1 /\ w # 4 => OpsAt(w) = {}
         /\ OpsAt(1) = FirstOps /\ OpsAt(4) = LineOps
BY DEF OpsAt

\* What core 0 does next.
LEMMA ZeroNext ==
  ASSUME NEW n, NEW k, NEW w \in 1 .. 5, NEW x, ZeroIs(n, k, w, x)
  PROVE  /\ todo[0] # <<>>
         /\ x = <<>> => /\ todo[0] = Rest(w) /\ Head(todo[0]).op = RestOp(w)
         /\ x # <<>> => /\ Head(todo[0]) = Head(x) /\ Tail(todo[0]) = Tail(x) \o Rest(w)
                        /\ Fit(Head(x), OpsAt(w), k, n) /\ Each(Tail(x), OpsAt(w), k, n)
                        /\ OpsAt(w) # {}
<1>1. PICK r : r = Rest(w)
  OBVIOUS
<1>2. r # <<>> /\ Head(r).op = RestOp(w)
  BY <1>1, RestGoes
<1>3. todo[0] = x \o r /\ Each(x, OpsAt(w), k, n)
  BY <1>1 DEF ZeroIs
<1>4. PICK S : r \in Seq(S)
  BY <1>1, RestIs
<1>5. PICK T : T = S \cup Range(x)
  OBVIOUS
<1>6. r \in Seq(T)
  BY <1>4, <1>5, SeqMonotonic
<1>7. x \in Seq(T)
  BY <1>3, <1>5, SeqMonotonic DEF Each
<1>8. CASE x = <<>>
  <2>1. x \o r = r
    BY <1>6, <1>8, ConcatEmptySeq
  <2> QED
    BY <1>1, <1>2, <1>3, <1>8, <2>1
<1>9. CASE x # <<>>
  <2>1. /\ x \o r # <<>>
        /\ Head(x \o r) = Head(x) /\ Tail(x \o r) = Tail(x) \o r
    BY ONLY <1>6, <1>7, <1>9, HeadOfBoth
  <2>2. Fit(Head(x), OpsAt(w), k, n) /\ Each(Tail(x), OpsAt(w), k, n)
    BY ONLY <1>3, <1>9, EachTail
  <2>3. OpsAt(w) # {}
    BY <2>2 DEF Fit
  <2> QED
    BY <1>1, <1>3, <1>9, <2>1, <2>2, <2>3
<1> QED
  BY <1>8, <1>9

-----------------------------------------------------------------------------
(***************************************************************************)
(* Who runs, and what stays as it was.                                     *)
(***************************************************************************)
LEMMA Numbers ==
  ASSUME NEW n, NEW k, Booting(n, k)
  PROVE  /\ n \in Nat /\ k \in Nat /\ n # 0 /\ k <= n /\ n <= NumCpus /\ NumCpus \in Nat
         /\ \A i \in 0 .. n - 1 : i \in Cpu
<1>1. NumCpus \in 1 .. 4 /\ Cpu = 0 .. NumCpus - 1
  BY SetupsAssumption
<1>2. n \in 1 .. NumCpus /\ k \in 0 .. n
  BY DEF Booting
<1>3. \A i \in 0 .. n - 1 : i \in 0 .. NumCpus - 1
  BY <1>1, <1>2
<1> QED
  BY <1>1, <1>2, <1>3

\* A core that runs anything but start.S has been counted; what it does next fits in.
LEMMA Runner ==
  ASSUME NEW n, NEW k, Booting(n, k), NEW c \in Cpu, NEW op, Next0(c, op), op # "start"
  PROVE  /\ c \in 0 .. k - 1 /\ c \in Nat /\ c < n /\ k # 0
         /\ c # 0 => /\ c \in 1 .. k - 1
                     /\ Fit(Head(todo[c]), OtherOps, k, n) /\ Each(Tail(todo[c]), OtherOps, k, n)
<1>1. n \in Nat /\ k \in Nat /\ k <= n
  BY Numbers
<1>2. c \in 0 .. n - 1 /\ Head(todo[c]).op = op /\ todo[c] # <<>>
  BY DEF Next0, Runs, Booting, Counted
<1>3. c \notin k .. n - 1
  <2>1. Head(<<[op |-> "start"]>>).op = "start"
    OBVIOUS
  <2>2. \A d \in k .. n - 1 : todo[d] = <<[op |-> "start"]>>
    BY DEF Booting, Counted
  <2> QED
    BY <1>2, <2>1, <2>2
<1>4. c \in 0 .. k - 1 /\ c \in Nat /\ c < n /\ k # 0 /\ (c # 0 => c \in 1 .. k - 1)
  BY ONLY <1>1, <1>2, <1>3
<1>5. c # 0 => Each(todo[c], OtherOps, k, n)
  BY <1>4 DEF Booting, Counted
<1>6. c # 0 => Fit(Head(todo[c]), OtherOps, k, n) /\ Each(Tail(todo[c]), OtherOps, k, n)
  BY <1>2, <1>5, EachTail
<1> QED
  BY <1>4, <1>6

\* Only the next core can be in start.S, and it gets its number.
LEMMA Starter ==
  ASSUME NEW n, NEW k, Booting(n, k), NEW c \in Cpu, Next0(c, "start")
  PROVE  c = k /\ k < n /\ bootNum = k
<1>1. n \in Nat /\ k \in Nat /\ k <= n
  BY Numbers
<1>2. c \in 0 .. n - 1 /\ Head(todo[c]).op = "start" /\ todo[c] # <<>> /\ ~stopped[c]
  BY DEF Next0, Runs, Booting, Counted
<1>3. c \notin 0 .. k - 1
  <2>1. ASSUME c \in 1 .. k - 1 PROVE FALSE
    <3>1. Each(todo[c], OtherOps, k, n)
      BY <2>1 DEF Booting, Counted
    <3>2. Fit(Head(todo[c]), OtherOps, k, n)
      BY <1>2, <3>1, EachTail
    <3> QED
      BY <1>2, <3>2 DEF Fit, OtherOps
  <2>2. ASSUME c = 0, k # 0 PROVE FALSE
    <3>1. PICK w, x : w \in 1 .. 5 /\ ZeroIs(n, k, w, x)
      BY <2>2 DEF Booting
    <3>2. /\ x = <<>> => Head(todo[0]).op = RestOp(w)
          /\ x # <<>> => Head(todo[0]) = Head(x) /\ Fit(Head(x), OpsAt(w), k, n)
      BY <3>1, ZeroNext
    <3>3. RestOp(w) # "start"
      BY <3>1 DEF RestOp
    <3>4. OpsAt(w) \in {FirstOps, LineOps, {}}
      BY <3>1, OpsApart
    <3>5. "start" \notin OpsAt(w)
      BY <3>4 DEF FirstOps, LineOps
    <3> QED
      BY <1>2, <2>2, <3>2, <3>3, <3>5 DEF Fit
  <2>3. c \in 0 .. k - 1 => (c = 0 /\ k # 0) \/ c \in 1 .. k - 1
    BY ONLY <1>1, <1>2
  <2> QED
    BY <2>1, <2>2, <2>3
<1>4. c \in k .. n - 1
  BY ONLY <1>1, <1>2, <1>3
<1>5. c = k
  BY <1>2, <1>4 DEF Booting, Counted
<1>6. k < n
  BY ONLY <1>1, <1>4, <1>5
<1>7. bootNum = k
  <2>1. CASE k = 0
    BY <2>1 DEF Booting, Counted
  <2>2. CASE k # 0
    <3>1. PICK w, x : w \in 1 .. 5 /\ ZeroIs(n, k, w, x)
      BY <2>2 DEF Booting
    <3>2. (w >= 2 => k = n) /\ (w <= 3 => bootNum = k)
      BY <3>1 DEF ZeroIs
    <3> QED
      BY ONLY <1>1, <1>6, <3>1, <3>2
  <2> QED
    BY <2>1, <2>2
<1> QED
  BY <1>5, <1>6, <1>7

\* The cores that have not been counted do not go on.
Waiting(n, k) ==
  \A d \in k .. n - 1 : /\ todo'[d] = todo[d] /\ step'[d] = step[d] /\ num'[d] = num[d]
                        /\ d # k => halt'[d] /\ stopped'[d]

LEMMA CountedStays ==
  ASSUME NEW n, NEW k, Booting(n, k), UNCHANGED <<alive, num>>, bootDone' => bootDone \/ k = n,
         \A c \in 0 .. k - 1 : step'[c] # "count",
         \A c \in 1 .. k - 1 : Each(todo'[c], OtherOps, k, n),
         Waiting(n, k),
         k = 0 => UNCHANGED <<bootNum, inputBuf, screen>>
  PROVE  Counted(n, k)'
<1>1. Counted(n, k)
  BY DEF Booting
<1>2. \A c \in k .. n - 1 :
       /\ todo'[c] = <<[op |-> "start"]>>
       /\ step'[c] \in {"go", "count"}
       /\ step'[c] = "count" => c = k /\ num'[c] = k
       /\ c # k => halt'[c] /\ stopped'[c]
  BY <1>1 DEF Counted, Waiting
<1>3. bootDone' => k = n
  BY <1>1 DEF Counted
<1>4. alive' = 0 .. n - 1 /\ \A c \in 0 .. k - 1 : num'[c] = c /\ step'[c] # "count"
  BY <1>1 DEF Counted
<1>5. k = 0 => bootNum' = 0 /\ ~inputBuf' /\ screen'.line = <<>>
  BY <1>1 DEF Counted
<1> QED
  BY <1>2, <1>3, <1>4, <1>5 DEF Counted

\* A core goes on with the first of its operations, or has something else to do.
LEMMA Stays ==
  ASSUME NEW n, NEW k, Booting(n, k), ProgramType', UNCHANGED <<alive, num, bootNum, inputBuf, todo>>,
         bootDone' => bootDone \/ k = n, bootDone => bootDone',
         \A c \in 0 .. k - 1 : step'[c] # "count",
         Waiting(n, k),
         screen'.line = <<>> => screen.line = <<>>,
         k = 0 => UNCHANGED screen
  PROVE  Booting(n, k)'
<1>1. \A c \in 1 .. k - 1 : Each(todo'[c], OtherOps, k, n)
  BY DEF Booting, Counted
<1>2. Counted(n, k)'
  BY <1>1, CountedStays
<1>3. ASSUME k # 0 PROVE \E w \in 1 .. 5 : \E x : ZeroIs(n, k, w, x)'
  <2>1. PICK w, x : w \in 1 .. 5 /\ ZeroIs(n, k, w, x)
    BY <1>3 DEF Booting
  <2>2. ZeroIs(n, k, w, x)'
    BY <2>1 DEF ZeroIs
  <2> QED
    BY <2>1, <2>2
<1>4. n \in 1 .. NumCpus /\ k \in 0 .. n
  BY DEF Booting
<1> QED
  BY <1>2, <1>3, <1>4 DEF Booting

-----------------------------------------------------------------------------
\* ops are done instead of the first of x.
LEMMA ZeroTakes ==
  ASSUME NEW n, NEW k, NEW w \in 1 .. 5, NEW x, ZeroIs(n, k, w, x), x # <<>>,
         todo = [c \in Cpu |-> todo[c]],
         NEW ops, Each(ops, OpsAt(w), k, n), todo' = [todo EXCEPT ![0] = ops \o Tail(@)],
         UNCHANGED <<bootNum, inputBuf>>, bootDone => bootDone' \/ w = 1,
         screen'.line = <<>> => screen.line = <<>> /\ Head(x).op # "print"
  PROVE  ZeroIs(n, k, w, ops \o Tail(x))'
<1>1. PICK y, r, z : y = Tail(x) /\ r = Rest(w) /\ z = ops \o y
  OBVIOUS
<1>2. Tail(todo[0]) = y \o r /\ Each(y, OpsAt(w), k, n)
  BY <1>1, ZeroNext
<1>3. Each(z, OpsAt(w), k, n)
  BY <1>1, <1>2, EachJoin
<1>4. PICK S : r \in Seq(S)
  BY <1>1, RestIs
<1>5. PICK T : T = S \cup Range(ops) \cup Range(y)
  OBVIOUS
<1>6. r \in Seq(T)
  BY <1>4, <1>5, SeqMonotonic
<1>7. ops \in Seq(T)
  BY <1>5, SeqMonotonic DEF Each
<1>8. y \in Seq(T)
  BY <1>2, <1>5, SeqMonotonic DEF Each
<1>9. ops \o (y \o r) = z \o r
  <2>1. (ops \o y) \o r = ops \o (y \o r)
    BY ONLY <1>6, <1>7, <1>8, ConcatAssociative
  <2> QED
    BY ONLY <1>1, <2>1
<1>10. todo'[0] = z \o r
  BY <1>2, <1>9, BspAssumption
<1>11. ASSUME screen'.line = <<>> PROVE w = 1 /\ Prints(z)
  <2>1. w = 1 /\ Prints(x) /\ Head(x).op # "print"
    BY <1>11 DEF ZeroIs
  <2>2. PICK o \in Range(x) : o.op = "print"
    BY <2>1 DEF Prints
  <2>3. PICK U : U = Range(x)
    OBVIOUS
  <2>4. x \in Seq(U)
    BY <2>3 DEF ZeroIs, Each
  <2>5. PICK i \in Nat : i = Len(x)
    BY <2>4, LenProperties
  <2>6. DOMAIN x = 1 .. i
    BY ONLY <2>4, <2>5, LenProperties
  <2>7. PICK j \in 1 .. i : x[j] = o
    BY <2>2, <2>6 DEF Range
  <2>8. y \in Seq(U) /\ Len(y) = i - 1 /\ \A l \in 1 .. Len(y) : y[l] = x[l + 1]
    BY ONLY <2>4, x # <<>>, <1>1, <2>5, HeadTailProperties
  <2>9. j # 1
    <3>1. Head(x) = x[1]
      BY <2>4
    <3> QED
      BY <2>1, <2>2, <2>7, <3>1
  <2>10. PICK l : l = j - 1
    OBVIOUS
  <2>11. l \in 1 .. i - 1 /\ l + 1 = j
    BY ONLY i \in Nat, j \in 1 .. i, <2>9, <2>10
  <2>12. y[l] = o
    BY ONLY <2>7, <2>8, <2>11
  <2>13. DOMAIN y = 1 .. i - 1
    BY ONLY <2>8, LenProperties
  <2>14. o \in Range(y)
    BY <2>11, <2>12, <2>13 DEF Range
  <2>15. Prints(y)
    BY <2>2, <2>14 DEF Prints
  <2>16. Prints(ops \o y)
    BY <1>7, <1>8, <2>15, PrintsJoin
  <2> QED
    BY <1>1, <2>1, <2>16
<1>12. z = ops \o Tail(x)
  BY <1>1
<1>13. w >= 2 => k = n /\ bootDone'
  <2>1. (w >= 2 => k = n /\ bootDone) /\ (w >= 2 => w # 1)
    BY DEF ZeroIs
  <2> QED
    BY <2>1
<1>14. ZeroIs(n, k, w, z)'
  BY <1>1, <1>3, <1>10, <1>11, <1>13 DEF ZeroIs
<1> QED
  BY <1>12, <1>14

\* What goes on with the boot does so for a core of each kind.
Allowed(o, ops, k, n) ==
  \A kind \in {FirstOps, LineOps, OtherOps} : Fit(o, kind, k, n) => Each(ops, kind, k, n)

\* Core 0 is done with a part of its program.
LEMMA ZeroMoves ==
  ASSUME NEW n, NEW k, NEW w \in 1 .. 4, ZeroIs(n, k, w, <<>>), k = n,
         todo = [c \in Cpu |-> todo[c]], todo' = [todo EXCEPT ![0] = <<>> \o Tail(@)],
         inputBuf' = (w = 4), bootDone', bootNum' = IF w <= 2 THEN k ELSE 0,
         screen'.line = <<>> => screen.line = <<>>
  PROVE  ZeroIs(n, k, w + 1, <<>>)'
<1>1. todo[0] = Rest(w)
  <2>1. w \in 1 .. 5
    OBVIOUS
  <2> QED
    BY ONLY ZeroIs(n, k, w, <<>>), <2>1, ZeroNext
<1>2. PICK v \in 2 .. 5 : v = w + 1
  OBVIOUS
<1>3. Tail(todo[0]) = Rest(v)
  BY <1>1, <1>2, RestGoes
<1>4. todo'[0] = <<>> \o Rest(v)
  BY <1>3, BspAssumption
<1>5. screen'.line # <<>>
  <2>1. ~Prints(<<>>)
    BY DEF Prints, Range
  <2> QED
    BY <2>1 DEF ZeroIs
<1>6. Each(<<>>, OpsAt(v), k, n)
  BY EachEmpty
<1>7. (IF v <= 3 THEN bootNum' = k ELSE bootNum' = 0) /\ inputBuf' = (v = 5)
  BY <1>2
<1>8. ZeroIs(n, k, v, <<>>)'
  BY <1>4, <1>5, <1>6, <1>7 DEF ZeroIs
<1> QED
  BY <1>2, <1>8

\* A counted core has ops to do instead of the first of its operations.
LEMMA GoesOn ==
  ASSUME NEW n, NEW k, Booting(n, k), ProgramType', NEW c \in Cpu, NEW op, Next0(c, op),
         op \notin {"start", "waitboot", "clearnum", "setline", "poll"},
         NEW ops, Allowed(Head(todo[c]), ops, k, n), todo' = [todo EXCEPT ![c] = ops \o Tail(@)],
         op = "print" => ops = <<>>,
         UNCHANGED <<alive, num, bootNum, inputBuf>>,
         bootDone' => bootDone \/ k = n, bootDone => bootDone' \/ op = "bspinit",
         \A d \in 0 .. k - 1 : step'[d] # "count",
         \A d \in k .. n - 1 : step'[d] = step[d] /\ (d # k => halt'[d] /\ stopped'[d]),
         screen'.line = <<>> => screen.line = <<>> /\ op # "print"
  PROVE  Booting(n, k)'
<1>1. n \in Nat /\ k \in Nat /\ k <= n /\ \A i \in 0 .. n - 1 : i \in Cpu
  BY ONLY Booting(n, k), Numbers
<1>2. c \in 0 .. k - 1 /\ c \in Nat /\ c < n /\ k # 0
  BY Runner
<1>3. c # 0 => c \in 1 .. k - 1 /\ Fit(Head(todo[c]), OtherOps, k, n) /\ Each(Tail(todo[c]), OtherOps, k, n)
  BY Runner
<1>4. todo = [d \in Cpu |-> todo[d]]
  BY DEF Booting, ProgramType
<1>5. todo'[c] = ops \o Tail(todo[c]) /\ \A d \in Cpu : d # c => todo'[d] = todo[d]
  BY <1>4
<1>6. ASSUME NEW d \in 1 .. k - 1 PROVE Each(todo'[d], OtherOps, k, n)
  <2>1. CASE d # c
    <3>1. d \in Cpu /\ Each(todo[d], OtherOps, k, n)
      BY <1>1 DEF Booting, Counted
    <3> QED
      BY <1>5, <2>1, <3>1
  <2>2. CASE d = c
    <3>1. Each(ops, OtherOps, k, n) /\ Each(Tail(todo[c]), OtherOps, k, n)
      BY <1>2, <1>3, <2>2 DEF Allowed
    <3>2. PICK y : y = Tail(todo[c])
      OBVIOUS
    <3>3. Each(ops \o y, OtherOps, k, n)
      BY <3>1, <3>2, EachJoin
    <3> QED
      BY <1>5, <2>2, <3>2, <3>3
  <2> QED
    BY <2>1, <2>2
<1>7. Waiting(n, k)
  <2>1. ASSUME NEW d \in k .. n - 1 PROVE todo'[d] = todo[d]
    <3>1. d \in Cpu /\ d # c
      BY ONLY <1>1, <1>2, <2>1
    <3> QED
      BY <1>5, <3>1
  <2> QED
    BY <2>1 DEF Waiting
<1>8. Counted(n, k)'
  BY <1>2, <1>6, <1>7, CountedStays
<1>9. \E w \in 1 .. 5 : \E x : ZeroIs(n, k, w, x)'
  <2>1. PICK w, x : w \in 1 .. 5 /\ ZeroIs(n, k, w, x)
    BY <1>2 DEF Booting
  <2>2. CASE c # 0
    <3>1. todo'[0] = todo[0]
      BY <1>5, <2>2, BspAssumption
    <3>2. bootDone => bootDone'
      <4>1. op \in OtherOps
        BY <1>3, <2>2 DEF Fit, Next0
      <4> QED
        BY <4>1 DEF OtherOps
    <3>3. ZeroIs(n, k, w, x)'
      BY <2>1, <3>1, <3>2 DEF ZeroIs
    <3> QED
      BY <2>1, <3>3
  <2>3. CASE c = 0 /\ x # <<>>
    <3>1. Head(todo[0]) = Head(x) /\ Fit(Head(x), OpsAt(w), k, n) /\ OpsAt(w) # {}
      BY <2>1, <2>3, ZeroNext
    <3>2. OpsAt(w) \in {FirstOps, LineOps}
      BY <2>1, <3>1, OpsApart
    <3>3. Each(ops, OpsAt(w), k, n)
      BY <2>3, <3>1, <3>2 DEF Allowed
    <3>4. Head(x).op = op
      BY <2>3, <3>1 DEF Next0
    <3>5. todo' = [todo EXCEPT ![0] = ops \o Tail(@)]
      BY <2>3
    <3>6. bootDone => bootDone' \/ w = 1
      <4>1. op \in OpsAt(w)
        BY <3>1, <3>4, <2>3 DEF Fit
      <4> QED
        BY <2>1, <4>1, OpsApart DEF LineOps
    <3>7. ZeroIs(n, k, w, ops \o Tail(x))'
      BY <1>4, <2>1, <2>3, <3>3, <3>4, <3>5, <3>6, ZeroTakes
    <3> QED
      BY <2>1, <3>7
  <2>4. CASE c = 0 /\ x = <<>>
    <3>1. RestOp(w) = op
      BY <2>1, <2>4, ZeroNext DEF Next0
    <3>2. w = 2
      BY <2>1, <3>1 DEF RestOp
    <3>3. op = "print" /\ ops = <<>>
      BY <3>1, <3>2 DEF RestOp
    <3>4. k = n /\ bootNum = k /\ inputBuf = FALSE /\ bootDone'
      <4>1. w >= 2 /\ w <= 3 /\ w # 5
        BY ONLY <3>2
      <4>2. (w >= 2 => k = n /\ bootDone) /\ (w <= 3 => bootNum = k) /\ inputBuf = (w = 5)
        BY <2>1 DEF ZeroIs
      <4>3. bootDone => bootDone'
        BY <3>3
      <4> QED
        BY ONLY <4>1, <4>2, <4>3
    <3>5. ZeroIs(n, k, 2, <<>>) /\ todo' = [todo EXCEPT ![0] = <<>> \o Tail(@)]
      BY <2>1, <2>4, <3>2, <3>3
    <3>6. ZeroIs(n, k, 2 + 1, <<>>)'
      <4>1. 2 \in 1 .. 4 /\ inputBuf' = (2 = 4) /\ bootNum' = (IF 2 <= 2 THEN k ELSE 0)
        <5>1. bootNum' = bootNum /\ inputBuf' = inputBuf
          OBVIOUS
        <5>2. 2 \in 1 .. 4 /\ 2 # 4 /\ 2 <= 2
          OBVIOUS
        <5> QED
          BY ONLY <3>4, <5>1, <5>2
      <4>2. screen'.line = <<>> => screen.line = <<>>
        OBVIOUS
      <4> QED
        BY ONLY <1>4, <3>4, <3>5, <4>1, <4>2, ZeroMoves
    <3>7. 2 + 1 \in 1 .. 5
      OBVIOUS
    <3> QED
      BY <3>6, <3>7
  <2> QED
    BY <2>2, <2>3, <2>4
<1>10. n \in 1 .. NumCpus /\ k \in 0 .. n
  BY DEF Booting
<1> QED
  BY <1>8, <1>9, <1>10 DEF Booting

-----------------------------------------------------------------------------
Kinds == {FirstOps, LineOps, OtherOps}

\* What a core does next fits in, if it is not from the end of core 0's program.
LEMMA HeadFits ==
  ASSUME NEW n, NEW k, Booting(n, k), NEW c \in Cpu, NEW op, Next0(c, op),
         op \notin {"start", "waitboot", "print", "clearnum", "setline", "poll"}
  PROVE  \E kind \in Kinds : /\ Fit(Head(todo[c]), kind, k, n)
                             /\ c # 0 => kind = OtherOps
                             /\ c = 0 => kind # OtherOps
                             /\ kind = FirstOps => ~inputBuf
<1>0. k # 0 /\ (c # 0 => Fit(Head(todo[c]), OtherOps, k, n))
  BY Runner
<1>1. FirstOps # OtherOps /\ LineOps # OtherOps /\ FirstOps # LineOps
  <2>1. "send" \in LineOps /\ "send" \notin FirstOps /\ "send" \notin OtherOps
    BY DEF LineOps, FirstOps, OtherOps
  <2>2. "gfxinit" \in FirstOps /\ "gfxinit" \notin OtherOps
    BY DEF FirstOps, OtherOps
  <2> QED
    BY ONLY <2>1, <2>2
<1>2. CASE c # 0
  BY <1>0, <1>1, <1>2 DEF Kinds
<1>3. CASE c = 0
  <2>1. PICK w, x : w \in 1 .. 5 /\ ZeroIs(n, k, w, x)
    BY <1>0 DEF Booting
  <2>2. x # <<>>
    <3>1. RestOp(w) # op
      BY <2>1 DEF RestOp
    <3>2. x = <<>> => Head(todo[0]).op = RestOp(w)
      BY <2>1, ZeroNext
    <3> QED
      BY <1>3, <3>1, <3>2 DEF Next0
  <2>3. Fit(Head(todo[0]), OpsAt(w), k, n) /\ OpsAt(w) # {}
    BY <2>1, <2>2, ZeroNext
  <2>4. OpsAt(w) \in {FirstOps, LineOps}
    BY <2>1, <2>3, OpsApart
  <2>5. OpsAt(w) = FirstOps => ~inputBuf
    <3>1. OpsAt(w) = FirstOps => w # 5
      BY <2>1, <2>3, OpsApart
    <3> QED
      BY <2>1, <3>1 DEF ZeroIs
  <2> QED
    BY <1>1, <1>3, <2>3, <2>4, <2>5 DEF Kinds
<1> QED
  BY <1>2, <1>3

\* The end of core 0's program is core 0's.
LEMMA ZeroAt ==
  ASSUME NEW n, NEW k, Booting(n, k), NEW c \in Cpu, NEW op, Next0(c, op),
         op \in {"waitboot", "clearnum", "setline", "poll"}
  PROVE  c = 0 /\ k # 0 /\ \E w \in 1 .. 5 : RestOp(w) = op /\ ZeroIs(n, k, w, <<>>)
<1>0. k # 0 /\ (c # 0 => Fit(Head(todo[c]), OtherOps, k, n))
  BY Runner
<1>1. c = 0
  <2>1. op \notin OtherOps
    BY DEF OtherOps
  <2> QED
    BY <1>0, <2>1 DEF Fit, Next0
<1>2. PICK w, x : w \in 1 .. 5 /\ ZeroIs(n, k, w, x)
  BY <1>0 DEF Booting
<1>3. x = <<>>
  <2>1. op \notin OpsAt(w)
    <3>1. OpsAt(w) \in {FirstOps, LineOps, {}}
      BY <1>2, OpsApart
    <3> QED
      BY <3>1 DEF FirstOps, LineOps
  <2>2. x # <<>> => Head(todo[0]) = Head(x) /\ Fit(Head(x), OpsAt(w), k, n)
    BY <1>2, ZeroNext
  <2> QED
    BY <1>1, <2>1, <2>2 DEF Next0, Fit
<1>4. Head(todo[0]).op = RestOp(w)
  BY <1>2, <1>3, ZeroNext
<1> QED
  BY <1>0, <1>1, <1>2, <1>3, <1>4 DEF Next0

\* Core 0 gets on with the end of its program, which has ops or nothing before it then.
LEMMA ZeroOn ==
  ASSUME NEW n, NEW k, Booting(n, k), k # 0, ProgramType', NEW v \in 1 .. 5, NEW y, ZeroIs(n, k, v, y)',
         \A d \in Cpu : d # 0 => todo'[d] = todo[d],
         UNCHANGED <<alive, num, step, bootDone, halt, stopped>>
  PROVE  Booting(n, k)'
<1>1. n \in Nat /\ k \in Nat /\ k <= n /\ \A i \in 0 .. n - 1 : i \in Cpu
  BY ONLY Booting(n, k), Numbers
<1>2. \A d \in 1 .. n - 1 : todo'[d] = todo[d]
  <2>1. \A d \in 1 .. n - 1 : d \in 0 .. n - 1 /\ d # 0
    BY ONLY <1>1
  <2> QED
    BY <1>1, <2>1
<1>3. Waiting(n, k)
  <2>1. \A d \in k .. n - 1 : d \in 1 .. n - 1
    BY ONLY <1>1, k # 0
  <2>2. \A d \in k .. n - 1 : d # k => halt[d] /\ stopped[d]
    BY DEF Booting, Counted
  <2> QED
    BY <1>2, <2>1, <2>2 DEF Waiting
<1>4. \A d \in 1 .. k - 1 : Each(todo'[d], OtherOps, k, n)
  <2>1. \A d \in 1 .. k - 1 : d \in 1 .. n - 1
    BY ONLY <1>1
  <2>2. \A d \in 1 .. k - 1 : Each(todo[d], OtherOps, k, n)
    BY DEF Booting, Counted
  <2> QED
    BY <1>2, <2>1, <2>2
<1>5. \A d \in 0 .. k - 1 : step'[d] # "count"
  BY DEF Booting, Counted
<1>6. Counted(n, k)'
  BY <1>3, <1>4, <1>5, CountedStays
<1>7. n \in 1 .. NumCpus /\ k \in 0 .. n
  BY DEF Booting
<1> QED
  BY <1>6, <1>7 DEF Booting

-----------------------------------------------------------------------------
(***************************************************************************)
(* Each step of the boot.                                                  *)
(***************************************************************************)
LEMMA StartBoots ==
  ASSUME NEW n, NEW k, Booting(n, k), NEW c \in Cpu, Start(c),
         UNCHANGED <<alive, halt, stopped, inputBuf, screen>>
  PROVE  Booting(n, k)'
<1>1. n \in Nat /\ k \in Nat /\ k <= n /\ \A i \in 0 .. n - 1 : i \in Cpu
  BY ONLY Booting(n, k), Numbers
<1>2. c = k /\ k < n /\ bootNum = k
  BY Starter DEF Start
<1>3. ProgramType' /\ UNCHANGED <<todo, bootNum, bootDone>>
  BY DEF Booting, ProgramType, Start, Goto
<1>4. num'[c] = k /\ step'[c] = "count" /\ \A d \in Cpu : d # c => num'[d] = num[d] /\ step'[d] = step[d]
  BY <1>2 DEF Booting, ProgramType, Start, Goto
<1>5. \A d \in 0 .. k - 1 : num'[d] = d /\ step'[d] # "count"
  <2>1. \A d \in 0 .. k - 1 : d \in Cpu /\ d # c
    BY ONLY <1>1, <1>2
  <2> QED
    BY <1>4, <2>1 DEF Booting, Counted
<1>6. \A d \in k .. n - 1 :
       /\ todo[d] = <<[op |-> "start"]>>
       /\ step'[d] \in {"go", "count"}
       /\ step'[d] = "count" => d = k /\ num'[d] = k
       /\ d # k => halt[d] /\ stopped[d]
  <2>1. \A d \in k .. n - 1 : d \in Cpu
    BY ONLY <1>1
  <2> QED
    BY <1>2, <1>4, <2>1 DEF Booting, Counted
<1>7. Counted(n, k)'
  BY <1>3, <1>5, <1>6 DEF Booting, Counted
<1>8. ASSUME k # 0 PROVE \E w \in 1 .. 5 : \E x : ZeroIs(n, k, w, x)'
  <2>1. PICK w, x : w \in 1 .. 5 /\ ZeroIs(n, k, w, x)
    BY <1>8 DEF Booting
  <2>2. ZeroIs(n, k, w, x)'
    BY <1>3, <2>1 DEF ZeroIs
  <2> QED
    BY <2>1, <2>2
<1>9. n \in 1 .. NumCpus /\ k \in 0 .. n
  BY DEF Booting
<1> QED
  BY <1>3, <1>7, <1>8, <1>9 DEF Booting

LEMMA CountBoots ==
  ASSUME NEW n, NEW k, Booting(n, k), NEW c \in Cpu, Count(c),
         UNCHANGED <<alive, halt, stopped, inputBuf, screen>>
  PROVE  Booting(n, k + 1)'
<1>1. n \in Nat /\ k \in Nat /\ k <= n /\ \A i \in 0 .. n - 1 : i \in Cpu
  BY ONLY Booting(n, k), Numbers
<1>2. c = k /\ k < n /\ bootNum = k
  BY Starter DEF Count
<1>3. c \in k .. n - 1 /\ c \in 0 .. n - 1
  BY ONLY <1>1, <1>2
<1>4. num[c] = k /\ todo[c] = <<[op |-> "start"]>>
  BY <1>3 DEF Booting, Counted, Count
<1>5. ProgramType' /\ bootNum' = k + 1 /\ UNCHANGED <<num, bootDone>>
  BY <1>4 DEF Booting, ProgramType, Count, Goto, Become
<1>6. PICK l \in Nat : l = k + 1
  BY ONLY <1>1
<1>7. n \in 1 .. NumCpus /\ k \in 0 .. n /\ alive = 0 .. n - 1
  BY DEF Booting, Counted
<1>8. Tail(todo[c]) = <<>>
  BY <1>4
<1>9. PICK ops : ops = Reset(k)
  OBVIOUS
<1>10. k # 0 => Each(ops, OtherOps, l, n)
  <2>1. k \in 0 .. n - 1
    BY ONLY <1>2, <1>3
  <2> QED
    BY <1>6, <1>7, <1>9, <2>1, ResetOther
<1>11. k = 0 => \E x : ops = x \o Rest(1) /\ Each(x, FirstOps, 1, n) /\ Prints(x)
  BY <1>7, <1>9, ResetFirst
<1>12. \E S : ops \in Seq(S)
  <2>1. CASE k # 0
    BY <1>10, <2>1 DEF Each
  <2>2. CASE k = 0
    <3>1. PICK x : ops = x \o Rest(1) /\ Each(x, FirstOps, 1, n)
      BY <1>11, <2>2
    <3>2. PICK S : Rest(1) \in Seq(S)
      BY RestIs
    <3>3. PICK T : T = S \cup Range(x)
      OBVIOUS
    <3>4. Rest(1) \in Seq(T)
      BY <3>2, <3>3, SeqMonotonic
    <3>5. x \in Seq(T)
      BY <3>1, <3>3, SeqMonotonic DEF Each
    <3> QED
      BY <3>1, <3>4, <3>5, ConcatProperties
  <2> QED
    BY <2>1, <2>2
<1>13. ops \o <<>> = ops
  BY <1>12, ConcatEmptySeq
<1>14. todo'[c] = ops /\ step'[c] = "go" /\ \A d \in Cpu : d # c => todo'[d] = todo[d] /\ step'[d] = step[d]
  BY <1>4, <1>8, <1>9, <1>13 DEF Booting, ProgramType, Count, Goto, Become
<1>15. ASSUME NEW d \in 0 .. l - 1 PROVE num'[d] = d /\ step'[d] # "count"
  <2>1. CASE d = c
    BY <1>2, <1>4, <1>5, <1>14, <2>1
  <2>2. CASE d # c
    <3>1. d \in 0 .. k - 1 /\ d \in Cpu
      BY ONLY <1>1, <1>2, <1>6, <2>2, d \in 0 .. l - 1
    <3> QED
      BY <1>5, <1>14, <2>2, <3>1 DEF Booting, Counted
  <2> QED
    BY <2>1, <2>2
<1>16. ASSUME NEW d \in 1 .. l - 1 PROVE Each(todo'[d], OtherOps, l, n)
  <2>1. CASE d = c
    <3>1. k # 0
      BY ONLY <1>2, <2>1, d \in 1 .. l - 1
    <3> QED
      BY <1>10, <1>14, <2>1, <3>1
  <2>2. CASE d # c
    <3>1. d \in 1 .. k - 1 /\ d \in Cpu
      BY ONLY <1>1, <1>2, <1>6, <2>2, d \in 1 .. l - 1
    <3>2. Each(todo[d], OtherOps, k, n)
      BY <3>1 DEF Booting, Counted
    <3>3. Each(todo[d], OtherOps, l, n)
      BY <1>1, <1>2, <1>6, <3>2, EachMore
    <3> QED
      BY <1>14, <2>2, <3>1, <3>3
  <2> QED
    BY <2>1, <2>2
<1>17. ASSUME NEW d \in l .. n - 1
       PROVE /\ todo'[d] = <<[op |-> "start"]>>
             /\ step'[d] \in {"go", "count"}
             /\ step'[d] = "count" => d = l /\ num'[d] = l
             /\ d # l => halt'[d] /\ stopped'[d]
  <2>1. d \in k .. n - 1 /\ d # k /\ d # c /\ d \in Cpu
    BY ONLY <1>1, <1>2, <1>6, d \in l .. n - 1
  <2>2. todo'[d] = todo[d] /\ step'[d] = step[d]
    BY <1>14, <2>1
  <2>3. halt'[d] = halt[d] /\ stopped'[d] = stopped[d]
    OBVIOUS
  <2> QED
    BY <2>1, <2>2, <2>3 DEF Booting, Counted
<1>18. ~bootDone'
  <2>1. bootDone => k = n
    BY DEF Booting, Counted
  <2> QED
    BY ONLY <1>1, <1>2, <1>5, <2>1
<1>19. l # 0
  BY ONLY <1>1, <1>6
<1>20. alive' = 0 .. n - 1
  BY <1>7
<1>21. Counted(n, l)'
  BY <1>15, <1>16, <1>17, <1>18, <1>19, <1>20 DEF Counted
<1>22. \E w \in 1 .. 5 : \E x : ZeroIs(n, l, w, x)'
  <2>1. CASE k = 0
    <3>1. PICK x : ops = x \o Rest(1) /\ Each(x, FirstOps, 1, n) /\ Prints(x)
      BY <1>11, <2>1
    <3>2. l = 1 /\ bootNum' = 1
      BY ONLY <1>5, <1>6, <2>1
    <3>3. todo'[0] = x \o Rest(1)
      BY <1>2, <1>14, <2>1, <3>1
    <3>4. inputBuf' = FALSE
      BY <2>1 DEF Booting, Counted, ProgramType
    <3>5. OpsAt(1) = FirstOps
      BY OpsApart
    <3>6. inputBuf' = (1 = 5) /\ (1 <= 3 => bootNum' = l) /\ ~(1 >= 2)
      <4>1. (1 = 5) = FALSE /\ ~(1 >= 2)
        OBVIOUS
      <4>2. bootNum' = l
        BY ONLY <3>2
      <4> QED
        BY ONLY <3>4, <4>1, <4>2, Zenon
    <3>7. ZeroIs(n, l, 1, x)'
      BY <3>1, <3>2, <3>3, <3>5, <3>6 DEF ZeroIs
    <3> QED
      BY <3>7
  <2>2. CASE k # 0
    <3>1. PICK w, x : w \in 1 .. 5 /\ ZeroIs(n, k, w, x)
      BY <2>2 DEF Booting
    <3>2. ~(w >= 2)
      <4>1. w >= 2 => k = n
        BY <3>1 DEF ZeroIs
      <4> QED
        BY ONLY <1>1, <1>2, <4>1
    <3>3. Each(x, OpsAt(w), k, n)
      BY <3>1 DEF ZeroIs
    <3>4. Each(x, OpsAt(w), l, n)
      BY <1>1, <1>2, <1>6, <3>3, EachMore
    <3>5. todo'[0] = todo[0]
      BY <1>2, <1>14, <2>2, BspAssumption
    <3>6. bootNum' = l
      BY <1>5, <1>6
    <3>7. ZeroIs(n, l, w, x)'
      BY <3>1, <3>2, <3>4, <3>5, <3>6 DEF ZeroIs
    <3> QED
      BY <3>1, <3>7
  <2> QED
    BY <2>1, <2>2
<1>23. l \in 0 .. n
  BY ONLY <1>1, <1>2, <1>6
<1>24. Booting(n, l)'
  BY <1>5, <1>7, <1>21, <1>22, <1>23 DEF Booting
<1> QED
  BY <1>6, <1>24
LEMMA BootDoneBoots ==
  ASSUME NEW n, NEW k, Booting(n, k), NEW c \in Cpu, BootDone(c),
         UNCHANGED <<alive, halt, stopped, inputBuf, screen>>
  PROVE  Booting(n, k)'
<1>1. PICK op, ops : op = "bootdone" /\ ops = <<>>
  OBVIOUS
<1>2. /\ Next0(c, op) /\ todo' = [todo EXCEPT ![c] = ops \o Tail(@)] /\ UNCHANGED <<step, bootNum, num>>
      /\ bootDone' = TRUE
  BY <1>1 DEF BootDone, Become
<1>3. PICK kind \in Kinds : Fit(Head(todo[c]), kind, k, n)
  BY <1>1, <1>2, HeadFits
<1>4. k = n
  BY <1>1, <1>2, <1>3 DEF Fit, Next0
<1>5. Allowed(Head(todo[c]), ops, k, n)
  BY <1>1, EachEmpty DEF Allowed
<1>6. ProgramType'
  BY <1>2 DEF Booting, ProgramType
<1>7. \A d \in 0 .. k - 1 : step'[d] # "count"
  BY <1>2 DEF Booting, Counted
<1>8. \A d \in k .. n - 1 : step'[d] = step[d] /\ (d # k => halt'[d] /\ stopped'[d])
  BY <1>2 DEF Booting, Counted
<1>9. op \notin {"start", "waitboot", "clearnum", "setline", "poll"} /\ op # "print"
  BY <1>1
<1>10. UNCHANGED <<alive, num, bootNum, inputBuf>> /\ screen' = screen
  BY <1>2
<1> QED
  BY ONLY Booting(n, k), c \in Cpu, <1>2, <1>4, <1>5, <1>6, <1>7, <1>8, <1>9, <1>10, GoesOn

\* Core 0 gets past a part of its program.
LEMMA EndBoots ==
  ASSUME NEW n, NEW k, Booting(n, k), NEW c \in Cpu, NEW op, Next0(c, op),
         op \in {"waitboot", "clearnum", "setline"},
         todo' = [todo EXCEPT ![c] = <<>> \o Tail(@)],
         op = "waitboot" => bootDone,
         bootNum' = IF op = "clearnum" THEN 0 ELSE bootNum,
         inputBuf' = (op = "setline"),
         UNCHANGED <<alive, num, step, bootDone, halt, stopped, screen>>
  PROVE  Booting(n, k)'
<1>1. PICK w \in 1 .. 5 : c = 0 /\ k # 0 /\ RestOp(w) = op /\ ZeroIs(n, k, w, <<>>)
  BY ZeroAt
<1>2. (w = 1 /\ op = "waitboot") \/ (w = 3 /\ op = "clearnum") \/ (w = 4 /\ op = "setline")
  <2>1. /\ RestOp(1) = "waitboot" /\ RestOp(2) = "print" /\ RestOp(3) = "clearnum"
        /\ RestOp(4) = "setline" /\ RestOp(5) = "poll"
    BY DEF RestOp
  <2>2. w = 1 \/ w = 2 \/ w = 3 \/ w = 4 \/ w = 5
    OBVIOUS
  <2>3. op # "print" /\ op # "poll"
    OBVIOUS
  <2> QED
    BY ONLY <1>1, <2>1, <2>2, <2>3
<1>3. k = n /\ bootDone'
  <2>1. bootDone => k = n
    BY DEF Booting, Counted
  <2>2. w >= 2 => k = n /\ bootDone
    BY <1>1 DEF ZeroIs
  <2>3. w = 1 \/ w >= 2
    OBVIOUS
  <2> QED
    BY <1>2, <2>1, <2>2, <2>3
<1>4. w \in 1 .. 4 /\ (w <= 2 => op = "waitboot" /\ w <= 3) /\ w + 1 \in 1 .. 5
  BY <1>2
<1>5. inputBuf' = (w = 4)
  BY <1>2
<1>6. bootNum' = IF w <= 2 THEN k ELSE 0
  <2>1. IF w <= 3 THEN bootNum = k ELSE bootNum = 0
    BY <1>1 DEF ZeroIs
  <2> QED
    BY ONLY <1>2, <2>1, bootNum' = IF op = "clearnum" THEN 0 ELSE bootNum
<1>7. todo = [d \in Cpu |-> todo[d]]
  BY DEF Booting, ProgramType
<1>8. screen'.line = <<>> => screen.line = <<>>
  OBVIOUS
<1>9. todo' = [todo EXCEPT ![0] = <<>> \o Tail(@)]
  BY <1>1
<1>10. ZeroIs(n, k, w + 1, <<>>)'
  BY ONLY <1>1, <1>3, <1>4, <1>5, <1>6, <1>7, <1>8, <1>9, ZeroMoves
<1>11. \A d \in Cpu : d # 0 => todo'[d] = todo[d]
  BY <1>7, <1>9
<1>12. ProgramType'
  BY <1>5 DEF Booting, ProgramType
<1> QED
  BY <1>1, <1>4, <1>10, <1>11, <1>12, ZeroOn

LEMMA WaitBootBoots ==
  ASSUME NEW n, NEW k, Booting(n, k), NEW c \in Cpu, WaitBoot(c),
         UNCHANGED <<alive, halt, stopped, inputBuf, screen>>
  PROVE  Booting(n, k)'
<1>1. PICK op : op = "waitboot"
  OBVIOUS
<1>2. /\ Next0(c, op) /\ todo' = [todo EXCEPT ![c] = <<>> \o Tail(@)]
      /\ UNCHANGED <<step, bootNum, bootDone, num>> /\ bootDone
  BY <1>1 DEF WaitBoot, Become, boot
<1>3. PICK w \in 1 .. 5 : RestOp(w) = op /\ ZeroIs(n, k, w, <<>>)
  BY <1>1, <1>2, ZeroAt
<1>4. inputBuf = FALSE
  <2>1. w # 5
    BY <1>1, <1>3 DEF RestOp
  <2> QED
    BY <1>3, <2>1 DEF ZeroIs
<1> QED
  BY <1>1, <1>2, <1>4, EndBoots

LEMMA ClearNumBoots ==
  ASSUME NEW n, NEW k, Booting(n, k), NEW c \in Cpu, ClearNum(c),
         UNCHANGED <<alive, halt, stopped, inputBuf, screen>>
  PROVE  Booting(n, k)'
<1>1. PICK op : op = "clearnum"
  OBVIOUS
<1>2. /\ Next0(c, op) /\ todo' = [todo EXCEPT ![c] = <<>> \o Tail(@)]
      /\ UNCHANGED <<step, bootDone, num>> /\ bootNum' = 0
  BY <1>1 DEF ClearNum, Become
<1>3. PICK w \in 1 .. 5 : RestOp(w) = op /\ ZeroIs(n, k, w, <<>>)
  BY <1>1, <1>2, ZeroAt
<1>4. inputBuf = FALSE
  <2>1. w # 5
    BY <1>1, <1>3 DEF RestOp
  <2> QED
    BY <1>3, <2>1 DEF ZeroIs
<1> QED
  BY <1>1, <1>2, <1>4, EndBoots

LEMMA SetLineBoots ==
  ASSUME NEW n, NEW k, Booting(n, k), NEW c \in Cpu, SetLine(c),
         UNCHANGED <<alive, num, bootNum, bootDone, halt, stopped>>
  PROVE  Booting(n, k)'
<1>1. PICK op : op = "setline"
  OBVIOUS
<1>2. /\ Next0(c, op) /\ todo' = [todo EXCEPT ![c] = <<>> \o Tail(@)]
      /\ UNCHANGED <<step, screen>> /\ inputBuf' = TRUE
  BY <1>1 DEF SetLine, Holds, Become
<1> QED
  BY <1>1, <1>2, EndBoots

\* A line has been typed, and core 0 does what it says and reads the next.
LEMMA PollBoots ==
  ASSUME NEW n, NEW k, Booting(n, k), NEW c \in Cpu, Poll(c, Command(input) \o ReadLine),
         UNCHANGED <<alive, num, bootNum, bootDone, halt, stopped>>
  PROVE  Booting(n, k)'
<1>1. PICK op : op = "poll"
  OBVIOUS
<1>2. PICK x : x = Command(input)
  OBVIOUS
<1>3. /\ Next0(c, op) /\ todo' = [todo EXCEPT ![c] = (x \o ReadLine) \o Tail(@)]
      /\ UNCHANGED <<step, screen>> /\ inputBuf' = FALSE
  BY <1>1, <1>2 DEF Poll, Holds, Become
<1>4. PICK w \in 1 .. 5 : c = 0 /\ k # 0 /\ RestOp(w) = op /\ ZeroIs(n, k, w, <<>>)
  BY <1>1, <1>3, ZeroAt
<1>5. w = 5
  BY <1>1, <1>4 DEF RestOp
<1>6. k = n /\ bootDone /\ bootNum = 0
  <2>1. w >= 2 /\ ~(w <= 3)
    BY <1>5
  <2> QED
    BY <1>4, <2>1 DEF ZeroIs
<1>7. ReadLine = Rest(4)
  BY DEF ReadLine, Rest
<1>8. n \in Nat
  BY Numbers
<1>9. Each(x, OpsAt(4), k, n)
  BY <1>2, <1>6, <1>8, TellsCommand, OpsApart DEF Told
<1>10. Tail(todo[0]) = <<>>
  BY <1>4, <1>5, ZeroNext, RestGoes
<1>11. (x \o ReadLine) \o <<>> = x \o Rest(4)
  <2>1. PICK S : Rest(4) \in Seq(S)
    BY RestIs
  <2>2. PICK T : T = S \cup Range(x)
    OBVIOUS
  <2>3. Rest(4) \in Seq(T)
    BY <2>1, <2>2, SeqMonotonic
  <2>4. x \in Seq(T)
    BY <1>9, <2>2, SeqMonotonic DEF Each
  <2>5. x \o Rest(4) \in Seq(T)
    BY ONLY <2>3, <2>4, ConcatProperties
  <2> QED
    BY ONLY <1>7, <2>5, ConcatEmptySeq
<1>12. todo = [d \in Cpu |-> todo[d]]
  BY DEF Booting, ProgramType
<1>13. todo'[0] = x \o Rest(4) /\ \A d \in Cpu : d # 0 => todo'[d] = todo[d]
  BY <1>3, <1>4, <1>10, <1>11, <1>12, BspAssumption
<1>14. screen'.line # <<>>
  <2>1. ~Prints(<<>>)
    BY DEF Prints, Range
  <2> QED
    BY <1>3, <1>4, <2>1 DEF ZeroIs
<1>15. inputBuf' = (4 = 5) /\ ~(4 <= 3)
  <2>1. (4 = 5) = FALSE /\ ~(4 <= 3)
    OBVIOUS
  <2> QED
    BY ONLY <1>3, <2>1, Zenon
<1>16. ZeroIs(n, k, 4, x)'
  BY <1>6, <1>9, <1>13, <1>14, <1>15 DEF ZeroIs
<1>17. ProgramType'
  BY <1>3 DEF Booting, ProgramType
<1>18. 4 \in 1 .. 5
  OBVIOUS
<1> QED
  BY <1>3, <1>4, <1>13, <1>16, <1>17, <1>18, ZeroOn

-----------------------------------------------------------------------------
(***************************************************************************)
(* Operations that do not have to do with the boot.                        *)
(***************************************************************************)
\* An operation that is done at once.
LEMMA DoesOne ==
  ASSUME NEW n, NEW k, Booting(n, k), NEW c \in Cpu, NEW op, Next0(c, op),
         op \notin {"start", "waitboot", "print", "clearnum", "setline", "poll"},
         NEW ops, Allowed(Head(todo[c]), ops, k, n), todo' = [todo EXCEPT ![c] = ops \o Tail(@)],
         UNCHANGED <<alive, num, step, bootNum, inputBuf, screen, stopped>>, bootDone' => bootDone,
         bootDone => bootDone' \/ op = "bspinit",
         halt' \in [Cpu -> BOOLEAN], \A d \in k .. n - 1 : d # k => halt'[d]
  PROVE  Booting(n, k)'
<1>1. ProgramType'
  BY DEF Booting, ProgramType
<1>2. \A d \in 0 .. k - 1 : step'[d] # "count"
  BY DEF Booting, Counted
<1>3. \A d \in k .. n - 1 : step'[d] = step[d] /\ (d # k => halt'[d] /\ stopped'[d])
  BY DEF Booting, Counted
<1>4. op \notin {"start", "waitboot", "clearnum", "setline", "poll"} /\ op # "print"
  OBVIOUS
<1>5. UNCHANGED <<alive, num, bootNum, inputBuf>> /\ screen' = screen
  OBVIOUS
<1>6. (bootDone' => bootDone \/ k = n) /\ (bootDone => bootDone' \/ op = "bspinit")
  OBVIOUS
<1>7. Next0(c, op) /\ Allowed(Head(todo[c]), ops, k, n) /\ todo' = [todo EXCEPT ![c] = ops \o Tail(@)]
  OBVIOUS
<1> QED
  BY ONLY Booting(n, k), c \in Cpu, <1>1, <1>2, <1>3, <1>4, <1>5, <1>6, <1>7, GoesOn

LEMMA AllowsNothing == \A o, k, n : Allowed(o, <<>>, k, n)
BY EachEmpty DEF Allowed

LEMMA AllKinds == \A kind \in Kinds : {"print", "ctrl"} \subseteq kind
BY DEF Kinds, FirstOps, LineOps, OtherOps

LEMMA HaltStays ==
  ASSUME NEW n, NEW k, Booting(n, k)
  PROVE  halt \in [Cpu -> BOOLEAN] /\ \A d \in k .. n - 1 : d # k => halt[d] /\ stopped[d]
BY DEF Booting, ProgramType, Counted

LEMMA SmpBoots ==
  ASSUME NEW n, NEW k, Booting(n, k), NEW c \in Cpu, SmpStep(c), UNCHANGED alive
  PROVE  Booting(n, k)'
<1>1. UNCHANGED <<alive, num, step, bootNum, bootDone, inputBuf, screen, stopped>>
  BY DEF SmpStep, boot, consoleVars
<1>2. CASE RunRead(c)
  <2>1. PICK op, o, ops : /\ op = "runread" /\ o = Head(todo[c])
                          /\ ops = Requests(o.mask, Status, "run", "already running", TRUE)
    BY Zenon
  <2>2. Next0(c, op) /\ todo' = [todo EXCEPT ![c] = ops \o Tail(@)] /\ halt' = halt
    BY <1>2, <2>1, Zenon DEF RunRead, Become
  <2>3. o.op = "runread"
    BY <2>1, <2>2 DEF Next0
  <2>4. ASSUME NEW kind \in Kinds, Fit(o, kind, k, n) PROVE Each(ops, kind, k, n)
    <3>1. \A i \in o.mask \cap (0 .. n - 1) : i <= k
      BY <2>3, <2>4 DEF Fit
    <3>2. "print" \in kind /\ "ctrl" \in kind
      BY AllKinds
    <3>3. Each(Requests(o.mask, Status, "run", "already running", TRUE), kind, k, n)
      BY <3>1, <3>2, RunFits, Zenon
    <3> QED
      BY <2>1, <3>3, Zenon
  <2>5. Allowed(Head(todo[c]), ops, k, n)
    BY <2>1, <2>4, Zenon DEF Allowed, Kinds
  <2>6. op \notin {"start", "waitboot", "print", "clearnum", "setline", "poll"}
    BY <2>1, Zenon
  <2>7. halt' \in [Cpu -> BOOLEAN] /\ \A d \in k .. n - 1 : d # k => halt'[d]
    BY <2>2, HaltStays
  <2> QED
    BY ONLY Booting(n, k), c \in Cpu, <1>1, <2>2, <2>5, <2>6, <2>7, DoesOne
<1>3. CASE HaltRead(c)
  <2>1. PICK op, o, ops : /\ op = "haltread" /\ o = Head(todo[c])
                          /\ ops = Requests(o.mask, (0 .. NumCpus - 1) \ Status, "halt", "already halted", FALSE)
    BY Zenon
  <2>2. Next0(c, op) /\ todo' = [todo EXCEPT ![c] = ops \o Tail(@)] /\ halt' = halt
    BY <1>3, <2>1, Zenon DEF HaltRead, Become
  <2>3. ASSUME NEW kind \in Kinds PROVE Each(ops, kind, k, n)
    <3>1. "print" \in kind /\ "ctrl" \in kind
      BY AllKinds
    <3>2. Each(Requests(o.mask, (0 .. NumCpus - 1) \ Status, "halt", "already halted", FALSE), kind, k, n)
      BY <3>1, HaltFits, Zenon
    <3> QED
      BY <2>1, <3>2, Zenon
  <2>4. Allowed(Head(todo[c]), ops, k, n)
    BY <2>3, Zenon DEF Allowed, Kinds
  <2>5. op \notin {"start", "waitboot", "print", "clearnum", "setline", "poll"}
    BY <2>1, Zenon
  <2>6. halt' \in [Cpu -> BOOLEAN] /\ \A d \in k .. n - 1 : d # k => halt'[d]
    BY <2>2, HaltStays
  <2> QED
    BY ONLY Booting(n, k), c \in Cpu, <1>1, <2>2, <2>4, <2>5, <2>6, DoesOne
<1>4. CASE Ctrl(c)
  <2>1. PICK op, o, ops : op = "ctrl" /\ o = Head(todo[c]) /\ ops = <<>>
    OBVIOUS
  <2>2. /\ Next0(c, op) /\ todo' = [todo EXCEPT ![c] = ops \o Tail(@)]
        /\ halt' = [i \in Cpu |-> (halt[i] \/ i \in o.halt) /\ i \notin o.run]
    BY <1>4, <2>1 DEF Ctrl, Become
  <2>3. op \notin {"start", "waitboot", "print", "clearnum", "setline", "poll"}
    BY <2>1
  <2>4. PICK kind \in Kinds : Fit(o, kind, k, n)
    BY <2>1, <2>2, <2>3, HeadFits
  <2>5. \A i \in o.run \cap (0 .. n - 1) : i <= k
    BY <2>1, <2>2, <2>4 DEF Fit, Next0
  <2>6. n \in Nat /\ k \in Nat /\ \A i \in 0 .. n - 1 : i \in Cpu
    BY Numbers
  <2>7. ASSUME NEW d \in k .. n - 1, d # k PROVE halt'[d]
    <3>1. d \in 0 .. n - 1 /\ ~(d <= k)
      BY ONLY <2>6, d \in k .. n - 1, d # k
    <3>2. d \notin o.run /\ d \in Cpu
      BY <2>5, <2>6, <3>1
    <3>3. halt[d]
      BY <2>7, HaltStays
    <3> QED
      BY <2>2, <3>2, <3>3
  <2>8. halt' \in [Cpu -> BOOLEAN]
    BY <2>2
  <2>9. Allowed(Head(todo[c]), ops, k, n)
    BY <2>1, AllowsNothing
  <2> QED
    BY ONLY Booting(n, k), c \in Cpu, <1>1, <2>2, <2>3, <2>7, <2>8, <2>9, DoesOne
<1> QED
  BY <1>2, <1>3, <1>4 DEF SmpStep

LEMMA ObeyBoots ==
  ASSUME NEW n, NEW k, Booting(n, k), NEW c \in Cpu, Obey(c), UNCHANGED alive
  PROVE  Booting(n, k)'
<1>1. UNCHANGED <<alive, num, bootNum, bootDone, inputBuf, screen, todo, step, halt>>
  BY DEF Obey, program, boot, consoleVars
<1>2. stopped' = [stopped EXCEPT ![c] = halt[c]]
  BY DEF Obey
<1>3. halt \in [Cpu -> BOOLEAN] /\ stopped \in [Cpu -> BOOLEAN]
  BY DEF Booting, ProgramType
<1>4. ProgramType'
  BY <1>1, <1>2, <1>3 DEF Booting, ProgramType
<1>5. n \in Nat /\ k \in Nat /\ \A i \in 0 .. n - 1 : i \in Cpu
  BY Numbers
<1>6. ASSUME NEW d \in k .. n - 1, d # k PROVE stopped'[d]
  <2>1. d \in Cpu
    BY <1>5
  <2>2. halt[d] /\ stopped[d]
    BY <1>6, HaltStays
  <2> QED
    BY <1>2, <1>3, <2>1, <2>2
<1>7. Waiting(n, k)
  BY <1>1, <1>6, HaltStays DEF Waiting
<1>8. \A d \in 0 .. k - 1 : step'[d] # "count"
  BY <1>1 DEF Booting, Counted
<1> QED
  BY ONLY Booting(n, k), <1>1, <1>4, <1>7, <1>8, Stays

\* The exchange of a message.
LEMMA MailBoots ==
  ASSUME NEW n, NEW k, Booting(n, k), NEW c \in Cpu, MailStep(c), UNCHANGED alive
  PROVE  Booting(n, k)'
<1>1. UNCHANGED <<alive, num, bootNum, bootDone, inputBuf, screen, halt, stopped>>
  BY DEF MailStep, boot, consoleVars
<1>2. PICK op \in {"send", "recv"} : Next0(c, op)
  BY DEF MailStep, Mailing
<1>3. n \in Nat /\ k \in Nat /\ k <= n /\ \A i \in 0 .. n - 1 : i \in Cpu
  BY ONLY Booting(n, k), Numbers
<1>4. c \in 0 .. k - 1 /\ k # 0
  BY <1>2, Runner
<1>5. step = [d \in Cpu |-> step[d]] /\ todo = [d \in Cpu |-> todo[d]]
  BY DEF Booting, ProgramType
<1>6. ASSUME NEW s, s # "count", step' = [step EXCEPT ![c] = s]
      PROVE  /\ \A d \in 0 .. k - 1 : step'[d] # "count"
             /\ \A d \in k .. n - 1 : step'[d] = step[d]
  <2>1. \A d \in 0 .. k - 1 : d \in Cpu
    BY ONLY <1>3
  <2>2. \A d \in k .. n - 1 : d \in Cpu /\ d # c
    BY ONLY <1>3, <1>4
  <2>3. \A d \in 0 .. k - 1 : step[d] # "count"
    BY DEF Booting, Counted
  <2>4. \A d \in Cpu : step'[d] = IF d = c THEN s ELSE step[d]
    BY <1>5, <1>6
  <2> QED
    BY <1>6, <2>1, <2>2, <2>3, <2>4
<1>7. ASSUME NEW s, s # "count", step' = [step EXCEPT ![c] = s], todo' = todo PROVE Booting(n, k)'
  <2>1. /\ \A d \in 0 .. k - 1 : step'[d] # "count"
        /\ \A d \in k .. n - 1 : step'[d] = step[d]
    BY <1>6, <1>7
  <2>2. Waiting(n, k)
    BY <1>1, <1>7, <2>1, HaltStays DEF Waiting
  <2>3. ProgramType'
    BY <1>1, <1>7 DEF Booting, ProgramType
  <2>4. UNCHANGED <<alive, num, bootNum, inputBuf, todo>> /\ bootDone' = bootDone /\ screen' = screen
    BY <1>1, <1>7
  <2> QED
    BY ONLY Booting(n, k), <2>1, <2>2, <2>3, <2>4, Stays
<1>8. ASSUME NEW ops, Allowed(Head(todo[c]), ops, k, n), todo' = [todo EXCEPT ![c] = ops \o Tail(@)],
             NEW s, s # "count", step' = [step EXCEPT ![c] = s]
      PROVE  Booting(n, k)'
  <2>1. /\ \A d \in 0 .. k - 1 : step'[d] # "count"
        /\ \A d \in k .. n - 1 : step'[d] = step[d] /\ (d # k => halt'[d] /\ stopped'[d])
    BY <1>1, <1>6, <1>8, HaltStays
  <2>2. ProgramType'
    BY <1>1, <1>8 DEF Booting, ProgramType
  <2>3. UNCHANGED <<alive, num, bootNum, inputBuf>> /\ bootDone' = bootDone /\ screen' = screen
    BY <1>1
  <2>4. op \notin {"start", "waitboot", "clearnum", "setline", "poll"} /\ op # "print" /\ Next0(c, op)
    BY <1>2
  <2>5. Allowed(Head(todo[c]), ops, k, n) /\ todo' = [todo EXCEPT ![c] = ops \o Tail(@)]
    BY <1>8
  <2> QED
    BY ONLY Booting(n, k), c \in Cpu, <2>1, <2>2, <2>3, <2>4, <2>5, GoesOn
<1>9. ASSUME NEW off \in {"lo", "hi"}, ReadCurrent(c, off) PROVE Booting(n, k)'
  <2>1. PICK s : s = IF off = "lo" THEN "current" ELSE "ldlo"
    OBVIOUS
  <2>2. s # "count" /\ step' = [step EXCEPT ![c] = s] /\ todo' = todo
    BY <1>9, <2>1 DEF ReadCurrent, Goto
  <2> QED
    BY <1>7, <2>2
<1>10. ASSUME NEW off \in {"lo", "hi"}, LdrexBox(c, off) PROVE Booting(n, k)'
  <2>1. \E s \in {"ldhi", "stlo", "ldlo"} : step' = [step EXCEPT ![c] = s]
    BY <1>10, Zenon DEF LdrexBox, Goto
  <2>2. PICK s : s # "count" /\ step' = [step EXCEPT ![c] = s]
    BY <2>1
  <2>3. todo' = todo
    BY <1>10 DEF LdrexBox
  <2> QED
    BY <1>7, <2>2, <2>3
<1>11. ASSUME StrexLo(c) PROVE Booting(n, k)'
  <2>1. PICK s : s = "sthi"
    OBVIOUS
  <2>2. s # "count" /\ step' = [step EXCEPT ![c] = s] /\ todo' = todo
    BY <1>11, <2>1 DEF StrexLo, Goto
  <2> QED
    BY <1>7, <2>2
<1>12. ASSUME StrexHi(c) PROVE Booting(n, k)'
  <2> DEFINE old == cas[c].old
             sends == Head(todo[c]).op = "send"
             taken == ~sends /\ old # NoMessage
  <2>1. \/ /\ todo' = [todo EXCEPT ![c] = (IF taken THEN Obeyed(old) ELSE <<>>) \o Tail(@)]
           /\ step' = [step EXCEPT ![c] = "go"]
        \/ todo' = todo /\ step' = [step EXCEPT ![c] = "ldlo"]
    BY <1>12, Zenon DEF StrexHi, Goto, Become
  <2>2. PICK s, r : s = "go" /\ r = "ldlo"
    OBVIOUS
  <2>3. s # "count" /\ r # "count"
    BY <2>2
  <2>4. PICK ops : ops = IF taken THEN Obeyed(old) ELSE <<>>
    OBVIOUS
  <2>5. ASSUME NEW kind \in Kinds, Fit(Head(todo[c]), kind, k, n) PROVE Each(ops, kind, k, n)
    <3>1. CASE taken
      <4>1. Head(todo[c]).op = "recv"
        BY <1>2, <3>1 DEF Next0
      <4>2. "recv" \notin FirstOps /\ "recv" \notin LineOps
        BY DEF FirstOps, LineOps
      <4>3. kind = OtherOps
        BY <2>5, <4>1, <4>2 DEF Fit, Kinds
      <4>4. Each(Obeyed(old), OtherOps, k, n)
        BY ObeyedFits
      <4> QED
        BY <2>4, <3>1, <4>3, <4>4
    <3>2. CASE ~taken
      BY <2>4, <3>2, EachEmpty
    <3> QED
      BY <3>1, <3>2
  <2>6. Allowed(Head(todo[c]), ops, k, n)
    BY <2>5 DEF Allowed, Kinds
  <2> HIDE DEF taken, old, sends
  <2>7. CASE todo' = [todo EXCEPT ![c] = ops \o Tail(@)] /\ step' = [step EXCEPT ![c] = s]
    BY <1>8, <2>3, <2>6, <2>7
  <2>8. CASE todo' = todo /\ step' = [step EXCEPT ![c] = r]
    BY <1>7, <2>3, <2>8
  <2> QED
    BY <2>1, <2>2, <2>4, <2>7, <2>8
<1> QED
  BY <1>9, <1>10, <1>11, <1>12 DEF MailStep

-----------------------------------------------------------------------------
LEMMA BspInitBoots ==
  ASSUME NEW n, NEW k, Booting(n, k), NEW c \in Cpu, BspInit(c), UNCHANGED alive
  PROVE  Booting(n, k)'
<1>1. PICK op, ops : op = "bspinit" /\ ops = <<>>
  OBVIOUS
<1>2. /\ Next0(c, op) /\ todo' = [todo EXCEPT ![c] = ops \o Tail(@)] /\ bootDone' = FALSE
      /\ UNCHANGED <<alive, num, step, bootNum, inputBuf, screen, stopped, halt>>
  BY <1>1 DEF BspInit, Become, consoleVars
<1>3. op \notin {"start", "waitboot", "print", "clearnum", "setline", "poll"} /\ Allowed(Head(todo[c]), ops, k, n)
  BY <1>1, AllowsNothing
<1>4. /\ halt' \in [Cpu -> BOOLEAN] /\ (\A d \in k .. n - 1 : d # k => halt'[d])
      /\ (bootDone' => bootDone) /\ op = "bspinit"
  BY <1>1, <1>2, HaltStays
<1> QED
  BY ONLY Booting(n, k), c \in Cpu, <1>2, <1>3, <1>4, DoesOne

LEMMA MemBoots ==
  ASSUME NEW n, NEW k, Booting(n, k), NEW c \in Cpu, MemStep(c), UNCHANGED alive
  PROVE  Booting(n, k)'
<1>1. PICK op \in {"peek", "poke"} : Next0(c, op)
  BY DEF MemStep
<1>2. PICK ops : ops = <<>>
  OBVIOUS
<1>3. /\ Next0(c, op) /\ todo' = [todo EXCEPT ![c] = ops \o Tail(@)]
      /\ UNCHANGED <<alive, num, step, bootNum, inputBuf, screen, stopped, halt>>
      /\ bootDone' = bootDone
  BY <1>1, <1>2 DEF MemStep, Become, consoleVars, boot
<1>4. op \notin {"start", "waitboot", "print", "clearnum", "setline", "poll"} /\ Allowed(Head(todo[c]), ops, k, n)
  BY <1>1, <1>2, AllowsNothing
<1>5. /\ halt' \in [Cpu -> BOOLEAN] /\ (\A d \in k .. n - 1 : d # k => halt'[d])
      /\ (bootDone' => bootDone) /\ (bootDone => bootDone' \/ op = "bspinit")
  BY <1>3, HaltStays
<1> QED
  BY ONLY Booting(n, k), c \in Cpu, <1>3, <1>4, <1>5, DoesOne

LEMMA GfxBoots ==
  ASSUME NEW n, NEW k, Booting(n, k), NEW c \in Cpu, GfxStep(c), UNCHANGED alive
  PROVE  Booting(n, k)'
<1>1. PICK op \in {"gfxinit", "gfxload", "gfxclear", "gfxswap", "gfxbg", "gfxdraw", "gfxdata"} : Next0(c, op)
  BY DEF GfxStep
<1>2. PICK ops : ops = <<>>
  OBVIOUS
<1>3. /\ Next0(c, op) /\ todo' = [todo EXCEPT ![c] = ops \o Tail(@)]
      /\ UNCHANGED <<alive, num, step, bootNum, inputBuf, screen, stopped, halt>>
      /\ bootDone' = bootDone
  BY <1>1, <1>2 DEF GfxStep, Become, consoleVars, boot
<1>4. op \notin {"start", "waitboot", "print", "clearnum", "setline", "poll"} /\ Allowed(Head(todo[c]), ops, k, n)
  BY <1>1, <1>2, AllowsNothing
<1>5. /\ halt' \in [Cpu -> BOOLEAN] /\ (\A d \in k .. n - 1 : d # k => halt'[d])
      /\ (bootDone' => bootDone) /\ (bootDone => bootDone' \/ op = "bspinit")
  BY <1>3, HaltStays
<1> QED
  BY ONLY Booting(n, k), c \in Cpu, <1>3, <1>4, <1>5, DoesOne

\* console_init, which core 0 does before it reads lines.
LEMMA ConsoleInitBoots ==
  ASSUME NEW n, NEW k, Booting(n, k), NEW c \in Cpu, ConsoleInit(c),
         UNCHANGED <<alive, num, bootNum, bootDone, halt, stopped>>
  PROVE  Booting(n, k)' /\ ~inputBuf
<1>1. PICK op, ops : op = "consoleinit" /\ ops = <<>>
  OBVIOUS
<1>2. /\ Next0(c, op) /\ todo' = [todo EXCEPT ![c] = ops \o Tail(@)]
      /\ UNCHANGED <<step, screen>> /\ inputBuf' = FALSE
  BY <1>1 DEF ConsoleInit, Become
<1>3. op \notin {"start", "waitboot", "print", "clearnum", "setline", "poll"} /\ Allowed(Head(todo[c]), ops, k, n)
  BY <1>1, AllowsNothing
<1>4. PICK kind \in Kinds : Fit(Head(todo[c]), kind, k, n) /\ (kind = FirstOps => ~inputBuf)
  BY <1>2, <1>3, HeadFits
<1>5. ~inputBuf
  <2>1. op \notin LineOps /\ op \notin OtherOps
    BY <1>1 DEF LineOps, OtherOps
  <2>2. op \in kind
    BY <1>2, <1>4 DEF Fit, Next0
  <2> QED
    BY <1>4, <2>1, <2>2 DEF Kinds
<1>6. inputBuf' = inputBuf
  BY <1>2, <1>5 DEF Booting, ProgramType
<1>7. halt' \in [Cpu -> BOOLEAN] /\ (\A d \in k .. n - 1 : d # k => halt'[d])
  BY HaltStays
<1>8. UNCHANGED <<alive, num, step, bootNum, inputBuf, screen, stopped>> /\ bootDone' = bootDone
  BY <1>2, <1>6
<1>9. Booting(n, k)'
  BY ONLY Booting(n, k), c \in Cpu, <1>2, <1>3, <1>7, <1>8, DoesOne
<1> QED
  BY <1>5, <1>9

\* print().
LEMMA PrintBoots ==
  ASSUME NEW n, NEW k, Booting(n, k), NEW c \in Cpu,
         PrintWait(c) \/ PrintText(c) \/ PrintPrompt(c), screen' = screen \/ screen'.line # <<>>,
         PrintPrompt(c) => screen'.line # <<>>,
         UNCHANGED <<alive, num, bootNum, bootDone, halt, stopped>>
  PROVE  Booting(n, k)'
<1>1. PICK op : op = "print"
  OBVIOUS
<1>2. Next0(c, op) /\ UNCHANGED inputBuf
  BY <1>1 DEF PrintWait, PrintText, PrintPrompt, Holds, line, consoleVars
<1>3. n \in Nat /\ k \in Nat /\ k <= n /\ \A i \in 0 .. n - 1 : i \in Cpu
  BY ONLY Booting(n, k), Numbers
<1>4. c \in 0 .. k - 1 /\ k # 0
  BY <1>1, <1>2, Runner
<1>5. PICK s \in {"text", "prompt", "go"} : step' = [step EXCEPT ![c] = s]
  BY DEF PrintWait, PrintText, PrintPrompt, Goto
<1>6. /\ \A d \in 0 .. k - 1 : step'[d] # "count"
      /\ \A d \in k .. n - 1 : step'[d] = step[d]
  <2>1. \A d \in 0 .. k - 1 : d \in Cpu
    BY ONLY <1>3
  <2>2. \A d \in k .. n - 1 : d \in Cpu /\ d # c
    BY ONLY <1>3, <1>4
  <2>3. \A d \in 0 .. k - 1 : step[d] # "count"
    BY DEF Booting, Counted
  <2>4. \A d \in Cpu : step'[d] = IF d = c THEN s ELSE step[d]
    BY <1>5 DEF Booting, ProgramType
  <2>5. s # "count"
    BY <1>5
  <2> QED
    BY ONLY <2>1, <2>2, <2>3, <2>4, <2>5
<1>7. CASE PrintPrompt(c)
  <2>1. PICK ops : ops = <<>>
    OBVIOUS
  <2>2. todo' = [todo EXCEPT ![c] = ops \o Tail(@)]
    BY <1>7, <2>1 DEF PrintPrompt, Become
  <2>3. ProgramType'
    BY <1>2, <1>5, <2>2 DEF Booting, ProgramType
  <2>4. \A d \in k .. n - 1 : step'[d] = step[d] /\ (d # k => halt'[d] /\ stopped'[d])
    BY <1>6, HaltStays
  <2>5. Allowed(Head(todo[c]), ops, k, n) /\ (op = "print" => ops = <<>>)
    BY <2>1, AllowsNothing
  <2>6. op \notin {"start", "waitboot", "clearnum", "setline", "poll"}
    BY <1>1
  <2>7. UNCHANGED <<alive, num, bootNum, inputBuf>> /\ bootDone' = bootDone
    BY <1>2
  <2>8. screen'.line = <<>> => screen.line = <<>> /\ op # "print"
    BY <1>7
  <2> QED
    BY ONLY Booting(n, k), c \in Cpu, <1>2, <1>6, <2>2, <2>3, <2>4, <2>5, <2>6, <2>7, <2>8, GoesOn
<1>8. CASE PrintWait(c) \/ PrintText(c)
  <2>1. todo' = todo
    BY <1>8 DEF PrintWait, PrintText
  <2>2. Waiting(n, k)
    BY <1>6, <2>1, HaltStays DEF Waiting
  <2>3. ProgramType'
    BY <1>2, <1>5, <2>1 DEF Booting, ProgramType
  <2>4. UNCHANGED <<alive, num, bootNum, inputBuf, todo>> /\ bootDone' = bootDone
    BY <1>2, <2>1
  <2>5. (screen'.line = <<>> => screen.line = <<>>) /\ (k = 0 => UNCHANGED screen)
    BY <1>4
  <2> QED
    BY ONLY Booting(n, k), <1>6, <2>2, <2>3, <2>4, <2>5, Stays
<1> QED
  BY <1>7, <1>8

\* The lock, the handler and the user.
LEMMA OthersBoot ==
  ASSUME NEW n, NEW k, Booting(n, k), screen' = screen \/ (inputBuf /\ screen'.line # <<>>),
         UNCHANGED <<alive, num, step, todo, bootNum, bootDone, inputBuf, halt, stopped>>
  PROVE  Booting(n, k)'
<1>1. ProgramType'
  BY DEF Booting, ProgramType
<1>2. Waiting(n, k)
  BY HaltStays DEF Waiting
<1>3. \A d \in 0 .. k - 1 : step'[d] # "count"
  BY DEF Booting, Counted
<1>4. screen'.line = <<>> => screen.line = <<>>
  OBVIOUS
<1>5. k = 0 => UNCHANGED screen
  BY DEF Booting, Counted
<1>6. UNCHANGED <<alive, num, bootNum, inputBuf, todo>> /\ bootDone' = bootDone
  OBVIOUS
<1> QED
  BY ONLY Booting(n, k), <1>1, <1>2, <1>3, <1>4, <1>5, <1>6, Stays

LEMMA KeyKeeps == \A key : Key(key) => UNCHANGED inputBuf /\ (screen' = screen \/ inputBuf)
<1> SUFFICES ASSUME NEW key, Key(key) PROVE UNCHANGED inputBuf /\ (screen' = screen \/ inputBuf)
  OBVIOUS
<1>1. CASE inputRun \/ ~inputBuf
  BY <1>1, Zenon DEF Key, line
<1>2. CASE ~inputRun /\ inputBuf /\ key = "del"
  BY <1>2, Zenon DEF Key
<1>3. CASE ~inputRun /\ inputBuf /\ key = "nl"
  BY <1>3, Zenon DEF Key
<1>4. CASE ~inputRun /\ inputBuf /\ key # "del" /\ key # "nl"
  BY <1>4, Zenon DEF Key
<1> QED
  BY <1>1, <1>2, <1>3, <1>4

\* What is on the screen stays there, or is replaced.
Lit == /\ screen' = screen \/ screen'.line # <<>>
       /\ \A c \in Cpu : PrintPrompt(c) => screen'.line # <<>>

LEMMA BootStays ==
  ASSUME BootInv, [Next]_vars, Lit
  PROVE  BootInv'
<1>1. PICK n, k : Booting(n, k)
  BY DEF BootInv
<1>2. SUFFICES Booting(n, k)' \/ Booting(n, k + 1)'
  BY DEF BootInv
<1>3. screen' = screen \/ screen'.line # <<>>
  BY DEF Lit
<1>4. ASSUME NEW c \in Cpu, Program(c) PROVE Booting(n, k)' \/ Booting(n, k + 1)'
  <2>1. UNCHANGED alive
    BY <1>4 DEF Program, user
  <2>2. CASE BootStep(c)
    <3>1. UNCHANGED <<alive, halt, stopped, inputBuf, screen>>
      BY <2>1, <2>2 DEF BootStep, consoleVars
    <3>2. Start(c) \/ Count(c) \/ BootDone(c) \/ WaitBoot(c) \/ ClearNum(c)
      BY <2>2 DEF BootStep
    <3> QED
      BY <1>1, <3>1, <3>2, StartBoots, CountBoots, BootDoneBoots, WaitBootBoots, ClearNumBoots
  <2>3. CASE SmpStep(c)
    BY <1>1, <2>1, <2>3, SmpBoots
  <2>4. CASE MailStep(c)
    BY <1>1, <2>1, <2>4, MailBoots
  <2>5. CASE BspInit(c) \/ MemStep(c) \/ GfxStep(c)
    BY <1>1, <2>1, <2>5, BspInitBoots, MemBoots, GfxBoots
  <2>6. CASE Talk(c)
    <3>1. UNCHANGED <<alive, num, bootNum, bootDone, halt, stopped>>
      BY <2>1, <2>6 DEF Talk, boot
    <3>2. ConsoleStep(c, Command(input) \o ReadLine)
      BY <2>6 DEF Talk
    <3>3. CASE ConsoleInit(c)
      BY <1>1, <3>1, <3>3, ConsoleInitBoots
    <3>4. CASE LockStep(c) \/ PollAgain(c)
      <4>1. UNCHANGED <<step, todo, inputBuf, screen>>
        BY <3>4 DEF LockStep, PollAgain, consoleVars
      <4> QED
        BY <1>1, <3>1, <4>1, OthersBoot
    <3>5. CASE PrintWait(c) \/ PrintText(c) \/ PrintPrompt(c)
      BY <1>1, <1>3, <3>1, <3>5, PrintBoots DEF Lit
    <3>6. CASE SetLine(c)
      BY <1>1, <3>1, <3>6, SetLineBoots
    <3>7. CASE Poll(c, Command(input) \o ReadLine)
      BY <1>1, <3>1, <3>7, PollBoots
    <3> QED
      BY <3>2, <3>3, <3>4, <3>5, <3>6, <3>7 DEF ConsoleStep
  <2> QED
    BY <1>4, <2>2, <2>3, <2>4, <2>5, <2>6 DEF Program
<1>5. ASSUME NEW c \in Cpu, Obey(c), UNCHANGED user PROVE Booting(n, k)'
  BY <1>1, <1>5, ObeyBoots DEF user
<1>6. CASE Handler
  <2>1. UNCHANGED <<alive, num, bootNum, bootDone, halt, stopped>>
    BY <1>6 DEF Handler, user, boot
  <2>2. UNCHANGED <<step, todo, inputBuf>> /\ (screen' = screen \/ inputBuf)
    <3>1. CASE Irq \/ IrqLock
      BY <3>1 DEF Irq, IrqLock, consoleVars
    <3>2. CASE IrqKey
      <4>1. UNCHANGED <<screen, inputBuf>> \/ \E key : Key(key)
        BY <3>2, Zenon DEF IrqKey, line
      <4>2. UNCHANGED <<step, todo>>
        BY <3>2 DEF IrqKey
      <4> QED
        BY <4>1, <4>2, KeyKeeps
    <3> QED
      BY <1>6, <3>1, <3>2 DEF Handler, IrqStep
  <2> QED
    BY <1>1, <1>3, <2>1, <2>2, OthersBoot
<1>7. CASE Tick \/ UNCHANGED vars
  <2>1. UNCHANGED <<alive, num, step, todo, bootNum, bootDone, inputBuf, halt, stopped, screen>>
    BY <1>7 DEF Tick, vars, user, program, boot, consoleVars, line
  <2> QED
    BY <1>1, <2>1, OthersBoot
<1> QED
  BY <1>4, <1>5, <1>6, <1>7 DEF Next

-----------------------------------------------------------------------------
(***************************************************************************)
(* What print_str does to a line.                                          *)
(***************************************************************************)
LEMMA LineLen ==
  ASSUME NEW l, NEW n, IsLine(l, n)
  PROVE  Len(l) = n /\ n \in Nat /\ DOMAIN l = 1 .. n
<1>1. n \in Nat /\ DOMAIN l = 1 .. n /\ l = [i \in 1 .. n |-> l[i]]
  BY DEF IsLine
<1>2. PICK S : S = Range(l)
  OBVIOUS
<1>3. l \in [1 .. n -> S]
  BY <1>1, <1>2 DEF Range
<1>4. l \in Seq(S)
  BY ONLY <1>1, <1>3, SeqDef
<1> QED
  BY ONLY <1>1, <1>4, LenProperties

LEMMA EmptyLine == IsLine(<<>>, 0)
BY DEF IsLine

\* A line in which `cells' have been put behind the first col places.
Overwritten(new, old, col, cells, end, size) ==
  /\ IsLine(new, size)
  /\ \A i \in 1 .. size : new[i] = IF col < i /\ i <= end THEN cells[i - col] ELSE old[i]

\* m cells fit in behind the first col of n places; the cursor is at end then, and the
\* line has size places.
FitIn(s, cells, col, n, m, end, size) ==
  /\ IsScreen(s) /\ IsLine(s.line, n) /\ s.col = col /\ Len(cells) = m
  /\ end = col + m /\ size = IF end > n THEN end ELSE n

Puts(p, s, cells, col, end, size) ==
  /\ IsScreen(p) /\ p.col = end /\ p.above = s.above
  /\ Overwritten(p.line, s.line, col, cells, end, size)

LEMMA PutIs ==
  ASSUME NEW s, NEW cells, NEW col \in Nat, NEW n \in Nat, NEW m \in Nat, NEW end \in Nat, NEW size \in Nat,
         FitIn(s, cells, col, n, m, end, size)
  PROVE  Puts(Put(s, cells), s, cells, col, end, size)
<1>1. PICK new : new = [i \in 1 .. size |-> IF col < i /\ i <= end THEN cells[i - col] ELSE s.line[i]]
  OBVIOUS
<1>2. Len(s.line) = n
  BY LineLen DEF FitIn
<1>3. Put(s, cells) = [s EXCEPT !.col = end, !.line = new]
  BY <1>1, <1>2 DEF Put, FitIn
<1>4. s = [line |-> s.line, col |-> s.col, above |-> s.above]
  BY DEF IsScreen, FitIn
<1>5. PICK r : r = Put(s, cells)
  OBVIOUS
<1>6. r = [line |-> new, col |-> end, above |-> s.above]
  BY <1>3, <1>4, <1>5
<1>7. r.line = new /\ r.col = end /\ r.above = s.above
  BY <1>6
<1>8. IsScreen(r)
  BY <1>6, <1>7 DEF IsScreen
<1>9. IsLine(new, size)
  BY <1>1 DEF IsLine
<1>10. \A i \in 1 .. size : new[i] = IF col < i /\ i <= end THEN cells[i - col] ELSE s.line[i]
  BY <1>1
<1> QED
  BY <1>5, <1>7, <1>8, <1>9, <1>10 DEF Overwritten, Puts

LEMMA ReturnIs ==
  ASSUME NEW s, IsScreen(s)
  PROVE  IsScreen(Return(s)) /\ Return(s).line = s.line /\ Return(s).col = 0 /\ Return(s).above = s.above
BY DEF Return, IsScreen

LEMMA NewLineIs ==
  ASSUME NEW s
  PROVE  /\ IsScreen(NewLine(s)) /\ NewLine(s).line = <<>> /\ NewLine(s).col = 0
         /\ NewLine(s).above = Visible(s.line)
BY DEF NewLine, IsScreen

LEMMA BlanksAre ==
  ASSUME NEW n \in Nat
  PROVE  Len(Blanks(n)) = n /\ \A i \in 1 .. n : Blanks(n)[i] = Space
<1>1. IsLine(Blanks(n), n)
  BY DEF IsLine, Blanks
<1> QED
  BY <1>1, LineLen DEF Blanks

LEMMA TwoCells ==
  ASSUME NEW a, NEW b
  PROVE  Len(<<a, b>>) = 2 /\ <<a, b>>[1] = a /\ <<a, b>>[2] = b
OBVIOUS

-----------------------------------------------------------------------------
\* A line that is nothing but m blanks and what was blank behind them.
Blank(s, n) == IsScreen(s) /\ IsLine(s.line, n) /\ 2 <= n /\ \A i \in 1 .. n : s.line[i] = Space

\* The prompt and what has been typed are blanked.
LEMMA Erases ==
  ASSUME NEW s, IsScreen(s), NEW n \in Nat, IsLine(s.line, n), NEW m \in Nat,
         \A i \in 3 + m .. n : s.line[i] = Space
  PROVE  \E size \in Nat : /\ Blank(Put(Return(s), Blanks(2 + m)), size)
                           /\ Put(Return(s), Blanks(2 + m)).above = s.above
<1>1. PICK end \in Nat : end = 2 + m
  OBVIOUS
<1>2. PICK size \in Nat : size = IF end > n THEN end ELSE n
  OBVIOUS
<1>3. PICK r, cells : r = Return(s) /\ cells = Blanks(end)
  OBVIOUS
<1>4. IsScreen(r) /\ r.line = s.line /\ r.col = 0 /\ r.above = s.above
  BY <1>3, ReturnIs
<1>5. Len(cells) = end /\ \A i \in 1 .. end : cells[i] = Space
  BY <1>1, <1>3, BlanksAre
<1>6. FitIn(r, cells, 0, n, end, end, size)
  BY <1>1, <1>2, <1>4, <1>5 DEF FitIn
<1>7. PICK p : p = Put(r, cells)
  OBVIOUS
<1>8. IsScreen(p) /\ p.above = r.above /\ Overwritten(p.line, r.line, 0, cells, end, size)
  BY <1>6, <1>7, PutIs DEF Puts
<1>9. ASSUME NEW i \in 1 .. size PROVE p.line[i] = Space
  <2>1. p.line[i] = IF 0 < i /\ i <= end THEN cells[i - 0] ELSE r.line[i]
    BY <1>8 DEF Overwritten
  <2>2. CASE i <= end
    <3>1. i \in 1 .. end /\ 0 < i /\ i - 0 = i
      BY ONLY end \in Nat, size \in Nat, i \in 1 .. size, <2>2
    <3> QED
      BY <1>5, <2>1, <2>2, <3>1
  <2>3. CASE ~(i <= end)
    <3>1. i \in 3 + m .. n
      BY ONLY n \in Nat, m \in Nat, end \in Nat, size \in Nat, i \in 1 .. size, <1>1, <1>2, <2>3
    <3> QED
      BY <1>4, <2>1, <2>3, <3>1
  <2> QED
    BY <2>2, <2>3
<1>10. 2 <= size
  BY ONLY n \in Nat, m \in Nat, end \in Nat, size \in Nat, <1>1, <1>2
<1>11. Blank(p, size)
  BY <1>8, <1>9, <1>10 DEF Blank, Overwritten
<1> QED
  BY <1>1, <1>3, <1>4, <1>7, <1>8, <1>11

\* The name of the core and what it says are put there.
LEMMA Says ==
  ASSUME NEW s, NEW n \in Nat, Blank(s, n), NEW c, NEW text, text # Space
  PROVE  /\ Printed(Put(Return(s), <<Label(c), text>>), c, n)
         /\ Put(Return(s), <<Label(c), text>>).above = s.above
<1>1. PICK r, cells : r = Return(s) /\ cells = <<Label(c), text>>
  OBVIOUS
<1>2. IsScreen(r) /\ r.line = s.line /\ r.col = 0 /\ r.above = s.above
  BY <1>1, ReturnIs DEF Blank
<1>3. Len(cells) = 2 /\ cells[1] = Label(c) /\ cells[2] = text
  BY <1>1, TwoCells
<1>4. 2 <= n /\ IsLine(r.line, n)
  BY <1>2 DEF Blank
<1>5. FitIn(r, cells, 0, n, 2, 2, n)
  BY <1>2, <1>3, <1>4 DEF FitIn
<1>6. PICK p : p = Put(r, cells)
  OBVIOUS
<1>7. IsScreen(p) /\ p.above = r.above /\ Overwritten(p.line, r.line, 0, cells, 2, n)
  BY <1>5, <1>6, PutIs DEF Puts
<1>8. \A i \in 1 .. n : p.line[i] = IF 0 < i /\ i <= 2 THEN cells[i - 0] ELSE r.line[i]
  BY <1>7 DEF Overwritten
<1>9. 1 \in 1 .. n /\ 2 \in 1 .. n /\ 1 - 0 = 1 /\ 2 - 0 = 2
  BY ONLY n \in Nat, <1>4
<1>10. p.line[1] = cells[1] /\ p.line[2] = cells[2]
  BY ONLY <1>8, <1>9
<1>11. ASSUME NEW i \in 3 .. n PROVE p.line[i] = Space
  <2>1. i \in 1 .. n /\ ~(i <= 2)
    BY ONLY n \in Nat, i \in 3 .. n
  <2>2. s.line[i] = Space
    BY <2>1 DEF Blank
  <2> QED
    BY <1>2, <1>8, <2>1, <2>2
<1>12. Printed(p, c, n)
  BY <1>3, <1>4, <1>7, <1>10, <1>11 DEF Printed, Overwritten
<1> QED
  BY <1>1, <1>2, <1>6, <1>7, <1>12

\* A new line with a prompt, and the line above.
LEMMA PromptIs ==
  ASSUME NEW s
  PROVE  Shows(Prompt(s), <<>>, 2) /\ Prompt(s).above = Visible(s.line)
<1>1. PICK r, blank : r = NewLine(s) /\ blank = Space
  OBVIOUS
<1>2. PICK cells : cells = <<">", blank>>
  OBVIOUS
<1>3. IsScreen(r) /\ r.line = <<>> /\ r.col = 0 /\ r.above = Visible(s.line)
  BY <1>1, NewLineIs
<1>4. Len(cells) = 2 /\ cells[1] = ">" /\ cells[2] = blank
  BY <1>2, TwoCells
<1>5. IsLine(r.line, 0)
  BY <1>3, EmptyLine
<1>6. FitIn(r, cells, 0, 0, 2, 2, 2)
  BY <1>3, <1>4, <1>5 DEF FitIn
<1>7. PICK p : p = Put(r, cells)
  OBVIOUS
<1>8. IsScreen(p) /\ p.col = 2 /\ p.above = r.above /\ Overwritten(p.line, r.line, 0, cells, 2, 2)
  BY <1>6, <1>7, PutIs DEF Puts
<1>9. \A i \in 1 .. 2 : p.line[i] = IF 0 < i /\ i <= 2 THEN cells[i - 0] ELSE r.line[i]
  BY <1>8 DEF Overwritten
<1>10. 1 \in 1 .. 2 /\ 2 \in 1 .. 2 /\ 1 - 0 = 1 /\ 2 - 0 = 2
  OBVIOUS
<1>11. p.line[1] = ">" /\ p.line[2] = Space
  BY ONLY <1>1, <1>4, <1>9, <1>10
<1>12. Len(<<>>) = 0
  OBVIOUS
<1>13. 2 + 0 <= 2 /\ 2 = 2 + 0 /\ 1 .. 0 = {} /\ 3 + 0 .. 2 = {}
  OBVIOUS
<1>14. Shows(p, <<>>, 2)
  BY <1>8, <1>11, <1>12, <1>13 DEF Shows, Overwritten
<1>15. Prompt(s) = p
  BY <1>1, <1>2, <1>7, Zenon DEF Prompt
<1> QED
  BY <1>3, <1>8, <1>14, <1>15

-----------------------------------------------------------------------------
\* v is u with t behind it.
Joined(v, u, t, l, m) ==
  /\ Len(u) = l /\ Len(t) = m /\ Len(v) = l + m
  /\ \A i \in 1 .. l + m : v[i] = IF i <= l THEN u[i] ELSE t[i - l]

\* More is typed behind what has been typed.
LEMMA TypesOn ==
  ASSUME NEW s, NEW u, NEW t, NEW v, NEW n \in Nat, NEW l \in Nat, NEW m \in Nat,
         Shows(s, u, n), Joined(v, u, t, l, m)
  PROVE  \E size \in Nat : Shows(Put(s, t), v, size) /\ Put(s, t).above = s.above
<1>1. PICK col \in Nat, end \in Nat : col = 2 + l /\ end = col + m
  OBVIOUS
<1>2. PICK size \in Nat : size = IF end > n THEN end ELSE n
  OBVIOUS
<1>3. Len(u) = l /\ Len(t) = m /\ Len(v) = l + m
  BY DEF Joined
<1>4. /\ IsScreen(s) /\ IsLine(s.line, n) /\ 2 + l <= n /\ s.col = 2 + l
      /\ s.line[1] = ">" /\ s.line[2] = Space
      /\ \A i \in 1 .. l : s.line[2 + i] = u[i]
      /\ \A i \in 3 + l .. n : s.line[i] = Space
  BY <1>3 DEF Shows
<1>5. FitIn(s, t, col, n, m, end, size)
  BY <1>1, <1>2, <1>3, <1>4 DEF FitIn
<1>6. PICK p : p = Put(s, t)
  OBVIOUS
<1>7. /\ IsScreen(p) /\ p.col = end /\ p.above = s.above
      /\ Overwritten(p.line, s.line, col, t, end, size)
  BY <1>5, <1>6, PutIs DEF Puts
<1>8. IsLine(p.line, size) /\ \A i \in 1 .. size : p.line[i] = IF col < i /\ i <= end THEN t[i - col] ELSE s.line[i]
  BY <1>7 DEF Overwritten
<1>9. p.line[1] = ">" /\ p.line[2] = Space
  <2>1. 1 \in 1 .. size /\ 2 \in 1 .. size /\ ~(col < 1) /\ ~(col < 2)
    BY ONLY n \in Nat, l \in Nat, m \in Nat, col \in Nat, end \in Nat, size \in Nat, <1>1, <1>2
  <2> QED
    BY ONLY <1>4, <1>8, <2>1
<1>10. ASSUME NEW i \in 1 .. l + m PROVE p.line[2 + i] = v[i]
  <2>1. 2 + i \in 1 .. size /\ 2 + i <= end /\ (col < 2 + i <=> ~(i <= l)) /\ (2 + i) - col = i - l
    BY ONLY n \in Nat, l \in Nat, m \in Nat, col \in Nat, end \in Nat, size \in Nat, i \in 1 .. l + m, <1>1, <1>2
  <2>2. p.line[2 + i] = IF ~(i <= l) THEN t[i - l] ELSE s.line[2 + i]
    BY ONLY <1>8, <2>1
  <2>3. i <= l => i \in 1 .. l
    BY ONLY l \in Nat, m \in Nat, i \in 1 .. l + m
  <2>4. v[i] = IF i <= l THEN u[i] ELSE t[i - l]
    BY DEF Joined
  <2>5. i <= l => s.line[2 + i] = u[i]
    BY ONLY <1>4, <2>3
  <2> QED
    BY ONLY <2>2, <2>4, <2>5
<1>11. ASSUME NEW i \in 3 + (l + m) .. size PROVE p.line[i] = Space
  <2>1. i \in 1 .. size /\ ~(i <= end) /\ i \in 3 + l .. n
    BY ONLY n \in Nat, l \in Nat, m \in Nat, col \in Nat, end \in Nat, size \in Nat, i \in 3 + (l + m) .. size, <1>1, <1>2
  <2> QED
    BY ONLY <1>4, <1>8, <2>1
<1>12. 2 + (l + m) <= size /\ end = 2 + (l + m)
  BY ONLY n \in Nat, l \in Nat, m \in Nat, col \in Nat, end \in Nat, size \in Nat, <1>1, <1>2
<1>13. Shows(p, v, size)
  BY <1>3, <1>7, <1>8, <1>9, <1>10, <1>11, <1>12 DEF Shows
<1> QED
  BY <1>6, <1>7, <1>13

\* The last of what has been typed is taken back.
LEMMA RubsOut ==
  ASSUME NEW s, NEW u, NEW v, NEW n \in Nat, NEW l \in Nat, Shows(s, u, n),
         Len(u) = l + 1, Len(v) = l, \A i \in 1 .. l : v[i] = u[i]
  PROVE  Shows(RubOut(s), v, n) /\ RubOut(s).above = s.above
<1>1. /\ IsScreen(s) /\ IsLine(s.line, n) /\ 2 + (l + 1) <= n /\ s.col = 2 + (l + 1)
      /\ s.line[1] = ">" /\ s.line[2] = Space
      /\ \A i \in 1 .. l + 1 : s.line[2 + i] = u[i]
      /\ \A i \in 3 + (l + 1) .. n : s.line[i] = Space
  BY DEF Shows
<1>2. PICK at \in Nat, col \in Nat : at = 3 + l /\ col = 2 + l /\ at <= n
  BY ONLY n \in Nat, l \in Nat, <1>1
<1>3. s.col = at /\ at - 1 = col
  BY ONLY n \in Nat, l \in Nat, <1>1, <1>2
<1>4. PICK new : new = [s.line EXCEPT ![at] = Space]
  OBVIOUS
<1>5. s = [line |-> s.line, col |-> at, above |-> s.above]
  BY <1>1, <1>3 DEF IsScreen
<1>6. PICK p : p = RubOut(s)
  OBVIOUS
<1>7. p = [line |-> new, col |-> col, above |-> s.above]
  BY <1>3, <1>4, <1>5, <1>6 DEF RubOut
<1>8. p.line = new /\ p.col = col /\ p.above = s.above
  BY <1>7
<1>9. IsScreen(p)
  BY <1>7, <1>8 DEF IsScreen
<1>10. IsLine(new, n) /\ \A i \in 1 .. n : new[i] = IF i = at THEN Space ELSE s.line[i]
  BY <1>1, <1>4 DEF IsLine
<1>11. new[1] = ">" /\ new[2] = Space
  <2>1. 1 \in 1 .. n /\ 2 \in 1 .. n /\ 1 # at /\ 2 # at
    BY ONLY n \in Nat, l \in Nat, at \in Nat, <1>2
  <2> QED
    BY ONLY <1>1, <1>10, <2>1
<1>12. ASSUME NEW i \in 1 .. l PROVE new[2 + i] = v[i]
  <2>1. 2 + i \in 1 .. n /\ 2 + i # at /\ i \in 1 .. l + 1
    BY ONLY n \in Nat, l \in Nat, at \in Nat, i \in 1 .. l, <1>2
  <2> QED
    BY <1>1, <1>10, <2>1
<1>13. ASSUME NEW i \in 3 + l .. n PROVE new[i] = Space
  <2>1. i \in 1 .. n /\ (i = at \/ i \in 3 + (l + 1) .. n)
    BY ONLY n \in Nat, l \in Nat, at \in Nat, i \in 3 + l .. n, <1>2
  <2> QED
    BY ONLY <1>1, <1>10, <2>1
<1>14. 2 + l <= n
  BY ONLY n \in Nat, l \in Nat, at \in Nat, <1>2
<1>15. Shows(p, v, n)
  BY <1>2, <1>8, <1>9, <1>10, <1>11, <1>12, <1>13, <1>14 DEF Shows
<1> QED
  BY <1>6, <1>8, <1>15

-----------------------------------------------------------------------------
(***************************************************************************)
(* What can be seen of a line.                                             *)
(***************************************************************************)
Inked(s) == {i \in DOMAIN s : s[i] # Space}
IsLast(k, S) == k \in S /\ \A j \in S : j <= k

LEMMA VisibleIs ==
  ASSUME NEW s
  PROVE  /\ Inked(s) = {} => Visible(s) = <<>>
         /\ \A k : Inked(s) \subseteq Nat /\ IsLast(k, Inked(s)) => Visible(s) = SubSeq(s, 1, k)
<1>1. PICK S : S = Inked(s)
  OBVIOUS
<1>2. Visible(s) = IF S = {} THEN <<>> ELSE SubSeq(s, 1, CHOOSE i \in S : \A j \in S : j <= i)
  BY <1>1 DEF Visible, Inked
<1>3. ASSUME NEW k, S \subseteq Nat, IsLast(k, S) PROVE (CHOOSE i \in S : \A j \in S : j <= i) = k
  <2>1. k \in S /\ \A j \in S : j <= k
    BY <1>3 DEF IsLast
  <2>2. PICK m : m = CHOOSE i \in S : \A j \in S : j <= i
    OBVIOUS
  <2>3. m \in S /\ \A j \in S : j <= m
    BY <2>1, <2>2
  <2>4. m \in Nat /\ k \in Nat /\ m <= k /\ k <= m
    BY <1>3, <2>1, <2>3
  <2>5. m = k
    BY ONLY <2>4
  <2> QED
    BY <2>2, <2>5
<1>4. \A k : IsLast(k, S) => S # {}
  BY DEF IsLast
<1> QED
  BY <1>1, <1>2, <1>3, <1>4

-----------------------------------------------------------------------------
\* A set of places has a last one.
LEMMA LastExists ==
  ASSUME NEW n \in Nat, NEW T \in SUBSET (1 .. n), T # {}
  PROVE  \E k \in T : \A j \in T : j <= k
<1> DEFINE R == OpToRel(<, Nat)
           D == {n - k : k \in T}
<1>1. IsWellFoundedOn(R, Nat)
  BY NatLessThanWellFounded
<1>2. D \subseteq Nat /\ D # {}
  <2>1. PICK e \in T : TRUE
    OBVIOUS
  <2>2. n - e \in D
    BY <2>1
  <2>3. ASSUME NEW k \in T PROVE n - k \in Nat
    <3>1. k \in 1 .. n
      OBVIOUS
    <3> QED
      BY <3>1
  <2> QED
    BY <2>2, <2>3
<1>3. PICK x \in D : \A y \in D : ~(<<y, x>> \in R)
  <2> HIDE DEF R, D
  <2> QED
    BY <1>1, <1>2, WFMin
<1>4. PICK k \in T : x = n - k
  BY <1>3
<1>5. ASSUME NEW j \in T PROVE j <= k
  <2>1. n - j \in D
    OBVIOUS
  <2>2. <<n - j, x>> \notin R
    BY <1>3, <2>1
  <2>3. ~(n - j < x)
    BY <2>2, <1>2, <1>3, <2>1 DEF OpToRel
  <2> QED
    BY <2>3, <1>4
<1> QED
  BY <1>5

LEMMA LineSeq ==
  ASSUME NEW s, NEW n, IsLine(s, n), NEW S, Range(s) \subseteq S
  PROVE  s \in Seq(S) /\ Len(s) = n
<1>1. n \in Nat /\ DOMAIN s = 1 .. n /\ s = [i \in 1 .. n |-> s[i]]
  BY DEF IsLine
<1>2. s \in [1 .. n -> S]
  BY <1>1 DEF Range
<1>3. s \in Seq(S)
  BY ONLY <1>1, <1>2, SeqDef
<1> QED
  BY ONLY <1>1, <1>3, LenProperties

LEMMA InkedIn ==
  ASSUME NEW s, NEW n, IsLine(s, n)
  PROVE  Inked(s) = {i \in 1 .. n : s[i] # Space} /\ Inked(s) \subseteq 1 .. n /\ 1 .. n \subseteq Nat
BY DEF Inked, IsLine

LEMMA VisibleLen ==
  ASSUME NEW s, NEW n, IsLine(s, n), NEW k, IsLast(k, Inked(s)), NEW S, Range(s) \subseteq S
  PROVE  /\ Visible(s) \in Seq(S) /\ Len(Visible(s)) = k
         /\ \A i \in 1 .. k : Visible(s)[i] = s[i]
<1>1. n \in Nat /\ DOMAIN s = 1 .. n
  BY DEF IsLine
<1>2. k \in 1 .. n /\ Inked(s) \subseteq Nat
  BY InkedIn DEF IsLast
<1>3. PICK v : v = SubSeq(s, 1, k)
  OBVIOUS
<1>4. Visible(s) = v
  BY <1>2, <1>3, VisibleIs
<1>5. PICK one \in Int, e \in Int : one = 1 /\ e = k /\ one <= e
  BY ONLY <1>1, <1>2
<1>6. \A i \in one .. e : s[i] \in S
  <2>1. \A i \in one .. e : i \in 1 .. n
    BY ONLY <1>1, <1>2, <1>5
  <2> QED
    BY <1>1, <2>1 DEF Range
<1>7. v = SubSeq(s, one, e)
  BY <1>3, <1>5
<1>8. /\ v \in Seq(S) /\ Len(v) = (IF one <= e THEN e - one + 1 ELSE 0)
      /\ \A i \in 1 .. e - one + 1 : v[i] = s[one + i - 1]
  BY ONLY one \in Int, e \in Int, <1>6, <1>7, SubSeqProperties
<1>9. Len(v) = k
  BY ONLY <1>1, <1>2, <1>5, <1>8
<1>10. ASSUME NEW i \in 1 .. k PROVE v[i] = s[i]
  <2>1. i \in 1 .. e - one + 1 /\ one + i - 1 = i
    BY ONLY <1>1, <1>2, <1>5, i \in 1 .. k
  <2>2. v[i] = s[one + i - 1]
    BY ONLY <1>8, <2>1
  <2> QED
    BY ONLY <2>1, <2>2
<1> QED
  BY <1>4, <1>8, <1>9, <1>10

\* Blanks behind a line are not seen.
LEMMA VisibleSame ==
  ASSUME NEW s, NEW t, NEW n \in Nat, NEW m \in Nat, IsLine(s, n), IsLine(t, m), m <= n,
         \A i \in 1 .. m : s[i] = t[i], \A i \in m + 1 .. n : s[i] = Space
  PROVE  Visible(s) = Visible(t)
<1>1. Inked(s) = Inked(t)
  <2>1. Inked(s) = {i \in 1 .. n : s[i] # Space} /\ Inked(t) = {i \in 1 .. m : t[i] # Space}
    BY InkedIn
  <2>2. \A i \in 1 .. n : i \in 1 .. m \/ i \in m + 1 .. n
    BY ONLY n \in Nat, m \in Nat
  <2>3. \A i \in 1 .. m : i \in 1 .. n
    BY ONLY n \in Nat, m \in Nat, m <= n
  <2> QED
    BY <2>1, <2>2, <2>3
<1>2. CASE Inked(s) = {}
  BY <1>1, <1>2, VisibleIs
<1>3. CASE Inked(s) # {}
  <2>1. PICK k : IsLast(k, Inked(s))
    <3>1. PICK T : T = Inked(s)
      OBVIOUS
    <3>2. T \in SUBSET (1 .. n) /\ T # {}
      BY <1>3, <3>1, InkedIn
    <3>3. \E k \in T : \A j \in T : j <= k
      BY <3>2, LastExists
    <3> QED
      BY <3>1, <3>3 DEF IsLast
  <2>2. IsLast(k, Inked(t))
    BY <1>1, <2>1
  <2>3. PICK S : S = Range(s) \cup Range(t)
    OBVIOUS
  <2>4. Range(s) \subseteq S /\ Range(t) \subseteq S
    BY <2>3
  <2>5. PICK v, w : v = Visible(s) /\ w = Visible(t)
    OBVIOUS
  <2>6. v \in Seq(S) /\ Len(v) = k /\ \A i \in 1 .. k : v[i] = s[i]
    BY <2>1, <2>4, <2>5, VisibleLen
  <2>7. w \in Seq(S) /\ Len(w) = k /\ \A i \in 1 .. k : w[i] = t[i]
    BY <2>2, <2>4, <2>5, VisibleLen
  <2>8. \A i \in 1 .. k : i \in 1 .. m
    <3>1. k \in 1 .. m
      BY <2>2, InkedIn DEF IsLast
    <3> QED
      BY ONLY m \in Nat, <3>1
  <2>9. \A i \in 1 .. Len(v) : v[i] = w[i]
    BY <2>6, <2>7, <2>8
  <2>10. v = w
    BY ONLY <2>6, <2>7, <2>9, SeqEqual
  <2> QED
    BY <2>5, <2>10
<1> QED
  BY <1>2, <1>3

\* What a core has printed is seen, and nothing else.
LEMMA PrintedSeen ==
  ASSUME NEW s, NEW c, NEW n, Printed(s, c, n)
  PROVE  Len(Visible(s.line)) = 2 /\ Visible(s.line)[1] = Label(c)
<1>1. /\ n \in Nat /\ IsLine(s.line, n) /\ 2 <= n
      /\ s.line[1] = Label(c) /\ s.line[2] # Space
      /\ \A i \in 3 .. n : s.line[i] = Space
  BY DEF Printed, IsLine
<1>2. Inked(s.line) = {i \in 1 .. n : s.line[i] # Space}
  BY <1>1, InkedIn
<1>3. 2 \in 1 .. n
  BY ONLY <1>1
<1>4. \A i \in 1 .. n : i <= 2 \/ i \in 3 .. n
  BY ONLY <1>1
<1>5. IsLast(2, Inked(s.line))
  BY ONLY <1>1, <1>2, <1>3, <1>4 DEF IsLast
<1>6. PICK S : S = Range(s.line)
  OBVIOUS
<1>7. Range(s.line) \subseteq S
  BY <1>6
<1>8. PICK v : v = Visible(s.line)
  OBVIOUS
<1>9. v \in Seq(S) /\ Len(v) = 2 /\ \A i \in 1 .. 2 : v[i] = s.line[i]
  BY <1>1, <1>5, <1>7, <1>8, VisibleLen
<1>10. 1 \in 1 .. 2
  OBVIOUS
<1>11. v[1] = s.line[1]
  BY ONLY <1>9, <1>10
<1> QED
  BY <1>1, <1>8, <1>9, <1>11

\* A line with a prompt starts with it.
LEMMA PromptSeen ==
  ASSUME NEW s, NEW t, NEW n, Shows(s, t, n), Len(t) \in Nat
  PROVE  Visible(s.line)[1] = ">"
<1>1. n \in Nat /\ IsLine(s.line, n) /\ 2 + Len(t) <= n /\ s.line[1] = ">"
  BY DEF Shows, IsLine
<1>2. 1 \in 1 .. n
  BY ONLY <1>1, Len(t) \in Nat
<1>3. s.line[1] # Space
  BY <1>1, Zenon DEF Space
<1>4. PICK T : T = Inked(s.line)
  OBVIOUS
<1>5. T = {i \in 1 .. n : s.line[i] # Space} /\ T \in SUBSET (1 .. n)
  BY <1>1, <1>4, InkedIn
<1>6. T # {}
  BY ONLY <1>2, <1>3, <1>5
<1>7. \E k \in T : \A j \in T : j <= k
  BY <1>1, <1>5, <1>6, LastExists
<1>8. PICK k \in T : IsLast(k, T)
  BY <1>7 DEF IsLast
<1>9. PICK S : S = Range(s.line)
  OBVIOUS
<1>10. Range(s.line) \subseteq S
  BY <1>9
<1>11. \A i \in 1 .. k : Visible(s.line)[i] = s.line[i]
  BY <1>1, <1>4, <1>8, <1>10, VisibleLen
<1>12. 1 \in 1 .. k
  BY ONLY <1>1, <1>5, k \in T
<1> QED
  BY ONLY <1>1, <1>11, <1>12

\* What is shown is what newline hands on.
LEMMA TypedSeen ==
  ASSUME NEW s, NEW t, NEW n, Shows(s, t, n), t \in Seq(Range(t))
  PROVE  Visible(s.line) = Visible(<<">", Space>> \o t)
<1>1. PICK l \in Nat : l = Len(t)
  BY LenProperties
<1>2. /\ n \in Nat /\ IsLine(s.line, n) /\ 2 + l <= n
      /\ s.line[1] = ">" /\ s.line[2] = Space
      /\ \A i \in 1 .. l : s.line[2 + i] = t[i]
      /\ \A i \in 3 + l .. n : s.line[i] = Space
  BY <1>1 DEF Shows, IsLine
<1>3. PICK a, b : a = ">" /\ b = Space
  OBVIOUS
<1>4. PICK S : S = Range(t) \cup {a, b}
  OBVIOUS
<1>5. PICK p : p = <<a, b>>
  OBVIOUS
<1>6. p \in Seq(S) /\ Len(p) = 2 /\ p[1] = a /\ p[2] = b
  BY <1>4, <1>5
<1>7. t \in Seq(S)
  BY <1>4, SeqMonotonic
<1>8. PICK w : w = p \o t
  OBVIOUS
<1>9. w \in Seq(S) /\ Len(w) = 2 + l /\ \A i \in 1 .. 2 + l : w[i] = IF i <= 2 THEN p[i] ELSE t[i - 2]
  <2>1. PICK i \in Nat : i = Len(p) /\ i = 2
    BY <1>6
  <2>2. w \in Seq(S) /\ Len(w) = i + l /\ \A j \in 1 .. i + l : w[j] = IF j <= i THEN p[j] ELSE t[j - i]
    BY ONLY <1>1, <1>6, <1>7, <1>8, <2>1, ConcatProperties
  <2> QED
    BY <2>1, <2>2
<1>10. PICK m \in Nat : m = 2 + l /\ m <= n
  BY <1>1, <1>2
<1>11. IsLine(w, m)
  <2>1. w \in [1 .. m -> S]
    BY ONLY <1>9, <1>10, LenProperties
  <2> QED
    BY <2>1 DEF IsLine
<1>12. ASSUME NEW i \in 1 .. m PROVE s.line[i] = w[i]
  <2>1. i = 1 \/ i = 2 \/ (i - 2 \in 1 .. l /\ 2 + (i - 2) = i /\ ~(i <= 2))
    BY ONLY <1>1, <1>10, i \in 1 .. m
  <2>2. w[i] = IF i <= 2 THEN p[i] ELSE t[i - 2]
    BY ONLY <1>9, <1>10, i \in 1 .. m
  <2>3. CASE i = 1
    BY ONLY <1>2, <1>3, <1>6, <2>2, <2>3
  <2>4. CASE i = 2
    BY ONLY <1>2, <1>3, <1>6, <2>2, <2>4
  <2>5. CASE i - 2 \in 1 .. l /\ 2 + (i - 2) = i /\ ~(i <= 2)
    <3>1. s.line[2 + (i - 2)] = t[i - 2]
      BY ONLY <1>2, <2>5
    <3> QED
      BY ONLY <2>2, <2>5, <3>1
  <2> QED
    BY <2>1, <2>3, <2>4, <2>5
<1>13. \A i \in m + 1 .. n : s.line[i] = Space
  <2>1. m + 1 = 3 + l
    BY ONLY <1>1, <1>10
  <2> QED
    BY <1>2, <2>1
<1>14. Visible(s.line) = Visible(w)
  BY ONLY m \in Nat, <1>2, <1>10, <1>11, <1>12, <1>13, VisibleSame
<1> QED
  BY <1>3, <1>5, <1>8, <1>14, Zenon

-----------------------------------------------------------------------------
(***************************************************************************)
(* Who is in the middle of print().                                        *)
(***************************************************************************)
Printing == {"text", "prompt"}
PrintStep(c) == PrintWait(c) \/ PrintText(c) \/ PrintPrompt(c)
CoreTypes == ProgramType /\ LockType

\* A core's program changes nothing of what another is doing.
Elsewhere(c) ==
  /\ UNCHANGED <<alive, irqAt>>
  /\ \A d \in Cpu : d # c => todo'[d] = todo[d] /\ step'[d] = step[d] /\ lk'[d] = lk[d]

LEMMA OnlyOwn ==
  ASSUME CoreTypes, NEW c \in Cpu, Program(c)
  PROVE  Elsewhere(c)
<1>1. /\ todo = [d \in Cpu |-> todo[d]] /\ step = [d \in Cpu |-> step[d]]
      /\ lk = [d \in Cpu |-> lk[d]]
  BY DEF CoreTypes, ProgramType, LockType
<1>2. UNCHANGED <<alive, irqAt>>
  <2>1. UNCHANGED alive
    BY DEF Program, user
  <2>2. CASE BootStep(c) \/ SmpStep(c) \/ MailStep(c) \/ BspInit(c) \/ MemStep(c) \/ GfxStep(c)
    BY <2>1, <2>2 DEF BootStep, SmpStep, MailStep, BspInit, MemStep, GfxStep, irqVars
  <2>3. CASE Talk(c)
    BY <2>1, <2>3 DEF Talk, ConsoleStep, ConsoleInit, LockStep, PrintWait, PrintText, PrintPrompt,
                      SetLine, PollAgain, Poll
  <2> QED
    BY <2>2, <2>3 DEF Program
<1>3. todo' = todo \/ \E ops : todo' = [todo EXCEPT ![c] = ops]
  <2>0. \A ops : Become(c, ops) => \E x : todo' = [todo EXCEPT ![c] = x]
    BY DEF Become
  <2>1. CASE BootStep(c)
    BY <2>0, <2>1 DEF BootStep, Start, Count, BootDone, WaitBoot, ClearNum
  <2>2. CASE SmpStep(c)
    BY <2>0, <2>2 DEF SmpStep, RunRead, HaltRead, Ctrl
  <2>3. CASE MailStep(c)
    <3>1. ASSUME NEW off \in {"lo", "hi"}, ReadCurrent(c, off) \/ LdrexBox(c, off) PROVE todo' = todo
      BY <3>1 DEF ReadCurrent, LdrexBox
    <3>2. CASE StrexLo(c)
      BY <3>2 DEF StrexLo
    <3>3. CASE StrexHi(c)
      BY <2>0, <3>3, Zenon DEF StrexHi
    <3> QED
      BY <2>3, <3>1, <3>2, <3>3 DEF MailStep
  <2>4. CASE BspInit(c) \/ MemStep(c) \/ GfxStep(c)
    BY <2>0, <2>4 DEF BspInit, MemStep, GfxStep
  <2>5. CASE Talk(c)
    <3>1. PICK ops : ConsoleStep(c, ops)
      BY <2>5 DEF Talk
    <3> QED
      BY <2>0, <3>1 DEF ConsoleStep, ConsoleInit, LockStep, PrintWait, PrintText, PrintPrompt,
                        SetLine, PollAgain, Poll
  <2> QED
    BY <2>1, <2>2, <2>3, <2>4, <2>5 DEF Program
<1>4. step' = step \/ \E s : step' = [step EXCEPT ![c] = s]
  <2>0. \A s : Goto(c, s) => \E x : step' = [step EXCEPT ![c] = x]
    BY DEF Goto
  <2>1. CASE BootStep(c)
    BY <2>0, <2>1 DEF BootStep, Start, Count, BootDone, WaitBoot, ClearNum
  <2>2. CASE SmpStep(c) \/ BspInit(c) \/ MemStep(c) \/ GfxStep(c)
    BY <2>2 DEF SmpStep, BspInit, MemStep, GfxStep
  <2>3. CASE MailStep(c)
    <3>1. ASSUME NEW off \in {"lo", "hi"}, ReadCurrent(c, off) \/ LdrexBox(c, off)
          PROVE  \E x : step' = [step EXCEPT ![c] = x]
      BY <2>0, <3>1, Zenon DEF ReadCurrent, LdrexBox
    <3>2. CASE StrexLo(c)
      BY <2>0, <3>2, Zenon DEF StrexLo
    <3>3. CASE StrexHi(c)
      BY <2>0, <3>3, Zenon DEF StrexHi
    <3> QED
      BY <2>3, <3>1, <3>2, <3>3 DEF MailStep
  <2>4. CASE Talk(c)
    <3>1. PICK ops : ConsoleStep(c, ops)
      BY <2>4 DEF Talk
    <3> QED
      BY <2>0, <3>1 DEF ConsoleStep, ConsoleInit, LockStep, PrintWait, PrintText, PrintPrompt,
                        SetLine, PollAgain, Poll
  <2> QED
    BY <2>1, <2>2, <2>3, <2>4 DEF Program
<1>5. lk' = lk \/ \E s : lk' = [lk EXCEPT ![c] = s]
  <2>1. CASE BootStep(c) \/ SmpStep(c) \/ BspInit(c) \/ MemStep(c) \/ GfxStep(c)
    BY <2>1 DEF BootStep, SmpStep, BspInit, MemStep, GfxStep, lockVars
  <2>2. CASE MailStep(c)
    BY <2>2 DEF MailStep, ReadCurrent, LdrexBox, StrexLo, StrexHi, lockVars
  <2>3. CASE Talk(c)
    <3>1. PICK ops : ConsoleStep(c, ops)
      BY <2>3 DEF Talk
    <3>2. Enter(c) \/ Ldrex(c) \/ Strex(c) \/ Unlock(c) => \E s : lk' = [lk EXCEPT ![c] = s]
      BY DEF Enter, Ldrex, Strex, Unlock
    <3>3. SpinInit => lk' = lk
      BY DEF SpinInit
    <3> QED
      BY <3>1, <3>2, <3>3 DEF ConsoleStep, ConsoleInit, LockStep, PrintWait, PrintText, PrintPrompt,
                              SetLine, PollAgain, Poll, lockVars
  <2> QED
    BY <2>1, <2>2, <2>3 DEF Program
<1>6. ASSUME NEW d \in Cpu, d # c PROVE todo'[d] = todo[d] /\ step'[d] = step[d] /\ lk'[d] = lk[d]
  BY <1>1, <1>3, <1>4, <1>5, <1>6
<1> QED
  BY <1>2, <1>6 DEF Elsewhere

-----------------------------------------------------------------------------
\* Other operations are done by a core that is not in the middle of print().
LEMMA NotThen ==
  ASSUME PrintInv, NEW c \in Cpu, NEW op, Next0(c, op), op # "print"
  PROVE  step[c] \notin Printing
BY DEF PrintInv, Next0, Printing

LEMMA QuietStep ==
  ASSUME CoreTypes, PrintInv, NEW c \in Cpu, Program(c), ~PrintStep(c)
  PROVE  step[c] \notin Printing /\ step'[c] \notin Printing
<1>1. step = [d \in Cpu |-> step[d]]
  BY DEF CoreTypes, ProgramType
<1>2. \A s : Goto(c, s) => step'[c] = s
  BY <1>1 DEF Goto
<1>3. CASE BootStep(c)
  <2>1. PICK op \in {"start", "bootdone", "waitboot", "clearnum"} : Next0(c, op)
    BY <1>3 DEF BootStep, Start, Count, BootDone, WaitBoot, ClearNum
  <2>2. step[c] \notin Printing
    BY <2>1, NotThen
  <2>3. step' = step \/ Goto(c, "count") \/ Goto(c, "go")
    BY <1>3 DEF BootStep, Start, Count, BootDone, WaitBoot, ClearNum
  <2> QED
    BY <1>2, <2>2, <2>3 DEF Printing
<1>4. CASE SmpStep(c) \/ BspInit(c) \/ MemStep(c) \/ GfxStep(c)
  <2>1. PICK op : op # "print" /\ Next0(c, op)
    <3>1. CASE SmpStep(c)
      <4>1. PICK op \in {"runread", "haltread", "ctrl"} : Next0(c, op)
        BY <3>1 DEF SmpStep, RunRead, HaltRead, Ctrl
      <4> QED
        BY <4>1
    <3>2. CASE BspInit(c) \/ MemStep(c)
      <4>1. PICK op \in {"bspinit", "peek", "poke"} : Next0(c, op)
        BY <3>2 DEF BspInit, MemStep
      <4> QED
        BY <4>1
    <3>3. CASE GfxStep(c)
      <4>1. PICK op \in {"gfxinit", "gfxload", "gfxclear", "gfxswap", "gfxbg", "gfxdraw", "gfxdata"} : Next0(c, op)
        BY <3>3 DEF GfxStep
      <4> QED
        BY <4>1
    <3> QED
      BY <1>4, <3>1, <3>2, <3>3
  <2>2. step[c] \notin Printing
    BY <2>1, NotThen
  <2>3. step' = step
    BY <1>4 DEF SmpStep, BspInit, MemStep, GfxStep
  <2> QED
    BY <2>2, <2>3
<1>5. CASE MailStep(c)
  <2>1. PICK op \in {"send", "recv"} : Next0(c, op)
    BY <1>5 DEF MailStep, Mailing
  <2>2. step[c] \notin Printing
    BY <2>1, NotThen
  <2>3. \E s : Goto(c, s) /\ s \notin Printing
    <3>1. \A s \in {"go", "current", "ldlo", "ldhi", "stlo", "sthi"} : s \notin Printing
      BY DEF Printing
    <3>2. ASSUME NEW off \in {"lo", "hi"}, ReadCurrent(c, off) PROVE Goto(c, "current") \/ Goto(c, "ldlo")
      BY <3>2 DEF ReadCurrent
    <3>3. ASSUME NEW off \in {"lo", "hi"}, LdrexBox(c, off)
          PROVE  Goto(c, "ldhi") \/ Goto(c, "stlo") \/ Goto(c, "ldlo")
      BY <3>3, Zenon DEF LdrexBox
    <3>4. CASE StrexLo(c)
      BY <3>1, <3>4, Zenon DEF StrexLo
    <3>5. ASSUME StrexHi(c) PROVE Goto(c, "go") \/ Goto(c, "ldlo")
      BY <3>5, Zenon DEF StrexHi
    <3> QED
      BY <1>5, <3>1, <3>2, <3>3, <3>4, <3>5 DEF MailStep
  <2> QED
    BY <1>2, <2>2, <2>3
<1>6. CASE Talk(c)
  <2>1. PICK ops : ConsoleStep(c, ops)
    BY <1>6 DEF Talk
  <2>2. step' = step
    BY <2>1 DEF ConsoleStep, PrintStep, ConsoleInit, LockStep, SetLine, PollAgain, Poll
  <2>3. step[c] \notin Printing
    <3>1. CASE LockStep(c)
      <4>1. lk[c] # "in"
        BY <3>1 DEF LockStep, Enter, Ldrex, Strex
      <4> QED
        BY <4>1 DEF PrintInv, Printing
    <3>2. CASE ~LockStep(c)
      <4>1. PICK op \in {"consoleinit", "setline", "poll"} : Next0(c, op)
        BY <2>1, <3>2 DEF ConsoleStep, PrintStep, ConsoleInit, SetLine, PollAgain, Poll, Holds
      <4> QED
        BY <4>1, NotThen
    <3> QED
      BY <3>1, <3>2
  <2> QED
    BY <2>2, <2>3
<1> QED
  BY <1>3, <1>4, <1>5, <1>6 DEF Program

\* A core in print() has the lock.
LEMMA PrintHolds ==
  ASSUME CoreTypes, NEW c \in Cpu, PrintStep(c)
  PROVE  /\ Holds(c, "print") /\ c \in alive /\ todo[c] # <<>> /\ Head(todo[c]).op = "print"
         /\ lk[c] = "in" /\ (c = 0 => irqAt = "no")
         /\ PrintWait(c) => step'[c] = "text" /\ UNCHANGED <<todo, lk>>
         /\ PrintText(c) => step'[c] = "prompt" /\ UNCHANGED <<todo, lk>>
         /\ PrintPrompt(c) => step'[c] = "go"
<1>1. step = [d \in Cpu |-> step[d]]
  BY DEF CoreTypes, ProgramType
<1>2. \A s : Goto(c, s) => step'[c] = s
  BY <1>1 DEF Goto
<1>3. Holds(c, "print")
  BY DEF PrintStep, PrintWait, PrintText, PrintPrompt
<1> QED
  BY <1>2, <1>3 DEF PrintWait, PrintText, PrintPrompt, Holds, Next0, Runs, lockVars

LEMMA PrintStays ==
  ASSUME CoreTypes, PrintInv, [Next]_vars
  PROVE  PrintInv'
<1>1. ASSUME NEW c \in Cpu, Program(c) PROVE PrintInv'
  <2>1. /\ UNCHANGED <<alive, irqAt>>
        /\ \A d \in Cpu : d # c => todo'[d] = todo[d] /\ step'[d] = step[d] /\ lk'[d] = lk[d]
    BY <1>1, OnlyOwn DEF Elsewhere
  <2>2. step'[c] \in Printing => /\ lk'[c] = "in" /\ c \in alive /\ todo'[c] # <<>>
                                 /\ Head(todo'[c]).op = "print" /\ (c = 0 => irqAt = "no")
    <3>1. CASE PrintStep(c)
      BY <3>1, PrintHolds DEF PrintStep, Printing
    <3>2. CASE ~PrintStep(c)
      BY <1>1, <3>2, QuietStep
    <3> QED
      BY <3>1, <3>2
  <2> QED
    BY <2>1, <2>2 DEF PrintInv, Printing
<1>2. ASSUME NEW c \in Cpu, Obey(c), UNCHANGED user PROVE PrintInv'
  <2>1. UNCHANGED <<alive, irqAt, todo, step, lk>>
    BY <1>2 DEF Obey, user, program, irqVars, lockVars
  <2> QED
    BY <2>1 DEF PrintInv
<1>3. CASE Handler
  <2>1. IrqStep /\ UNCHANGED alive
    BY <1>3 DEF Handler, user
  <2>2. UNCHANGED <<todo, step>>
    BY <2>1 DEF IrqStep, Irq, IrqLock, IrqKey
  <2>3. 0 \in Cpu => step[0] \notin Printing
    BY <2>1 DEF IrqStep, Irq, IrqLock, IrqKey, Interrupted, PrintInv, Printing
  <2>4. \A d \in Cpu : d # 0 => lk'[d] = lk[d]
    <3>1. lk = [d \in Cpu |-> lk[d]]
      BY DEF CoreTypes, LockType
    <3>2. lk' = lk \/ \E s : lk' = [lk EXCEPT ![0] = s]
      BY <2>1 DEF IrqStep, Irq, IrqLock, IrqKey, Enter, Ldrex, Strex, Unlock, lockVars
    <3> QED
      BY <3>1, <3>2
  <2> QED
    BY <2>1, <2>2, <2>3, <2>4 DEF PrintInv, Printing
<1>4. CASE Tick \/ UNCHANGED vars
  <2>1. UNCHANGED <<alive, irqAt, todo, step, lk>>
    BY <1>4 DEF Tick, vars, user, program, irqVars, lockVars
  <2> QED
    BY <2>1 DEF PrintInv
<1> QED
  BY <1>1, <1>2, <1>3, <1>4 DEF Next

-----------------------------------------------------------------------------
(***************************************************************************)
(* What print() and a key do to the screen.                                *)
(***************************************************************************)
LEMMA PrintsWhat ==
  ASSUME BootInv, NEW c \in Cpu, Next0(c, "print")
  PROVE  num[c] = c /\ Head(todo[c]).text # Space
<1>1. PICK n, k : Booting(n, k)
  BY DEF BootInv
<1>2. PICK op : op = "print"
  OBVIOUS
<1>3. /\ c \in 0 .. k - 1 /\ k # 0
      /\ c # 0 => Fit(Head(todo[c]), OtherOps, k, n)
  BY <1>1, <1>2, Runner
<1>4. num[c] = c
  BY <1>1, <1>3 DEF Booting, Counted
<1>5. Head(todo[c]).op = "print"
  BY DEF Next0
<1>6. CASE c # 0
  BY <1>3, <1>4, <1>5, <1>6 DEF Fit
<1>7. CASE c = 0
  <2>1. PICK w, x : w \in 1 .. 5 /\ ZeroIs(n, k, w, x)
    BY <1>1, <1>3 DEF Booting
  <2>2. CASE x # <<>>
    <3>1. Fit(Head(todo[0]), OpsAt(w), k, n)
      BY <2>1, <2>2, ZeroNext
    <3> QED
      BY <1>4, <1>5, <1>7, <3>1 DEF Fit
  <2>3. CASE x = <<>>
    <3>1. todo[0] = Rest(w) /\ Head(todo[0]).op = RestOp(w)
      BY <2>1, <2>3, ZeroNext
    <3>2. w = 2
      BY <1>5, <1>7, <2>1, <3>1 DEF RestOp
    <3> QED
      BY <1>4, <1>7, <3>1, <3>2, RestGoes
  <2> QED
    BY <2>2, <2>3
<1> QED
  BY <1>6, <1>7

\* A line is read only after something has been printed.
LEMMA InputShown ==
  ASSUME BootInv, inputBuf
  PROVE  screen.line # <<>>
<1>1. PICK n, k : Booting(n, k)
  BY DEF BootInv
<1>2. k # 0
  BY <1>1 DEF Booting, Counted
<1>3. PICK w, x : w \in 1 .. 5 /\ ZeroIs(n, k, w, x)
  BY <1>1, <1>2 DEF Booting
<1>4. inputBuf = (w = 5) /\ (screen.line = <<>> => w = 1)
  BY <1>3, Zenon DEF ZeroIs
<1>5. w = 5
  BY <1>4, Zenon
<1>6. w # 1
  BY <1>5
<1> QED
  BY <1>4, <1>6, Zenon

LEMMA TypedSeqs ==
  ASSUME InputInv
  PROVE  Typed \in Seq(Range(Typed)) /\ inputLen \in Nat /\ Len(Typed) = inputLen
<1>1. Typed \in Seq(Range(Typed))
  <2>1. CASE inputBuf /\ ~inputRun
    BY <2>1 DEF Typed, InputInv
  <2>2. CASE ~(inputBuf /\ ~inputRun)
    <3>1. Typed = <<>>
      BY <2>2 DEF Typed
    <3> QED
      BY <3>1
  <2> QED
    BY <2>1, <2>2
<1>2. PICK S, t : S = Range(Typed) /\ t = Typed
  OBVIOUS
<1>3. t \in Seq(S)
  BY <1>1, <1>2
<1>4. Len(t) \in Nat
  BY ONLY <1>3, LenProperties
<1> QED
  BY <1>1, <1>2, <1>4 DEF InputInv

LEMMA LineThere ==
  ASSUME NEW s, NEW n, IsLine(s, n), 2 <= n
  PROVE  s # <<>>
<1>1. n \in Nat /\ DOMAIN s = 1 .. n
  BY DEF IsLine
<1>2. 1 \in DOMAIN s
  BY ONLY <1>1, 2 <= n
<1> QED
  BY <1>2

LEMMA CleanIs ==
  ASSUME Clean, InputInv
  PROVE  \E n \in Nat : /\ IsScreen(screen) /\ IsLine(screen.line, n)
                        /\ \A i \in 3 + inputLen .. n : screen.line[i] = Space
<1>1. inputLen \in Nat /\ Len(Typed) = inputLen
  BY TypedSeqs
<1>2. CASE IsScreen(screen) /\ screen.line = <<>>
  <2>1. IsLine(screen.line, 0)
    BY <1>2, EmptyLine
  <2>2. \A i \in 3 + inputLen .. 0 : FALSE
    BY ONLY <1>1
  <2> QED
    BY <1>2, <2>1, <2>2
<1>3. ASSUME NEW n \in Nat, Shows(screen, Typed, n) PROVE
          /\ IsScreen(screen) /\ IsLine(screen.line, n)
          /\ \A i \in 3 + inputLen .. n : screen.line[i] = Space
  BY <1>1, <1>3 DEF Shows
<1> QED
  BY <1>2, <1>3 DEF Clean

LEMMA TextIs ==
  ASSUME BootInv, InputInv, Clean, NEW c \in Cpu, PrintText(c)
  PROVE  (\E n \in Nat : Printed(screen', c, n)) /\ screen'.above = screen.above
<1>1. num[c] = c /\ Head(todo[c]).text # Space
  BY PrintsWhat DEF PrintText, Holds
<1>2. PICK text : text = Head(todo[c]).text
  OBVIOUS
<1>3. PICK n \in Nat : /\ IsScreen(screen) /\ IsLine(screen.line, n)
                       /\ \A i \in 3 + inputLen .. n : screen.line[i] = Space
  BY CleanIs
<1>4. inputLen \in Nat
  BY TypedSeqs
<1>5. PICK size \in Nat : Blank(Erase(screen), size) /\ Erase(screen).above = screen.above
  BY <1>3, <1>4, Erases DEF Erase
<1>6. PICK s : s = Erase(screen)
  OBVIOUS
<1>7. screen' = Put(Return(s), <<Label(c), text>>)
  BY <1>1, <1>2, <1>6 DEF PrintText
<1>8. Printed(Put(Return(s), <<Label(c), text>>), c, size) /\ Put(Return(s), <<Label(c), text>>).above = s.above
  BY <1>1, <1>2, <1>5, <1>6, Says
<1> QED
  BY <1>5, <1>6, <1>7, <1>8

LEMMA AgainIs ==
  ASSUME InputInv, NEW c \in Cpu, PrintPrompt(c), NEW n, Printed(screen, c, n)
  PROVE  /\ \E size \in Nat : Shows(screen', Typed, size)
         /\ Len(screen'.above) = 2 /\ screen'.above[1] = Label(c)
<1>1. PICK t, e, p : t = Typed /\ e = <<>> /\ p = Prompt(screen)
  OBVIOUS
<1>2. PICK l \in Nat, m \in Nat : l = 0 /\ m = inputLen
  BY TypedSeqs
<1>3. Len(t) = m /\ Len(e) = l
  BY <1>1, <1>2, TypedSeqs
<1>4. l + m = m /\ \A i \in 1 .. m : ~(i <= l) /\ i - l = i
  BY ONLY l \in Nat, m \in Nat, <1>2
<1>5. Joined(t, e, t, l, m)
  BY <1>3, <1>4 DEF Joined
<1>6. PICK two \in Nat : two = 2
  OBVIOUS
<1>7. Shows(p, e, two) /\ p.above = Visible(screen.line)
  BY <1>1, <1>6, PromptIs
<1>8. PICK size \in Nat : Shows(Put(p, t), t, size) /\ Put(p, t).above = p.above
  BY <1>5, <1>7, TypesOn
<1>9. screen' = Put(p, t)
  BY <1>1 DEF PrintPrompt, Again, Typed
<1> QED
  BY <1>1, <1>7, <1>8, <1>9, PrintedSeen

-----------------------------------------------------------------------------
(***************************************************************************)
(* A key.                                                                  *)
(***************************************************************************)
LEMMA FrontIs ==
  ASSUME NEW u, u \in Seq(Range(u)), NEW l \in Nat, Len(u) = l + 1, NEW v, v = Front(u)
  PROVE  v \in Seq(Range(v)) /\ Len(v) = l /\ \A i \in 1 .. l : v[i] = u[i]
<1>1. PICK S : S = Range(u)
  OBVIOUS
<1>2. PICK one \in Int, e \in Int : one = 1 /\ e = l
  OBVIOUS
<1>3. v = SubSeq(u, one, e)
  <2>1. (l + 1) - 1 = l
    BY ONLY l \in Nat
  <2> QED
    BY <1>2, <2>1 DEF Front
<1>4. \A i \in one .. e : u[i] \in S
  <2>1. \A i \in one .. e : i \in 1 .. l + 1
    BY ONLY l \in Nat, <1>2
  <2>2. \A i \in 1 .. Len(u) : u[i] \in S
    BY <1>1, ElementOfSeq
  <2> QED
    BY <2>1, <2>2
<1>5. /\ v \in Seq(S) /\ Len(v) = (IF one <= e THEN e - one + 1 ELSE 0)
      /\ \A i \in 1 .. e - one + 1 : v[i] = u[one + i - 1]
  BY ONLY one \in Int, e \in Int, <1>3, <1>4, SubSeqProperties
<1>6. Len(v) = l
  BY ONLY l \in Nat, <1>2, <1>5
<1>7. ASSUME NEW i \in 1 .. l PROVE v[i] = u[i]
  <2>1. i \in 1 .. e - one + 1 /\ one + i - 1 = i
    BY ONLY l \in Nat, i \in 1 .. l, <1>2
  <2>2. v[i] = u[one + i - 1]
    BY ONLY <1>5, <2>1
  <2> QED
    BY ONLY <2>1, <2>2
<1>8. v \in Seq(Range(v))
  BY ONLY <1>5, SeqOfRange
<1> QED
  BY <1>6, <1>7, <1>8

LEMMA AppendIs ==
  ASSUME NEW u, u \in Seq(Range(u)), NEW l \in Nat, Len(u) = l, NEW e, NEW v, v = Append(u, e)
  PROVE  v \in Seq(Range(v)) /\ Len(v) = l + 1 /\ Joined(v, u, <<e>>, l, 1)
<1>1. PICK S : S = Range(u) \cup {e}
  OBVIOUS
<1>2. u \in Seq(S) /\ e \in S
  BY <1>1, SeqMonotonic
<1>3. v \in Seq(S) /\ Len(v) = Len(u) + 1 /\ (\A i \in 1 .. Len(u) : v[i] = u[i]) /\ v[Len(u) + 1] = e
  BY ONLY <1>2, v = Append(u, e), AppendProperties
<1>4. Len(v) = l + 1 /\ (\A i \in 1 .. l : v[i] = u[i]) /\ v[l + 1] = e
  BY <1>3
<1>5. Len(<<e>>) = 1 /\ <<e>>[1] = e
  OBVIOUS
<1>6. ASSUME NEW i \in 1 .. l + 1 PROVE v[i] = IF i <= l THEN u[i] ELSE <<e>>[i - l]
  <2>1. (i <= l /\ i \in 1 .. l) \/ (~(i <= l) /\ i = l + 1 /\ i - l = 1)
    BY ONLY l \in Nat, i \in 1 .. l + 1
  <2>2. CASE i <= l /\ i \in 1 .. l
    BY ONLY <1>4, <2>2
  <2>3. CASE ~(i <= l) /\ i = l + 1 /\ i - l = 1
    BY ONLY <1>4, <1>5, <2>3
  <2> QED
    BY <2>1, <2>2, <2>3
<1>7. v \in Seq(Range(v))
  BY ONLY <1>3, SeqOfRange
<1> QED
  BY <1>4, <1>5, <1>6, <1>7 DEF Joined

-----------------------------------------------------------------------------
\* What a screen has after a key, and the line above: a line with a prompt, or what it was.
Follows(s, t, old) ==
  /\ \E n \in Nat : Shows(s, t, n)
  /\ s.above = old.above \/ s.above[1] = ">"

LEMMA KeyIs ==
  ASSUME InputInv, inputBuf, ~inputRun, NEW n \in Nat, Shows(screen, input, n), NEW key, Key(key)
  PROVE  /\ UNCHANGED inputBuf /\ inputRun' \in BOOLEAN /\ input' \in Seq(Range(input'))
         /\ inputRun' => inputLen' = 0 /\ Follows(screen', <<>>, screen)
         /\ ~inputRun' => inputLen' = Len(input') /\ Follows(screen', input', screen)
<1>0. PICK u : u = input
  OBVIOUS
<1>1. u = input /\ inputLen \in Nat
  BY <1>0, TypedSeqs
<1>9. PICK l \in Nat : l = inputLen
  BY <1>1
<1>2. u \in Seq(Range(u)) /\ Len(u) = l
  BY <1>1, <1>9, TypedSeqs DEF Typed
<1>3. Shows(screen, u, n)
  BY <1>1
<1>4. ~inputRun /\ inputRun \in BOOLEAN
  BY DEF InputInv
<1>5. CASE UNCHANGED <<screen, line>>
  BY <1>1, <1>2, <1>3, <1>4, <1>5, <1>9 DEF line, Follows
<1>6. CASE key = "del"
  <2>1. /\ UNCHANGED <<inputBuf, inputRun>>
        /\ \/ l > 0 /\ inputLen' = l - 1 /\ input' = Front(u) /\ screen' = RubOut(screen)
           \/ UNCHANGED <<screen, line>>
    BY <1>1, <1>6, <1>9, Zenon DEF Key, line
  <2>2. CASE l > 0 /\ inputLen' = l - 1 /\ input' = Front(u) /\ screen' = RubOut(screen)
    <3>1. PICK h \in Nat : l = h + 1 /\ l - 1 = h
      BY ONLY l \in Nat, <2>2
    <3>2. PICK v : v = Front(u)
      OBVIOUS
    <3>3. v \in Seq(Range(v)) /\ Len(v) = h /\ \A i \in 1 .. h : v[i] = u[i]
      BY <1>2, <3>1, <3>2, FrontIs
    <3>4. PICK r : r = RubOut(screen)
      OBVIOUS
    <3>5. Shows(r, v, n) /\ r.above = screen.above
      BY <1>2, <1>3, <3>1, <3>3, <3>4, RubsOut
    <3>6. Follows(r, v, screen)
      BY <3>5 DEF Follows
    <3> QED
      BY <1>4, <2>1, <2>2, <3>1, <3>2, <3>3, <3>4, <3>6
  <2> QED
    BY <1>5, <2>1, <2>2
<1>7. CASE key = "nl"
  <2>1. key # "del"
    BY <1>7
  <2>2. inputRun' = TRUE /\ inputLen' = 0 /\ screen' = Prompt(screen) /\ UNCHANGED <<input, inputBuf>>
    BY <1>7, <2>1, Zenon DEF Key
  <2>3. PICK p, e : p = Prompt(screen) /\ e = <<>>
    OBVIOUS
  <2>10. PICK two \in Nat : two = 2
    OBVIOUS
  <2>4. Shows(p, e, two) /\ p.above = Visible(screen.line)
    BY <2>3, <2>10, PromptIs
  <2>5. Len(u) \in Nat
    BY <1>2
  <2>6. p.above[1] = ">"
    BY <1>3, <2>4, <2>5, PromptSeen
  <2>7. Follows(p, e, screen)
    BY <2>4, <2>6 DEF Follows
  <2>8. inputRun' \in BOOLEAN /\ inputRun'
    BY <2>2
  <2>9. Follows(screen', <<>>, screen)
    BY <2>2, <2>3, <2>7
  <2> QED
    BY <1>1, <1>2, <2>2, <2>8, <2>9
<1>8. CASE key # "del" /\ key # "nl"
  <2>1. /\ UNCHANGED <<inputBuf, inputRun>>
        /\ \/ inputLen' = l + 1 /\ input' = Append(u, key) /\ screen' = Put(screen, <<key>>)
           \/ UNCHANGED <<screen, line>>
    BY <1>1, <1>8, <1>9, Zenon DEF Key, line
  <2>2. CASE inputLen' = l + 1 /\ input' = Append(u, key) /\ screen' = Put(screen, <<key>>)
    <3>1. PICK v, t : v = Append(u, key) /\ t = <<key>>
      OBVIOUS
    <3>2. v \in Seq(Range(v)) /\ Len(v) = l + 1 /\ Joined(v, u, t, l, 1)
      BY <1>2, <3>1, AppendIs
    <3>3. PICK r : r = Put(screen, t)
      OBVIOUS
    <3>4. PICK one \in Nat : one = 1
      OBVIOUS
    <3>5. \E size \in Nat : Shows(r, v, size) /\ r.above = screen.above
      BY <1>3, <3>2, <3>3, <3>4, TypesOn
    <3>6. Follows(r, v, screen)
      BY <3>5 DEF Follows
    <3> QED
      BY <1>4, <2>1, <2>2, <3>1, <3>2, <3>3, <3>6
  <2> QED
    BY <1>5, <2>1, <2>2
<1> QED
  BY <1>6, <1>7, <1>8

-----------------------------------------------------------------------------
(***************************************************************************)
(* Each step of the console.                                               *)
(***************************************************************************)
ConsoleStays == ConsoleInv' /\ Lit

\* The screen is left alone, and so is the line that is typed.
SameScreen ==
  /\ UNCHANGED <<screen, alive>>
  /\ InputInv' /\ Typed' = Typed
  /\ \A d \in Cpu : step'[d] = "prompt" <=> step[d] = "prompt"

LEMMA SameStays ==
  ASSUME ConsoleInv, SameScreen, \A d \in Cpu : ~PrintPrompt(d)
  PROVE  ConsoleStays
<1>1. PICK t : t = Typed
  OBVIOUS
<1>2. Typed' = t /\ screen' = screen /\ alive' = alive
  BY <1>1 DEF SameScreen
<1>3. Clean => Clean'
  BY <1>1, <1>2 DEF Clean
<1>4. ScreenInv'
  BY <1>2, <1>3 DEF ConsoleInv, ScreenInv, SameScreen
<1>5. LinesWhole'
  BY <1>2 DEF ConsoleInv, LinesWhole
<1> QED
  BY <1>2, <1>4, <1>5 DEF ConsoleStays, ConsoleInv, SameScreen, Lit

LEMMA SameInput ==
  ASSUME InputInv, UNCHANGED <<input, inputBuf, inputLen, inputRun>>
  PROVE  InputInv' /\ Typed' = Typed
BY DEF InputInv, Typed

\* Only one core is in print() with the lock.
LEMMA OnePrints ==
  ASSUME MutualExclusion, PrintInv, NEW c \in Cpu, lk[c] = "in", NEW d \in Cpu, d # c
  PROVE  step[d] \notin Printing
BY DEF MutualExclusion, PrintInv, Printing

LEMMA PromptIsOne ==
  ASSUME NEW c \in Cpu, PrintPrompt(c), NEW d \in Cpu, PrintPrompt(d), MutualExclusion
  PROVE  c = d
BY DEF PrintPrompt, Holds, MutualExclusion

LEMMA ReadLineClears ==
  ASSUME CoreTypes, BootInv, InputInv, NEW c \in Cpu, SetLine(c)
  PROVE  InputInv' /\ Typed' = Typed
<1>1. PICK n, k : Booting(n, k)
  BY DEF BootInv
<1>2. PICK op : op = "setline"
  OBVIOUS
<1>3. Next0(c, op)
  BY <1>2 DEF SetLine, Holds
<1>4. PICK w \in 1 .. 5 : RestOp(w) = op /\ ZeroIs(n, k, w, <<>>)
  BY <1>1, <1>2, <1>3, ZeroAt
<1>5. w # 5
  BY <1>2, <1>4 DEF RestOp
<1>6. ~inputBuf
  <2>1. inputBuf = (w = 5)
    BY <1>4, Zenon DEF ZeroIs
  <2> QED
    BY <1>5, <2>1, Zenon
<1>7. Typed = <<>>
  BY <1>6 DEF Typed
<1>8. input' = <<>> /\ inputBuf' = TRUE /\ inputLen' = 0 /\ inputRun' = inputRun
  BY DEF SetLine
<1>9. Typed' = <<>>
  BY <1>8 DEF Typed
<1>10. InputInv'
  <2>1. <<>> \in Seq(Range(<<>>)) /\ Len(<<>>) = 0
    OBVIOUS
  <2> QED
    BY <1>8, <1>9, <2>1 DEF InputInv
<1> QED
  BY <1>7, <1>9, <1>10

LEMMA PollClears ==
  ASSUME InputInv, NEW c, NEW ops, Poll(c, ops)
  PROVE  InputInv' /\ Typed' = Typed
<1>1. inputRun /\ inputBuf' = FALSE /\ inputLen' = 0 /\ inputRun' = FALSE /\ input' = input
  BY DEF Poll
<1>2. Typed = <<>> /\ Typed' = <<>>
  BY <1>1 DEF Typed
<1>3. Len(<<>>) = 0
  OBVIOUS
<1> QED
  BY <1>1, <1>2, <1>3 DEF InputInv

LEMMA InitClears ==
  ASSUME CoreTypes, BootInv, InputInv, NEW c \in Cpu, ConsoleInit(c),
         UNCHANGED <<alive, num, bootNum, bootDone, halt, stopped>>
  PROVE  InputInv' /\ Typed' = Typed
<1>1. PICK n, k : Booting(n, k)
  BY DEF BootInv
<1>2. ~inputBuf
  BY <1>1, ConsoleInitBoots
<1>3. inputBuf' = FALSE /\ UNCHANGED <<input, inputLen, inputRun>>
  BY DEF ConsoleInit
<1>4. Typed = <<>> /\ Typed' = <<>>
  BY <1>2, <1>3 DEF Typed
<1> QED
  BY <1>2, <1>3, <1>4 DEF InputInv

\* What a core does besides print().
LEMMA QuietLeaves ==
  ASSUME CoreTypes, PrintInv, BootInv, InputInv, NEW c \in Cpu, Program(c),
         ~PrintText(c), ~PrintPrompt(c)
  PROVE  SameScreen
<1>1. UNCHANGED alive /\ \A d \in Cpu : d # c => step'[d] = step[d]
  BY OnlyOwn DEF Elsewhere
<1>2. step'[c] # "prompt" /\ step[c] # "prompt"
  <2>1. CASE PrintWait(c)
    <3>1. step'[c] = "text" /\ step[c] = "go"
      BY <2>1, PrintHolds DEF PrintStep, PrintWait
    <3> QED
      BY <3>1
  <2>2. CASE ~PrintWait(c)
    BY <2>2, QuietStep DEF PrintStep, Printing
  <2> QED
    BY <2>1, <2>2
<1>3. screen' = screen /\ InputInv' /\ Typed' = Typed
  <2>1. CASE UNCHANGED <<screen, input, inputBuf, inputLen, inputRun>>
    BY <2>1, SameInput
  <2>2. CASE BootStep(c) \/ SmpStep(c) \/ MailStep(c) \/ BspInit(c) \/ MemStep(c) \/ GfxStep(c)
    BY <2>1, <2>2 DEF BootStep, SmpStep, MailStep, BspInit, MemStep, GfxStep, consoleVars
  <2>3. CASE Talk(c)
    <3>1. PICK ops : ConsoleStep(c, ops)
      BY <2>3 DEF Talk
    <3>2. UNCHANGED <<alive, num, bootNum, bootDone, halt, stopped>>
      BY <1>1, <2>3 DEF Talk, boot
    <3>3. CASE ConsoleInit(c)
      BY <3>2, <3>3, InitClears DEF ConsoleInit
    <3>4. CASE LockStep(c) \/ PrintWait(c) \/ PollAgain(c)
      BY <2>1, <3>4 DEF LockStep, PrintWait, PollAgain, consoleVars
    <3>5. CASE SetLine(c)
      BY <3>5, ReadLineClears DEF SetLine
    <3>6. CASE Poll(c, ops)
      BY <3>6, PollClears DEF Poll
    <3> QED
      BY <3>1, <3>3, <3>4, <3>5, <3>6 DEF ConsoleStep
  <2> QED
    BY <2>2, <2>3 DEF Program
<1> QED
  BY <1>1, <1>2, <1>3 DEF SameScreen

-----------------------------------------------------------------------------
LEMMA PrintedThere ==
  ASSUME NEW s, NEW c, NEW n, Printed(s, c, n)
  PROVE  s.line # <<>>
BY LineThere DEF Printed

LEMMA ShownThere ==
  ASSUME NEW s, NEW t, t \in Seq(Range(t)), NEW n, Shows(s, t, n)
  PROVE  s.line # <<>>
<1>1. PICK S : S = Range(t)
  OBVIOUS
<1>2. t \in Seq(S)
  BY <1>1
<1>3. PICK l \in Nat : l = Len(t)
  BY ONLY <1>2, LenProperties
<1>4. n \in Nat /\ IsLine(s.line, n) /\ 2 + l <= n
  BY <1>3 DEF Shows, IsLine
<1>5. 2 <= n
  BY ONLY <1>4, l \in Nat
<1> QED
  BY <1>4, <1>5, LineThere

LEMMA TextStays ==
  ASSUME MutualExclusion, CoreTypes, PrintInv, BootInv, ConsoleInv, NEW c \in Cpu, Program(c), PrintText(c)
  PROVE  ConsoleStays
<1>1. UNCHANGED alive /\ \A d \in Cpu : d # c => step'[d] = step[d]
  BY OnlyOwn DEF Elsewhere
<1>2. lk[c] = "in" /\ step[c] = "text" /\ step'[c] = "prompt"
  BY PrintHolds DEF PrintStep, PrintText
<1>3. \A d \in Cpu : d # c => step[d] # "prompt"
  BY <1>2, OnePrints DEF Printing
<1>4. Clean
  BY <1>2, <1>3 DEF ConsoleInv, ScreenInv
<1>5. PICK s : s = screen'
  OBVIOUS
<1>6. PICK n \in Nat : Printed(s, c, n)
  BY <1>4, <1>5, TextIs DEF ConsoleInv
<1>7. s.above = screen.above
  BY <1>4, <1>5, TextIs DEF ConsoleInv
<1>8. InputInv'
  BY SameInput DEF ConsoleInv, PrintText, line
<1>9. ScreenInv'
  <2>1. \A d \in Cpu : step'[d] = "prompt" <=> d = c
    BY <1>1, <1>2, <1>3
  <2> QED
    BY <1>5, <1>6, <2>1 DEF ScreenInv
<1>10. LinesWhole'
  BY <1>1, <1>5, <1>7 DEF ConsoleInv, LinesWhole
<1>11. screen'.line # <<>>
  BY <1>5, <1>6, PrintedThere
<1> QED
  BY <1>8, <1>9, <1>10, <1>11 DEF ConsoleStays, ConsoleInv, Lit

LEMMA PromptStays ==
  ASSUME MutualExclusion, CoreTypes, PrintInv, BootInv, ConsoleInv, NEW c \in Cpu, Program(c), PrintPrompt(c)
  PROVE  ConsoleStays
<1>1. UNCHANGED alive /\ \A d \in Cpu : d # c => step'[d] = step[d]
  BY OnlyOwn DEF Elsewhere
<1>2. lk[c] = "in" /\ step[c] = "prompt" /\ step'[c] = "go" /\ c \in alive
  BY PrintHolds DEF PrintStep, PrintPrompt
<1>3. \A d \in Cpu : d # c => step[d] # "prompt"
  BY <1>2, OnePrints DEF Printing
<1>4. PICK n \in Nat : Printed(screen, c, n)
  BY <1>2 DEF ConsoleInv, ScreenInv
<1>5. PICK s, t : s = screen' /\ t = Typed
  OBVIOUS
<1>6. PICK size \in Nat : Shows(s, t, size)
  BY <1>4, <1>5, AgainIs DEF ConsoleInv
<1>7. Len(s.above) = 2 /\ s.above[1] = Label(c)
  BY <1>4, <1>5, AgainIs DEF ConsoleInv
<1>8. InputInv' /\ Typed' = t
  BY <1>5, SameInput DEF ConsoleInv, PrintPrompt, line
<1>9. ScreenInv'
  <2>1. \A d \in Cpu : step'[d] # "prompt"
    BY <1>1, <1>2, <1>3
  <2>2. Clean'
    BY <1>5, <1>6, <1>8 DEF Clean
  <2> QED
    BY <2>1, <2>2 DEF ScreenInv
<1>10. LinesWhole'
  <2>1. c \in alive'
    BY <1>1, <1>2
  <2> QED
    BY <1>5, <1>7, <2>1 DEF LinesWhole
<1>11. screen'.line # <<>>
  <2>1. t \in Seq(Range(t))
    BY <1>5, TypedSeqs DEF ConsoleInv
  <2> QED
    BY <1>5, <1>6, <2>1, ShownThere
<1> QED
  BY <1>8, <1>9, <1>10, <1>11 DEF ConsoleStays, ConsoleInv, Lit

LEMMA NoPrompt == \A c \in Cpu : UNCHANGED step /\ CoreTypes => ~PrintPrompt(c)
BY DEF CoreTypes, ProgramType, PrintPrompt, Goto

LEMMA KeyStays ==
  ASSUME MutualExclusion, CoreTypes, PrintInv, BootInv, ConsoleInv, IrqKey, UNCHANGED alive
  PROVE  ConsoleStays
<1>1. irqAt = "lock" /\ lk[0] = "in" /\ UNCHANGED step
  BY DEF IrqKey
<1>2. \A d \in Cpu : step[d] # "prompt"
  <2>1. step[0] # "prompt"
    BY <1>1, BspAssumption DEF PrintInv
  <2> QED
    BY <1>1, <2>1, BspAssumption, OnePrints DEF Printing
<1>3. \A d \in Cpu : ~PrintPrompt(d)
  BY <1>1, NoPrompt
<1>4. Clean
  BY <1>2 DEF ConsoleInv, ScreenInv
<1>5. CASE UNCHANGED <<screen, line>>
  <2>1. SameScreen
    BY <1>1, <1>5, SameInput DEF SameScreen, ConsoleInv, line
  <2> QED
    BY <1>3, <2>1, SameStays
<1>6. ASSUME NEW key, Key(key), ~UNCHANGED <<screen, line>> PROVE ConsoleStays
  <2>1. inputBuf /\ ~inputRun
    BY <1>6, Zenon DEF Key
  <2>2. PICK n \in Nat : Shows(screen, Typed, n)
    BY <1>4, <2>1, InputShown DEF Clean
  <2>3. Shows(screen, input, n)
    BY <2>1, <2>2 DEF Typed
  <2>4. /\ UNCHANGED inputBuf /\ inputRun' \in BOOLEAN /\ input' \in Seq(Range(input'))
        /\ inputRun' => inputLen' = 0 /\ Follows(screen', <<>>, screen)
        /\ ~inputRun' => inputLen' = Len(input') /\ Follows(screen', input', screen)
    BY <1>6, <2>1, <2>3, KeyIs DEF ConsoleInv
  <2>5. PICK s, t : s = screen' /\ t = Typed'
    OBVIOUS
  <2>6. inputLen' = Len(t) /\ Follows(s, t, screen)
    <3>1. CASE inputRun'
      <4>1. Typed' = <<>>
        BY <3>1 DEF Typed
      <4>2. Len(<<>>) = 0
        OBVIOUS
      <4> QED
        BY <2>4, <2>5, <3>1, <4>1, <4>2
    <3>2. CASE ~inputRun'
      <4>1. Typed' = input'
        BY <2>1, <2>4, <3>2 DEF Typed
      <4> QED
        BY <2>4, <2>5, <3>2, <4>1
    <3> QED
      BY <3>1, <3>2
  <2>7. InputInv'
    BY <2>1, <2>4, <2>5, <2>6 DEF InputInv
  <2>8. (\E i \in Nat : Shows(s, t, i)) /\ (s.above = screen.above \/ s.above[1] = ">")
    BY <2>6 DEF Follows
  <2>9. ScreenInv'
    <3>1. Clean'
      BY <2>5, <2>8 DEF Clean
    <3>2. \A d \in Cpu : step'[d] # "prompt"
      BY <1>1, <1>2
    <3> QED
      BY <3>1, <3>2 DEF ScreenInv
  <2>10. LinesWhole'
    BY <2>5, <2>8 DEF ConsoleInv, LinesWhole
  <2>11. screen'.line # <<>>
    <3>1. t \in Seq(Range(t))
      <4>1. InputInv' => Typed' \in Seq(Range(Typed'))
        <5>1. CASE inputBuf' /\ ~inputRun'
          BY <2>4, <5>1 DEF Typed
        <5>2. CASE ~(inputBuf' /\ ~inputRun')
          <6>1. Typed' = <<>>
            BY <5>2 DEF Typed
          <6>2. <<>> \in Seq(Range(<<>>))
            OBVIOUS
          <6> QED
            BY <6>1, <6>2
        <5> QED
          BY <5>1, <5>2
      <4> QED
        BY <2>5, <2>7, <4>1
    <3> QED
      BY <2>5, <2>8, <3>1, ShownThere
  <2> QED
    BY <1>3, <2>7, <2>9, <2>10, <2>11 DEF ConsoleStays, ConsoleInv, Lit
<1>7. UNCHANGED <<screen, line>> \/ \E key : Key(key)
  BY Zenon DEF IrqKey
<1> QED
  BY <1>5, <1>6, <1>7

LEMMA ConsoleSteps ==
  ASSUME MutualExclusion, CoreTypes, PrintInv, BootInv, ConsoleInv, [Next]_vars
  PROVE  ConsoleStays
<1>1. ASSUME NEW c \in Cpu, Program(c) PROVE ConsoleStays
  <2>1. CASE PrintText(c)
    BY <1>1, <2>1, TextStays
  <2>2. CASE PrintPrompt(c)
    BY <1>1, <2>2, PromptStays
  <2>3. CASE ~PrintText(c) /\ ~PrintPrompt(c)
    <3>1. SameScreen
      BY <1>1, <2>3, QuietLeaves DEF ConsoleInv
    <3>2. ASSUME NEW d \in Cpu, PrintPrompt(d) PROVE FALSE
      <4>1. d # c
        BY <2>3, <3>2
      <4>2. step'[d] = step[d]
        BY <1>1, <4>1, OnlyOwn DEF Elsewhere
      <4>3. step[d] = "prompt" /\ step'[d] = "go"
        BY <3>2, PrintHolds DEF PrintStep, PrintPrompt
      <4> QED
        BY <4>2, <4>3
    <3> QED
      BY <3>1, <3>2, SameStays
  <2> QED
    BY <2>1, <2>2, <2>3
<1>2. CASE UNCHANGED <<screen, alive, step, line>>
  <2>1. SameScreen
    BY <1>2, SameInput DEF SameScreen, ConsoleInv, line
  <2> QED
    BY <1>2, <2>1, NoPrompt, SameStays
<1>3. ASSUME NEW c \in Cpu, Obey(c), UNCHANGED user PROVE ConsoleStays
  <2>1. UNCHANGED <<screen, alive, step, line>>
    BY <1>3 DEF Obey, user, program, consoleVars, line
  <2> QED
    BY <1>2, <2>1
<1>4. CASE Handler
  <2>1. IrqStep /\ UNCHANGED alive
    BY <1>4 DEF Handler, user
  <2>2. CASE Irq \/ IrqLock
    <3>1. UNCHANGED <<screen, alive, step, line>>
      BY <2>1, <2>2 DEF Irq, IrqLock, consoleVars, line
    <3> QED
      BY <1>2, <3>1
  <2>3. CASE IrqKey
    BY <2>1, <2>3, KeyStays
  <2> QED
    BY <2>1, <2>2, <2>3 DEF IrqStep
<1>5. CASE Tick \/ UNCHANGED vars
  <2>1. UNCHANGED <<screen, alive, step, line>>
    BY <1>5 DEF Tick, vars, user, program, consoleVars, line
  <2> QED
    BY <1>2, <2>1
<1> QED
  BY <1>1, <1>3, <1>4, <1>5 DEF Next

-----------------------------------------------------------------------------
(***************************************************************************)
(* The invariant of the whole demo, and what follows from it.              *)
(***************************************************************************)
LEMMA BootStarts == Init => BootInv
<1> SUFFICES ASSUME Init PROVE BootInv
  OBVIOUS
<1>1. PICK n \in 1 .. NumCpus : alive = 0 .. n - 1
  BY SetupsAssumption DEF Init
<1>2. PICK k : k = 0
  OBVIOUS
<1>3. NumCpus \in 1 .. 4 /\ Cpu = 0 .. NumCpus - 1
  BY SetupsAssumption
<1>4. k \in 0 .. n /\ n \in Nat /\ \A c \in 0 .. n - 1 : c \in Cpu
  BY ONLY n \in 1 .. NumCpus, <1>2, <1>3
<1>5. /\ todo = [c \in Cpu |-> <<[op |-> "start"]>>] /\ step = [c \in Cpu |-> "go"]
      /\ num = [c \in Cpu |-> 0] /\ halt = [c \in Cpu |-> c # 0] /\ stopped = halt
      /\ bootNum = 0 /\ bootDone = FALSE /\ inputBuf = FALSE /\ screen.line = <<>>
  BY DEF Init, ConsoleStart
<1>6. ProgramType
  BY <1>5 DEF ProgramType
<1>7. Counted(n, k)
  <2>1. \A c \in 0 .. k - 1 : FALSE
    BY <1>2
  <2>2. \A c \in 1 .. k - 1 : FALSE
    BY <1>2
  <2>3. ASSUME NEW c \in k .. n - 1
        PROVE  /\ todo[c] = <<[op |-> "start"]>> /\ step[c] = "go"
               /\ c # k => halt[c] /\ stopped[c]
    <3>1. c \in 0 .. n - 1
      BY <1>2
    <3>2. c \in Cpu
      BY <1>4, <3>1
    <3> QED
      BY <1>2, <1>5, <3>2
  <2>4. \A c \in k .. n - 1 : step[c] \in {"go", "count"} /\ step[c] # "count"
    BY <2>3
  <2> QED
    BY <1>1, <1>2, <1>5, <2>1, <2>2, <2>3, <2>4 DEF Counted
<1>8. Booting(n, k)
  BY <1>2, <1>4, <1>6, <1>7 DEF Booting
<1> QED
  BY <1>8 DEF BootInv

LEMMA ConsoleStarts == Init => PrintInv /\ ConsoleInv
<1> SUFFICES ASSUME Init PROVE PrintInv /\ ConsoleInv
  OBVIOUS
<1>1. /\ step = [c \in Cpu |-> "go"]
      /\ screen = [line |-> <<>>, col |-> 0, above |-> <<>>]
      /\ input = <<>> /\ inputBuf = FALSE /\ inputLen = 0 /\ inputRun = FALSE
  BY DEF Init, ConsoleStart
<1>2. \A c \in Cpu : step[c] \notin {"text", "prompt"}
  BY <1>1
<1>3. PrintInv
  BY <1>2 DEF PrintInv
<1>4. Typed = <<>>
  BY <1>1 DEF Typed
<1>5. <<>> \in Seq(Range(<<>>)) /\ Len(<<>>) = 0
  OBVIOUS
<1>6. InputInv
  BY <1>1, <1>4, <1>5 DEF InputInv
<1>7. screen.line = <<>> /\ screen.col = 0 /\ screen.above = <<>>
  BY <1>1
<1>8. IsScreen(screen)
  BY <1>1, <1>7 DEF IsScreen
<1>9. ScreenInv
  BY <1>2, <1>4, <1>7, <1>8 DEF ScreenInv, Clean
<1>10. LinesWhole
  BY <1>7 DEF LinesWhole
<1> QED
  BY <1>3, <1>6, <1>9, <1>10 DEF ConsoleInv

LEMMA DemoStarts == Init => DemoInv
<1>1. Init => LockInv
  BY LockStarts DEF Init, ConsoleStart
<1> QED
  BY <1>1, BootStarts, ConsoleStarts DEF DemoInv

LEMMA DemoStays ==
  ASSUME DemoInv, [Next]_vars
  PROVE  DemoInv'
<1>1. LockInv /\ BootInv /\ PrintInv /\ ConsoleInv
  BY DEF DemoInv
<1>2. MutualExclusion /\ CoreTypes
  BY <1>1 DEF LockInv, CoreTypes, BootInv, Booting
<1>3. LockInv'
  <2>1. [LockNext]_lockVars
    BY <1>1, StepLocks DEF LockInv
  <2> QED
    BY <1>1, <2>1, LockStays
<1>4. PrintInv'
  BY <1>1, <1>2, PrintStays
<1>5. ConsoleInv' /\ Lit
  BY <1>1, <1>2, ConsoleSteps DEF ConsoleStays
<1>6. BootInv'
  BY <1>1, <1>5, BootStays
<1> QED
  BY <1>3, <1>4, <1>5, <1>6 DEF DemoInv

LEMMA NumbersHold == BootInv => NumbersRight
<1> SUFFICES ASSUME BootInv PROVE NumbersRight
  OBVIOUS
<1>1. PICK n, k : Booting(n, k)
  BY DEF BootInv
<1>2. n \in Nat /\ k \in Nat /\ n # 0 /\ k <= n /\ \A i \in 0 .. n - 1 : i \in Cpu
  BY <1>1, Numbers
<1>3. alive = 0 .. n - 1
  BY <1>1 DEF Booting, Counted
<1>4. ASSUME NEW c \in alive, Head(todo[c]).op # "start" PROVE num[c] = c
  <2>1. c \in 0 .. k - 1 \/ c \in k .. n - 1
    BY ONLY <1>2, <1>3, c \in alive
  <2>2. c \notin k .. n - 1
    <3>1. Head(<<[op |-> "start"]>>).op = "start"
      OBVIOUS
    <3>2. \A d \in k .. n - 1 : todo[d] = <<[op |-> "start"]>>
      BY <1>1 DEF Booting, Counted
    <3> QED
      BY <1>4, <3>1, <3>2
  <2> QED
    BY <1>1, <2>1, <2>2 DEF Booting, Counted
<1>5. ASSUME NEW c \in alive, step[c] = "count" PROVE c = k
  <2>1. c \in 0 .. k - 1 \/ c \in k .. n - 1
    BY ONLY <1>2, <1>3, c \in alive
  <2> QED
    BY <1>1, <1>5, <2>1 DEF Booting, Counted
<1>6. ASSUME bootDone, Head(todo[0]).op = "waitboot" PROVE bootNum = Cardinality(alive)
  <2>1. k = n
    BY <1>1, <1>6 DEF Booting, Counted
  <2>2. PICK w, x : w \in 1 .. 5 /\ ZeroIs(n, k, w, x)
    BY <1>1, <1>2, <2>1 DEF Booting
  <2>3. x = <<>>
    <3>1. "waitboot" \notin OpsAt(w)
      <4>1. OpsAt(w) \in {FirstOps, LineOps, {}}
        BY <2>2, OpsApart
      <4> QED
        BY <4>1 DEF FirstOps, LineOps
    <3>2. x # <<>> => Head(todo[0]) = Head(x) /\ Fit(Head(x), OpsAt(w), k, n)
      BY <2>2, ZeroNext
    <3> QED
      BY <1>6, <3>1, <3>2 DEF Fit
  <2>4. RestOp(w) = "waitboot"
    BY <1>6, <2>2, <2>3, ZeroNext
  <2>5. w <= 3
    BY <2>2, <2>4 DEF RestOp
  <2>6. bootNum = n
    BY <2>1, <2>2, <2>5 DEF ZeroIs
  <2>7. Cardinality(0 .. n - 1) = n
    <3>1. PICK a \in Int, b \in Int : a = 0 /\ b = n - 1 /\ ~(a > b) /\ b - a + 1 = n
      BY ONLY <1>2
    <3>2. Cardinality(a .. b) = IF a > b THEN 0 ELSE b - a + 1
      BY FS_Interval
    <3> QED
      BY <3>1, <3>2
  <2> QED
    BY <1>3, <2>6, <2>7
<1> QED
  BY <1>4, <1>5, <1>6 DEF NumbersRight

LEMMA PromptHolds == DemoInv => PromptShowsInput
<1> SUFFICES ASSUME DemoInv, lockVal = 0
             PROVE  \/ Visible(screen.line) = <<>>
                    \/ Visible(screen.line) = Visible(<<">", Space>> \o Typed)
  BY Zenon DEF PromptShowsInput, Typed
<1>1. \A c \in Cpu : step[c] # "prompt"
  BY DEF DemoInv, LockInv, Taken, PrintInv
<1>2. Clean
  BY <1>1 DEF DemoInv, ConsoleInv, ScreenInv
<1>3. CASE screen.line = <<>>
  <2>1. Inked(screen.line) = {}
    BY <1>3 DEF Inked
  <2> QED
    BY <2>1, VisibleIs
<1>4. ASSUME NEW n \in Nat, Shows(screen, Typed, n)
      PROVE  Visible(screen.line) = Visible(<<">", Space>> \o Typed)
  <2>1. PICK t : t = Typed
    OBVIOUS
  <2>2. t \in Seq(Range(t))
    BY <2>1, TypedSeqs DEF DemoInv, ConsoleInv
  <2>3. Shows(screen, t, n)
    BY <1>4, <2>1
  <2>4. Visible(screen.line) = Visible(<<">", Space>> \o t)
    BY <2>2, <2>3, TypedSeen
  <2> QED
    BY <2>1, <2>4, Zenon
<1> QED
  BY <1>2, <1>3, <1>4, Zenon DEF Clean

-----------------------------------------------------------------------------
\* Whatever cores exist and whatever the user types, the cores boot one at a time, each
\* gets the number by which smp_ctrl knows it, and all have been counted when core 0 goes
\* on (start.S:32-36, smp.c, init.c).
THEOREM NumbersAlwaysRight == Spec => []NumbersRight
<1>1. DemoInv => NumbersRight
  BY NumbersHold DEF DemoInv
<1>2. DemoInv /\ [Next]_vars => DemoInv'
  BY DemoStays
<1> QED
  BY <1>1, <1>2, DemoStarts, PTL DEF Spec

\* Whenever the lock is free the screen shows what has been typed, whatever is printed and
\* typed meanwhile (console.c:100-104, 156-158, 163-237).
THEOREM PromptAlwaysShows == Spec => []PromptShowsInput
<1>1. DemoInv /\ [Next]_vars => DemoInv'
  BY DemoStays
<1> QED
  BY <1>1, PromptHolds, DemoStarts, PTL DEF Spec

\* Of a longer line that had been typed nothing is left in one that has scrolled up
\* (console.c:100-158).
THEOREM LinesAlwaysWhole == Spec => []LinesWhole
<1>1. DemoInv => LinesWhole
  BY DEF DemoInv, ConsoleInv
<1>2. DemoInv /\ [Next]_vars => DemoInv'
  BY DemoStays
<1> QED
  BY <1>1, <1>2, DemoStarts, PTL DEF Spec

-----------------------------------------------------------------------------
(***************************************************************************)
(* The mailboxes.                                                          *)
(***************************************************************************)
Exchanging == {"ldlo", "ldhi", "stlo", "sthi"}
Pairs == [lo : Nat, hi : Nat]

BoxType ==
  /\ box \in [Cpu -> Pairs] /\ sent \in [Cpu -> Seq(Messages)]
  /\ cas \in [Cpu -> [old : Pairs, read : Pairs]]

\* A mailbox has what has been put there last.
LastIs(s) == IF s = <<>> THEN NoMessage ELSE s[Len(s)]
LastSent == \A n \in Cpu : box[n] = LastIs(sent[n])

MailAt ==
  \A c \in Cpu : step[c] \in Exchanging \cup {"current"} =>
    todo[c] # <<>> /\ Head(todo[c]).op \in {"send", "recv"}

\* All cores have been counted and core 0 reads lines: no mailbox is cleared any more.
Late == bootDone /\ bootNum = 0
SentLate == (\E n \in Cpu : sent[n] # <<>>) => Late

\* What a core has linked of its mailbox was put there, and what it has seen of the
\* upper word after that was put there then or later.
Receives(c) == Head(todo[c]).op = "recv"
WasSent(s, rd) == rd = NoMessage \/ \E i \in DOMAIN s : rd = s[i]
SawLater(s, rd, old) ==
  \/ rd = NoMessage /\ (s = <<>> => old = NoMessage)
  \/ \E i, j \in DOMAIN s : i <= j /\ rd = s[i] /\ old.hi = s[j].hi

IsMonitor(m) == m = [line |-> m.line, mask |-> m.mask, dirty |-> m.dirty, rd |-> m.rd, wr |-> m.wr]
Free(m) == m.mask = {} \/ m.line = LockLine

\* A strex of both words can only commit after ldrexes of both words in one turn, of
\* which the second has not read the line again.
LinksBoth(m, x, lo) == m.rd \in Pairs /\ m.wr = [m.rd EXCEPT !.lo = lo] /\ x.lo = m.rd.lo

\* What the monitor m has of mailbox b, into which the word `new' goes, when a core that
\* sends or receives (op) is at a place of the exchange; p has been put there.
LinkIs(at, b, x, new, op, p, m) ==
  /\ m.line = BoxLine(b) /\ IsMonitor(m)
  /\ \/ at = "ldlo" /\ m.mask \in {{"hi"}, {"lo", "hi"}}
     \/ at = "ldhi" /\ m.mask = {"lo", "hi"}
     \/ /\ at = "ldhi" /\ m.mask = {"lo"}
        /\ LinksBoth(m, x.read, m.rd.lo)
        /\ op = "recv" => WasSent(p, m.rd)
     \/ at = "stlo" /\ m.mask = {"hi"}
     \/ /\ at = "stlo" /\ m.mask = {"lo", "hi"}
        /\ LinksBoth(m, x.old, m.rd.lo)
        /\ op = "recv" => SawLater(p, m.rd, x.old)
     \/ /\ at = "sthi" /\ m.mask = {"hi"}
        /\ LinksBoth(m, x.old, new.lo)
        /\ op = "recv" => SawLater(p, m.rd, x.old)

Linking(c) == LinkIs(step[c], BoxOf(c), cas[c], NewWord(c), Head(todo[c]).op, sent[c], mon[c])
MonInv == \A c \in Cpu : Free(mon[c]) \/ Linking(c)
MailInv == BoxType /\ LastSent /\ MailAt /\ SentLate /\ MonInv

-----------------------------------------------------------------------------
\* What ldrex and strex of the words of a mailbox do to a monitor.
LEMMA LdrexLo ==
  ASSUME NEW m, NEW n, NEW data, NEW r, r = Acquire(m, BoxLine(n), "lo", data),
         \/ Free(m)
         \/ m.line = BoxLine(n) /\ m.mask \in {{"hi"}, {"lo", "hi"}}
  PROVE  /\ r.line = BoxLine(n) /\ IsMonitor(r)
         /\ \/ r.mask = {"lo", "hi"}
            \/ r.mask = {"lo"} /\ r.rd = data /\ r.wr = data
<1> DEFINE more == Hit(m, BoxLine(n)) /\ ~Known(m, "lo") /\ ~m.dirty
           keep == more /\ m.mask # {}
<1>1. r = [line |-> BoxLine(n), dirty |-> FALSE, mask |-> IF more THEN m.mask \cup {"lo"} ELSE {"lo"},
           rd |-> IF keep THEN m.rd ELSE data, wr |-> IF keep THEN m.wr ELSE data]
  BY DEF Acquire
<1>2. r.line = BoxLine(n) /\ IsMonitor(r)
  BY <1>1 DEF IsMonitor
<1>3. CASE keep
  <2>1. m.mask = {"hi"}
    BY <1>3, BoxesApart DEF Hit, Known, Free
  <2>2. {"hi"} \cup {"lo"} = {"lo", "hi"}
    OBVIOUS
  <2> QED
    BY <1>1, <1>2, <1>3, <2>1, <2>2
<1>4. CASE ~keep
  <2>1. more => m.mask \cup {"lo"} = {"lo"}
    BY <1>4
  <2> HIDE DEF more
  <2> QED
    BY <1>1, <1>2, <1>4, <2>1
<1> QED
  BY <1>3, <1>4

LEMMA LdrexHi ==
  ASSUME NEW m, NEW n, NEW data, NEW r, r = Acquire(m, BoxLine(n), "hi", data),
         \/ Free(m)
         \/ m.line = BoxLine(n) /\ m.mask \in {{"lo"}, {"lo", "hi"}}
  PROVE  /\ r.line = BoxLine(n) /\ IsMonitor(r)
         /\ \/ r.mask = {"hi"}
            \/ /\ r.mask = {"lo", "hi"} /\ r.rd = m.rd /\ r.wr = m.wr
               /\ ~Free(m) /\ m.mask = {"lo"}
<1> DEFINE more == Hit(m, BoxLine(n)) /\ ~Known(m, "hi") /\ ~m.dirty
           keep == more /\ m.mask # {}
<1>1. r = [line |-> BoxLine(n), dirty |-> FALSE, mask |-> IF more THEN m.mask \cup {"hi"} ELSE {"hi"},
           rd |-> IF keep THEN m.rd ELSE data, wr |-> IF keep THEN m.wr ELSE data]
  BY DEF Acquire
<1>2. r.line = BoxLine(n) /\ IsMonitor(r)
  BY <1>1 DEF IsMonitor
<1>3. CASE keep
  <2>1. m.mask = {"lo"} /\ ~Free(m)
    BY <1>3, BoxesApart DEF Hit, Known, Free
  <2>2. {"lo"} \cup {"hi"} = {"lo", "hi"}
    OBVIOUS
  <2> QED
    BY <1>1, <1>2, <1>3, <2>1, <2>2
<1>4. CASE ~keep
  <2>1. more => m.mask \cup {"hi"} = {"hi"}
    BY <1>4
  <2> HIDE DEF more
  <2> QED
    BY <1>1, <1>2, <1>4, <2>1
<1> QED
  BY <1>3, <1>4

LEMMA StrexLoIs ==
  ASSUME NEW m, NEW n, NEW word, NEW r, r = Release(m, BoxLine(n), "lo", word),
         \/ Free(m)
         \/ IsMonitor(m) /\ m.line = BoxLine(n) /\ m.mask \in {{"hi"}, {"lo", "hi"}}
  PROVE  /\ \A data : ~Commit(m, BoxLine(n), "lo", data)
         /\ \/ Free(r)
            \/ /\ r.line = BoxLine(n) /\ IsMonitor(r) /\ r.mask = {"hi"}
               /\ r.rd = m.rd /\ r.wr = [m.wr EXCEPT !.lo = word]
               /\ ~Free(m) /\ m.mask = {"lo", "hi"}
<1>1. CASE ~(Hit(m, BoxLine(n)) /\ Known(m, "lo"))
  BY <1>1 DEF Commit, Release, Free, ResetMonitor
<1>2. CASE Hit(m, BoxLine(n)) /\ Known(m, "lo")
  <2>1. m.mask = {"lo", "hi"} /\ ~Free(m) /\ IsMonitor(m) /\ m.line = BoxLine(n)
    BY <1>2, BoxesApart DEF Hit, Known, Free
  <2>2. m.mask \ {"lo"} = {"hi"} /\ {"hi"} # {}
    BY <2>1
  <2>3. r = [m EXCEPT !.mask = {"hi"}, !.dirty = TRUE, !.wr = [m.wr EXCEPT !.lo = word]]
    BY <1>2, <2>2, Zenon DEF Release, Update
  <2>4. r = [line |-> m.line, mask |-> {"hi"}, dirty |-> TRUE, rd |-> m.rd, wr |-> [m.wr EXCEPT !.lo = word]]
    BY <2>1, <2>3 DEF IsMonitor
  <2>5. \A data : ~Commit(m, BoxLine(n), "lo", data)
    BY <2>2 DEF Commit
  <2> QED
    BY <2>1, <2>4, <2>5 DEF IsMonitor
<1> QED
  BY <1>1, <1>2

LEMMA StrexHiIs ==
  ASSUME NEW m, NEW n, NEW word, NEW r, r = Release(m, BoxLine(n), "hi", word),
         \/ Free(m)
         \/ m.line = BoxLine(n) /\ m.mask = {"hi"}
  PROVE  /\ Free(r)
         /\ \A data : Commit(m, BoxLine(n), "hi", data) => ~Free(m) /\ m.rd = data
<1>1. Hit(m, BoxLine(n)) /\ Known(m, "hi") => m.mask = {"hi"} /\ ~Free(m)
  BY BoxesApart DEF Hit, Known, Free
<1>2. {"hi"} \ {"hi"} = {}
  OBVIOUS
<1>3. r.mask = {}
  BY <1>1, <1>2 DEF Release, ResetMonitor
<1> QED
  BY <1>1, <1>3 DEF Commit, Free

-----------------------------------------------------------------------------
\* A message is two words, and is not the empty one: a bit of its upper word is always set.
LEMMA MessageIs ==
  ASSUME NEW m \in Messages
  PROVE  m \in Pairs /\ m.hi # 0 /\ m # NoMessage
<1>1. PICK words : words = {0} \cup Range(Hex)
  OBVIOUS
<1>2. words \subseteq Nat
  BY <1>1, HexAssumption DEF Range
<1>3. PICK p \in words, w \in 0 .. 1, v \in words : m = SendWord(p, w, v)
  BY <1>1 DEF Messages
<1>4. PICK q, r : q = p \div 4 /\ r = p % 4
  OBVIOUS
<1>5. q \in Int /\ r \in 0 .. 3 /\ p = 4 * q + r /\ p \in Nat
  BY <1>2, <1>4
<1>6. PICK h : h = (p - r) + 2 * w + 1
  OBVIOUS
<1>7. h \in Nat /\ h # 0
  <2>1. p - r = 4 * q /\ q >= 0
    BY ONLY <1>5
  <2> QED
    BY ONLY <1>5, <1>6, <2>1, w \in 0 .. 1
<1>8. m = [hi |-> h, lo |-> v]
  BY <1>3, <1>4, <1>6 DEF SendWord
<1> QED
  BY <1>2, <1>7, <1>8 DEF Pairs, NoMessage

LEMMA NoMessageIs == NoMessage \in Pairs /\ NoMessage.hi = 0 /\ NoMessage.lo = 0
BY DEF NoMessage, Pairs

\* Who sends, and who waits for what.
LEMMA MailOf ==
  ASSUME BootInv, NEW c \in Cpu, Mailing(c)
  PROVE  /\ todo[c] # <<>> /\ BoxOf(c) \in Cpu /\ NewWord(c) \in Pairs
         /\ Receives(c) => BoxOf(c) = c /\ NewWord(c) = NoMessage /\ Head(todo[c]).op # "send"
         /\ ~Receives(c) => /\ Late /\ Head(todo[c]).op = "send"
                            /\ BoxOf(c) = Head(todo[c]).to
                            /\ NewWord(c) = Head(todo[c]).msg /\ NewWord(c) \in Messages
<1>1. PICK n, k : Booting(n, k)
  BY DEF BootInv
<1>2. PICK op \in {"send", "recv"} : Next0(c, op)
  BY DEF Mailing
<1>3. todo[c] # <<>> /\ Head(todo[c]).op = op
  BY <1>2 DEF Next0
<1>4. c \in 0 .. k - 1 /\ k # 0 /\ (c # 0 => Fit(Head(todo[c]), OtherOps, k, n))
  BY <1>1, <1>2, Runner
<1>5. CASE op = "recv"
  <2>1. Receives(c) /\ Head(todo[c]).op # "send"
    BY <1>3, <1>5 DEF Receives
  <2>2. num[c] = c
    BY <1>1, <1>4 DEF Booting, Counted
  <2> QED
    BY <1>3, <2>1, <2>2, NoMessageIs DEF BoxOf, NewWord
<1>6. CASE op = "send"
  <2>1. ~Receives(c) /\ Head(todo[c]).op = "send"
    BY <1>3, <1>6 DEF Receives
  <2>2. c = 0
    BY <1>4, <2>1 DEF Fit, OtherOps
  <2>3. PICK w, x : w \in 1 .. 5 /\ ZeroIs(n, k, w, x)
    BY <1>1, <1>4 DEF Booting
  <2>4. x # <<>>
    <3>1. RestOp(w) # "send"
      BY <2>3 DEF RestOp
    <3> QED
      BY <2>1, <2>2, <2>3, <3>1, ZeroNext
  <2>5. Fit(Head(todo[0]), OpsAt(w), k, n)
    BY <2>3, <2>4, ZeroNext
  <2>6. w = 4
    <3>1. "send" \in OpsAt(w)
      BY <2>1, <2>2, <2>5 DEF Fit
    <3>2. w # 1
      BY <3>1, OpsApart DEF FirstOps
    <3> QED
      BY <2>3, <3>1, <3>2, OpsApart
  <2>7. Late
    <3>1. w >= 2 /\ ~(w <= 3)
      BY <2>6
    <3> QED
      BY <2>3, <3>1 DEF ZeroIs, Late
  <2>8. Head(todo[c]).to \in Cpu /\ Head(todo[c]).msg \in Messages
    BY <2>1, <2>2, <2>5 DEF Fit
  <2> QED
    BY <1>3, <2>1, <2>7, <2>8, MessageIs DEF BoxOf, NewWord
<1> QED
  BY <1>2, <1>5, <1>6

\* Once core 0 reads lines no core is counted, and no mailbox cleared.
LEMMA LateIs ==
  ASSUME BootInv, Late, NEW c \in Cpu
  PROVE  ~Next0(c, "start") /\ ~Next0(c, "bspinit")
<1>1. PICK n, k : Booting(n, k)
  BY DEF BootInv
<1>2. n \in Nat /\ n # 0 /\ k = n
  BY <1>1, Numbers DEF Late, Booting, Counted
<1>3. PICK w, x : w \in 1 .. 5 /\ ZeroIs(n, k, w, x)
  BY <1>1, <1>2 DEF Booting
<1>4. w \in 4 .. 5
  <2>1. w <= 3 => bootNum = k
    BY <1>3 DEF ZeroIs
  <2>2. bootNum = 0
    BY DEF Late
  <2> QED
    BY ONLY <1>2, <1>3, <2>1, <2>2
<1>5. ASSUME Next0(c, "start") PROVE FALSE
  <2>1. c = k /\ k < n
    BY <1>1, <1>5, Starter
  <2> QED
    BY ONLY <1>2, <2>1
<1>6. ASSUME Next0(c, "bspinit") PROVE FALSE
  <2>1. PICK op : op = "bspinit"
    OBVIOUS
  <2>2. PICK kind \in Kinds : /\ Fit(Head(todo[c]), kind, k, n) /\ (c # 0 => kind = OtherOps)
                              /\ (c = 0 => kind # OtherOps)
    BY <1>1, <1>6, <2>1, HeadFits
  <2>3. op \in kind
    BY <1>6, <2>1, <2>2 DEF Fit, Next0
  <2>4. op \notin OtherOps /\ op \notin LineOps
    BY <2>1 DEF OtherOps, LineOps
  <2>5. c = 0
    BY <2>2, <2>3, <2>4
  <2>6. x # <<>> => Fit(Head(todo[0]), OpsAt(w), k, n)
    BY <1>3, ZeroNext
  <2>7. x = <<>> => Head(todo[0]).op = RestOp(w)
    BY <1>3, ZeroNext
  <2>8. RestOp(w) # op
    BY <1>3, <2>1 DEF RestOp
  <2>9. op \notin OpsAt(w)
    BY <1>4, <2>4, OpsApart
  <2> QED
    BY <1>6, <2>1, <2>5, <2>6, <2>7, <2>8, <2>9 DEF Fit, Next0
<1> QED
  BY <1>5, <1>6

LEMMA LateStays ==
  ASSUME BootInv, Late, [Next]_vars
  PROVE  Late'
<1>1. ASSUME NEW c \in Cpu, Program(c) PROVE Late'
  <2>1. CASE BootStep(c)
    BY <1>1, <2>1, LateIs DEF BootStep, Start, Count, BootDone, WaitBoot, ClearNum, Late, boot
  <2>2. CASE BspInit(c)
    BY <2>2, LateIs DEF BspInit
  <2>3. CASE SmpStep(c) \/ MailStep(c) \/ MemStep(c) \/ GfxStep(c) \/ Talk(c)
    BY <2>3 DEF SmpStep, MailStep, MemStep, GfxStep, Talk, boot, Late
  <2> QED
    BY <1>1, <2>1, <2>2, <2>3 DEF Program
<1>2. CASE \E c \in Cpu : Obey(c)
  BY <1>2 DEF Obey, boot, Late
<1>3. CASE Handler \/ Tick \/ UNCHANGED vars
  BY <1>3 DEF Handler, Tick, vars, boot, Late
<1> QED
  BY <1>1, <1>2, <1>3 DEF Next

-----------------------------------------------------------------------------
\* What a word that is put later does not change.
LEMMA LastIn ==
  ASSUME NEW p \in Seq(Messages), p # <<>>
  PROVE  Len(p) \in DOMAIN p /\ (\A i \in DOMAIN p : i <= Len(p)) /\ LastIs(p) = p[Len(p)]
<1>1. PICK n \in Nat : n = Len(p)
  BY LenProperties
<1>2. DOMAIN p = 1 .. n /\ n # 0
  BY <1>1, LenProperties, EmptySeq
<1>3. n \in 1 .. n /\ \A i \in 1 .. n : i <= n
  BY ONLY <1>2, n \in Nat
<1> QED
  BY <1>1, <1>2, <1>3 DEF LastIs

LEMMA SentMore ==
  ASSUME NEW p \in Seq(Messages), NEW m \in Messages, NEW q, q = Append(p, m)
  PROVE  /\ q \in Seq(Messages) /\ q # <<>> /\ LastIs(q) = m
         /\ \A rd : WasSent(p, rd) => WasSent(q, rd)
         /\ \A rd, old : SawLater(p, rd, old) => SawLater(q, rd, old)
<1>1. PICK n \in Nat : n = Len(p)
  BY LenProperties
<1>2. /\ q \in Seq(Messages) /\ Len(q) = n + 1 /\ q[n + 1] = m
      /\ \A i \in 1 .. n : q[i] = p[i]
  BY <1>1, AppendProperties
<1>3. DOMAIN p = 1 .. n /\ DOMAIN q = 1 .. n + 1
  BY <1>1, <1>2, LenProperties
<1>4. \A i \in 1 .. n : i \in 1 .. n + 1
  OBVIOUS
<1>5. q # <<>>
  <2>1. 1 \in DOMAIN q
    BY <1>3
  <2> QED
    BY <2>1
<1>6. \A rd : WasSent(p, rd) => WasSent(q, rd)
  BY <1>2, <1>3, <1>4 DEF WasSent
<1>7. \A rd, old : SawLater(p, rd, old) => SawLater(q, rd, old)
  BY <1>2, <1>3, <1>4, <1>5 DEF SawLater
<1>8. LastIs(q) = m
  BY <1>2, <1>5 DEF LastIs
<1> QED
  BY <1>2, <1>5, <1>6, <1>7, <1>8

LEMMA LinkKeeps ==
  ASSUME NEW at, NEW b, NEW x, NEW new, NEW op, NEW m, NEW p \in Seq(Messages),
         NEW w \in Messages, LinkIs(at, b, x, new, op, p, m)
  PROVE  LinkIs(at, b, x, new, op, Append(p, w), m)
<1>1. PICK q : q = Append(p, w)
  OBVIOUS
<1>2. /\ \A rd : WasSent(p, rd) => WasSent(q, rd)
      /\ \A rd, old : SawLater(p, rd, old) => SawLater(q, rd, old)
  BY <1>1, SentMore
<1>3. LinkIs(at, b, x, new, op, q, m)
  BY <1>2 DEF LinkIs
<1> QED
  BY <1>1, <1>3

\* The steps of compare_exchange_64.
LEMMA LdrexLoLinks ==
  ASSUME NEW b, NEW x, NEW new, NEW op, NEW p \in Seq(Messages), NEW m,
         Free(m) \/ LinkIs("ldlo", b, x, new, op, p, m),
         NEW data \in Pairs, op = "recv" => data = LastIs(p),
         NEW y, y.read \in Pairs, y.read.lo = data.lo,
         NEW r, r = Acquire(m, BoxLine(b), "lo", data)
  PROVE  LinkIs("ldhi", b, y, new, op, p, r)
<1>1. Free(m) \/ (m.line = BoxLine(b) /\ m.mask \in {{"hi"}, {"lo", "hi"}})
  BY DEF LinkIs
<1>2. /\ r.line = BoxLine(b) /\ IsMonitor(r)
      /\ r.mask = {"lo", "hi"} \/ (r.mask = {"lo"} /\ r.rd = data /\ r.wr = data)
  BY ONLY <1>1, r = Acquire(m, BoxLine(b), "lo", data), LdrexLo
<1>3. CASE r.mask = {"lo", "hi"}
  BY <1>2, <1>3 DEF LinkIs
<1>4. CASE r.mask = {"lo"} /\ r.rd = data /\ r.wr = data
  <2>1. LinksBoth(r, y.read, r.rd.lo)
    BY <1>4 DEF LinksBoth, Pairs
  <2>2. WasSent(p, LastIs(p))
    BY LastIn DEF WasSent, LastIs
  <2> QED
    BY <1>2, <1>4, <2>1, <2>2 DEF LinkIs
<1> QED
  BY <1>2, <1>3, <1>4

LEMMA LdrexHiLinks ==
  ASSUME NEW b, NEW x, NEW new, NEW op, NEW p \in Seq(Messages), NEW m,
         Free(m) \/ LinkIs("ldhi", b, x, new, op, p, m),
         NEW data \in Pairs, op = "recv" => data = LastIs(p), x.read \in Pairs,
         NEW y, y.old = [x.read EXCEPT !.hi = data.hi],
         NEW r, r = Acquire(m, BoxLine(b), "hi", data)
  PROVE  LinkIs("stlo", b, y, new, op, p, r) /\ LinkIs("ldlo", b, y, new, op, p, r)
<1>1. Free(m) \/ (m.line = BoxLine(b) /\ m.mask \in {{"lo"}, {"lo", "hi"}})
  BY DEF LinkIs
<1>2. /\ r.line = BoxLine(b) /\ IsMonitor(r)
      /\ \/ r.mask = {"hi"}
         \/ r.mask = {"lo", "hi"} /\ r.rd = m.rd /\ r.wr = m.wr /\ ~Free(m) /\ m.mask = {"lo"}
  BY ONLY <1>1, r = Acquire(m, BoxLine(b), "hi", data), LdrexHi
<1>3. CASE r.mask = {"hi"}
  BY <1>2, <1>3 DEF LinkIs
<1>4. CASE r.mask = {"lo", "hi"} /\ r.rd = m.rd /\ r.wr = m.wr /\ ~Free(m) /\ m.mask = {"lo"}
  <2>1. LinksBoth(m, x.read, m.rd.lo) /\ (op = "recv" => WasSent(p, m.rd))
    <3>1. {"lo"} # {"lo", "hi"} /\ {"lo"} # {"hi"}
      OBVIOUS
    <3> QED
      BY <1>4, <3>1 DEF LinkIs
  <2>2. LinksBoth(r, y.old, r.rd.lo)
    BY <1>4, <2>1 DEF LinksBoth, Pairs
  <2>3. ASSUME op = "recv" PROVE SawLater(p, r.rd, y.old)
    <3>1. data = LastIs(p) /\ WasSent(p, r.rd)
      BY <1>4, <2>1, <2>3
    <3>2. CASE p = <<>>
      <4>1. data = NoMessage /\ r.rd = NoMessage
        BY <3>1, <3>2 DEF LastIs, WasSent
      <4>2. x.read.lo = 0 /\ data.hi = 0
        BY <1>4, <2>1, <4>1, NoMessageIs DEF LinksBoth
      <4>3. y.old = NoMessage
        BY <4>2 DEF Pairs, NoMessage
      <4> QED
        BY <4>1, <4>3 DEF SawLater
    <3>3. CASE p # <<>>
      <4>1. PICK j : j = Len(p)
        OBVIOUS
      <4>2. j \in DOMAIN p /\ (\A i \in DOMAIN p : i <= j) /\ data = p[j]
        BY <3>1, <3>3, <4>1, LastIn
      <4>3. y.old.hi = p[j].hi
        BY <4>2 DEF Pairs
      <4> QED
        BY <3>1, <3>3, <4>2, <4>3 DEF SawLater, WasSent
    <3> QED
      BY <3>2, <3>3
  <2> QED
    BY <1>2, <1>4, <2>2, <2>3 DEF LinkIs
<1> QED
  BY <1>2, <1>3, <1>4

LEMMA StrexLoLinks ==
  ASSUME NEW b, NEW x, NEW new, NEW op, NEW p, NEW m,
         Free(m) \/ LinkIs("stlo", b, x, new, op, p, m),
         NEW r, r = Release(m, BoxLine(b), "lo", new.lo)
  PROVE  /\ Free(r) \/ LinkIs("sthi", b, x, new, op, p, r)
         /\ \A data : ~Commit(m, BoxLine(b), "lo", data)
<1>1. Free(m) \/ (IsMonitor(m) /\ m.line = BoxLine(b) /\ m.mask \in {{"hi"}, {"lo", "hi"}})
  BY DEF LinkIs
<1>2. /\ \A data : ~Commit(m, BoxLine(b), "lo", data)
      /\ \/ Free(r)
         \/ /\ r.line = BoxLine(b) /\ IsMonitor(r) /\ r.mask = {"hi"}
            /\ r.rd = m.rd /\ r.wr = [m.wr EXCEPT !.lo = new.lo]
            /\ ~Free(m) /\ m.mask = {"lo", "hi"}
  BY ONLY <1>1, r = Release(m, BoxLine(b), "lo", new.lo), StrexLoIs
<1>3. ASSUME ~Free(r) PROVE LinkIs("sthi", b, x, new, op, p, r)
  <2>1. LinksBoth(m, x.old, m.rd.lo) /\ (op = "recv" => SawLater(p, m.rd, x.old))
    <3>1. {"hi"} # {"lo", "hi"}
      OBVIOUS
    <3> QED
      BY <1>2, <1>3, <3>1 DEF LinkIs
  <2>2. LinksBoth(r, x.old, new.lo)
    BY <1>2, <1>3, <2>1 DEF LinksBoth, Pairs
  <2> QED
    BY <1>2, <1>3, <2>1, <2>2 DEF LinkIs
<1> QED
  BY <1>2, <1>3

Commits(b, x, new, op, p, m, data) ==
  Commit(m, BoxLine(b), "hi", data) =>
    /\ Update(m, "hi", new.hi) = new
    /\ data \in Pairs /\ x.old.lo = data.lo /\ (op = "recv" => SawLater(p, data, x.old))

LEMMA StrexHiCommits ==
  ASSUME NEW b, NEW x, NEW new \in Pairs, NEW op, NEW p, NEW m,
         Free(m) \/ LinkIs("sthi", b, x, new, op, p, m), NEW data
  PROVE  Commits(b, x, new, op, p, m, data)
<1> SUFFICES ASSUME Commit(m, BoxLine(b), "hi", data)
             PROVE  /\ Update(m, "hi", new.hi) = new
                    /\ data \in Pairs /\ x.old.lo = data.lo /\ (op = "recv" => SawLater(p, data, x.old))
  BY DEF Commits
<1>1. Free(m) \/ (m.line = BoxLine(b) /\ m.mask = {"hi"})
  BY DEF LinkIs
<1>2. ~Free(m) /\ m.rd = data
  BY ONLY <1>1, Commit(m, BoxLine(b), "hi", data), StrexHiIs
<1>3. LinksBoth(m, x.old, new.lo) /\ (op = "recv" => SawLater(p, m.rd, x.old))
  BY <1>2 DEF LinkIs
<1>4. Update(m, "hi", new.hi) = new
  BY <1>3 DEF LinksBoth, Update, Pairs
<1> QED
  BY <1>2, <1>3, <1>4 DEF LinksBoth

-----------------------------------------------------------------------------
\* What a step of core c's exchange does to the mailboxes, the monitors and itself.
MailAtIs(c) == step[c] \in Exchanging \cup {"current"} => todo[c] # <<>> /\ Head(todo[c]).op \in {"send", "recv"}
Own(c) ==
  /\ BoxType' /\ LastSent' /\ (Free(mon[c]) \/ Linking(c))' /\ MailAtIs(c)'
  /\ \A d \in Cpu : d # c =>
       /\ mon'[d] = mon[d] /\ cas'[d] = cas[d]
       /\ sent'[d] = sent[d] \/ \E m \in Messages : sent'[d] = Append(sent[d], m)
  /\ (\E d \in Cpu : sent'[d] # <<>>) => Late \/ \E d \in Cpu : sent[d] # <<>>
  /\ [Mail!OnceNext]_(Mail!mailVars)

LEMMA BoxTypes ==
  ASSUME BoxType, NEW c \in Cpu
  PROVE  /\ box[c] \in Pairs /\ sent[c] \in Seq(Messages)
         /\ cas[c] \in [old : Pairs, read : Pairs] /\ cas[c].old \in Pairs /\ cas[c].read \in Pairs
BY DEF BoxType

LEMMA MailTypes ==
  ASSUME CoreTypes
  PROVE  /\ todo = [c \in Cpu |-> todo[c]] /\ step = [c \in Cpu |-> step[c]]
         /\ num = [c \in Cpu |-> num[c]] /\ mon = [c \in Cpu |-> mon[c]]
BY DEF CoreTypes, ProgramType, LockType

\* What an assignment to parts of an exchange leaves.
BothSet(z, c, v, w) == [z EXCEPT ![c].read = v, ![c].old = w]
Exchange(v, w) == [old |-> w, read |-> v]
LEMMA CasBoth ==
  ASSUME NEW z \in [Cpu -> [old : Pairs, read : Pairs]], NEW c \in Cpu, NEW v, NEW w, NEW x, NEW y,
    y = BothSet(z, c, v, w),
    x = Exchange(v, w)
  PROVE y = [z EXCEPT ![c] = x]
<1>1. z[c] = [old |-> z[c].old, read |-> z[c].read]
  OBVIOUS
<1>2. x = [[z[c] EXCEPT !.read = v] EXCEPT !.old = w]
  <2>1. PICK k : k = [z[c] EXCEPT !.read = v]
    OBVIOUS
  <2>2. k = [old |-> z[c].old, read |-> v]
    BY <1>1, <2>1
  <2>3. x = [k EXCEPT !.old = w]
    BY <2>2 DEF Exchange
  <2> QED
    BY <2>1, <2>3
<1>3. PICK f : f = [z EXCEPT ![c].read = v]
  OBVIOUS
<1>4. f = [z EXCEPT ![c] = [z[c] EXCEPT !.read = v]]
  BY <1>3
<1>5. y = [f EXCEPT ![c].old = w]
  BY <1>3 DEF BothSet
<1>6. y = [f EXCEPT ![c] = [f[c] EXCEPT !.old = w]]
  BY <1>5
<1>7. f[c] = [z[c] EXCEPT !.read = v]
  BY <1>4
<1>8. y = [f EXCEPT ![c] = x]
  BY <1>6, <1>7, <1>2
<1>9. f = [d \in Cpu |-> f[d]] /\ \A d \in Cpu : d # c => f[d] = z[d]
  BY <1>4
<1> QED BY <1>8, <1>9

\* A step that puts and takes nothing.
LEMMA Exchanges ==
  ASSUME MailInv, CoreTypes, NEW c \in Cpu, Mailing(c), UNCHANGED <<todo, num, box, sent, got>>,
         NEW x \in [old : Pairs, read : Pairs], cas' = [cas EXCEPT ![c] = x],
         NEW r, mon' = [mon EXCEPT ![c] = r], NEW s, step' = [step EXCEPT ![c] = s],
         Free(r) \/ LinkIs(s, BoxOf(c), x, NewWord(c), Head(todo[c]).op, sent[c], r)
  PROVE  Own(c)
<1>1. /\ step = [d \in Cpu |-> step[d]] /\ mon = [d \in Cpu |-> mon[d]]
      /\ cas \in [Cpu -> [old : Pairs, read : Pairs]]
  BY MailTypes DEF MailInv, BoxType
<1>2. cas'[c] = x /\ mon'[c] = r /\ step'[c] = s /\ \A d \in Cpu : d # c => mon'[d] = mon[d] /\ cas'[d] = cas[d]
  BY <1>1
<1>3. BoxType'
  BY <1>1 DEF MailInv, BoxType
<1>4. LastSent'
  BY DEF MailInv, LastSent
<1>5. BoxOf(c)' = BoxOf(c) /\ NewWord(c)' = NewWord(c)
  BY DEF BoxOf, NewWord
<1>6. (Free(mon[c]) \/ Linking(c))'
  <2>1. Free(mon'[c]) \/ LinkIs(step'[c], BoxOf(c)', cas'[c], NewWord(c)', Head(todo'[c]).op, sent'[c], mon'[c])
    BY <1>2, <1>5
  <2> QED
    BY <2>1 DEF Linking
<1>7. MailAtIs(c)'
  BY DEF MailAtIs, Mailing, Next0
<1>8. UNCHANGED Mail!mailVars
  BY DEF Mail!mailVars
<1> QED
  BY <1>2, <1>3, <1>4, <1>6, <1>7, <1>8 DEF Own

LEMMA Unlinked ==
  ASSUME MonInv, NEW c \in Cpu, step[c] \notin Exchanging
  PROVE  Free(mon[c])
BY DEF MonInv, Linking, LinkIs, Exchanging

LEMMA Links ==
  ASSUME MonInv, NEW c \in Cpu, NEW at, step[c] = at
  PROVE  Free(mon[c]) \/ LinkIs(at, BoxOf(c), cas[c], NewWord(c), Head(todo[c]).op, sent[c], mon[c])
BY DEF MonInv, Linking

\* A receiver looks at its own mailbox.
LEMMA ReceiverSees ==
  ASSUME MailInv, BootInv, NEW c \in Cpu, Mailing(c)
  PROVE  /\ BoxOf(c) \in Cpu /\ box[BoxOf(c)] \in Pairs
         /\ Head(todo[c]).op = "recv" => BoxOf(c) = c /\ box[BoxOf(c)] = LastIs(sent[c])
<1>1. BoxOf(c) \in Cpu /\ (Receives(c) => BoxOf(c) = c)
  BY MailOf
<1> QED
  BY <1>1 DEF MailInv, BoxType, LastSent, Receives

LEMMA CurrentOwn ==
  ASSUME MailInv, BootInv, CoreTypes, NEW c \in Cpu, Mailing(c), NEW off \in {"lo", "hi"},
         ReadCurrent(c, off), UNCHANGED num
  PROVE  Own(c)
<1>1. PICK data \in Pairs : data = box[BoxOf(c)]
  BY ReceiverSees
<1>2. PICK x : x = Exchange(cas[c].read, [cas[c].old EXCEPT ![off] = data[off]])
  OBVIOUS
<1>3. cas[c] \in [old : Pairs, read : Pairs] /\ cas \in [Cpu -> [old : Pairs, read : Pairs]]
  BY DEF MailInv, BoxType
<1>4. x \in [old : Pairs, read : Pairs]
  <2>1. data[off] \in Nat
    BY DEF Pairs
  <2>2. [cas[c].old EXCEPT ![off] = data[off]] \in Pairs
    BY <1>3, <2>1 DEF Pairs
  <2> QED
    BY <1>2, <1>3, <2>2 DEF Exchange
<1>5. cas' = [cas EXCEPT ![c] = x]
  <2>1. cas' = [cas EXCEPT ![c].old[off] = data[off]]
    BY <1>1 DEF ReadCurrent
  <2>2. [cas EXCEPT ![c].old[off] = data[off]]
          = [cas EXCEPT ![c] = [cas[c] EXCEPT !.old = [cas[c].old EXCEPT ![off] = data[off]]]]
    BY Zenon
  <2>3. cas[c] = [old |-> cas[c].old, read |-> cas[c].read]
    BY <1>3
  <2>4. x = [cas[c] EXCEPT !.old = [cas[c].old EXCEPT ![off] = data[off]]]
    BY <1>2, <2>3 DEF Exchange
  <2> QED
    BY <2>1, <2>2, <2>4, Zenon
<1>6. step[c] \notin Exchanging
  BY DEF ReadCurrent, Exchanging
<1>7. Free(mon[c])
  BY <1>6, Unlinked DEF MailInv
<1>8. mon' = [mon EXCEPT ![c] = mon[c]]
  BY MailTypes DEF ReadCurrent, lockVars
<1>9. PICK s : step' = [step EXCEPT ![c] = s]
  BY DEF ReadCurrent, Goto
<1>10. UNCHANGED <<todo, num, box, sent, got>>
  BY DEF ReadCurrent
<1> QED
  BY <1>4, <1>5, <1>7, <1>8, <1>9, <1>10, Exchanges

LEMMA LdrexLoOwn ==
  ASSUME MailInv, BootInv, CoreTypes, NEW c \in Cpu, Mailing(c), LdrexBox(c, "lo"), UNCHANGED num
  PROVE  Own(c)
<1>1. PICK data \in Pairs : data = box[BoxOf(c)] /\ (Head(todo[c]).op = "recv" => data = LastIs(sent[c]))
  BY ReceiverSees
<1>2. cas[c] \in [old : Pairs, read : Pairs] /\ cas \in [Cpu -> [old : Pairs, read : Pairs]]
  BY DEF MailInv, BoxType
<1>3. PICK x : x = Exchange([cas[c].read EXCEPT !.lo = data.lo], cas[c].old)
  OBVIOUS
<1>4. x \in [old : Pairs, read : Pairs] /\ x.read \in Pairs /\ x.read.lo = data.lo
  BY <1>2, <1>3 DEF Pairs, Exchange
<1>5. cas' = [cas EXCEPT ![c] = x]
  <2>1. "lo" # "hi"
    OBVIOUS
  <2>2. PICK read : read = [cas[c].read EXCEPT !.lo = data.lo]
    OBVIOUS
  <2>3. cas' = [cas EXCEPT ![c].read = read, ![c].old = @]
    BY <1>1, <2>1, <2>2, Zenon DEF LdrexBox
  <2>4. cas' = BothSet(cas, c, read, cas[c].old)
    BY <1>2, <2>3 DEF BothSet
  <2>5. x = Exchange(read, cas[c].old)
    BY <1>3, <2>2
  <2> QED
    BY ONLY <1>2, <2>5, <2>4, CasBoth, c \in Cpu
<1>6. PICK r : r = Acquire(mon[c], BoxLine(BoxOf(c)), "lo", data)
  OBVIOUS
<1>7. mon' = [mon EXCEPT ![c] = r] /\ UNCHANGED <<todo, num, box, sent, got>>
  BY <1>1, <1>6 DEF LdrexBox
<1>8. step[c] = "ldlo" /\ step' = [step EXCEPT ![c] = "ldhi"]
  BY Zenon DEF LdrexBox, Goto
<1>9. Free(mon[c]) \/ LinkIs("ldlo", BoxOf(c), cas[c], NewWord(c), Head(todo[c]).op, sent[c], mon[c])
  BY <1>8, Links DEF MailInv
<1>10. sent[c] \in Seq(Messages)
  BY BoxTypes DEF MailInv
<1>11. LinkIs("ldhi", BoxOf(c), x, NewWord(c), Head(todo[c]).op, sent[c], r)
  BY ONLY <1>1, <1>4, <1>6, <1>9, <1>10, LdrexLoLinks
<1> QED
  BY <1>4, <1>5, <1>7, <1>8, <1>11, Exchanges

LEMMA LdrexHiOwn ==
  ASSUME MailInv, BootInv, CoreTypes, NEW c \in Cpu, Mailing(c), LdrexBox(c, "hi"), UNCHANGED num
  PROVE  Own(c)
<1>1. PICK data \in Pairs : data = box[BoxOf(c)] /\ (Head(todo[c]).op = "recv" => data = LastIs(sent[c]))
  BY ReceiverSees
<1>2. cas[c] \in [old : Pairs, read : Pairs] /\ cas \in [Cpu -> [old : Pairs, read : Pairs]]
  BY DEF MailInv, BoxType
<1>3. PICK read : read = [cas[c].read EXCEPT !.hi = data.hi]
  OBVIOUS
<1>4. PICK x : x = Exchange(read, read)
  OBVIOUS
<1>5. x \in [old : Pairs, read : Pairs] /\ cas[c].read \in Pairs /\ x.old = [cas[c].read EXCEPT !.hi = data.hi]
  BY <1>2, <1>3, <1>4 DEF Pairs, Exchange
<1>6. cas' = [cas EXCEPT ![c] = x]
  <2>1. cas' = BothSet(cas, c, read, read)
    BY <1>1, <1>3, Zenon DEF LdrexBox, BothSet
  <2> QED
    BY ONLY <1>2, <1>4, <2>1, CasBoth, c \in Cpu
<1>7. PICK r : r = Acquire(mon[c], BoxLine(BoxOf(c)), "hi", data)
  OBVIOUS
<1>8. mon' = [mon EXCEPT ![c] = r] /\ UNCHANGED <<todo, num, box, sent, got>>
  BY <1>1, <1>7 DEF LdrexBox
<1>9. step[c] = "ldhi" /\ \E s \in {"stlo", "ldlo"} : step' = [step EXCEPT ![c] = s]
  <2>1. "lo" # "hi"
    OBVIOUS
  <2> QED
    BY <2>1, Zenon DEF LdrexBox, Goto
<1>10. Free(mon[c]) \/ LinkIs("ldhi", BoxOf(c), cas[c], NewWord(c), Head(todo[c]).op, sent[c], mon[c])
  BY <1>9, Links DEF MailInv
<1>11. sent[c] \in Seq(Messages)
  BY BoxTypes DEF MailInv
<1>12. /\ LinkIs("stlo", BoxOf(c), x, NewWord(c), Head(todo[c]).op, sent[c], r)
       /\ LinkIs("ldlo", BoxOf(c), x, NewWord(c), Head(todo[c]).op, sent[c], r)
  BY ONLY <1>1, <1>5, <1>7, <1>10, <1>11, LdrexHiLinks
<1> QED
  BY <1>5, <1>6, <1>8, <1>9, <1>12, Exchanges

LEMMA StrexLoOwn ==
  ASSUME MailInv, BootInv, CoreTypes, NEW c \in Cpu, Mailing(c), StrexLo(c), UNCHANGED num
  PROVE  Own(c)
<1>1. step[c] = "stlo" /\ step' = [step EXCEPT ![c] = "sthi"]
  BY DEF StrexLo, Goto
<1>2. Free(mon[c]) \/ LinkIs("stlo", BoxOf(c), cas[c], NewWord(c), Head(todo[c]).op, sent[c], mon[c])
  BY <1>1, Links DEF MailInv
<1>3. PICK r : r = Release(mon[c], BoxLine(BoxOf(c)), "lo", NewWord(c).lo)
  OBVIOUS
<1>4. /\ Free(r) \/ LinkIs("sthi", BoxOf(c), cas[c], NewWord(c), Head(todo[c]).op, sent[c], r)
      /\ \A data : ~Commit(mon[c], BoxLine(BoxOf(c)), "lo", data)
  BY ONLY <1>2, <1>3, StrexLoLinks
<1>5. mon' = [mon EXCEPT ![c] = r] /\ UNCHANGED <<todo, num, box, sent, got>>
  BY <1>3, <1>4 DEF StrexLo
<1>6. cas' = [cas EXCEPT ![c] = cas[c]] /\ cas[c] \in [old : Pairs, read : Pairs]
  BY DEF StrexLo, MailInv, BoxType
<1> QED
  BY <1>1, <1>4, <1>5, <1>6, Exchanges

\* A mailbox that has nothing has been sent nothing.
LEMMA NoneSent ==
  ASSUME NEW p \in Seq(Messages)
  PROVE  /\ LastIs(p) = NoMessage => p = <<>>
         /\ \A i \in DOMAIN p : p[i] \in Messages /\ p[i].hi # 0 /\ p[i] # NoMessage
<1>1. \A i \in DOMAIN p : p[i] \in Messages
  BY ElementOfSeq, LenProperties
<1>2. \A i \in DOMAIN p : p[i].hi # 0 /\ p[i] # NoMessage
  BY <1>1, MessageIs
<1> QED
  BY <1>1, <1>2, LastIn

\* A step that ends an exchange.
LEMMA Ends ==
  ASSUME MailInv, CoreTypes, NEW c \in Cpu, step' = [step EXCEPT ![c] = "go"],
         NEW r, mon' = [mon EXCEPT ![c] = r], Free(r), cas' = [cas EXCEPT ![c] = NoExchange],
         NEW n \in Cpu, NEW data \in Pairs, box' = [box EXCEPT ![n] = data],
         NEW p \in Seq(Messages), sent' = [sent EXCEPT ![n] = p], data = LastIs(p),
         n # c => \E m \in Messages : p = Append(sent[n], m),
         p # <<>> => Late,
         Mail!OnceNext
  PROVE  Own(c)
<1>1. /\ step = [d \in Cpu |-> step[d]] /\ mon = [d \in Cpu |-> mon[d]]
      /\ cas \in [Cpu -> [old : Pairs, read : Pairs]] /\ box \in [Cpu -> Pairs] /\ sent \in [Cpu -> Seq(Messages)]
  BY MailTypes DEF MailInv, BoxType
<1>2. NoExchange \in [old : Pairs, read : Pairs]
  BY NoMessageIs DEF NoExchange
<1>3. BoxType'
  BY <1>1, <1>2 DEF BoxType
<1>4. LastSent'
  BY <1>1 DEF MailInv, LastSent
<1>5. (Free(mon[c]) \/ Linking(c))'
  BY <1>1
<1>6. MailAtIs(c)'
  BY <1>1 DEF MailAtIs, Exchanging
<1>7. \A d \in Cpu : d # c =>
        /\ mon'[d] = mon[d] /\ cas'[d] = cas[d]
        /\ sent'[d] = sent[d] \/ \E m \in Messages : sent'[d] = Append(sent[d], m)
  <2> SUFFICES ASSUME NEW d \in Cpu, d # c
               PROVE  /\ mon'[d] = mon[d] /\ cas'[d] = cas[d]
                      /\ sent'[d] = sent[d] \/ \E m \in Messages : sent'[d] = Append(sent[d], m)
    OBVIOUS
  <2>1. mon'[d] = mon[d] /\ cas'[d] = cas[d]
    BY <1>1
  <2>2. d # n => sent'[d] = sent[d]
    BY <1>1
  <2>3. d = n => sent'[d] = p
    BY <1>1
  <2> QED
    BY <2>1, <2>2, <2>3
<1>8. (\E d \in Cpu : sent'[d] # <<>>) => Late \/ \E d \in Cpu : sent[d] # <<>>
  BY <1>1
<1> QED
  BY <1>3, <1>4, <1>5, <1>6, <1>7, <1>8 DEF Own

LEMMA StrexHiOwn ==
  ASSUME MailInv, BootInv, CoreTypes, NEW c \in Cpu, Mailing(c), StrexHi(c), UNCHANGED num
  PROVE  Own(c)
<1>1. PICK n \in Cpu : n = BoxOf(c)
  BY MailOf
<1>2. PICK data \in Pairs : data = box[n]
  BY <1>1, ReceiverSees
<1>3. PICK new \in Pairs : new = NewWord(c)
  BY MailOf
<1>4. PICK op : op = Head(todo[c]).op
  OBVIOUS
<1>5. PICK m, x, p : m = mon[c] /\ x = cas[c] /\ p = sent[c]
  OBVIOUS
<1>6. /\ x \in [old : Pairs, read : Pairs] /\ x.old \in Pairs /\ x.read \in Pairs /\ p \in Seq(Messages)
      /\ cas \in [Cpu -> [old : Pairs, read : Pairs]]
      /\ box \in [Cpu -> Pairs] /\ sent \in [Cpu -> Seq(Messages)]
  BY <1>5, BoxTypes DEF MailInv, BoxType
<1>7. /\ op = "recv" => n = c /\ new = NoMessage /\ data = LastIs(p)
      /\ op # "recv" => op = "send" /\ Late /\ new = Head(todo[c]).msg /\ new \in Messages
  BY <1>1, <1>2, <1>3, <1>4, <1>5, MailOf, ReceiverSees DEF Receives
<1>8. step[c] = "sthi"
  BY Zenon DEF StrexHi
<1>9. Free(m) \/ LinkIs("sthi", BoxOf(c), x, new, op, p, m)
  BY <1>3, <1>4, <1>5, <1>8, Links DEF MailInv
<1>10. PICK r : r = Release(m, BoxLine(n), "hi", new.hi)
  OBVIOUS
<1>11. Free(r)
  <2>1. Free(m) \/ (m.line = BoxLine(n) /\ m.mask = {"hi"})
    BY <1>1, <1>9 DEF LinkIs
  <2> QED
    BY ONLY <1>10, <2>1, StrexHiIs
<1>12. mon' = [mon EXCEPT ![c] = r]
  BY <1>1, <1>3, <1>5, <1>10 DEF StrexHi
<1>13. CASE ~Commit(m, BoxLine(n), "hi", data)
  <2>1. /\ cas' = [cas EXCEPT ![c].old = x.read] /\ step' = [step EXCEPT ![c] = "ldlo"]
        /\ UNCHANGED <<todo, box, got, sent>>
    BY <1>1, <1>2, <1>5, <1>13, Zenon DEF StrexHi, Goto
  <2>2. [cas EXCEPT ![c].old = x.read] = [cas EXCEPT ![c] = [cas[c] EXCEPT !.old = x.read]]
    BY Zenon
  <2>3. PICK y : y = [x EXCEPT !.old = x.read]
    OBVIOUS
  <2>4. y \in [old : Pairs, read : Pairs] /\ cas' = [cas EXCEPT ![c] = y]
    BY <1>5, <1>6, <2>1, <2>2, <2>3
  <2> QED
    BY <1>11, <1>12, <2>1, <2>4, Exchanges
<1>14. CASE Commit(m, BoxLine(n), "hi", data)
  <2>1. Update(m, "hi", new.hi) = new /\ x.old.lo = data.lo /\ (op = "recv" => SawLater(p, data, x.old))
    <3>1. Commits(BoxOf(c), x, new, op, p, m, data)
      BY ONLY <1>3, <1>9, StrexHiCommits
    <3> QED
      BY <1>1, <1>14, <3>1 DEF Commits
  <2>2. box' = [box EXCEPT ![n] = new]
    BY <1>1, <1>2, <1>3, <1>5, <1>14, <2>1 DEF StrexHi
  <2>3. CASE op # "recv"
    <3>1. op = "send"
      BY <1>7, <2>3
    <3>2. /\ got' = got /\ sent' = [sent EXCEPT ![n] = Append(sent[n], new)]
          /\ step' = [step EXCEPT ![c] = "go"] /\ cas' = [cas EXCEPT ![c] = NoExchange]
      BY <1>1, <1>2, <1>4, <1>5, <1>7, <1>14, <3>1 DEF StrexHi, Goto
    <3>3. PICK q : q = Append(sent[n], new)
      OBVIOUS
    <3>4. q \in Seq(Messages) /\ new = LastIs(q)
      BY <1>6, <1>7, <3>1, <3>3, SentMore
    <3>5. Mail!OnceNext
      <4>1. Mail!Send(n, new)
        BY <2>2, <3>2 DEF Mail!Send
      <4> QED
        BY <1>7, <3>1, <4>1 DEF Mail!OnceNext
    <3> QED
      BY <1>7, <1>11, <1>12, <2>2, <3>1, <3>2, <3>3, <3>4, <3>5, Ends
  <2>4. CASE op = "recv" /\ x.old # NoMessage
    <3>1. /\ got' = [got EXCEPT ![n] = x.old] /\ sent' = [sent EXCEPT ![n] = <<>>]
          /\ step' = [step EXCEPT ![c] = "go"] /\ cas' = [cas EXCEPT ![c] = NoExchange]
      BY <1>1, <1>2, <1>4, <1>5, <1>14, <2>4 DEF StrexHi, Goto
    <3>2. n = c /\ new = NoMessage /\ data = LastIs(p) /\ box[c] = data /\ sent[c] = p
      BY <1>2, <1>5, <1>7, <2>4
    <3>3. PICK i, j \in DOMAIN p : i <= j /\ data = p[i] /\ x.old.hi = p[j].hi
      BY <1>6, <2>1, <2>4, <3>2, NoneSent DEF SawLater
    <3>4. data # NoMessage
      BY <1>6, <3>3, NoneSent
    <3>5. Mail!Once(c) => p[j].hi = data.hi
      <4> SUFFICES ASSUME Mail!Once(c) PROVE p[j].hi = data.hi
        OBVIOUS
      <4>1. PICK k \in Nat : k = Len(p)
        BY <1>6, LenProperties
      <4>2. i = k
        BY <3>2, <3>3, <4>1 DEF Mail!Once
      <4>3. j \in 1 .. k
        BY <1>6, <4>1, LenProperties
      <4>4. j = i
        BY ONLY <3>3, <4>2, <4>3, k \in Nat
      <4> QED
        BY <3>3, <4>4
    <3>6. x.old = [data EXCEPT !.hi = p[j].hi]
      BY <1>6, <2>1, <3>3 DEF Pairs
    <3>7. Mail!OnceNext
      <4>1. Mail!Take(c, x.old)
        BY <2>2, <3>1, <3>2, <3>4 DEF Mail!Take
      <4>2. Mail!ReceiveMixed(c)
        BY <3>2, <3>3, <3>5, <3>6, <4>1 DEF Mail!ReceiveMixed
      <4> QED
        BY <4>2 DEF Mail!OnceNext
    <3>8. <<>> \in Seq(Messages) /\ new = LastIs(<<>>)
      BY <3>2 DEF LastIs
    <3> QED
      BY <1>11, <1>12, <2>2, <3>1, <3>2, <3>7, <3>8, Ends
  <2>5. CASE op = "recv" /\ x.old = NoMessage
    <3>1. got' = got /\ sent' = sent /\ cas' = cas /\ todo' = todo /\ step' = [step EXCEPT ![c] = "ldlo"]
      BY <1>1, <1>2, <1>4, <1>5, <1>14, <2>5 DEF StrexHi, Goto
    <3>2. data = NoMessage
      BY <1>6, <2>1, <2>5, NoneSent, NoMessageIs DEF SawLater
    <3>3. box' = box
      BY <1>2, <1>6, <1>7, <2>2, <2>5, <3>2
    <3>4. cas' = [cas EXCEPT ![c] = x]
      BY <1>5, <1>6, <3>1
    <3> QED
      BY <1>6, <1>11, <1>12, <3>1, <3>3, <3>4, Exchanges
  <2> QED
    BY <2>3, <2>4, <2>5
<1> QED
  BY <1>13, <1>14

-----------------------------------------------------------------------------
\* The other operations of a core.
LEMMA LockFrees ==
  ASSUME LockInv, NEW c \in Cpu, Enter(c) \/ Ldrex(c) \/ Strex(c) \/ Unlock(c) \/ SpinInit
  PROVE  mon' = mon \/ \E m : Free(m) /\ mon' = [mon EXCEPT ![c] = m]
<1>1. CASE Enter(c) \/ Unlock(c) \/ SpinInit
  BY <1>1 DEF Enter, Unlock, SpinInit
<1>2. CASE Ldrex(c)
  <2>1. PICK m : m = Acquire(mon[c], LockLine, "lo", LockData)
    OBVIOUS
  <2>2. m.line = LockLine
    BY <2>1 DEF Acquire
  <2> QED
    BY <1>2, <2>1, <2>2 DEF Ldrex, Free
<1>3. CASE Strex(c)
  <2>1. PICK m : m = Release(mon[c], LockLine, "lo", 1)
    OBVIOUS
  <2>2. Hit(mon[c], LockLine) => mon[c].mask \ {"lo"} = {}
    BY DEF LockInv, Linked, Hit
  <2>3. m = ResetMonitor
    BY <2>1, <2>2 DEF Release
  <2>4. Free(m)
    BY <2>3 DEF ResetMonitor, Free
  <2>5. mon' = [mon EXCEPT ![c] = m]
    BY <1>3, <2>1 DEF Strex
  <2> QED
    BY <2>4, <2>5
<1> QED
  BY <1>1, <1>2, <1>3

Others == Exchanging \cup {"current"}

LEMMA NotMail ==
  ASSUME MailAt, NEW c \in Cpu, NEW op, Next0(c, op), op \notin {"send", "recv"}
  PROVE  step[c] \notin Others
BY DEF MailAt, Next0, Others

LEMMA QuietMail ==
  ASSUME CoreTypes, MailAt, LockInv, NEW c \in Cpu, Program(c), ~MailStep(c)
  PROVE  /\ step[c] \notin Others /\ step'[c] \notin Others
         /\ UNCHANGED <<cas, sent, got>> /\ (box' = box \/ BspInit(c))
         /\ mon' = mon \/ \E m : Free(m) /\ mon' = [mon EXCEPT ![c] = m]
         /\ num' = num \/ \E x : num' = [num EXCEPT ![c] = x]
<1>1. step = [d \in Cpu |-> step[d]]
  BY DEF CoreTypes, ProgramType
<1>2. \A s : Goto(c, s) => step'[c] = s
  BY <1>1 DEF Goto
<1>3. CASE BootStep(c)
  <2>1. PICK op \in {"start", "bootdone", "waitboot", "clearnum"} : Next0(c, op)
    BY <1>3 DEF BootStep, Start, Count, BootDone, WaitBoot, ClearNum
  <2>2. step[c] \notin Others
    BY <2>1, NotMail
  <2>3. step' = step \/ Goto(c, "count") \/ Goto(c, "go")
    BY <1>3 DEF BootStep, Start, Count, BootDone, WaitBoot, ClearNum
  <2>4. step'[c] \notin Others
    BY <1>2, <2>2, <2>3 DEF Others, Exchanging
  <2>5. num' = num \/ \E x : num' = [num EXCEPT ![c] = x]
    BY <1>3 DEF BootStep, Start, Count, BootDone, WaitBoot, ClearNum, boot
  <2> QED
    BY <1>3, <2>2, <2>4, <2>5 DEF BootStep, lockVars, mail
<1>4. CASE SmpStep(c) \/ BspInit(c) \/ MemStep(c) \/ GfxStep(c)
  <2>1. PICK op : op \notin {"send", "recv"} /\ Next0(c, op)
    <3>1. CASE SmpStep(c)
      <4>1. PICK op \in {"runread", "haltread", "ctrl"} : Next0(c, op)
        BY <3>1 DEF SmpStep, RunRead, HaltRead, Ctrl
      <4> QED
        BY <4>1
    <3>2. CASE BspInit(c) \/ MemStep(c)
      <4>1. PICK op \in {"bspinit", "peek", "poke"} : Next0(c, op)
        BY <3>2 DEF BspInit, MemStep
      <4> QED
        BY <4>1
    <3>3. CASE GfxStep(c)
      <4>1. PICK op \in {"gfxinit", "gfxload", "gfxclear", "gfxswap", "gfxbg", "gfxdraw", "gfxdata"} : Next0(c, op)
        BY <3>3 DEF GfxStep
      <4> QED
        BY <4>1
    <3> QED
      BY <1>4, <3>1, <3>2, <3>3
  <2>2. step[c] \notin Others
    BY <2>1, NotMail
  <2>3. step' = step
    BY <1>4 DEF SmpStep, BspInit, MemStep, GfxStep
  <2> QED
    BY <1>4, <2>2, <2>3 DEF SmpStep, BspInit, MemStep, GfxStep, lockVars, mail, boot
<1>5. CASE Talk(c)
  <2>1. PICK ops : ConsoleStep(c, ops)
    BY <1>5 DEF Talk
  <2>2. PICK op \in {"consoleinit", "print", "setline", "poll"} : Next0(c, op)
    <3>1. CASE LockStep(c)
      BY <3>1 DEF LockStep, Locking
    <3>2. CASE ~LockStep(c)
      BY <2>1, <3>2 DEF ConsoleStep, ConsoleInit, PrintWait, PrintText, PrintPrompt, SetLine,
                        PollAgain, Poll, Holds
    <3> QED
      BY <3>1, <3>2
  <2>3. step[c] \notin Others
    BY <2>2, NotMail
  <2>4. step' = step \/ Goto(c, "text") \/ Goto(c, "prompt") \/ Goto(c, "go")
    BY <2>1 DEF ConsoleStep, ConsoleInit, LockStep, PrintWait, PrintText, PrintPrompt, SetLine,
                PollAgain, Poll
  <2>5. step'[c] \notin Others
    BY <1>2, <2>3, <2>4 DEF Others, Exchanging
  <2>6. mon' = mon \/ Enter(c) \/ Ldrex(c) \/ Strex(c) \/ Unlock(c) \/ SpinInit
    BY <2>1 DEF ConsoleStep, ConsoleInit, LockStep, PrintWait, PrintText, PrintPrompt, SetLine,
                PollAgain, Poll, lockVars
  <2>7. mon' = mon \/ \E m : Free(m) /\ mon' = [mon EXCEPT ![c] = m]
    BY <2>6, LockFrees
  <2>8. UNCHANGED <<box, cas, got, sent, num>>
    BY <1>5 DEF Talk, mail, boot
  <2> QED
    BY <2>3, <2>5, <2>7, <2>8
<1> QED
  BY <1>3, <1>4, <1>5 DEF Program

LEMMA OtherOwn ==
  ASSUME CoreTypes, BootInv, LockInv, MailInv, NEW c \in Cpu, Program(c), ~MailStep(c)
  PROVE  Own(c)
<1>1. /\ step[c] \notin Others /\ step'[c] \notin Others
      /\ UNCHANGED <<cas, sent, got>> /\ (box' = box \/ BspInit(c))
      /\ mon' = mon \/ \E m : Free(m) /\ mon' = [mon EXCEPT ![c] = m]
  BY QuietMail DEF MailInv
<1>2. mon = [d \in Cpu |-> mon[d]]
  BY MailTypes
<1>3. Free(mon[c])
  BY <1>1, Unlinked DEF MailInv, Others
<1>4. Free(mon'[c]) /\ \A d \in Cpu : d # c => mon'[d] = mon[d]
  BY <1>1, <1>2, <1>3
<1>5. box' = box
  <2> SUFFICES ASSUME BspInit(c) PROVE box' = box
    BY <1>1
  <2>1. ~Late
    BY LateIs DEF BspInit
  <2>2. \A n \in Cpu : sent[n] = <<>>
    BY <2>1 DEF MailInv, SentLate
  <2>3. \A n \in Cpu : box[n] = NoMessage
    BY <2>2 DEF MailInv, LastSent, LastIs
  <2> QED
    BY <2>3 DEF BspInit, MailInv, BoxType
<1>6. BoxType' /\ LastSent'
  BY <1>1, <1>5 DEF MailInv, BoxType, LastSent
<1>7. MailAtIs(c)'
  BY <1>1 DEF MailAtIs, Others
<1>8. UNCHANGED Mail!mailVars
  BY <1>1, <1>5 DEF Mail!mailVars
<1> QED
  BY <1>1, <1>4, <1>6, <1>7, <1>8 DEF Own

LEMMA MailOwn ==
  ASSUME CoreTypes, BootInv, MailInv, NEW c \in Cpu, MailStep(c)
  PROVE  Own(c)
<1>1. Mailing(c) /\ UNCHANGED num
  BY DEF MailStep, boot
<1>2. ASSUME NEW off \in {"lo", "hi"}, ReadCurrent(c, off) PROVE Own(c)
  BY <1>1, <1>2, CurrentOwn
<1>3. CASE LdrexBox(c, "lo")
  BY <1>1, <1>3, LdrexLoOwn
<1>4. CASE LdrexBox(c, "hi")
  BY <1>1, <1>4, LdrexHiOwn
<1>5. CASE StrexLo(c)
  BY <1>1, <1>5, StrexLoOwn
<1>6. CASE StrexHi(c)
  BY <1>1, <1>6, StrexHiOwn
<1>7. \/ \E off \in {"lo", "hi"} : ReadCurrent(c, off)
      \/ LdrexBox(c, "lo") \/ LdrexBox(c, "hi") \/ StrexLo(c) \/ StrexHi(c)
  BY DEF MailStep
<1> QED
  BY <1>2, <1>3, <1>4, <1>5, <1>6, <1>7

\* What the other cores have linked stays what it was.
LEMMA OwnKeeps ==
  ASSUME MailInv, NEW c \in Cpu, Own(c), Elsewhere(c), \A d \in Cpu : d # c => num'[d] = num[d],
         Late => Late'
  PROVE  MailInv'
<1>1. BoxType' /\ LastSent' /\ MailAtIs(c)' /\ (Free(mon[c]) \/ Linking(c))'
  BY DEF Own
<1>2. MailAt'
  <2> SUFFICES ASSUME NEW d \in Cpu PROVE MailAtIs(d)'
    BY DEF MailAt, MailAtIs
  <2>1. CASE d = c
    BY <1>1, <2>1
  <2>2. CASE d # c
    BY <2>2 DEF Elsewhere, MailInv, MailAt, MailAtIs
  <2> QED
    BY <2>1, <2>2
<1>3. SentLate'
  <2>1. (\E d \in Cpu : sent'[d] # <<>>) => Late \/ \E d \in Cpu : sent[d] # <<>>
    BY DEF Own
  <2>2. (\E d \in Cpu : sent'[d] # <<>>) => Late'
    BY <2>1 DEF MailInv, SentLate
  <2> QED
    BY <2>2 DEF SentLate
<1>4. ASSUME NEW d \in Cpu, d # c PROVE (Free(mon[d]) \/ Linking(d))'
  <2>1. /\ todo'[d] = todo[d] /\ step'[d] = step[d] /\ num'[d] = num[d] /\ mon'[d] = mon[d] /\ cas'[d] = cas[d]
        /\ sent'[d] = sent[d] \/ \E m \in Messages : sent'[d] = Append(sent[d], m)
    BY <1>4 DEF Elsewhere, Own
  <2>2. BoxOf(d)' = BoxOf(d) /\ NewWord(d)' = NewWord(d)
    BY <2>1 DEF BoxOf, NewWord
  <2>3. PICK at, b, x, new, op, p, m : /\ at = step[d] /\ b = BoxOf(d) /\ x = cas[d] /\ new = NewWord(d)
                                       /\ op = Head(todo[d]).op /\ p = sent[d] /\ m = mon[d]
    OBVIOUS
  <2>4. Free(m) \/ LinkIs(at, b, x, new, op, p, m)
    BY <2>3 DEF MailInv, MonInv, Linking
  <2>5. PICK q : q = sent'[d]
    OBVIOUS
  <2>6. p \in Seq(Messages)
    BY <2>3, BoxTypes DEF MailInv
  <2>7. q = p \/ \E w \in Messages : q = Append(p, w)
    BY <2>1, <2>3, <2>5
  <2>8. Free(m) \/ LinkIs(at, b, x, new, op, q, m)
    BY ONLY <2>4, <2>6, <2>7, LinkKeeps
  <2>9. Free(mon'[d]) \/ LinkIs(step'[d], BoxOf(d)', cas'[d], NewWord(d)', Head(todo'[d]).op, sent'[d], mon'[d])
    BY <2>1, <2>2, <2>3, <2>5, <2>8
  <2> QED
    BY <2>9 DEF Linking
<1>5. MonInv'
  BY <1>1, <1>4 DEF MonInv
<1> QED
  BY <1>1, <1>2, <1>3, <1>5 DEF MailInv

LEMMA MailStays ==
  ASSUME LockInv, BootInv, MailInv, [Next]_vars
  PROVE  MailInv' /\ [Mail!OnceNext]_(Mail!mailVars)
<1>1. CoreTypes
  BY DEF LockInv, CoreTypes, BootInv, Booting
<1>2. Late => Late'
  BY LateStays
<1>3. ASSUME NEW c \in Cpu, Program(c) PROVE MailInv' /\ [Mail!OnceNext]_(Mail!mailVars)
  <2>1. Own(c)
    BY <1>1, <1>3, MailOwn, OtherOwn
  <2>2. Elsewhere(c)
    BY <1>1, <1>3, OnlyOwn
  <2>3. num' = num \/ \E x : num' = [num EXCEPT ![c] = x]
    <3>1. CASE MailStep(c)
      BY <3>1 DEF MailStep, boot
    <3>2. CASE ~MailStep(c)
      BY <1>1, <1>3, <3>2, QuietMail DEF MailInv
    <3> QED
      BY <3>1, <3>2
  <2>4. \A d \in Cpu : d # c => num'[d] = num[d]
    BY <1>1, <2>3, MailTypes
  <2>5. MailInv'
    BY <1>2, <2>1, <2>2, <2>4, OwnKeeps
  <2> QED
    BY <2>1, <2>5 DEF Own
<1>4. ASSUME UNCHANGED <<todo, step, num, mail>>, \A d \in Cpu : mon'[d] = mon[d] \/ Free(mon'[d])
      PROVE  MailInv' /\ [Mail!OnceNext]_(Mail!mailVars)
  <2>1. UNCHANGED <<todo, step, num, box, cas, got, sent>>
    BY <1>4 DEF mail
  <2>2. BoxType' /\ LastSent' /\ MailAt'
    BY <2>1 DEF MailInv, BoxType, LastSent, MailAt
  <2>3. SentLate'
    BY <1>2, <2>1 DEF MailInv, SentLate
  <2>4. ASSUME NEW d \in Cpu PROVE (Free(mon[d]) \/ Linking(d))'
    <3>1. BoxOf(d)' = BoxOf(d) /\ NewWord(d)' = NewWord(d)
      BY <2>1 DEF BoxOf, NewWord
    <3>2. CASE mon'[d] = mon[d]
      <4>1. Linking(d)' = Linking(d)
        BY <2>1, <3>1, <3>2 DEF Linking
      <4>2. Free(mon[d]) \/ Linking(d)
        BY DEF MailInv, MonInv
      <4> QED
        BY <3>2, <4>1, <4>2
    <3> QED
      BY <1>4, <3>2
  <2>5. MonInv'
    BY <2>4 DEF MonInv
  <2>6. UNCHANGED Mail!mailVars
    BY <2>1 DEF Mail!mailVars
  <2> QED
    BY <2>2, <2>3, <2>5, <2>6 DEF MailInv
<1>5. ASSUME NEW c \in Cpu, Obey(c) PROVE MailInv' /\ [Mail!OnceNext]_(Mail!mailVars)
  BY <1>4, <1>5 DEF Obey, program, boot, lockVars
<1>6. CASE Handler
  <2>1. IrqStep /\ UNCHANGED <<num, mail>>
    BY <1>6 DEF Handler, boot
  <2>2. UNCHANGED <<todo, step>>
    BY <2>1 DEF IrqStep, Irq, IrqLock, IrqKey
  <2>3. mon' = mon \/ Enter(0) \/ Ldrex(0) \/ Strex(0) \/ Unlock(0)
    BY <2>1 DEF IrqStep, Irq, IrqLock, IrqKey, lockVars
  <2>4. mon' = mon \/ \E m : Free(m) /\ mon' = [mon EXCEPT ![0] = m]
    BY <2>3, BspAssumption, LockFrees
  <2>5. \A d \in Cpu : mon'[d] = mon[d] \/ Free(mon'[d])
    BY <1>1, <2>4, MailTypes
  <2> QED
    BY <1>4, <2>1, <2>2, <2>5
<1>7. CASE Tick \/ UNCHANGED vars
  BY <1>4, <1>7 DEF Tick, vars, program, boot, lockVars
<1> QED
  BY <1>3, <1>5, <1>6, <1>7 DEF Next

LEMMA MailStarts ==
  ASSUME Init
  PROVE  MailInv /\ Mail!Init
<1>1. /\ box = [n \in Cpu |-> NoMessage] /\ got = box /\ sent = [n \in Cpu |-> <<>>]
      /\ cas = [n \in Cpu |-> NoExchange] /\ step = [n \in Cpu |-> "go"]
      /\ mon = [n \in Cpu |-> ResetMonitor]
  BY DEF Init, ConsoleStart, LockInit
<1>2. BoxType
  BY <1>1, NoMessageIs DEF BoxType, NoExchange
<1>3. LastSent
  BY <1>1 DEF LastSent, LastIs
<1>4. MailAt
  BY <1>1 DEF MailAt, Exchanging
<1>5. SentLate
  BY <1>1 DEF SentLate
<1>6. MonInv
  BY <1>1 DEF MonInv, Free, ResetMonitor
<1>7. Mail!Init
  BY <1>1 DEF Mail!Init
<1> QED
  BY <1>2, <1>3, <1>4, <1>5, <1>6, <1>7 DEF MailInv

\* What the cores send each other is neither lost nor taken twice, and a message that has
\* been put once since the mailbox was empty is not torn, however their ldrexes and
\* strexes, the lock's and the interrupts of core 0 fall (mem.c:128-200, cache_monitor.sv).
THEOREM MailOnceRight == Spec => MailOnceSpec
<1>1. DemoInv /\ [Next]_vars => DemoInv'
  BY DemoStays
<1>2. DemoInv /\ MailInv /\ [Next]_vars => MailInv' /\ [Mail!OnceNext]_(Mail!mailVars)
  BY MailStays DEF DemoInv
<1>3. Init => MailInv /\ Mail!Init
  BY MailStarts
<1> QED
  BY <1>1, <1>2, <1>3, DemoStarts, PTL DEF Spec, MailOnceSpec, Mail!OnceSpec

-----------------------------------------------------------------------------
(***************************************************************************)
(* The vectors that are typed, for any user, any commands and any words.   *)
(***************************************************************************)

\* The vectors in the data are all inside of what the header says, and all are in the
\* GPU's memory as the halves that parse_fp16 made of what was typed last for their
\* place.  Nothing is drawn before lines are read.
VectorIs(v) ==
  /\ v \in Nat /\ v \in DOMAIN gfx.vram
  /\ IsData(v) => v < gfx.head
  /\ \A i \in 0 .. 3 : want[v][i] \in DOMAIN Decimal /\ gfx.vram[v][i] = Half16[want[v][i]]

GfxInv ==
  /\ {"size", "head", "vram"} \subseteq DOMAIN gfx
  /\ gfx.size = gfx.head /\ gfx.head \in Nat
  /\ ~Late => gfx.head = 0 /\ want = <<>>
  /\ \A v \in DOMAIN want : VectorIs(v)

\* The GPU is set up before lines are read, and the rest is asked for by lines.
LEMMA GfxWhen ==
  ASSUME BootInv, NEW c \in Cpu, NEW op, Next0(c, op),
         op \in {"gfxinit", "gfxload", "gfxclear", "gfxswap", "gfxbg", "gfxdraw", "gfxdata"}
  PROVE  /\ op \in {"gfxinit", "gfxload"} => ~Late
         /\ op \notin {"gfxinit", "gfxload"} => Late
         /\ op = "gfxdata" => IsVector(Head(todo[c]))
<1>1. PICK n, k : Booting(n, k)
  BY DEF BootInv
<1>2. k # 0 /\ (c # 0 => Fit(Head(todo[c]), OtherOps, k, n))
  BY <1>1, Runner
<1>3. Head(todo[c]).op = op
  BY DEF Next0
<1>4. c = 0
  <2>1. op \notin OtherOps
    BY DEF OtherOps
  <2> QED
    BY <1>2, <1>3, <2>1 DEF Fit
<1>5. PICK w, x : w \in 1 .. 5 /\ ZeroIs(n, k, w, x)
  BY <1>1, <1>2 DEF Booting
<1>6. RestOp(w) # op
  BY <1>5 DEF RestOp
<1>7. x # <<>> /\ Fit(Head(todo[c]), OpsAt(w), k, n) /\ OpsAt(w) # {}
  BY <1>3, <1>4, <1>5, <1>6, ZeroNext
<1>8. op \in OpsAt(w) /\ (op = "gfxdata" => IsVector(Head(todo[c])))
  BY <1>3, <1>7 DEF Fit
<1>9. w = 1 \/ w = 4
  BY <1>5, <1>7, OpsApart
<1>10. CASE w = 1
  <2>1. op \in {"gfxinit", "gfxload"}
    BY <1>8, <1>10, OpsApart DEF FirstOps
  <2>2. bootNum # 0
    BY <1>2, <1>5, <1>10 DEF ZeroIs
  <2> QED
    BY <1>8, <2>1, <2>2 DEF Late
<1>11. CASE w = 4
  <2>1. op \notin {"gfxinit", "gfxload"}
    BY <1>8, <1>11, OpsApart DEF LineOps
  <2>2. bootNum = 0 /\ bootDone
    BY <1>5, <1>11 DEF ZeroIs
  <2> QED
    BY <1>8, <2>1, <2>2 DEF Late
<1> QED
  BY <1>9, <1>10, <1>11

\* The place of a vector is no higher than its number, and that of the last number of all
\* is in front of the data.
LEMMA SlotIs ==
  ASSUME NEW vec \in 0 .. Word - 1
  PROVE  /\ Slot(vec) \in Nat /\ Slot(vec) <= vec
         /\ IsData(Slot(vec)) => (vec + 1) % Word = vec + 1
<1>1. PICK w, s : w = Word /\ s = Slots
  OBVIOUS
<1>2. w \in Nat /\ s \in Nat \ {0} /\ w = 8 * s
  BY <1>1, HexAssumption, GfxAssumption DEF Slots
<1>3. Slot(vec) = vec % s
  BY <1>1 DEF Slot
<1>4. vec \in 0 .. w - 1
  BY <1>1
<1>5. PICK q, r : q = vec \div s /\ r = vec % s
  OBVIOUS
<1>6. q \in Int /\ r \in 0 .. s - 1 /\ vec = s * q + r
  BY ONLY <1>2, <1>4, <1>5
<1>7. q >= 0
  BY ONLY <1>2, <1>4, <1>6
<1>8. s * q >= 0
  BY ONLY <1>2, <1>6, <1>7
<1>9. r <= vec
  BY ONLY <1>4, <1>6, <1>8, <1>2
<1>10. ASSUME vec = w - 1 PROVE r = s - 1
  <2>1. s * (q + 1) + (r - s) = s * 8 - 1
    BY ONLY <1>2, <1>6, <1>10
  <2>2. q < 8
    BY ONLY <1>2, <1>4, <1>6
  <2>3. q >= 7
    BY ONLY <1>2, <1>6, <1>10
  <2>4. q = 7
    BY ONLY <1>6, <2>2, <2>3
  <2> QED
    BY ONLY <1>2, <1>6, <1>10, <2>4
<1>11. ASSUME vec # w - 1 PROVE (vec + 1) % w = vec + 1
  BY ONLY <1>2, <1>4, <1>11
<1>12. IsData(Slot(vec)) => r # s - 1
  BY <1>1, <1>2, <1>3, <1>5, GfxAssumption DEF IsData
<1>13. Slot(vec) \in Nat /\ Slot(vec) <= vec
  BY ONLY <1>2, <1>3, <1>5, <1>6, <1>9
<1> QED
  BY <1>1, <1>10, <1>11, <1>12, <1>13

\* gfx_write, with the header that it may raise.
LEMMA GfxWrites ==
  ASSUME NEW g, {"size", "head", "vram"} \subseteq DOMAIN g, g.size = g.head, g.head \in Nat,
         NEW vec \in 0 .. Word - 1, NEW data
  PROVE  LET h == GfxWrite(g, vec, data)
             slot == Slot(vec)
         IN /\ {"size", "head", "vram"} \subseteq DOMAIN h
            /\ h.size = h.head /\ h.head \in Nat /\ g.head <= h.head
            /\ IsData(slot) => slot < h.head
            /\ h.vram = [s \in DOMAIN g.vram \cup {slot} |-> IF s = slot THEN data ELSE g.vram[s]]
<1> DEFINE slot == Slot(vec)
           ram == [s \in DOMAIN g.vram \cup {slot} |-> IF s = slot THEN data ELSE g.vram[s]]
           put == [g EXCEPT !.vram = ram]
           size == (vec + 1) % Word
<1>1. GfxWrite(g, vec, data) = IF size > g.size THEN [put EXCEPT !.size = size, !.head = size] ELSE put
  BY Zenon DEF GfxWrite, PutVector
<1>2. size \in Nat
  BY HexAssumption
<1>3. IsData(slot) => slot \in Nat /\ slot < size
  BY SlotIs
<1> HIDE DEF ram, size, slot
<1>4. /\ DOMAIN put = DOMAIN g /\ put.size = g.size /\ put.head = g.head /\ put.vram = ram
  OBVIOUS
<1> HIDE DEF put
<1>5. CASE size > g.size
  <2>1. PICK h : h = [put EXCEPT !.size = size, !.head = size]
    OBVIOUS
  <2>2. DOMAIN h = DOMAIN g /\ h.size = size /\ h.head = size /\ h.vram = ram
    BY <1>4, <2>1
  <2>3. h = GfxWrite(g, vec, data)
    BY <1>1, <1>5, <2>1
  <2> QED
    BY <1>2, <1>3, <1>5, <2>2, <2>3 DEF ram, slot
<1>6. CASE ~(size > g.size)
  <2>1. put = GfxWrite(g, vec, data)
    BY <1>1, <1>6
  <2>2. IsData(slot) => slot < g.head
    BY <1>2, <1>3, <1>6
  <2> QED
    BY <1>4, <2>1, <2>2 DEF ram, slot
<1> QED
  BY <1>5, <1>6

LEMMA GfxStepKeeps ==
  ASSUME BootInv, GfxInv, NEW c \in Cpu, GfxStep(c), UNCHANGED boot
  PROVE  GfxInv'
<1>1. PICK op \in {"gfxinit", "gfxload", "gfxclear", "gfxswap", "gfxbg", "gfxdraw", "gfxdata"} : Next0(c, op)
  BY DEF GfxStep
<1>2. /\ op \in {"gfxinit", "gfxload"} => ~Late
      /\ op \notin {"gfxinit", "gfxload"} => Late
      /\ op = "gfxdata" => IsVector(Head(todo[c]))
  BY <1>1, GfxWhen
<1>3. PICK o : o = Head(todo[c])
  OBVIOUS
<1>4. o.op = op
  BY <1>1, <1>3 DEF Next0
<1>5. /\ gfx' = GfxAfter(gfx, o)
      /\ want' = CASE o.op = "gfxdata" -> [s \in DOMAIN want \cup {Slot(o.vec)} |->
                                             IF s = Slot(o.vec) THEN o.words ELSE want[s]]
                   [] o.op = "gfxclear" -> <<>>
                   [] OTHER -> want
  BY <1>3, Zenon DEF GfxStep
<1>6. Late' = Late
  BY DEF boot, Late
<1>7. CASE op = "gfxdata"
  <2>1. gfx' = GfxWrite(gfx, o.vec, o.data)
    BY <1>4, <1>5, <1>7 DEF GfxAfter
  <2> DEFINE slot == Slot(o.vec)
  <2> HIDE DEF slot
  <2>2. want' = [s \in DOMAIN want \cup {slot} |-> IF s = slot THEN o.words ELSE want[s]]
    BY <1>4, <1>5, <1>7 DEF slot
  <2>3. IsVector(o) /\ Late
    BY <1>2, <1>3, <1>7
  <2>4. /\ {"size", "head", "vram"} \subseteq DOMAIN gfx'
        /\ gfx'.size = gfx'.head /\ gfx'.head \in Nat /\ gfx.head <= gfx'.head
        /\ IsData(slot) => slot < gfx'.head
        /\ gfx'.vram = [s \in DOMAIN gfx.vram \cup {slot} |-> IF s = slot THEN o.data ELSE gfx.vram[s]]
    <3>1. o.vec \in 0 .. Word - 1
      BY <2>3 DEF IsVector
    <3>2. PICK g : g = gfx
      OBVIOUS
    <3>3. PICK data : data = o.data
      OBVIOUS
    <3>4. {"size", "head", "vram"} \subseteq DOMAIN g /\ g.size = g.head /\ g.head \in Nat
      BY <3>2 DEF GfxInv
    <3>5. PICK vec : vec = o.vec
      OBVIOUS
    <3>6. PICK h : h = GfxWrite(g, vec, data)
      OBVIOUS
    <3>7. /\ {"size", "head", "vram"} \subseteq DOMAIN h
          /\ h.size = h.head /\ h.head \in Nat /\ g.head <= h.head
          /\ IsData(Slot(vec)) => Slot(vec) < h.head
          /\ h.vram = [s \in DOMAIN g.vram \cup {Slot(vec)} |-> IF s = Slot(vec) THEN data ELSE g.vram[s]]
      BY ONLY <3>1, <3>4, <3>5, <3>6, GfxWrites
    <3>9. slot = Slot(vec)
      BY <3>5 DEF slot
    <3>8. h = gfx'
      BY <2>1, <3>2, <3>3, <3>5, <3>6
    <3> QED
      BY <3>2, <3>3, <3>7, <3>8, <3>9
  <2>5. ASSUME NEW v \in DOMAIN want' PROVE VectorIs(v)'
    <3>1. CASE v = slot
      <4>1. want'[v] = o.words /\ gfx'.vram[v] = o.data /\ v \in DOMAIN gfx'.vram
        BY <2>2, <2>4, <3>1
      <4>2. slot \in Nat
        BY <2>3, SlotIs DEF IsVector, slot
      <4>3. IsData(v) => v < gfx'.head
        BY <2>4, <3>1
      <4>4. \A i \in 0 .. 3 : want'[v][i] \in DOMAIN Decimal /\ gfx'.vram[v][i] = Half16[want'[v][i]]
        BY <2>3, <4>1 DEF IsVector
      <4> QED
        BY <3>1, <4>1, <4>2, <4>3, <4>4 DEF VectorIs, IsData
    <3>2. CASE v # slot
      <4>1. v \in DOMAIN want
        BY <2>2, <3>2
      <4>2. VectorIs(v)
        BY <4>1 DEF GfxInv
      <4>3. want'[v] = want[v] /\ gfx'.vram[v] = gfx.vram[v] /\ v \in DOMAIN gfx'.vram
        BY <2>2, <2>4, <3>2, <4>1, <4>2 DEF VectorIs
      <4>4. IsData(v) => v < gfx'.head
        BY <2>4, <4>2 DEF VectorIs, GfxInv
      <4>5. IsData(v)' = IsData(v)
        BY DEF IsData
      <4> QED
        BY <4>2, <4>3, <4>4, <4>5 DEF VectorIs
    <3> QED
      BY <3>1, <3>2
  <2> QED
    BY <1>6, <2>3, <2>4, <2>5 DEF GfxInv
<1>8. CASE op \in {"gfxinit", "gfxload", "gfxclear"}
  <2>1. PICK g : g = gfx'
    OBVIOUS
  <2>2. \/ op = "gfxinit" /\ g = Scan([gfx EXCEPT !.size = 0, !.color = 0, !.swap = FALSE], TRUE)
        \/ op = "gfxload" /\ g = [gfx EXCEPT !.head = 0]
        \/ op = "gfxclear" /\ g = Scan([gfx EXCEPT !.size = 0, !.head = 0], TRUE)
    BY <1>4, <1>5, <1>8, <2>1 DEF GfxAfter
  <2>3. op \in {"gfxinit", "gfxload"} => gfx.size = 0 /\ gfx.head = 0 /\ want = <<>>
    BY <1>2 DEF GfxInv
  <2>4. {"size", "head", "vram"} \subseteq DOMAIN gfx
    BY DEF GfxInv
  <2>5. {"size", "head", "vram"} \subseteq DOMAIN g /\ g.size = 0 /\ g.head = 0
    BY <2>2, <2>3, <2>4 DEF Scan
  <2>6. want' = <<>>
    BY <1>4, <1>5, <1>8, <2>3
  <2> QED
    BY <2>1, <2>5, <2>6 DEF GfxInv
<1>9. CASE op \in {"gfxswap", "gfxbg", "gfxdraw"}
  <2>1. PICK g : g = gfx'
    OBVIOUS
  <2>2. \/ g = Scan([gfx EXCEPT !.swap = ~@], FALSE)
        \/ g = Scan([gfx EXCEPT !.color = o.color], FALSE)
        \/ g = [gfx EXCEPT !.started = TRUE]
    BY <1>4, <1>5, <1>9, <2>1 DEF GfxAfter
  <2>3. DOMAIN g = DOMAIN gfx /\ g.size = gfx.size /\ g.head = gfx.head /\ g.vram = gfx.vram
    <3>1. CASE g = Scan([gfx EXCEPT !.swap = ~@], FALSE)
      <4>2. PICK f : f = [gfx EXCEPT !.swap = ~@]
        OBVIOUS
      <4>3. DOMAIN f = DOMAIN gfx /\ f.size = gfx.size /\ f.head = gfx.head /\ f.vram = gfx.vram
        BY <4>2
      <4>4. g = Scan(f, FALSE)
        BY <3>1, <4>2
      <4> QED
        BY ONLY <4>3, <4>4 DEF Scan
    <3>2. CASE g = Scan([gfx EXCEPT !.color = o.color], FALSE)
      BY <3>2 DEF Scan
    <3>3. CASE g = [gfx EXCEPT !.started = TRUE]
      BY <3>3
    <3> QED
      BY <2>2, <3>1, <3>2, <3>3
  <2>4. want' = want
    BY <1>4, <1>5, <1>9
  <2> QED
    BY <1>6, <2>1, <2>3, <2>4 DEF GfxInv, VectorIs
<1> QED
  BY <1>1, <1>7, <1>8, <1>9

LEMMA GfxKeeps ==
  ASSUME BootInv, GfxInv, [Next]_vars
  PROVE  GfxInv'
<1>1. Late => Late'
  BY LateStays
<1>2. ASSUME UNCHANGED graphics PROVE GfxInv'
  BY <1>1, <1>2 DEF GfxInv, VectorIs, graphics
<1>3. ASSUME NEW c \in Cpu, Program(c) PROVE GfxInv'
  <2>1. CASE GfxStep(c)
    BY <2>1, GfxStepKeeps DEF GfxStep
  <2>2. CASE BootStep(c) \/ SmpStep(c) \/ MailStep(c) \/ BspInit(c) \/ MemStep(c) \/ Talk(c)
    BY <1>2, <2>2 DEF BootStep, SmpStep, MailStep, BspInit, MemStep, Talk
  <2> QED
    BY <1>3, <2>1, <2>2 DEF Program
<1>4. CASE \E c \in Cpu : Obey(c)
  BY <1>2, <1>4 DEF Obey
<1>5. CASE Handler \/ Tick \/ UNCHANGED vars
  BY <1>2, <1>5 DEF Handler, Tick, vars
<1> QED
  BY <1>3, <1>4, <1>5 DEF Next

LEMMA GfxStarts == Init => GfxInv
<1> SUFFICES ASSUME Init PROVE GfxInv
  OBVIOUS
<1>1. /\ gfx = [size |-> 0, color |-> 0, swap |-> FALSE, head |-> 0, vram |-> <<>>, started |-> FALSE,
                scan |-> [clear |-> FALSE, swap |-> FALSE, color |-> 0]]
      /\ want = <<>>
  BY DEF Init
<1>2. {"size", "head", "vram"} \subseteq DOMAIN gfx /\ gfx.size = 0 /\ gfx.head = 0
  BY <1>1
<1> QED
  BY <1>1, <1>2 DEF GfxInv

\* Whatever else is drawn, cleared or sent in between, each vector since the last clear
\* is in the GPU's memory where the header covers it, as the four halves that parse_fp16
\* made of its words, and none is lost or moved by another (gfx.c:38-117,
\* main.c:126-192).
THEOREM VectorsKept == Spec => []GfxInv
<1>1. DemoInv /\ [Next]_vars => DemoInv'
  BY DemoStays
<1>2. DemoInv /\ GfxInv /\ [Next]_vars => GfxInv'
  BY GfxKeeps DEF DemoInv
<1> QED
  BY <1>1, <1>2, DemoStarts, GfxStarts, PTL DEF Spec

\* So if parse_fp16 reads each of the words right by itself, what is typed is what is in
\* the GPU's memory, in the range that is drawn (util.c:145-185, gfx.c:38-117).
THEOREM VectorsAlwaysRight ==
  ASSUME \A w \in DOMAIN Decimal : Reads(Half16[w], Decimal[w])
  PROVE  Spec => []VectorsRight
<1>1. GfxInv => VectorsRight
  BY Zenon DEF GfxInv, VectorIs, VectorsRight
<1> QED
  BY <1>1, VectorsKept, PTL
=============================================================================
