------------------------------ MODULE SpinLock ------------------------------
(***************************************************************************)
(* The spin lock of the demo (demo/atomic.S), on the exclusive monitors of *)
(* the caches.  A core that wants the lock masks its interrupts and tries  *)
(* ldrex and strex until the strex succeeds.  The lock has a line of its   *)
(* own (struct lock is aligned to 16 bytes), in whose first word it is.    *)
(***************************************************************************)
EXTENDS CacheMonitor, Integers

CONSTANT Cpu

ASSUME SpinAssumption == "lo" \in Offset

VARIABLES
  lockVal,   \* the word in memory
  mon,       \* per core: the monitor of its cache
  lk         \* per core: out, ldrex, strex, or in the critical section

lockVars == <<lockVal, mon, lk>>

LockLine == <<"lock", 0>>
LockData == [o \in Offset |-> IF o = "lo" THEN lockVal ELSE 0]

\* spin_lock, up to the loop.  From here until spin_unlock has ended the core
\* takes no interrupt.
Enter(c) ==
  /\ lk[c] = "out"
  /\ lk' = [lk EXCEPT ![c] = "ldrex"]
  /\ UNCHANGED <<lockVal, mon>>

Ldrex(c) ==
  /\ lk[c] = "ldrex"
  /\ mon' = [mon EXCEPT ![c] = Acquire(@, LockLine, "lo", LockData)]
  /\ lk' = [lk EXCEPT ![c] = IF lockVal = 0 THEN "strex" ELSE "ldrex"]
  /\ UNCHANGED lockVal

\* strexeq was executed, but the result of it is not looked at.
StrexUnseen(c) ==
  /\ lk[c] = "strex"
  /\ lockVal' = IF Commit(mon[c], LockLine, "lo", LockData) THEN 1 ELSE lockVal
  /\ lk' = [lk EXCEPT ![c] = "in"]
  /\ mon' = [mon EXCEPT ![c] = Release(@, LockLine, "lo", 1)]

Strex(c) ==
  LET ok == Commit(mon[c], LockLine, "lo", LockData)
  IN /\ lk[c] = "strex"
     /\ lockVal' = IF ok THEN 1 ELSE lockVal
     /\ lk' = [lk EXCEPT ![c] = IF ok THEN "in" ELSE "ldrex"]
     /\ mon' = [mon EXCEPT ![c] = Release(@, LockLine, "lo", 1)]

\* spin_unlock.  What becomes of the core is the caller's.
Unlock(c) ==
  /\ lk[c] = "in"
  /\ lockVal' = 0
  /\ lk' = [lk EXCEPT ![c] = "out"]
  /\ UNCHANGED mon

\* Outside of spin_lock a core links other lines.
OtherLine(c) ==
  /\ lk[c] = "out"
  /\ \E m \in {mon'[c]} :
       /\ m.line = LockLine => m.mask = {}
       /\ mon' = [mon EXCEPT ![c] = m]
  /\ UNCHANGED <<lockVal, lk>>

\* spin_init, by the one core that runs then.
SpinInit == lockVal' = 0 /\ (\A c \in Cpu : lk[c] = "out") /\ UNCHANGED <<mon, lk>>

LockNext ==
  \/ SpinInit
  \/ \E c \in Cpu : Enter(c) \/ Ldrex(c) \/ Strex(c) \/ Unlock(c) \/ OtherLine(c)

LockInit ==
  /\ lockVal = 0
  /\ mon = [c \in Cpu |-> ResetMonitor]
  /\ lk = [c \in Cpu |-> "out"]

LockSpec == LockInit /\ [][LockNext]_lockVars

\* The monitors do not watch the ring: a strex is compared with the data that was
\* linked.  Still no two cores are past spin_lock at once, whatever the cores do in
\* between and whatever else they link (atomic.S:20-24, "el monitor solo va a dejar
\* a uno de ellos hacerlo").
MutualExclusion == \A c, d \in Cpu : lk[c] = "in" /\ lk[d] = "in" => c = d
=============================================================================
