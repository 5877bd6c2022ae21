------------------------------ MODULE Wavelet -------------------------------
(***************************************************************************)
(* The wavelet3d simulator (platform/wavelet3d/main.cpp): the image is     *)
(* loaded, then the main thread runs bus cycles and, between them, the     *)
(* commands of the JTAG server's poll thread, with a bus cycle after each. *)
(***************************************************************************)
EXTENDS RemoteJtag, W3dDram

CONSTANTS
  Budget,      \* bounds: sets of [commands, bursts, video] that a behaviour may have
  WriteBurst,  \* what the master writes: [addr, data], data a sequence of [data, strb, last]
  ReadBurst    \* what it reads: [id, addr, len]

\* Words are numbered from 0, and the last beat of a write is marked, as AXI has it.
Request == [id : Nat, addr : Nat, len : Nat]
WriteBeats == [data : Word, strb : SUBSET Lane, last : BOOLEAN]

ASSUME BurstAssumption ==
  /\ ReadBurst \subseteq Request
  /\ \A burst \in WriteBurst :
       /\ burst.addr \in Nat
       /\ burst.data \in Seq(WriteBeats) /\ burst.data # <<>>
       /\ \A k \in 1 .. Len(burst.data) : burst.data[k].last = (k = Len(burst.data))
  /\ None \notin Request \cup WriteBeats \cup WriteBurst

VARIABLE left  \* of the budget

vars == <<jtagVars, dramVars, left>>

Running == toLoad = 0

Load ==
  /\ \E n \in 1 .. toLoad : LoadFlash(n)
  /\ UNCHANGED <<jtagVars, left>>

\* A write as the master gives it to the two channels, and the bursts it begins.
DataOf(write) == IF write = None THEN <<>> ELSE write.data
AwOf(write) ==
  IF write = None THEN None
  ELSE [id |-> write.addr, addr |-> write.addr, len |-> Len(DataOf(write)) - 1]
Begun(newAr, write) == (IF newAr = None THEN 0 ELSE 1) + (IF write = None THEN 0 ELSE 1)

(***************************************************************************)
(* A cycle, with what the master may do in it.  It may make the simulator  *)
(* wait for as long as it likes while it is owed an answer.                *)
(***************************************************************************)
Cycle ==
  \E newAr \in ReadBurst \cup {None}, write \in WriteBurst \cup {None},
     toW, takeR, takeB \in BOOLEAN, pixel \in {FALSE, left.video} :
    /\ Begun(newAr, write) <= left.bursts
    /\ takeR \/ owedR # <<>>
    /\ takeB \/ owedB # <<>>
    /\ SysBusCycle(newAr, AwOf(write), DataOf(write), toW, takeR, takeB, pixel)
    /\ left' = [left EXCEPT !.bursts = @ - Begun(newAr, write)]

Still == UNCHANGED <<dramVars, left>>

Debugger ==
  \/ /\ left.commands > 0
     /\ \E c \in Command : Send(c)
     /\ left' = [left EXCEPT !.commands = @ - 1]
     /\ UNCHANGED dramVars
  \/ left.commands > 0 /\ Hangup /\ Still

BusStep == (LoopCycle \/ ProcessCommand) /\ Cycle

MainStep ==
  \/ BusStep
  \/ (Lock \/ Processed \/ Release \/ Notify \/ Alive \/ Join) /\ Still

Next ==
  \/ Load
  \/ Running /\ (Debugger \/ MainStep)
  \/ Running /\ (PollerStep \/ Wake(TRUE)) /\ Still

Init == JtagInit /\ DramInit /\ left \in Budget

(***************************************************************************)
(* Threads run, and a free lock is got in the end.  A wake-up that nobody  *)
(* asked for may never happen.  The master does not refuse answers for     *)
(* ever, nor keeps write data to itself.  (A step of LoopCycle or          *)
(* ProcessCommand has a Cycle, which is always possible, so the fairness   *)
(* of these is that of BusStep.)                                           *)
(***************************************************************************)
Bus == LoopCycle \/ ProcessCommand
Sends == plan # <<>> /\ (w = None \/ ready.w)
Willing == rready' = TRUE /\ bready' = TRUE /\ plan' = IF Sends THEN Tail(plan) ELSE plan

Fairness ==
  /\ WF_vars(Load)
  /\ WF_jtagVars(Bus \/ Processed \/ Release \/ Notify \/ Alive \/ Join)
  /\ SF_jtagVars(Lock)
  /\ WF_jtagVars(PollerStep)
  /\ SF_jtagVars(Bus /\ Willing)

Spec == Init /\ [][Next]_vars
FairSpec == Spec /\ Fairness

-----------------------------------------------------------------------------
(***************************************************************************)
(* The debugger's side.                                                    *)
(***************************************************************************)
\* What the commands answer when they are given to the pins one by one, with no
\* batches, buffers or threads in between.
Fresh == [pins |-> PinsAtReset, tap |-> TapAtReset, replies |-> <<>>]
Obeyed(s, c) ==
  [pins |-> SetPins(s.pins, c), tap |-> Clocked(s.tap, s.pins, SetPins(s.pins, c)),
   replies |-> IF c = "R" THEN Append(s.replies, s.tap.tdo) ELSE s.replies]
Course(commands) ==
  LET F[k \in 0 .. Len(commands)] == IF k = 0 THEN Fresh ELSE Obeyed(F[k - 1], commands[k]) IN F
Direct(commands) == Course(commands)[Len(commands)].replies

\* The replies are those of the commands, in order (remote_jtag.hpp:135-149): one
\* for each 'R', with tdo as the commands before it have left it.  Before a batch is
\* read the debugger has all that are due, unless it hung up.
RepliesRight ==
  LET due == Direct(consumed)
  IN /\ Len(received) <= Len(due) /\ received = SubSeq(due, 1, Len(received))
     /\ poller = "read" /\ open => received = due

\* The thread that has the buffers has the lock (remote_jtag.hpp:66, .cpp:76-84).
PollerHasBuffers == poller \in {"read", "publish", "wait", "write", "close", "return"}
MainHasBuffers == main \in {"command", "release"}
OneHasBuffers ==
  /\ PollerHasBuffers => lock = "poll"
  /\ MainHasBuffers => lock = "main"

\* process() runs on a batch that was read and is not processed yet: it cannot be
\* processed twice.  Its replies are never more than its commands so far, so they
\* fit in out_buffer (remote_jtag.hpp:149), which nothing checks.
BatchOnce ==
  /\ MainHasBuffers => poller = "asleep" /\ readable
  /\ main = "command" => Len(outBuffer) < next
  /\ Len(outBuffer) <= BufSize

\* A command is taken from the socket unless the connection ends, and then the
\* simulation ends, with the threads joined (remote_jtag.cpp:53-62).
DebuggerServed ==
  /\ stream # <<>> ~> stream = <<>> \/ dead
  /\ dead ~> main = "exit"
  /\ ~open ~> dead \/ poller = "accept"

-----------------------------------------------------------------------------
(***************************************************************************)
(* The memory's side.                                                      *)
(***************************************************************************)
\* The memory is what the answered writes have made of the flash image and zeros,
\* and a first part of the beats that wait for an answer.  A write is answered when
\* all of it is there, with its own identifier, and with an error if it left the
\* memory (main.cpp:114-120, 165-213).
BeatsWritten(least) == \E k \in least .. Len(inFlight) : dram = PutAll(settled, SubSeq(inFlight, 1, k))
WritesLand ==
  /\ Running => BeatsWritten(0)
  /\ b.valid => /\ owedB # <<>> /\ b.id = Head(owedB).id /\ b.ok = Head(owedB).ok
                /\ BeatsWritten(Head(owedB).beats)

\* A word that is offered is the one the master waits for, and has no older value
\* than the last answered write gave it (main.cpp:140-163).
ReadsCurrent ==
  r.valid =>
    /\ owedR # <<>>
    /\ r.id = Head(owedR).id /\ r.last = Head(owedR).last
    /\ r.ok = Good(Head(owedR).addr)
    /\ r.ok => \E k \in 0 .. Len(inFlight) :
                 r.data = PutAll(settled, SubSeq(inFlight, 1, k))[Head(owedR).addr]

\* What the master asks for is answered as long as the simulation goes on.
BurstsAnswered ==
  /\ owedR # <<>> ~> owedR = <<>> \/ main = "exit"
  /\ owedB # <<>> ~> owedB = <<>> \/ main = "exit"
=============================================================================
