----------------------------- MODULE RemoteJtag -----------------------------
(***************************************************************************)
(* The JTAG server of the wavelet3d simulator                              *)
(* (platform/wavelet3d/remote_jtag.{cpp,hpp}).                             *)
(*                                                                         *)
(* A debugger sends one-byte commands over a socket.  The poll thread      *)
(* reads them in batches and writes the replies.  The main thread, which   *)
(* owns the simulated pins, runs the commands of a batch between cycles of *)
(* the simulation.  The two hand the buffers to each other with            *)
(* `readable', a mutex and a condition variable.                           *)
(***************************************************************************)
EXTENDS Naturals, Sequences

CONSTANTS
  Command,    \* the bytes the debugger may send
  BufSize     \* sizeof in_buffer = sizeof out_buffer

ASSUME BufAssumption == BufSize \in Nat \ {0}

VARIABLES
  readable,   \* the batch in inBuffer has not been processed
  dead,
  lock,       \* buffer_lock: "poll", "main" or "free"
  inBuffer, outBuffer,  \* the valid part of the buffers
  readOk,     \* read_bytes > 0
  writeSize,  \* how much of outBuffer is still to be written
  poller,     \* where the poll thread is
  notified,   \* processed_cond has been notified while the poller waited
  main,       \* where the main thread is
  next,       \* i in process()
  pins,       \* jtag_tck, jtag_tms, jtag_tdi
  tap,        \* the test access port at the pins: [bit, tdo]
  stream,     \* commands in the socket
  open,       \* the debugger's end is open
  consumed,   \* history: the commands of all batches
  received    \* the replies the debugger has

buffers == <<inBuffer, outBuffer, readOk, writeSize>>
debugger == <<stream, open>>
jtagVars == <<readable, dead, lock, buffers, poller, notified, main, next, pins, tap,
              debugger, consumed, received>>

-----------------------------------------------------------------------------
(***************************************************************************)
(* The pins.  The port is the JTAG bypass register: it takes tdi when tck  *)
(* rises and shows it at tdo when tck falls.                               *)
(***************************************************************************)
High(c) == [tck |-> c \in {"4", "5", "6", "7"},
            tms |-> c \in {"2", "3", "6", "7"},
            tdi |-> c \in {"1", "3", "5", "7"}]

SetPins(p, c) == IF c \in {"0", "1", "2", "3", "4", "5", "6", "7"} THEN High(c) ELSE p

Clocked(t, old, new) ==
  CASE ~old.tck /\ new.tck -> [t EXCEPT !.bit = new.tdi]
    [] old.tck /\ ~new.tck -> [t EXCEPT !.tdo = t.bit]
    [] OTHER -> t

PinsAtReset == [tck |-> TRUE, tms |-> TRUE, tdi |-> TRUE]
TapAtReset == [bit |-> TRUE, tdo |-> FALSE]

-----------------------------------------------------------------------------
(***************************************************************************)
(* The debugger: sends commands, or closes the connection.                 *)
(***************************************************************************)
Send(c) ==
  /\ open
  /\ stream' = Append(stream, c)
  /\ UNCHANGED <<readable, dead, lock, buffers, poller, notified, main, next, pins, tap,
                 open, consumed, received>>

Hangup ==
  /\ open
  /\ open' = FALSE
  /\ UNCHANGED <<readable, dead, lock, buffers, poller, notified, main, next, pins, tap,
                 stream, consumed, received>>

-----------------------------------------------------------------------------
(***************************************************************************)
(* The poll thread (poll_main).                                            *)
(***************************************************************************)
Others == <<main, next, pins, tap, debugger>>

\* accept(); on failure the thread ends at once.
Accept(ok) ==
  /\ poller = "accept"
  /\ IF ok
       THEN /\ lock = "free" /\ lock' = "poll"
            /\ poller' = "read"
            /\ UNCHANGED dead
       ELSE /\ dead' = TRUE
            /\ poller' = "done"
            /\ UNCHANGED lock
  /\ UNCHANGED <<Others, readable, buffers, notified, consumed, received>>

\* read() waits for the debugger.  It gives some of what has been sent, or
\* nothing (end of file, error) once the debugger has gone.
Read(n) ==
  /\ poller = "read"
  /\ IF n = 0
       THEN ~open /\ readOk' = FALSE /\ UNCHANGED <<inBuffer, stream, consumed>>
       ELSE /\ n <= BufSize /\ n <= Len(stream)
            /\ readOk' = TRUE
            /\ inBuffer' = SubSeq(stream, 1, n)
            /\ stream' = SubSeq(stream, n + 1, Len(stream))
            /\ consumed' = consumed \o inBuffer'
  /\ poller' = "publish"
  /\ UNCHANGED <<readable, dead, lock, outBuffer, writeSize, notified, main, next, pins, tap,
                 open, received>>

\* readable = true.
Publish ==
  /\ poller = "publish"
  /\ readable' = TRUE
  /\ poller' = "wait"
  /\ UNCHANGED <<Others, dead, lock, buffers, notified, consumed, received>>

\* processed_cond.wait(): give the lock away, unless there is nothing to wait for.
Wait ==
  /\ poller = "wait" /\ readable
  /\ lock' = "free"
  /\ notified' = FALSE
  /\ poller' = "asleep"
  /\ UNCHANGED <<Others, readable, dead, buffers, consumed, received>>

WakeUnlocked(spurious) ==
  /\ poller = "asleep"
  /\ notified \/ spurious
  /\ poller' = "wait"
  /\ UNCHANGED <<Others, readable, dead, lock, buffers, notified, consumed, received>>

\* Woken by a notification, or without one: take the lock and look again.
Wake(spurious) ==
  /\ poller = "asleep" /\ lock = "free"
  /\ notified \/ spurious
  /\ lock' = "poll"
  /\ poller' = "wait"
  /\ UNCHANGED <<Others, readable, dead, buffers, notified, consumed, received>>

\* The batch has been processed: leave, or begin to write the replies.
Resume ==
  /\ poller = "wait" /\ ~readable
  /\ IF ~readOk \/ dead
       THEN poller' = "close" /\ UNCHANGED writeSize
       ELSE poller' = "write" /\ writeSize' = Len(outBuffer)
  /\ UNCHANGED <<Others, readable, dead, lock, inBuffer, outBuffer, readOk, notified,
                 consumed, received>>

WriteStartZero == 0
WriteStart == Len(outBuffer) - writeSize

\* write() takes some of the replies, or fails if the debugger has gone; it may also
\* take some that nobody gets any more.
Write(n) ==
  /\ poller = "write" /\ writeSize > 0
  /\ IF n = 0
       THEN ~open /\ poller' = "read" /\ UNCHANGED <<writeSize, received>>
       ELSE /\ n <= writeSize
            /\ writeSize' = writeSize - n
            /\ received' = IF open
                             THEN received \o SubSeq(outBuffer, WriteStart + 1, WriteStart + n)
                             ELSE received
            /\ UNCHANGED poller
  /\ UNCHANGED <<Others, readable, dead, lock, inBuffer, outBuffer, readOk, notified, consumed>>

Written ==
  /\ poller = "write" /\ writeSize = 0
  /\ poller' = "read"
  /\ UNCHANGED <<Others, readable, dead, lock, buffers, notified, consumed, received>>

\* close(client_fd), with the lock still held: it is given back on return.
Close ==
  /\ poller = "close"
  /\ dead' = TRUE
  /\ open' = FALSE
  /\ poller' = "return"
  /\ UNCHANGED <<readable, lock, buffers, notified, main, next, pins, tap, stream,
                 consumed, received>>

Return ==
  /\ poller = "return"
  /\ lock' = "free"
  /\ poller' = "done"
  /\ UNCHANGED <<Others, readable, dead, buffers, notified, consumed, received>>

PollerStep ==
  \/ \E ok \in BOOLEAN : Accept(ok)
  \/ \E n \in 0 .. BufSize : Read(n) \/ Write(n)
  \/ Publish \/ Wait \/ Wake(FALSE) \/ Resume \/ Written \/ Close \/ Return

-----------------------------------------------------------------------------
(***************************************************************************)
(* The main thread: the loop of main.cpp, and process().                   *)
(***************************************************************************)
OtherThread == <<poller, debugger, inBuffer, readOk, writeSize, consumed, received>>

\* sys_bus_cycle() of the loop; pending() is asked after it.
LoopCycle ==
  /\ main = "loop"
  /\ main' = IF readable THEN "lock" ELSE "alive"
  /\ UNCHANGED <<OtherThread, readable, dead, lock, outBuffer, notified, next, pins, tap>>

LockAppending ==
  /\ main = "lock" /\ lock = "free"
  /\ lock' = "main"
  /\ IF readOk THEN next' = 1 /\ main' = "command" ELSE main' = "release" /\ UNCHANGED next
  /\ UNCHANGED <<OtherThread, readable, dead, outBuffer, notified, pins, tap>>

\* process() takes the lock.  write_bytes = 0 only when there are commands.
Lock ==
  /\ main = "lock" /\ lock = "free"
  /\ lock' = "main"
  /\ IF readOk
       THEN outBuffer' = <<>> /\ next' = 1 /\ main' = "command"
       ELSE main' = "release" /\ UNCHANGED <<outBuffer, next>>
  /\ UNCHANGED <<OtherThread, readable, dead, notified, pins, tap>>

\* One command, and the cycle() after it.
ProcessCommand ==
  LET c == inBuffer[next]
  IN /\ main = "command" /\ next <= Len(inBuffer)
     /\ pins' = SetPins(pins, c)
     /\ tap' = Clocked(tap, pins, pins')
     /\ outBuffer' = IF c = "R" THEN Append(outBuffer, tap.tdo) ELSE outBuffer
     /\ dead' = (dead \/ c = "Q")
     /\ next' = next + 1
     /\ UNCHANGED <<OtherThread, readable, lock, notified, main>>

Processed ==
  /\ main = "command" /\ next > Len(inBuffer)
  /\ main' = "release"
  /\ UNCHANGED <<OtherThread, readable, dead, lock, outBuffer, notified, next, pins, tap>>

ReleaseQuietly ==
  /\ main = "release"
  /\ readable' = FALSE
  /\ lock' = "free"
  /\ main' = "alive"
  /\ UNCHANGED <<OtherThread, dead, outBuffer, notified, next, pins, tap>>

\* readable = false, and the lock is given back.
Release ==
  /\ main = "release"
  /\ readable' = FALSE
  /\ lock' = "free"
  /\ main' = "notify"
  /\ UNCHANGED <<OtherThread, dead, outBuffer, notified, next, pins, tap>>

\* notify_one() does nothing when nobody waits.
Notify ==
  /\ main = "notify"
  /\ notified' = (notified \/ poller = "asleep")
  /\ main' = "alive"
  /\ UNCHANGED <<OtherThread, readable, dead, lock, outBuffer, next, pins, tap>>

\* while (jtag.alive())
Alive ==
  /\ main = "alive"
  /\ main' = IF dead THEN "join" ELSE "loop"
  /\ UNCHANGED <<OtherThread, readable, dead, lock, outBuffer, notified, next, pins, tap>>

\* ~remote_jtag()
Join ==
  /\ main = "join" /\ poller = "done"
  /\ main' = "exit"
  /\ UNCHANGED <<OtherThread, readable, dead, lock, outBuffer, notified, next, pins, tap>>

JtagNext ==
  \/ \E c \in Command : Send(c)
  \/ Hangup
  \/ PollerStep \/ Wake(TRUE)
  \/ LoopCycle \/ Lock \/ ProcessCommand \/ Processed \/ Release \/ Notify \/ Alive \/ Join

JtagInit ==
  /\ readable = FALSE /\ dead = FALSE /\ lock = "free"
  /\ inBuffer = <<>> /\ outBuffer = <<>> /\ readOk = FALSE /\ writeSize = 0
  /\ poller = "accept" /\ notified = FALSE
  /\ main = "loop" /\ next = 1
  /\ pins = PinsAtReset /\ tap = TapAtReset
  /\ stream = <<>> /\ open = TRUE
  /\ consumed = <<>> /\ received = <<>>
=============================================================================
