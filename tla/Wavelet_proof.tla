--------------------------- MODULE Wavelet_proof ----------------------------
(***************************************************************************)
(* How the two threads of the wavelet3d simulator share the buffers of the *)
(* JTAG server, proved for buffers of any size, any commands and whatever  *)
(* the simulated bus does; that the simulated memory answers reads and     *)
(* writes as it should, proved for memories, queues and bursts of any size;*)
(* and that the debugger gets the replies of its commands.                 *)
(***************************************************************************)
EXTENDS Wavelet, SequenceTheorems, FiniteSetTheorems, WellFoundedInduction, TLAPS

PollerAt == {"accept", "read", "publish", "wait", "asleep", "write", "close", "return", "done"}
MainAt == {"loop", "lock", "command", "release", "notify", "alive", "join", "exit"}

JtagType ==
  /\ readable \in BOOLEAN
  /\ lock \in {"poll", "main", "free"}
  /\ poller \in PollerAt
  /\ main \in MainAt
  /\ next \in Nat
  /\ inBuffer \in Seq(Command) /\ outBuffer \in Seq(BOOLEAN)
  /\ stream \in Seq(Command)
  /\ tap \in [bit : BOOLEAN, tdo : BOOLEAN]
  /\ pins \in [tck : BOOLEAN, tms : BOOLEAN, tdi : BOOLEAN]

\* The lock is held exactly where the code is between taking and giving it.
LockInv ==
  /\ lock = "poll" <=> PollerHasBuffers
  /\ lock = "main" <=> MainHasBuffers

\* `readable' passes the batch: the poller sets it and then only waits, the main
\* thread acts on it and clears it last.
ReadableInv ==
  /\ readable => poller \in {"wait", "asleep"}
  /\ main \in {"lock", "command", "release"} => readable

\* There are no more replies than commands so far.
RoomInv ==
  /\ Len(inBuffer) <= BufSize
  /\ Len(outBuffer) <= BufSize
  /\ main = "command" => next \in 1 .. Len(inBuffer) + 1 /\ Len(outBuffer) < next

JtagInv == JtagType /\ LockInv /\ ReadableInv /\ RoomInv

\* The invariant of the buffers holds before anything is accepted.
LEMMA JtagInitial == Init => JtagInv
<1> SUFFICES ASSUME JtagInit PROVE JtagInv
  BY DEF Init
<1> USE DEF JtagInit
<1>1. tap \in [bit : BOOLEAN, tdo : BOOLEAN]
  BY DEF TapAtReset
<1>2. pins \in [tck : BOOLEAN, tms : BOOLEAN, tdi : BOOLEAN]
  BY DEF PinsAtReset
<1>3. <<>> \in Seq(Command) /\ <<>> \in Seq(BOOLEAN)
  OBVIOUS
<1>6. JtagType
  BY <1>1, <1>2, <1>3 DEF JtagType, PollerAt, MainAt
<1>4. LockInv /\ ReadableInv
  BY DEF LockInv, ReadableInv, PollerHasBuffers, MainHasBuffers
<1>5. RoomInv
  BY BufAssumption DEF RoomInv
<1> QED
  BY <1>4, <1>5, <1>6 DEF JtagInv

\* The bus steps of the composition leave the server's state to its own actions.
LEMMA JtagSteps == [Next]_vars => [JtagNext]_jtagVars
<1> SUFFICES ASSUME [Next]_vars PROVE [JtagNext]_jtagVars
  OBVIOUS
<1>1. CASE Load
  BY <1>1 DEF Load
<1>2. CASE Debugger
  BY <1>2 DEF Debugger, JtagNext
<1>3. CASE MainStep
  BY <1>3 DEF MainStep, BusStep, JtagNext
<1>4. CASE PollerStep \/ Wake(TRUE)
  BY <1>4 DEF JtagNext
<1>5. CASE UNCHANGED vars
  BY <1>5 DEF vars
<1> QED
  BY <1>1, <1>2, <1>3, <1>4, <1>5 DEF Next

\* The pins and the port stay what they are, whatever the command.
LEMMA PinTypes ==
  ASSUME JtagType, NEW c
  PROVE  /\ SetPins(pins, c) \in [tck : BOOLEAN, tms : BOOLEAN, tdi : BOOLEAN]
         /\ Clocked(tap, pins, SetPins(pins, c)) \in [bit : BOOLEAN, tdo : BOOLEAN]
<1> DEFINE P == [tck : BOOLEAN, tms : BOOLEAN, tdi : BOOLEAN]
<1>1. High(c) \in P
  BY DEF High
<1>2. SetPins(pins, c) \in P
  BY <1>1 DEF SetPins, JtagType
<1>3. ASSUME NEW q \in P PROVE Clocked(tap, pins, q) \in [bit : BOOLEAN, tdo : BOOLEAN]
  BY <1>3 DEF Clocked, JtagType
<1> QED
  BY <1>2, <1>3

\* Steps of the debugger.
LEMMA DebuggerKeeps ==
  ASSUME JtagInv, (\E c \in Command : Send(c)) \/ Hangup
  PROVE  JtagInv'
<1> USE DEF JtagInv, LockInv, ReadableInv, RoomInv, PollerHasBuffers, MainHasBuffers, buffers, debugger
<1>1. CASE \E c \in Command : Send(c)
  BY <1>1 DEF Send, JtagType
<1>2. CASE Hangup
  BY <1>2 DEF Hangup, JtagType
<1> QED
  BY <1>1, <1>2

\* Steps of the poll thread: it takes and gives the lock, fills inBuffer while
\* `readable' is off, and turns it on.
LEMMA PollerKeeps ==
  ASSUME JtagInv, PollerStep \/ Wake(TRUE)
  PROVE  JtagInv'
<1> USE DEF JtagInv, LockInv, ReadableInv, RoomInv, PollerHasBuffers, MainHasBuffers, buffers,
            debugger, Others
<1>1. ASSUME NEW ok \in BOOLEAN, Accept(ok) PROVE JtagInv'
  BY <1>1 DEF Accept, JtagType, PollerAt
<1>2. ASSUME NEW n \in 0 .. BufSize, Read(n) PROVE JtagInv'
  <2>1. /\ inBuffer' \in Seq(Command) /\ stream' \in Seq(Command)
        /\ Len(inBuffer') <= BufSize
    <3>1. CASE n = 0
      BY <1>2, <3>1 DEF Read, JtagType
    <3>2. CASE n # 0
      <4>1. /\ n \in 1 .. Len(stream) /\ n <= BufSize
            /\ inBuffer' = SubSeq(stream, 1, n)
            /\ stream' = SubSeq(stream, n + 1, Len(stream))
        BY <1>2, <3>2, BufAssumption DEF Read, JtagType
      <4>2. stream \in Seq(Command)
        BY DEF JtagType
      <4>3. inBuffer' \in Seq(Command) /\ Len(inBuffer') = n
        BY <4>1, <4>2, SubSeqProperties
      <4>4. stream' \in Seq(Command)
        BY <4>1, <4>2, SubSeqProperties
      <4> QED
        BY <4>1, <4>3, <4>4
    <3> QED
      BY <3>1, <3>2
  <2>2. JtagType'
    BY <1>2, <2>1 DEF Read, JtagType, PollerAt
  <2>3. main # "command"
    BY <1>2 DEF Read, JtagType
  <2> QED
    BY <1>2, <2>1, <2>2, <2>3 DEF Read
<1>3. ASSUME NEW n \in 0 .. BufSize, Write(n) PROVE JtagInv'
  BY <1>3 DEF Write, JtagType, PollerAt
<1>4. CASE Publish
  BY <1>4 DEF Publish, JtagType, PollerAt
<1>5. CASE Wait
  BY <1>5 DEF Wait, JtagType, PollerAt
<1>6. ASSUME NEW s \in BOOLEAN, Wake(s) PROVE JtagInv'
  BY <1>6 DEF Wake, JtagType, PollerAt
<1>7. CASE Resume
  BY <1>7 DEF Resume, JtagType, PollerAt
<1>8. CASE Written
  BY <1>8 DEF Written, JtagType, PollerAt
<1>9. CASE Close
  BY <1>9 DEF Close, JtagType, PollerAt
<1>10. CASE Return
  BY <1>10 DEF Return, JtagType, PollerAt
<1> QED
  BY <1>1, <1>2, <1>3, <1>4, <1>5, <1>6, <1>7, <1>8, <1>9, <1>10 DEF PollerStep

\* Steps of the main thread: it acts on the buffers under the lock, while
\* `readable' is on, and turns it off.
LEMMA MainKeeps ==
  ASSUME JtagInv,
         LoopCycle \/ Lock \/ ProcessCommand \/ Processed \/ Release \/ Notify \/ Alive \/ Join
  PROVE  JtagInv'
<1> USE DEF JtagInv, LockInv, ReadableInv, RoomInv, PollerHasBuffers, MainHasBuffers, debugger,
            OtherThread
<1>1. CASE LoopCycle
  BY <1>1 DEF LoopCycle, JtagType, MainAt
<1>2. CASE Lock
  <2>1. <<>> \in Seq(BOOLEAN)
    OBVIOUS
  <2>2. CASE readOk
    BY <1>2, <2>1, <2>2, BufAssumption DEF Lock, JtagType, MainAt
  <2>3. CASE ~readOk
    BY <1>2, <2>3 DEF Lock, JtagType, MainAt
  <2> QED
    BY <2>2, <2>3
<1>3. CASE ProcessCommand
  <2>1. pins' \in [tck : BOOLEAN, tms : BOOLEAN, tdi : BOOLEAN]
        /\ tap' \in [bit : BOOLEAN, tdo : BOOLEAN]
    BY <1>3, PinTypes DEF ProcessCommand
  <2>2. outBuffer' \in Seq(BOOLEAN) /\ Len(outBuffer') <= Len(outBuffer) + 1
    <3>1. outBuffer \in Seq(BOOLEAN) /\ tap.tdo \in BOOLEAN
      BY DEF JtagType
    <3>2. outBuffer' \in {outBuffer, Append(outBuffer, tap.tdo)}
      BY <1>3 DEF ProcessCommand
    <3> QED
      BY <3>1, <3>2, AppendProperties
  <2>3. JtagType'
    BY <1>3, <2>1, <2>2 DEF ProcessCommand, JtagType
  <2>4. RoomInv'
    BY <1>3, <2>2, BufAssumption DEF ProcessCommand, JtagType
  <2>5. UNCHANGED <<readable, lock, poller, main>>
    BY <1>3 DEF ProcessCommand
  <2>6. LockInv' /\ ReadableInv'
    BY <2>5
  <2> QED
    BY <2>3, <2>4, <2>6 DEF JtagInv
<1>4. CASE Processed
  BY <1>4 DEF Processed, JtagType, MainAt
<1>5. CASE Release
  BY <1>5 DEF Release, JtagType, MainAt
<1>6. CASE Notify
  BY <1>6 DEF Notify, JtagType, MainAt
<1>7. CASE Alive
  BY <1>7 DEF Alive, JtagType, MainAt
<1>8. CASE Join
  BY <1>8 DEF Join, JtagType, MainAt
<1> QED
  BY <1>1, <1>2, <1>3, <1>4, <1>5, <1>6, <1>7, <1>8

\* JtagInv is inductive in the whole simulator (remote_jtag.cpp:76-106, .hpp:66-160).
THEOREM JtagInvariant == Spec => []JtagInv
<1>1. JtagInv /\ [Next]_vars => JtagInv'
  <2> SUFFICES ASSUME JtagInv, [JtagNext]_jtagVars PROVE JtagInv'
    BY JtagSteps
  <2>1. CASE UNCHANGED jtagVars
    BY <2>1 DEF jtagVars, buffers, debugger, JtagInv, JtagType, LockInv, ReadableInv, RoomInv,
                PollerHasBuffers, MainHasBuffers
  <2> QED
    BY <2>1, DebuggerKeeps, PollerKeeps, MainKeeps DEF JtagNext
<1> QED
  BY JtagInitial, <1>1, PTL DEF Spec

\* At any time one thread at most is in the code that uses the buffers, and it has
\* buffer_lock (remote_jtag.hpp:66, remote_jtag.cpp:76-84).
THEOREM BuffersExclusive == Spec => []OneHasBuffers
<1>1. JtagInv => OneHasBuffers
  BY DEF JtagInv, LockInv, OneHasBuffers
<1> QED
  BY <1>1, JtagInvariant, PTL

\* process() only runs while the poller waits for it, and its replies fit in
\* out_buffer, however many there are in a batch (remote_jtag.hpp:149).
THEOREM BatchesOnce == Spec => []BatchOnce
<1>1. JtagInv => BatchOnce
  BY BufAssumption DEF JtagInv, JtagType, LockInv, ReadableInv, RoomInv, BatchOnce,
     PollerHasBuffers, MainHasBuffers
<1> QED
  BY <1>1, JtagInvariant, PTL

-----------------------------------------------------------------------------
(***************************************************************************)
(* The memory of the simulator, proved for memories, bursts and queues of  *)
(* any size.  What a channel still carries is the queue of the simulator   *)
(* with, at its end, what the master holds and is not taken yet.           *)
(***************************************************************************)
\* What the queues, the answers and the memory hold.
Address == 0 .. DramSize - 1
Memory == [Address -> Word]
ReadBeat == [id : Nat, addr : Nat, last : BOOLEAN]
WriteReply == [id : Nat, beats : Nat, ok : BOOLEAN]
PlacedBeat == [id : Nat, addr : Nat, data : Word, strb : SUBSET Lane, last : BOOLEAN]

\* A channel carries what the simulator has queued and what is not taken from the pins;
\* the beats of the begun burst follow those of the w channel.
Line(q, x) == IF x = None THEN q ELSE Append(q, x)
Kept(reg, rdy) == IF rdy THEN None ELSE reg

ReadsAsked == Line(arQueue, Kept(ar, ready.ar))
WritesAsked == Line(awQueue, Kept(aw, ready.aw))
BeatsToCome == Line(wQueue, Kept(w, ready.w)) \o plan

\* The answers that are due once the one on the pins is taken, and the beats it is for.
ReadsOwed == IF TakesR THEN Tail(owedR) ELSE owedR
WritesOwed == IF TakesB THEN Tail(owedB) ELSE owedB
Acked == IF TakesB THEN Head(owedB).beats ELSE 0

\* The m beats are what the n bursts come to, one after the other: burst i has those
\* from st[i] + 1 to st[i + 1].
IsBeat(beat, burst, k) ==
  beat.id = burst.id /\ beat.addr = burst.addr + k /\ beat.last = (k = burst.len)

Laid(asked, n, beats, m) ==
  \E st \in [1 .. n + 1 -> 0 .. m] :
    /\ st[1] = 0 /\ st[n + 1] = m
    /\ \A i \in 1 .. n :
         /\ st[i + 1] = st[i] + asked[i].len + 1
         /\ \A k \in 0 .. asked[i].len : IsBeat(beats[st[i] + k + 1], asked[i], k)

LaidOut(asked, beats) == Laid(asked, Len(asked), beats, Len(beats))

\* Of the first of the writes `part' beats are done; what is left of each.
Left(asked, owed, part) ==
  [i \in 1 .. Len(asked) |->
     [id |-> asked[i].id, addr |-> asked[i].addr,
      len |-> owed[i].beats - 1 - (IF i = 1 THEN part ELSE 0)]]

\* The n beats behind the first `part'.
Rest(flight, part, n) == [k \in 1 .. n |-> flight[part + k]]

\* The writes that are asked for have an answer each, and the beats that are on their way
\* are, in order, those that have not reached the memory: of the writes' bursts, the first
\* of which has `part' beats there.
WriteOrder(asked, owed, todo, flight, part) ==
  /\ Len(owed) = Len(asked)
  /\ part \in Nat /\ Len(flight) = part + Len(todo)
  /\ asked = <<>> => part = 0
  /\ \A i \in 1 .. Len(asked) :
       LET burst == Left(asked, owed, part)[i]
       IN /\ burst.len \in Nat
          /\ owed[i].id = burst.id
          /\ owed[i].ok = Good(burst.addr + burst.len)
  /\ Laid(Left(asked, owed, part), Len(asked), Rest(flight, part, Len(todo)), Len(todo))
  /\ \A k \in 1 .. Len(todo) :
       /\ flight[part + k].data = todo[k].data
       /\ flight[part + k].strb = todo[k].strb
       /\ flight[part + k].last = todo[k].last

\* The beats without an answer, those of them that are done, an answer that the master
\* does not take yet (its beat is written again in each cycle), and all that is there.
Unanswered == SubSeq(inFlight, Acked + 1, Len(inFlight))
Part == Len(Unanswered) - Len(BeatsToCome)
Refused == b.valid /\ ~bready
Landed == Acked + Part + (IF Refused THEN 1 ELSE 0)

\* The types of the memory's side; the first part of its invariant.
DramType ==
  /\ dram \in Memory /\ settled \in Memory
  /\ toLoad \in 0 .. ImgSize
  /\ arQueue \in Seq(Request) /\ awQueue \in Seq(Request) /\ wQueue \in Seq(WriteBeats)
  /\ ar \in Request \cup {None} /\ aw \in Request \cup {None} /\ w \in WriteBeats \cup {None}
  /\ ready \in [ar : BOOLEAN, aw : BOOLEAN, w : BOOLEAN]
  /\ r.valid \in BOOLEAN /\ b.valid \in BOOLEAN
  /\ rready \in BOOLEAN /\ bready \in BOOLEAN
  /\ plan \in Seq(WriteBeats)
  /\ owedR \in Seq(ReadBeat) /\ owedB \in Seq(WriteReply) /\ inFlight \in Seq(PlacedBeat)

\* While the image is loaded the bus is at rest.
LoadInv ==
  toLoad # 0 =>
    /\ inFlight = <<>> /\ ~b.valid
    /\ \A a \in Address, l \in Lane :
         LET i == a * Bytes + l
         IN /\ dram[a][l] = IF i < ImgSize - toLoad THEN Image[i + 1] ELSE 0
            /\ settled[a][l] = IF i < ImgSize THEN Image[i + 1] ELSE 0

\* The word on offer is the one that is due, and the reads that are asked for come to the
\* answers that the master waits for.
ReadInv ==
  /\ r.valid => /\ owedR # <<>>
                /\ r.id = Head(owedR).id /\ r.last = Head(owedR).last
                /\ r.ok = Good(Head(owedR).addr)
  /\ LaidOut(ReadsAsked, ReadsOwed)

\* A write's answer comes with its last beat, and the beats keep the order of the bursts
\* although address and data travel separately.
WriteInv ==
  /\ b.valid => /\ owedB # <<>> /\ b.id = Head(owedB).id /\ b.ok = Head(owedB).ok
                /\ Head(owedB).beats = Landed /\ Landed <= Len(inFlight)
  /\ Refused => Serving /\ Head(wQueue).last
  /\ WriteOrder(WritesAsked, WritesOwed, BeatsToCome, Unanswered, Part)

\* The memory has exactly the beats that have landed.
MemoryInv == toLoad = 0 => dram = PutAll(settled, SubSeq(inFlight, 1, Landed))

\* The inductive invariant of the memory.
DramInv == DramType /\ LoadInv /\ ReadInv /\ WriteInv /\ MemoryInv /\ ReadsCurrent

\* A set of beat numbers has a last one.
LEMMA LastExists ==
  ASSUME NEW n \in Nat, NEW T \in SUBSET (1 .. n), T # {}
  PROVE  \E k \in T : \A j \in T : j <= k
<1> DEFINE R == OpToRel(<, Nat)
           D == {n - k : k \in T}
<1>1. IsWellFoundedOn(R, Nat)
  BY NatLessThanWellFounded
<1>2. D \subseteq Nat /\ D # {}
  <2>1. PICK e \in T : TRUE
    OBVIOUS
  <2>2. n - e \in D
    BY <2>1
  <2>3. ASSUME NEW k \in T PROVE n - k \in Nat
    <3>1. k \in 1 .. n
      OBVIOUS
    <3> QED
      BY <3>1
  <2> QED
    BY <2>2, <2>3
<1>3. PICK x \in D : \A y \in D : ~(<<y, x>> \in R)
  <2> HIDE DEF R, D
  <2> QED
    BY <1>1, <1>2, WFMin
<1>4. PICK k \in T : x = n - k
  BY <1>3
<1>5. ASSUME NEW j \in T PROVE j <= k
  <2>1. n - j \in D
    OBVIOUS
  <2>2. <<n - j, x>> \notin R
    BY <1>3, <2>1
  <2>3. ~(n - j < x)
    BY <2>2, <1>2, <1>3, <2>1 DEF OpToRel
  <2> QED
    BY <2>3, <1>4
<1> QED
  BY <1>5

\* The beats from i + 1 to j that write lane l of word a.
On(s, i, j, a, l) == {k \in i + 1 .. j : s[k].addr = a /\ l \in s[k].strb}

\* What beats i + 1 to j make of a byte, without SubSeq.
LEMMA PutAllByte ==
  ASSUME NEW m \in Memory, NEW s \in Seq(PlacedBeat), NEW i \in 0 .. Len(s), NEW j \in i .. Len(s),
         NEW a \in Address, NEW l \in Lane
  PROVE  LET q == PutAll(m, SubSeq(s, i + 1, j))[a][l]
         IN /\ On(s, i, j, a, l) = {} => q = m[a][l]
            /\ \A k \in On(s, i, j, a, l) :
                 (\A h \in On(s, i, j, a, l) : h <= k) => q = s[k].data[l]
<1> DEFINE sub == SubSeq(s, i + 1, j)
           those == {k \in DOMAIN sub : sub[k].addr = a /\ l \in sub[k].strb}
<1>1. /\ DOMAIN sub = 1 .. j - i
      /\ \A k \in 1 .. j - i : sub[k] = s[k + i]
  OBVIOUS
<1>2. PutAll(m, sub)[a][l] = IF those = {} THEN m[a][l]
                             ELSE sub[CHOOSE k \in those : \A h \in those : h <= k].data[l]
  <2>1. DOMAIN m = Address
    BY DEF Memory
  <2> QED
    BY <2>1 DEF PutAll
<1>3. \A k : k \in those <=> (k + i \in On(s, i, j, a, l) /\ k \in 1 .. j - i)
  BY <1>1 DEF On
<1> HIDE DEF sub
<1>4. ASSUME On(s, i, j, a, l) = {} PROVE those = {}
  BY <1>3, <1>4
<1>5. ASSUME NEW k \in On(s, i, j, a, l), \A h \in On(s, i, j, a, l) : h <= k
      PROVE  PutAll(m, sub)[a][l] = s[k].data[l]
  <2>1. k \in i + 1 .. j
    BY DEF On
  <2>2. k - i \in those
    BY <1>3, <2>1
  <2>3. \A h \in those : h \in Int /\ h + i \in On(s, i, j, a, l)
    BY <1>3
  <2> HIDE DEF those
  <2>4. \A h \in those : h <= k - i
    BY <2>1, <2>3, <1>5
  <2>5. \A g \in those : (\A h \in those : h <= g) => g = k - i
    BY <2>1, <2>2, <2>3, <2>4
  <2>6. (CHOOSE g \in those : \A h \in those : h <= g) = k - i
    BY <2>2, <2>4, <2>5
  <2>7. sub[k - i] = s[k]
    BY <1>1, <2>1
  <2> QED
    BY <1>2, <2>2, <2>6, <2>7
<1> QED
  BY <1>2, <1>4, <1>5 DEF sub

\* Beats leave a memory a memory.
LEMMA PutAllType ==
  ASSUME NEW m \in Memory, NEW s \in Seq(PlacedBeat), NEW i \in 0 .. Len(s), NEW j \in i .. Len(s)
  PROVE  PutAll(m, SubSeq(s, i + 1, j)) \in Memory
<1> DEFINE q == PutAll(m, SubSeq(s, i + 1, j))
<1>1. ASSUME NEW a \in Address, NEW l \in Lane PROVE q[a][l] \in Byte
  <2>1. CASE On(s, i, j, a, l) = {}
    <3>1. q[a][l] = m[a][l]
      BY <2>1, PutAllByte
    <3> QED
      BY <3>1 DEF Memory, Word
  <2>2. CASE On(s, i, j, a, l) # {}
    <3>1. On(s, i, j, a, l) \in SUBSET (1 .. Len(s))
      BY DEF On
    <3>2. PICK k \in On(s, i, j, a, l) : \A h \in On(s, i, j, a, l) : h <= k
      BY <2>2, <3>1, LastExists, LenProperties
    <3>3. q[a][l] = s[k].data[l]
      BY <3>2, PutAllByte
    <3>4. s[k].data \in Word
      <4>1. k \in 1 .. Len(s)
        BY <3>1
      <4>2. s[k] \in PlacedBeat
        BY <4>1, ElementOfSeq
      <4> QED
        BY <4>2 DEF PlacedBeat
    <3> QED
      BY <3>3, <3>4 DEF Word
  <2> QED
    BY <2>1, <2>2
<1>2. q = [a \in Address |-> [l \in Lane |-> q[a][l]]]
  <2> DEFINE sub == SubSeq(s, i + 1, j)
             those(a, l) == {k \in DOMAIN sub : sub[k].addr = a /\ l \in sub[k].strb}
             v(a, l) == IF those(a, l) = {} THEN m[a][l]
                        ELSE sub[CHOOSE k \in those(a, l) : \A h \in those(a, l) : h <= k].data[l]
  <2>1. DOMAIN m = Address
    BY DEF Memory
  <2>2. q = [a \in DOMAIN m |-> [l \in Lane |-> v(a, l)]]
    BY Zenon DEF PutAll
  <2> HIDE DEF q, v
  <2> QED
    BY <2>1, <2>2
<1> HIDE DEF q
<1>3. \A a \in Address : [l \in Lane |-> q[a][l]] \in Word
  BY <1>1 DEF Word
<1> QED
  BY <1>2, <1>3 DEF Memory, q

\* Two memories are the same when their bytes are.
LEMMA MemoryEqual ==
  ASSUME NEW m \in Memory, NEW n \in Memory, \A a \in Address, l \in Lane : m[a][l] = n[a][l]
  PROVE  m = n
<1>1. \A a \in Address : m[a] = n[a]
  BY DEF Memory, Word
<1> QED
  BY <1>1 DEF Memory

\* No beats change nothing.
LEMMA PutNone ==
  ASSUME NEW m \in Memory, NEW s \in Seq(PlacedBeat), NEW i \in 0 .. Len(s)
  PROVE  PutAll(m, SubSeq(s, i + 1, i)) = m
<1> DEFINE q == PutAll(m, SubSeq(s, i + 1, i))
<1>1. q \in Memory
  BY PutAllType
<1>2. ASSUME NEW a \in Address, NEW l \in Lane PROVE q[a][l] = m[a][l]
  <2>1. On(s, i, i, a, l) = {}
    BY DEF On
  <2> QED
    BY <2>1, PutAllByte
<1> HIDE DEF q
<1> QED
  BY <1>1, <1>2, MemoryEqual DEF q

\* Some beats and the next ones are all of them.
LEMMA PutInTwo ==
  ASSUME NEW m \in Memory, NEW s \in Seq(PlacedBeat), NEW i \in 0 .. Len(s), NEW j \in i .. Len(s)
  PROVE  PutAll(PutAll(m, SubSeq(s, 1, i)), SubSeq(s, i + 1, j)) = PutAll(m, SubSeq(s, 1, j))
<1> DEFINE p == PutAll(m, SubSeq(s, 0 + 1, i))
           q == PutAll(p, SubSeq(s, i + 1, j))
           t == PutAll(m, SubSeq(s, 0 + 1, j))
<1>1. 0 \in 0 .. Len(s) /\ i \in 0 .. Len(s) /\ j \in 0 .. Len(s)
  OBVIOUS
<1>2. p \in Memory /\ t \in Memory
  BY <1>1, PutAllType
<1>3. q \in Memory
  <2> HIDE DEF p
  <2> QED
    BY <1>2, PutAllType
<1>4. ASSUME NEW a \in Address, NEW l \in Lane PROVE q[a][l] = t[a][l]
  <2> DEFINE lo == On(s, 0, i, a, l)
             hi == On(s, i, j, a, l)
             al == On(s, 0, j, a, l)
  <2>1. al = lo \cup hi /\ (\A x \in lo, y \in hi : x < y) /\ lo \in SUBSET (1 .. Len(s))
        /\ hi \in SUBSET (1 .. Len(s))
    BY DEF On
  <2>2. /\ lo = {} => p[a][l] = m[a][l]
        /\ \A k \in lo : (\A h \in lo : h <= k) => p[a][l] = s[k].data[l]
    <3> HIDE DEF lo
    <3> QED
      BY <1>1, PutAllByte DEF lo
  <2>3. /\ al = {} => t[a][l] = m[a][l]
        /\ \A k \in al : (\A h \in al : h <= k) => t[a][l] = s[k].data[l]
    BY <1>1, PutAllByte
  <2>4. /\ hi = {} => q[a][l] = p[a][l]
        /\ \A k \in hi : (\A h \in hi : h <= k) => q[a][l] = s[k].data[l]
    <3> HIDE DEF p
    <3> QED
      BY <1>1, <1>2, PutAllByte
  <2> HIDE DEF lo, hi, al, p, q, t
  <2>5. CASE hi # {}
    <3>1. PICK k \in hi : \A h \in hi : h <= k
      BY <2>1, <2>5, LastExists, LenProperties
    <3>2. k \in al /\ \A h \in al : h <= k
      BY <2>1, <3>1
    <3> QED
      BY <3>1, <3>2, <2>3, <2>4
  <2>6. CASE hi = {} /\ lo # {}
    <3>1. PICK k \in lo : \A h \in lo : h <= k
      BY <2>1, <2>6, LastExists, LenProperties
    <3> QED
      BY <3>1, <2>1, <2>2, <2>3, <2>4, <2>6
  <2>7. CASE hi = {} /\ lo = {}
    BY <2>7, <2>1, <2>2, <2>3, <2>4
  <2> QED
    BY <2>5, <2>6, <2>7
<1> HIDE DEF p, q, t
<1>5. q = t
  BY <1>2, <1>3, <1>4, MemoryEqual
<1> QED
  BY <1>5 DEF p, q, t

\* A beat that is written after those before it, or once more after itself.
LEMMA PutNext ==
  ASSUME NEW m \in Memory, NEW s \in Seq(PlacedBeat), NEW k \in 0 .. Len(s) - 1,
         NEW n \in {k, k + 1}, NEW beat, beat.strb = s[k + 1].strb, beat.data = s[k + 1].data
  PROVE  Put(PutAll(m, SubSeq(s, 1, n)), s[k + 1].addr, beat) = PutAll(m, SubSeq(s, 1, k + 1))
<1> DEFINE p == PutAll(m, SubSeq(s, 0 + 1, n))
           t == PutAll(m, SubSeq(s, 0 + 1, k + 1))
           q == Put(p, s[k + 1].addr, beat)
           at == s[k + 1].addr
<1>1. 0 \in 0 .. Len(s) /\ n \in 0 .. Len(s) /\ k + 1 \in 0 .. Len(s) /\ k + 1 \in 1 .. Len(s)
  OBVIOUS
<1>2. p \in Memory /\ t \in Memory
  BY <1>1, PutAllType
<1>3. s[k + 1] \in PlacedBeat
  BY <1>1
<1>4. at \in Nat /\ beat.data \in Word /\ beat.strb \subseteq Lane
  BY <1>3 DEF PlacedBeat
<1>5. Good(at) <=> at \in Address
  BY <1>4, DramAssumption DEF Good, Address
<1> HIDE DEF p, at
<1>6. ASSUME NEW a \in Address, NEW l \in Lane
      PROVE  Put(p, at, beat)[a][l] = IF a = at /\ l \in beat.strb THEN beat.data[l] ELSE p[a][l]
  <2>1. p[a] \in Word /\ a \in DOMAIN p /\ p[a] = [x \in Lane |-> p[a][x]]
    BY <1>2 DEF Memory, Word
  <2>2. CASE a = at
    BY <2>1, <2>2, <1>5 DEF Put, Masked
  <2>3. CASE a # at
    BY <2>1, <2>3 DEF Put
  <2> QED
    BY <2>2, <2>3
<1>7. q \in Memory
  <2>1. CASE at \in Address
    <3>1. p[at] \in Word
      BY <2>1, <1>2 DEF Memory
    <3>2. Masked(p[at], beat) \in Word
      BY <3>1, <1>4 DEF Masked, Word
    <3> QED
      BY <2>1, <3>2, <1>2, <1>5 DEF Put, Memory, at
  <2>2. CASE at \notin Address
    BY <2>2, <1>2, <1>5 DEF Put, at
  <2> QED
    BY <2>1, <2>2
<1>8. ASSUME NEW a \in Address, NEW l \in Lane PROVE q[a][l] = t[a][l]
  <2> DEFINE lo == On(s, 0, n, a, l)
             al == On(s, 0, k + 1, a, l)
  <2>1. /\ lo = {} => p[a][l] = m[a][l]
        /\ \A h \in lo : (\A g \in lo : g <= h) => p[a][l] = s[h].data[l]
    BY <1>1, PutAllByte DEF p
  <2>2. /\ al = {} => t[a][l] = m[a][l]
        /\ \A h \in al : (\A g \in al : g <= h) => t[a][l] = s[h].data[l]
    BY <1>1, PutAllByte
  <2>3. q[a][l] = IF a = at /\ l \in beat.strb THEN beat.data[l] ELSE p[a][l]
    BY <1>6 DEF at
  <2>4. CASE a = at /\ l \in beat.strb
    <3>1. k + 1 \in al /\ \A g \in al : g <= k + 1
      BY <2>4 DEF On, at
    <3> HIDE DEF al, t, q
    <3> QED
      BY <3>1, <2>2, <2>3, <2>4
  <2>5. CASE ~(a = at /\ l \in beat.strb)
    <3>1. lo = al /\ lo \in SUBSET (1 .. Len(s))
      BY <2>5, <1>1 DEF On, at
    <3> HIDE DEF lo, al, t, q
    <3>2. CASE lo = {}
      BY <3>1, <3>2, <2>1, <2>2, <2>3, <2>5
    <3>3. CASE lo # {}
      <4>1. PICK h \in lo : \A g \in lo : g <= h
        BY <3>1, <3>3, LastExists, LenProperties
      <4> QED
        BY <3>1, <4>1, <2>1, <2>2, <2>3, <2>5
    <3> QED
      BY <3>2, <3>3
  <2> QED
    BY <2>4, <2>5
<1> HIDE DEF q, t
<1>9. q = t
  BY <1>2, <1>7, <1>8, MemoryEqual
<1> QED
  BY <1>9 DEF q, t, p, at

\* No bursts come to no beats.
LEMMA NothingLaid == ASSUME NEW q, NEW f PROVE Laid(q, 0, f, 0)
<1> DEFINE st == [i \in 1 .. 1 |-> 0]
<1>1. st \in [1 .. 0 + 1 -> 0 .. 0] /\ st[1] = 0 /\ st[0 + 1] = 0
  OBVIOUS
<1>2. \A i \in 1 .. 0 : FALSE
  OBVIOUS
<1> HIDE DEF st
<1> QED
  BY <1>1, <1>2 DEF Laid

\* The beats of one more burst.
LEMMA LaidMore ==
  ASSUME NEW n \in Nat, NEW m \in Nat, NEW q, NEW f, Laid(q, n, f, m),
         \A i \in 1 .. n : q[i].len \in Nat,
         NEW q2, NEW f2, NEW len \in Nat,
         \A i \in 1 .. n : q2[i] = q[i],
         \A k \in 1 .. m : f2[k] = f[k],
         q2[n + 1].len = len,
         \A k \in 0 .. len : IsBeat(f2[m + k + 1], q2[n + 1], k)
  PROVE  Laid(q2, n + 1, f2, m + len + 1)
<1>1. PICK st \in [1 .. n + 1 -> 0 .. m] :
        /\ st[1] = 0 /\ st[n + 1] = m
        /\ \A i \in 1 .. n :
             /\ st[i + 1] = st[i] + q[i].len + 1
             /\ \A k \in 0 .. q[i].len : IsBeat(f[st[i] + k + 1], q[i], k)
  BY DEF Laid
<1> DEFINE m2 == m + len + 1
           s2 == [i \in 1 .. n + 2 |-> IF i = n + 2 THEN m2 ELSE st[i]]
<1>2. \A i \in 1 .. n + 1 : st[i] \in 0 .. m /\ st[i] \in Nat
  OBVIOUS
<1>3. s2 \in [1 .. n + 2 -> 0 .. m2] /\ s2[n + 2] = m2
  BY <1>2
<1>4. \A i \in 1 .. n + 1 : s2[i] = st[i]
  OBVIOUS
<1>5. s2[1] = 0 /\ s2[n + 1] = m
  BY <1>1, <1>4
<1> HIDE DEF s2
<1>6. ASSUME NEW i \in 1 .. n
      PROVE  /\ s2[i + 1] = s2[i] + q2[i].len + 1
             /\ \A k \in 0 .. q2[i].len : IsBeat(f2[s2[i] + k + 1], q2[i], k)
  <2>1. s2[i] = st[i] /\ s2[i + 1] = st[i + 1] /\ q2[i] = q[i]
    BY <1>4
  <2>2. st[i] \in Nat /\ st[i + 1] \in 0 .. m /\ st[i + 1] \in Nat /\ q[i].len \in Nat
    BY <1>2
  <2>3. ASSUME NEW k \in 0 .. q[i].len PROVE f2[st[i] + k + 1] = f[st[i] + k + 1]
    <3>1. st[i + 1] = st[i] + q[i].len + 1
      BY <1>1
    <3>2. st[i] + k + 1 \in 1 .. m
      <4>1. PICK s0 \in Nat, s1 \in Nat, l0 \in Nat :
              /\ s0 = st[i] /\ s1 = st[i + 1] /\ l0 = q[i].len /\ s1 <= m /\ s1 = s0 + l0 + 1
        BY <2>2, <3>1
      <4>2. s0 \in Nat /\ l0 \in Nat /\ k \in 0 .. l0 /\ s0 + l0 + 1 <= m /\ m \in Nat
        BY <4>1
      <4>3. s0 + k + 1 \in 1 .. m
        BY ONLY <4>2
      <4> QED
        BY <4>1, <4>3
    <3> QED
      BY <3>2
  <2> QED
    BY <2>1, <2>3, <1>1
<1>7. /\ s2[(n + 1) + 1] = s2[n + 1] + q2[n + 1].len + 1
      /\ \A k \in 0 .. q2[n + 1].len : IsBeat(f2[s2[n + 1] + k + 1], q2[n + 1], k)
  <2>1. s2[(n + 1) + 1] = m2 /\ s2[n + 1] = m
    BY <1>3, <1>5
  <2> QED
    BY <2>1
<1>8. \A i \in 1 .. n + 1 :
        /\ s2[i + 1] = s2[i] + q2[i].len + 1
        /\ \A k \in 0 .. q2[i].len : IsBeat(f2[s2[i] + k + 1], q2[i], k)
  <2>1. ASSUME NEW i \in 1 .. n + 1 PROVE i \in 1 .. n \/ i = n + 1
    OBVIOUS
  <2> QED
    BY <2>1, <1>6, <1>7
<1>9. s2 \in [1 .. (n + 1) + 1 -> 0 .. m2] /\ s2[(n + 1) + 1] = m2
  BY <1>3
<1> QED
  BY <1>5, <1>8, <1>9 DEF Laid

\* The next beat is that of the first burst.
LEMMA LaidFirst ==
  ASSUME NEW n \in Nat \ {0}, NEW m \in Nat, NEW q, NEW f, Laid(q, n, f, m),
         q[1].len \in Nat, q[1].addr \in Nat
  PROVE  /\ m >= 1
         /\ f[1].id = q[1].id /\ f[1].addr = q[1].addr /\ f[1].last = (q[1].len = 0)
<1>1. PICK st \in [1 .. n + 1 -> 0 .. m] :
        /\ st[1] = 0 /\ st[n + 1] = m
        /\ \A i \in 1 .. n :
             /\ st[i + 1] = st[i] + q[i].len + 1
             /\ \A k \in 0 .. q[i].len : IsBeat(f[st[i] + k + 1], q[i], k)
  BY DEF Laid
<1>2. 1 \in 1 .. n /\ 2 \in 1 .. n + 1 /\ 1 + 1 = 2 /\ 0 \in 0 .. q[1].len
  OBVIOUS
<1>3. st[2] = 0 + q[1].len + 1 /\ st[2] \in 0 .. m
  BY <1>1, <1>2
<1>4. IsBeat(f[0 + 0 + 1], q[1], 0)
  BY <1>1, <1>2
<1>5. 0 + 0 + 1 = 1 /\ q[1].addr + 0 = q[1].addr
  OBVIOUS
<1> QED
  BY <1>3, <1>4, <1>5 DEF IsBeat

\* The starts never go down.
LEMMA StartsRise ==
  ASSUME NEW n \in Nat, NEW st \in [1 .. n + 1 -> Nat],
         \A i \in 1 .. n : st[i + 1] > st[i],
         NEW i \in 2 .. n + 1
  PROVE  st[i] >= 1
<1> DEFINE Low == {n + 2 - j : j \in {h \in 2 .. n + 1 : st[h] = 0}}
<1>0. \A h \in 1 .. n + 1 : st[h] \in Nat
  OBVIOUS
<1>1. ASSUME Low # {} PROVE FALSE
  <2>1. Low \in SUBSET (1 .. n)
    OBVIOUS
  <2>2. PICK g \in Low : \A h \in Low : h <= g
    <3> HIDE DEF Low
    <3> QED
      BY <1>1, <2>1, LastExists
  <2>3. PICK j \in 2 .. n + 1 : st[j] = 0 /\ g = n + 2 - j
    OBVIOUS
  <2>4. j - 1 \in 1 .. n /\ (j - 1) + 1 = j /\ j - 1 \in 1 .. n + 1
    OBVIOUS
  <2>5. st[j] > st[j - 1]
    BY <2>4
  <2>6. st[j - 1] \in Nat
    BY <2>4, <1>0
  <2> QED
    BY <2>3, <2>5, <2>6
<1>2. CASE st[i] = 0
  <2>1. n + 2 - i \in Low
    BY <1>2
  <2> QED
    BY <2>1, <1>1
<1> QED
  BY <1>0, <1>2

\* The first burst was of one beat, and goes.
LEMMA LaidPop ==
  ASSUME NEW n \in Nat \ {0}, NEW m \in Nat \ {0}, NEW q, NEW f, Laid(q, n, f, m),
         \A i \in 1 .. n : q[i].len \in Nat,
         NEW q2, NEW f2,
         q[1].len = 0,
         \A i \in 1 .. n - 1 : q2[i] = q[i + 1],
         \A k \in 1 .. m - 1 : f2[k] = f[k + 1]
  PROVE  Laid(q2, n - 1, f2, m - 1)
<1>1. PICK st \in [1 .. n + 1 -> 0 .. m] :
        /\ st[1] = 0 /\ st[n + 1] = m
        /\ \A i \in 1 .. n :
             /\ st[i + 1] = st[i] + q[i].len + 1
             /\ \A k \in 0 .. q[i].len : IsBeat(f[st[i] + k + 1], q[i], k)
  BY DEF Laid
<1>2. \A i \in 1 .. n + 1 : st[i] \in 0 .. m /\ st[i] \in Nat
  OBVIOUS
<1>3. st \in [1 .. n + 1 -> Nat]
  OBVIOUS
<1>4. ASSUME NEW i \in 1 .. n PROVE st[i + 1] > st[i]
  <2>1. st[i] \in Nat /\ st[i + 1] = st[i] + q[i].len + 1 /\ q[i].len \in Nat
    BY <1>1, <1>2
  <2> QED
    BY <2>1
<1>5. \A i \in 2 .. n + 1 : st[i] >= 1
  BY <1>3, <1>4, StartsRise
<1> DEFINE s2 == [i \in 1 .. n |-> st[i + 1] - 1]
<1>6. ASSUME NEW i \in 1 .. n PROVE st[i + 1] - 1 \in 0 .. m - 1
  <2>1. st[i + 1] \in 0 .. m /\ st[i + 1] >= 1
    BY <1>2, <1>5
  <2> QED
    BY <2>1
<1>7. s2 \in [1 .. n -> 0 .. m - 1]
  BY <1>6
<1>8. \A i \in 1 .. n : s2[i] = st[i + 1] - 1
  OBVIOUS
<1> HIDE DEF s2
<1>9. s2[1] = 0 /\ s2[n] = m - 1
  <2>1. st[1 + 1] = 0 + 0 + 1
    BY <1>1
  <2> QED
    BY <2>1, <1>1, <1>8
<1>10. ASSUME NEW i \in 1 .. n - 1
       PROVE  /\ s2[i + 1] = s2[i] + q2[i].len + 1
              /\ \A k \in 0 .. q2[i].len : IsBeat(f2[s2[i] + k + 1], q2[i], k)
  <2>1. i \in 1 .. n /\ i + 1 \in 1 .. n /\ i + 1 \in 1 .. n + 1 /\ (i + 1) + 1 \in 1 .. n + 1
        /\ i + 1 \in 2 .. n + 1
    OBVIOUS
  <2>2. q2[i] = q[i + 1] /\ s2[i] = st[i + 1] - 1 /\ s2[i + 1] = st[(i + 1) + 1] - 1
    BY <1>8, <2>1
  <2>3. PICK s0 \in Nat, s1 \in Nat, len \in Nat :
          /\ s0 = st[i + 1] /\ s1 = st[(i + 1) + 1] /\ len = q[i + 1].len
          /\ s0 >= 1 /\ s1 = s0 + len + 1 /\ s1 <= m /\ s0 + len + 1 <= m
    <3>1. PICK h \in 1 .. n : h = i + 1
      BY <2>1
    <3>2. h \in 2 .. n + 1 /\ h \in 1 .. n + 1 /\ h + 1 \in 1 .. n + 1
      BY <3>1, <2>1
    <3>3. st[h] \in Nat /\ st[h + 1] \in Nat /\ st[h + 1] <= m /\ st[h] >= 1
      BY <3>2, <1>2, <1>5
    <3>4. q[h].len \in Nat /\ st[h + 1] = st[h] + q[h].len + 1
      BY <1>1
    <3> QED
      BY <3>1, <3>3, <3>4
  <2>4. ASSUME NEW k \in 0 .. q[i + 1].len PROVE f2[s2[i] + k + 1] = f[st[i + 1] + k + 1]
    <3>1. k \in 0 .. len /\ s0 \in Nat /\ len \in Nat /\ m \in Nat /\ s0 >= 1 /\ s0 + len + 1 <= m
      BY <2>3
    <3>2. s0 + k \in 1 .. m - 1 /\ (s0 - 1) + k + 1 = s0 + k
      BY ONLY <3>1
    <3>3. f2[s0 + k] = f[s0 + k + 1]
      BY <3>2
    <3> QED
      BY <3>2, <3>3, <2>2, <2>3
  <2>5. s2[i + 1] = s2[i] + q2[i].len + 1
    <3>1. s0 \in Nat /\ s1 \in Nat /\ len \in Nat /\ s1 = s0 + len + 1
      BY <2>3
    <3>2. s1 - 1 = (s0 - 1) + len + 1
      BY ONLY <3>1
    <3> QED
      BY <3>2, <2>2, <2>3
  <2> QED
    BY <2>1, <2>2, <2>4, <2>5, <1>1
<1>11. (n - 1) + 1 = n
  OBVIOUS
<1> QED
  BY <1>7, <1>9, <1>10, <1>11 DEF Laid

\* q2 is q without a beat of its first burst, which has more.
OneBeatOn(q, q2, n) ==
  /\ q[1].len # 0
  /\ q2[1].id = q[1].id /\ q2[1].addr = q[1].addr + 1 /\ q2[1].len = q[1].len - 1
  /\ \A i \in 2 .. n : q2[i] = q[i]

\* The first burst had more beats, and goes on from the next address.
LEMMA LaidShorter ==
  ASSUME NEW n \in Nat \ {0}, NEW m \in Nat \ {0}, NEW q, NEW f, Laid(q, n, f, m),
         \A i \in 1 .. n : q[i].len \in Nat, q[1].addr \in Nat,
         NEW q2, NEW f2,
         OneBeatOn(q, q2, n),
         \A k \in 1 .. m - 1 : f2[k] = f[k + 1]
  PROVE  Laid(q2, n, f2, m - 1)
<1>0. /\ q[1].len # 0
      /\ q2[1].id = q[1].id /\ q2[1].addr = q[1].addr + 1 /\ q2[1].len = q[1].len - 1
      /\ \A i \in 2 .. n : q2[i] = q[i]
  BY DEF OneBeatOn
<1>1. PICK st \in [1 .. n + 1 -> 0 .. m] :
        /\ st[1] = 0 /\ st[n + 1] = m
        /\ \A i \in 1 .. n :
             /\ st[i + 1] = st[i] + q[i].len + 1
             /\ \A k \in 0 .. q[i].len : IsBeat(f[st[i] + k + 1], q[i], k)
  BY DEF Laid
<1>2. \A i \in 1 .. n + 1 : st[i] \in 0 .. m /\ st[i] \in Nat
  OBVIOUS
<1>3. st \in [1 .. n + 1 -> Nat]
  OBVIOUS
<1>4. ASSUME NEW i \in 1 .. n PROVE st[i + 1] > st[i]
  <2>1. st[i] \in Nat /\ st[i + 1] = st[i] + q[i].len + 1 /\ q[i].len \in Nat
    BY <1>1, <1>2
  <2> QED
    BY <2>1
<1>5. \A i \in 2 .. n + 1 : st[i] >= 1
  BY <1>3, <1>4, StartsRise
<1> DEFINE s2 == [i \in 1 .. n + 1 |-> IF i = 1 THEN 0 ELSE st[i] - 1]
<1>6. ASSUME NEW i \in 2 .. n + 1 PROVE st[i] - 1 \in 0 .. m - 1
  <2>1. st[i] \in 0 .. m /\ st[i] >= 1
    BY <1>2, <1>5
  <2> QED
    BY <2>1
<1>7. s2 \in [1 .. n + 1 -> 0 .. m - 1]
  BY <1>6
<1>8. s2[1] = 0 /\ \A i \in 2 .. n + 1 : s2[i] = st[i] - 1
  OBVIOUS
<1> HIDE DEF s2
<1>9. s2[n + 1] = m - 1
  BY <1>1, <1>8
<1>10. ASSUME NEW i \in 2 .. n
       PROVE  /\ s2[i + 1] = s2[i] + q2[i].len + 1
              /\ \A k \in 0 .. q2[i].len : IsBeat(f2[s2[i] + k + 1], q2[i], k)
  <2>1. i \in 1 .. n /\ i \in 1 .. n + 1 /\ i \in 2 .. n + 1 /\ i + 1 \in 1 .. n + 1
        /\ i + 1 \in 2 .. n + 1
    OBVIOUS
  <2>2. q2[i] = q[i] /\ s2[i] = st[i] - 1 /\ s2[i + 1] = st[i + 1] - 1
    BY <1>0, <1>8, <2>1
  <2>3. PICK s0 \in Nat, s1 \in Nat, len \in Nat :
          /\ s0 = st[i] /\ s1 = st[i + 1] /\ len = q[i].len
          /\ s0 >= 1 /\ s1 = s0 + len + 1 /\ s1 <= m /\ s0 + len + 1 <= m
    <3>1. st[i] \in Nat /\ st[i + 1] \in Nat /\ st[i + 1] <= m /\ st[i] >= 1
      BY <2>1, <1>2, <1>5
    <3>2. q[i].len \in Nat /\ st[i + 1] = st[i] + q[i].len + 1
      BY <2>1, <1>1
    <3> QED
      BY <3>1, <3>2
  <2>4. ASSUME NEW k \in 0 .. q[i].len PROVE f2[s2[i] + k + 1] = f[st[i] + k + 1]
    <3>1. k \in 0 .. len /\ s0 \in Nat /\ len \in Nat /\ m \in Nat /\ s0 >= 1 /\ s0 + len + 1 <= m
      BY <2>3
    <3>2. s0 + k \in 1 .. m - 1 /\ (s0 - 1) + k + 1 = s0 + k
      BY ONLY <3>1
    <3>3. f2[s0 + k] = f[s0 + k + 1]
      BY <3>2
    <3> QED
      BY <3>2, <3>3, <2>2, <2>3
  <2>5. s2[i + 1] = s2[i] + q2[i].len + 1
    <3>1. s0 \in Nat /\ s1 \in Nat /\ len \in Nat /\ s1 = s0 + len + 1
      BY <2>3
    <3>2. s1 - 1 = (s0 - 1) + len + 1
      BY ONLY <3>1
    <3> QED
      BY <3>2, <2>2, <2>3
  <2> QED
    BY <2>1, <2>2, <2>4, <2>5, <1>1
<1>11. /\ s2[1 + 1] = s2[1] + q2[1].len + 1
       /\ \A k \in 0 .. q2[1].len : IsBeat(f2[s2[1] + k + 1], q2[1], k)
  <2>1. 1 \in 1 .. n /\ 1 + 1 \in 2 .. n + 1 /\ q[1].len \in Nat
    OBVIOUS
  <2>2. st[1 + 1] = 0 + q[1].len + 1 /\ st[1 + 1] \in 0 .. m /\ s2[1 + 1] = st[1 + 1] - 1
    BY <1>1, <1>2, <1>8, <2>1
  <2>3. ASSUME NEW k \in 0 .. q2[1].len PROVE IsBeat(f2[s2[1] + k + 1], q2[1], k)
    <3>1. k + 1 \in 0 .. q[1].len /\ k + 1 \in 1 .. m - 1 /\ 0 + k + 1 = k + 1
          /\ 0 + (k + 1) + 1 = (k + 1) + 1
      BY <1>0, <2>1, <2>2, SMTT(60)
    <3>2. IsBeat(f[(k + 1) + 1], q[1], k + 1)
      BY <1>0, <3>1, <2>1, <1>1
    <3>3. f2[s2[1] + k + 1] = f[(k + 1) + 1]
      BY <1>0, <3>1, <1>8
    <3>4. q[1].addr + (k + 1) = (q[1].addr + 1) + k /\ ((k + 1 = q[1].len) <=> (k = q[1].len - 1))
      BY <1>0, <2>1
    <3> QED
      BY <1>0, <3>2, <3>3, <3>4 DEF IsBeat
  <2>4. s2[1 + 1] = s2[1] + q2[1].len + 1
    BY <1>0, <2>1, <2>2, <1>8, SMTT(60)
  <2> QED
    BY <2>3, <2>4
<1>12. \A i \in 1 .. n : i = 1 \/ i \in 2 .. n
  OBVIOUS
<1> QED
  BY <1>7, <1>8, <1>9, <1>10, <1>11, <1>12 DEF Laid

\* A queue of requests, taken apart.
LEMMA RequestsAre ==
  ASSUME NEW q \in Seq(Request)
  PROVE  /\ Len(q) \in Nat
         /\ \A i \in 1 .. Len(q) : q[i] \in Request /\ q[i].len \in Nat /\ q[i].addr \in Nat
<1>1. ASSUME NEW i \in 1 .. Len(q) PROVE q[i] \in Request /\ q[i].len \in Nat /\ q[i].addr \in Nat
  <2>1. q[i] \in Request
    BY ElementOfSeq
  <2> QED
    BY <2>1 DEF Request
<1> QED
  BY <1>1, LenProperties

\* The same for a queue that is empty.
LEMMA NoBursts == LaidOut(<<>>, <<>>)
BY NothingLaid, EmptySeq DEF LaidOut

\* What stands where in two sequences, one after the other.
LEMMA ConcatAt ==
  ASSUME NEW S, NEW s \in Seq(S), NEW t \in Seq(S)
  PROVE  /\ s \o t \in Seq(S)
         /\ Len(s) \in Nat /\ Len(t) \in Nat
         /\ Len(s \o t) = Len(s) + Len(t)
         /\ \A k \in 1 .. Len(s) : (s \o t)[k] = s[k]
         /\ \A k \in 1 .. Len(t) : (s \o t)[Len(s) + k] = t[k]
<1> DEFINE c == s \o t
<1>1. /\ c \in Seq(S) /\ Len(c) = Len(s) + Len(t)
      /\ \A i \in 1 .. Len(s) + Len(t) : c[i] = IF i <= Len(s) THEN s[i] ELSE t[i - Len(s)]
  BY ConcatProperties, Zenon
<1>2. Len(s) \in Nat /\ Len(t) \in Nat
  BY LenProperties
<1> HIDE DEF c
<1>3. PICK m \in Nat, n \in Nat : m = Len(s) /\ n = Len(t)
  BY <1>2
<1>4. \A k \in 1 .. m : c[k] = s[k]
  BY <1>1, <1>3
<1>5. \A k \in 1 .. n : c[m + k] = t[k]
  <2>1. ASSUME NEW k \in 1 .. n PROVE c[m + k] = t[k]
    <3>1. m + k \in 1 .. m + n /\ ~(m + k <= m) /\ (m + k) - m = k
      OBVIOUS
    <3> QED
      BY <3>1, <1>1, <1>3
  <2> QED
    BY <2>1
<1> QED
  BY <1>1, <1>2, <1>3, <1>4, <1>5 DEF c

\* Another burst is asked for.
LEMMA AskMore ==
  ASSUME NEW S, NEW q \in Seq(Request), NEW beats \in Seq(S), LaidOut(q, beats),
         NEW x \in Request, NEW more \in Seq(S), Len(more) = x.len + 1,
         \A k \in 0 .. x.len : IsBeat(more[k + 1], x, k)
  PROVE  LaidOut(Append(q, x), beats \o more)
<1>1. PICK n \in Nat, m \in Nat, len \in Nat : n = Len(q) /\ m = Len(beats) /\ len = x.len
  BY LenProperties DEF Request
<1> DEFINE q2 == Append(q, x)
           f2 == beats \o more
<1>2. /\ \A i \in 1 .. n : q[i].len \in Nat
      /\ Laid(q, n, beats, m)
  BY <1>1, RequestsAre DEF LaidOut
<1>3. Len(q2) = n + 1 /\ q2[n + 1] = x /\ \A i \in 1 .. n : q2[i] = q[i]
  BY <1>1, AppendProperties
<1>4. /\ Len(f2) = Len(beats) + Len(more)
      /\ \A k \in 1 .. Len(beats) : f2[k] = beats[k]
      /\ \A k \in 1 .. Len(more) : f2[Len(beats) + k] = more[k]
  <2>1. beats \in Seq(S) /\ more \in Seq(S)
    OBVIOUS
  <2> QED
    BY ONLY <2>1, ConcatAt
<1>5. Len(more) = len + 1
  BY <1>1
<1> HIDE DEF q2, f2
<1>6. ASSUME NEW k \in 0 .. len PROVE IsBeat(f2[m + k + 1], q2[n + 1], k)
  <2>1. k + 1 \in 1 .. len + 1 /\ m + (k + 1) = m + k + 1
    OBVIOUS
  <2>2. f2[m + (k + 1)] = more[k + 1]
    BY <2>1, <1>1, <1>4, <1>5
  <2> QED
    BY <2>1, <2>2, <1>1, <1>3
<1>7. Laid(q2, n + 1, f2, m + len + 1)
  <2>1. /\ \A i \in 1 .. n : q[i].len \in Nat /\ q2[i] = q[i]
        /\ \A k \in 1 .. m : f2[k] = beats[k]
        /\ q2[n + 1].len = len
    BY <1>1, <1>2, <1>3, <1>4
  <2> QED
    BY <2>1, <1>2, <1>6, LaidMore
<1>8. Len(f2) = m + len + 1
  <2>1. Len(f2) = m + (len + 1)
    BY <1>1, <1>4, <1>5
  <2> QED
    BY <2>1
<1> QED
  BY <1>3, <1>7, <1>8 DEF LaidOut, q2, f2

\* A sequence is empty when it has no elements.
LEMMA LenNotEmpty ==
  ASSUME NEW S, NEW s \in Seq(S)
  PROVE  Len(s) \in Nat /\ (s # <<>> <=> Len(s) # 0)
BY EmptySeq, LenProperties

\* The next beat is that of the first burst, and takes it one address on.
NextIs(q, beats) ==
  /\ beats # <<>> /\ Head(beats) = beats[1]
  /\ Len(Tail(beats)) = Len(beats) - 1
  /\ beats[1].id = q[1].id /\ beats[1].addr = q[1].addr
  /\ beats[1].last = (q[1].len = 0)
  /\ q[1].len = 0 => LaidOut(Tail(q), Tail(beats))
  /\ \A q2 \in Seq(Request) : Len(q2) = Len(q) /\ OneBeatOn(q, q2, Len(q)) => LaidOut(q2, Tail(beats))

\* The first beat that is due belongs to the first burst, and what follows it is due then.
LEMMA NextBeat ==
  ASSUME NEW S, NEW q \in Seq(Request), NEW beats \in Seq(S), LaidOut(q, beats), q # <<>>
  PROVE  NextIs(q, beats)
<1>1. PICK n \in Nat \ {0}, m \in Nat : n = Len(q) /\ m = Len(beats)
  BY LenNotEmpty
<1>2. \A i \in 1 .. n : q[i].len \in Nat /\ q[i].addr \in Nat
  BY <1>1, RequestsAre
<1>3. q[1].len \in Nat /\ q[1].addr \in Nat
  BY <1>1, <1>2
<1>4. Laid(q, n, beats, m)
  BY <1>1 DEF LaidOut
<1>5. /\ m >= 1
      /\ beats[1].id = q[1].id /\ beats[1].addr = q[1].addr
      /\ beats[1].last = (q[1].len = 0)
  BY <1>3, <1>4, LaidFirst
<1>6. m \in Nat \ {0} /\ beats # <<>>
  BY <1>1, <1>5, LenNotEmpty
<1>7. /\ Head(beats) = beats[1] /\ Tail(beats) \in Seq(S) /\ Len(Tail(beats)) = m - 1
      /\ \A k \in 1 .. m - 1 : Tail(beats)[k] = beats[k + 1]
  BY <1>1, <1>6, HeadTailProperties
<1>8. ASSUME q[1].len = 0 PROVE LaidOut(Tail(q), Tail(beats))
  <2>1. Len(Tail(q)) = n - 1 /\ \A i \in 1 .. n - 1 : Tail(q)[i] = q[i + 1]
    BY <1>1, HeadTailProperties
  <2>2. Laid(Tail(q), n - 1, Tail(beats), m - 1)
    <3>1. /\ n \in Nat \ {0} /\ m \in Nat \ {0} /\ q[1].len = 0 /\ Laid(q, n, beats, m)
          /\ \A i \in 1 .. n : q[i].len \in Nat
          /\ \A i \in 1 .. n - 1 : Tail(q)[i] = q[i + 1]
          /\ \A k \in 1 .. m - 1 : Tail(beats)[k] = beats[k + 1]
      BY <1>2, <1>4, <1>6, <1>7, <1>8, <2>1
    <3> QED
      BY ONLY <3>1, LaidPop
  <2> QED
    BY <2>1, <2>2, <1>7 DEF LaidOut
<1>9. ASSUME NEW q2 \in Seq(Request), Len(q2) = Len(q), OneBeatOn(q, q2, Len(q)) PROVE LaidOut(q2, Tail(beats))
  <2>1. Laid(q2, n, Tail(beats), m - 1)
    BY <1>1, <1>2, <1>3, <1>4, <1>6, <1>7, <1>9, LaidShorter
  <2> QED
    BY <2>1, <1>1, <1>7, <1>9 DEF LaidOut
<1> QED
  BY <1>1, <1>5, <1>6, <1>7, <1>8, <1>9 DEF NextIs

-----------------------------------------------------------------------------
\* What a channel carries is a sequence of what its queue and its register hold.
LEMMA LineType ==
  ASSUME NEW S, NEW q \in Seq(S), NEW x \in S \cup {None}
  PROVE  Line(q, x) \in Seq(S)
BY AppendProperties DEF Line

\* What is pushed, or still held, is in the line.
LEMMA LinePushed ==
  ASSUME NEW q, NEW x
  PROVE  Line(Push(q, x), Kept(x, Room(q))) = Line(q, x)
BY DEF Line, Push, Kept

\* The first of a channel is the first of its queue.
LEMMA LineHead ==
  ASSUME NEW S, NEW q \in Seq(S), q # <<>>, NEW x \in S \cup {None}
  PROVE  /\ Line(q, x) # <<>> /\ Line(q, x)[1] = q[1] /\ Head(q) = q[1] /\ q[1] \in S
         /\ Tail(q) \in Seq(S)
         /\ Tail(Line(q, x)) = Line(Tail(q), x)
<1>1. PICK n \in Nat \ {0} : n = Len(q)
  BY LenNotEmpty
<1>2. /\ Head(q) = q[1] /\ Tail(q) \in Seq(S) /\ Len(Tail(q)) = n - 1
      /\ \A k \in 1 .. n - 1 : Tail(q)[k] = q[k + 1]
  BY <1>1, HeadTailProperties
<1>3. q[1] \in S
  BY <1>1, ElementOfSeq
<1>4. CASE x = None
  BY <1>2, <1>3, <1>4 DEF Line
<1>5. CASE x # None
  <2> DEFINE l == Append(q, x)
             t == Append(Tail(q), x)
  <2>1. /\ l \in Seq(S) /\ Len(l) = n + 1 /\ l[n + 1] = x /\ \A i \in 1 .. n : l[i] = q[i]
    BY <1>1, <1>5, AppendProperties
  <2>2. /\ t \in Seq(S) /\ Len(t) = n - 1 + 1 /\ t[n - 1 + 1] = x
        /\ \A i \in 1 .. n - 1 : t[i] = Tail(q)[i]
    BY <1>2, <1>5, AppendProperties
  <2> HIDE DEF l, t
  <2>3. l # <<>>
    BY <2>1, LenNotEmpty
  <2>4. /\ Tail(l) \in Seq(S) /\ Len(Tail(l)) = n + 1 - 1
        /\ \A k \in 1 .. n + 1 - 1 : Tail(l)[k] = l[k + 1]
    BY <2>1, <2>3, HeadTailProperties
  <2>5. Len(Tail(l)) = n /\ Len(t) = n
    BY <2>2, <2>4
  <2>6. ASSUME NEW k \in 1 .. n PROVE Tail(l)[k] = t[k]
    <3>1. CASE k = n
      BY <3>1, <2>1, <2>2, <2>4
    <3>2. CASE k # n
      <4>1. k \in 1 .. n - 1 /\ k \in 1 .. n + 1 - 1 /\ k + 1 \in 1 .. n
        BY <3>2
      <4> QED
        BY <4>1, <1>2, <2>1, <2>2, <2>4
    <3> QED
      BY <3>1, <3>2
  <2>7. Tail(l) = t
    BY <2>2, <2>4, <2>5, <2>6, SeqEqual
  <2>8. l[1] = q[1]
    BY <2>1
  <2> QED
    BY <1>2, <1>3, <1>5, <2>3, <2>7, <2>8 DEF Line, l, t
<1> QED
  BY <1>4, <1>5

\* l2 is l with another first element.
FirstChanged(l, l2, y) ==
  /\ Len(l2) = Len(l) /\ Len(l) >= 1
  /\ l2[1] = y /\ \A i \in 2 .. Len(l) : l2[i] = l[i]

\* l is a line with q before x, and this is how it begins.
HeadOfLine(S, q, x, l) ==
  /\ l # <<>> /\ l[1] = q[1] /\ Head(q) = q[1] /\ q[1] \in S /\ Tail(q) \in Seq(S)
  /\ Tail(l) = Line(Tail(q), x)

\* The same of l, which is such a line.
LEMMA LineHeadIs ==
  ASSUME NEW S, NEW q, NEW x, NEW l, q \in Seq(S), x \in S \cup {None}, q # <<>>, l = Line(q, x)
  PROVE  HeadOfLine(S, q, x, l)
BY LineHead DEF HeadOfLine

\* A line whose first element is changed.
LEMMA LineChanged ==
  ASSUME NEW S, NEW q \in Seq(S), q # <<>>, NEW x \in S \cup {None}, NEW y \in S
  PROVE  /\ <<y>> \o Tail(q) \in Seq(S)
         /\ Line(<<y>> \o Tail(q), x) \in Seq(S)
         /\ FirstChanged(Line(q, x), Line(<<y>> \o Tail(q), x), y)
<1>1. PICK n \in Nat \ {0} : n = Len(q)
  BY LenNotEmpty
<1>2. /\ Tail(q) \in Seq(S) /\ Len(Tail(q)) = n - 1
      /\ \A k \in 1 .. n - 1 : Tail(q)[k] = q[k + 1]
  BY <1>1, HeadTailProperties
<1> DEFINE y1 == <<y>>
           c == y1 \o Tail(q)
<1>3. y1 \in Seq(S) /\ Len(y1) = 1 /\ y1[1] = y
  OBVIOUS
<1> HIDE DEF y1
<1>4. /\ c \in Seq(S) /\ Len(c) = Len(y1) + Len(Tail(q))
      /\ \A k \in 1 .. Len(y1) : c[k] = y1[k]
      /\ \A k \in 1 .. Len(Tail(q)) : c[Len(y1) + k] = Tail(q)[k]
  <2>1. ASSUME NEW u \in Seq(S), NEW v \in Seq(S)
        PROVE  /\ u \o v \in Seq(S) /\ Len(u \o v) = Len(u) + Len(v)
               /\ \A k \in 1 .. Len(u) : (u \o v)[k] = u[k]
               /\ \A k \in 1 .. Len(v) : (u \o v)[Len(u) + k] = v[k]
    BY ONLY <2>1, ConcatAt
  <2>2. y1 \in Seq(S) /\ Tail(q) \in Seq(S)
    BY <1>2, <1>3
  <2> QED
    BY ONLY <2>1, <2>2, Zenon DEF c
<1> HIDE DEF c
<1>5. Len(c) = n /\ c[1] = y
  BY <1>2, <1>3, <1>4
<1>6. ASSUME NEW i \in 2 .. n PROVE c[i] = q[i]
  <2>1. i - 1 \in 1 .. n - 1 /\ 1 + (i - 1) = i /\ (i - 1) + 1 = i
    OBVIOUS
  <2>2. c[1 + (i - 1)] = Tail(q)[i - 1]
    BY <2>1, <1>2, <1>3, <1>4
  <2> QED
    BY <2>1, <2>2, <1>2
<1>7. CASE x = None
  BY <1>1, <1>4, <1>5, <1>6, <1>7 DEF Line, c, y1, FirstChanged
<1>8. CASE x # None
  <2> DEFINE l == Append(q, x)
             l2 == Append(c, x)
  <2>1. /\ Len(l) = n + 1 /\ l[n + 1] = x /\ \A i \in 1 .. n : l[i] = q[i]
    BY <1>1, <1>8, AppendProperties
  <2>2. /\ l2 \in Seq(S) /\ Len(l2) = n + 1 /\ l2[n + 1] = x /\ \A i \in 1 .. n : l2[i] = c[i]
    BY <1>4, <1>5, <1>8, AppendProperties
  <2> HIDE DEF l, l2
  <2>3. ASSUME NEW i \in 2 .. n + 1 PROVE l2[i] = l[i]
    <3>1. CASE i = n + 1
      BY <3>1, <2>1, <2>2
    <3>2. CASE i # n + 1
      <4>1. i \in 2 .. n /\ i \in 1 .. n
        BY <3>2
      <4> QED
        BY <4>1, <2>1, <2>2, <1>6
    <3> QED
      BY <3>1, <3>2
  <2>4. l2[1] = y
    BY <1>5, <2>2
  <2>5. Len(l) >= 1
    BY <2>1
  <2> QED
    BY <1>4, <1>8, <2>1, <2>2, <2>3, <2>4, <2>5 DEF Line, c, y1, l, l2, FirstChanged
<1> QED
  BY <1>7, <1>8

\* A sequence that is not empty, taken apart.
LEMMA TailType ==
  ASSUME NEW S, NEW s \in Seq(S), s # <<>>
  PROVE  Tail(s) \in Seq(S) /\ Head(s) = s[1] /\ s[1] \in S
<1>1. Head(s) = s[1] /\ Tail(s) \in Seq(S)
  BY HeadTailProperties
<1>2. s[1] \in S
  BY LenNotEmpty, ElementOfSeq
<1> QED
  BY <1>1, <1>2

\* The register of a channel after its request has been taken or not.
LEMMA HeldKept ==
  ASSUME NEW reg, NEW rdy
  PROVE  Held(reg, rdy /\ reg # None) = Kept(reg, rdy)
BY DEF Held, Kept

\* The beats of a read burst.
LEMMA BeatsOfBurst ==
  ASSUME NEW x \in Request
  PROVE  /\ Beats(x) \in Seq(ReadBeat) /\ Len(Beats(x)) = x.len + 1
         /\ \A k \in 0 .. x.len : IsBeat(Beats(x)[k + 1], x, k)
<1> DEFINE n == x.len + 1
           e(k) == [id |-> x.id, addr |-> x.addr + k - 1, last |-> k = n]
<1>1. x.len \in Nat /\ x.addr \in Nat /\ x.id \in Nat /\ n \in Nat
  BY DEF Request
<1>2. Beats(x) = [k \in 1 .. n |-> e(k)]
  BY DEF Beats
<1> HIDE DEF n
<1>3. \A k \in 1 .. n : e(k) \in ReadBeat
  BY <1>1 DEF ReadBeat
<1> HIDE DEF e
<1>4. Beats(x) \in Seq(ReadBeat) /\ Len(Beats(x)) = n
  BY <1>1, <1>2, <1>3, IsASeq, LenProperties
<1>5. ASSUME NEW k \in 0 .. x.len PROVE IsBeat(Beats(x)[k + 1], x, k)
  <2>1. k + 1 \in 1 .. n /\ x.addr + (k + 1) - 1 = x.addr + k /\ (k + 1 = n <=> k = x.len)
    BY <1>1 DEF n
  <2>2. Beats(x)[k + 1] = e(k + 1)
    BY <1>2, <2>1
  <2> QED
    BY <2>1, <2>2 DEF IsBeat, e
<1> QED
  BY <1>4, <1>5 DEF n

\* The read side after the clock edge: what is on the channel is in the line.
LEMMA ReadEdge ==
  ASSUME DramType, ReadInv, NEW newAr \in ReadBurst \cup {None}, NEW newAw, NEW data, NEW toW,
         NEW takeR \in BOOLEAN, NEW takeB \in BOOLEAN, Edge(newAr, newAw, data, toW, takeR, takeB)
  PROVE  /\ ar' \in Request \cup {None} /\ rready' \in BOOLEAN
         /\ owedR' \in Seq(ReadBeat)
         /\ LaidOut(Line(arQueue, ar'), owedR')
<1>1. /\ arQueue \in Seq(Request) /\ ar \in Request \cup {None} /\ owedR \in Seq(ReadBeat)
      /\ ready.ar \in BOOLEAN
  BY DEF DramType
<1>2. newAr \in Request \cup {None}
  BY BurstAssumption
<1>3. /\ newAr # None => Kept(ar, ready.ar) = None
      /\ ar' = IF newAr # None THEN newAr ELSE Kept(ar, ready.ar)
      /\ rready' = takeR
      /\ owedR' = ReadsOwed \o (IF newAr # None THEN Beats(newAr) ELSE <<>>)
  BY HeldKept DEF Edge, ReadsOwed
<1>4. ReadsOwed \in Seq(ReadBeat)
  BY <1>1, TailType DEF ReadsOwed, TakesR, ReadInv
<1>5. LaidOut(Line(arQueue, Kept(ar, ready.ar)), ReadsOwed)
  BY DEF ReadInv, ReadsAsked
<1>6. ar' \in Request \cup {None}
  BY <1>1, <1>2, <1>3 DEF Kept
<1>7. CASE newAr = None
  <2>1. owedR' = ReadsOwed
    BY <1>3, <1>4, <1>7, ConcatSimplifications, ConcatEmptySeq
  <2> QED
    BY <2>1, <1>3, <1>4, <1>5, <1>6, <1>7
<1>8. CASE newAr # None
  <2>1. newAr \in Request /\ ar' = newAr /\ Kept(ar, ready.ar) = None
    BY <1>2, <1>3, <1>8
  <2>2. LaidOut(arQueue, ReadsOwed)
    BY <1>5, <2>1 DEF Line
  <2>3. /\ Beats(newAr) \in Seq(ReadBeat) /\ Len(Beats(newAr)) = newAr.len + 1
        /\ \A k \in 0 .. newAr.len : IsBeat(Beats(newAr)[k + 1], newAr, k)
    BY <2>1, BeatsOfBurst
  <2>4. PICK more \in Seq(ReadBeat) : more = Beats(newAr)
    BY <2>3
  <2>5. PICK owed \in Seq(ReadBeat) : owed = ReadsOwed
    BY <1>4
  <2>6. LaidOut(Append(arQueue, newAr), owed \o more)
    BY <1>1, <2>1, <2>2, <2>3, <2>4, <2>5, AskMore
  <2>7. owedR' = owed \o more /\ owed \o more \in Seq(ReadBeat)
    BY <1>3, <1>8, <2>4, <2>5, ConcatAt
  <2>8. Line(arQueue, ar') = Append(arQueue, newAr)
    BY <1>8, <2>1 DEF Line
  <2> QED
    BY <1>3, <1>6, <2>6, <2>7, <2>8
<1> QED
  BY <1>7, <1>8

\* What is left of a burst of which a word has been taken.
LEMMA OneTaken ==
  ASSUME NEW q \in Seq(Request), q # <<>>, q[1].len # 0
  PROVE  \E y \in Request :
           /\ Advanced(Shortened(q)) = <<y>> \o Tail(q)
           /\ y.id = q[1].id /\ y.addr = q[1].addr + 1 /\ y.len = q[1].len - 1
<1>1. /\ Tail(q) \in Seq(Request) /\ Head(q) = q[1] /\ q[1] \in Request
  BY TailType
<1>2. PICK x \in Request : x = q[1]
  BY <1>1
<1>3. x.len \in Nat \ {0} /\ x.addr \in Nat /\ x.id \in Nat
  BY <1>2 DEF Request
<1>10. x.len - 1 \in Nat /\ x.addr + 1 \in Nat
  BY <1>3
<1> DEFINE y1 == [x EXCEPT !.len = x.len - 1]
           y2 == [y1 EXCEPT !.addr = y1.addr + 1]
<1>4. y1 \in Request /\ y1.id = x.id /\ y1.addr = x.addr /\ y1.len = x.len - 1
  BY <1>2, <1>10, Zenon DEF Request
<1>5. y2 \in Request /\ y2.id = x.id /\ y2.addr = x.addr + 1 /\ y2.len = x.len - 1
  <2>1. y1 \in Request /\ y1.id = x.id /\ y1.addr = x.addr /\ y1.len = x.len - 1 /\ y1.addr + 1 \in Nat
    BY <1>4, <1>10
  <2> HIDE DEF y1
  <2>2. y2 \in Request /\ y2.id = y1.id /\ y2.addr = y1.addr + 1 /\ y2.len = y1.len
    BY <2>1, Zenon DEF Request
  <2> QED
    BY <2>1, <2>2
<1>6. Shortened(q) = <<y1>> \o Tail(q)
  BY <1>1, <1>2 DEF Shortened
<1> HIDE DEF y1
<1>7. PICK s, t \in Seq(Request) : s = <<y1>> \o Tail(q) /\ t = Tail(q)
  <2>1. <<y1>> \o Tail(q) \in Seq(Request)
    <3>0. y1 \in Request
      BY <1>4
    <3> HIDE DEF y1
    <3>1. PICK u \in Seq(Request), t \in Seq(Request) : u = <<y1>> /\ t = Tail(q)
      <4>1. <<y1>> \in Seq(Request)
        BY <3>0
      <4> QED
        BY <1>1, <4>1, Zenon
    <3> QED
      BY <3>1, ConcatAt
  <2> QED
    BY <1>1, <2>1
<1>8. s # <<>> /\ Head(s) = y1 /\ Tail(s) = t
  BY <1>4, <1>7
<1>9. Advanced(Shortened(q)) = <<y2>> \o Tail(q)
  BY <1>6, <1>7, <1>8 DEF Advanced
<1> HIDE DEF y2
<1> QED
  BY <1>2, <1>5, <1>9

\* A cycle, on the read side: the word that is offered is what is in the memory now.
LEMMA ReadStep ==
  ASSUME DramType, ReadInv, NEW newAr \in ReadBurst \cup {None}, NEW newAw, NEW data, NEW toW,
         NEW takeR \in BOOLEAN, NEW takeB \in BOOLEAN, Edge(newAr, newAw, data, toW, takeR, takeB),
         Channels
  PROVE  /\ ar' \in Request \cup {None} /\ rready' \in BOOLEAN /\ owedR' \in Seq(ReadBeat)
         /\ arQueue' \in Seq(Request) /\ r'.valid \in BOOLEAN /\ ready'.ar \in BOOLEAN
         /\ ReadInv'
         /\ r'.valid => /\ Head(owedR').addr \in Nat
                        /\ r'.ok => r'.data = dram[Head(owedR').addr]
<1>1. /\ ar' \in Request \cup {None} /\ rready' \in BOOLEAN /\ owedR' \in Seq(ReadBeat)
      /\ LaidOut(Line(arQueue, ar'), owedR')
  BY ReadEdge
<1>2. PICK q \in Seq(Request), x \in Request \cup {None}, o \in Seq(ReadBeat), take \in BOOLEAN :
        q = arQueue /\ x = ar' /\ o = owedR' /\ take = rready'
  BY <1>1 DEF DramType
<1>3. PICK rl : rl = ReadsLeft
  OBVIOUS
<1>4. /\ ready'.ar = Room(rl) /\ arQueue' = Push(rl, x) /\ r' = ReadAnswer
  BY <1>2, <1>3 DEF Channels
<1>5. Room(rl) \in BOOLEAN
  BY DEF Room
<1>6. ReadsAsked' = Line(rl, x)
  BY <1>2, <1>4, LinePushed DEF ReadsAsked
<1>7. LaidOut(Line(q, x), o)
  BY <1>1, <1>2
<1>8. ReadsOwed' = IF r'.valid /\ take THEN Tail(o) ELSE o
  BY <1>2 DEF ReadsOwed, TakesR
<1>9. ASSUME rl \in Seq(Request) PROVE arQueue' \in Seq(Request)
  BY <1>2, <1>4, <1>9, AppendProperties DEF Push
<1>10. CASE q = <<>>
  <2>1. rl = q /\ r'.valid = FALSE
    BY <1>2, <1>3, <1>4, <1>10 DEF ReadsLeft, ReadAnswer, DramType
  <2> QED
    BY <2>1, <1>1, <1>2, <1>4, <1>5, <1>6, <1>7, <1>8, <1>9 DEF ReadInv
<1>11. CASE q # <<>>
  <2>1. PICK l \in Seq(Request) : l = Line(q, x)
    BY LineType
  <2>2. /\ l # <<>> /\ l[1] = q[1] /\ Head(q) = q[1] /\ q[1] \in Request /\ Tail(q) \in Seq(Request)
        /\ Tail(l) = Line(Tail(q), x)
    <3>1. q \in Seq(Request) /\ x \in Request \cup {None} /\ q # <<>> /\ l = Line(q, x)
      BY <2>1, <1>11
    <3>2. HeadOfLine(Request, q, x, l)
      BY ONLY <3>1, LineHeadIs
    <3> QED
      BY ONLY <3>2 DEF HeadOfLine
  <2>3. /\ o # <<>> /\ Head(o) = o[1] /\ o[1] \in ReadBeat
        /\ o[1].id = l[1].id /\ o[1].addr = l[1].addr /\ o[1].last = (l[1].len = 0)
        /\ l[1].len = 0 => LaidOut(Tail(l), Tail(o))
        /\ \A q2 \in Seq(Request) : Len(q2) = Len(l) /\ OneBeatOn(l, q2, Len(l)) => LaidOut(q2, Tail(o))
    <3>1. LaidOut(l, o)
      BY <1>7, <2>1
    <3>2. NextIs(l, o)
      BY <2>2, <3>1, NextBeat
    <3>3. o[1] \in ReadBeat
      BY <3>2, TailType DEF NextIs
    <3> QED
      BY <3>2, <3>3 DEF NextIs
  <2>4. /\ r'.valid = TRUE /\ r'.id = q[1].id /\ r'.last = (q[1].len = 0)
        /\ r'.ok = Good(q[1].addr)
        /\ Good(q[1].addr) => r'.data = dram[q[1].addr]
    BY <1>2, <1>4, <1>11, <2>2 DEF ReadAnswer
  <2>5. /\ r'.valid => /\ o # <<>>
                       /\ r'.id = Head(o).id /\ r'.last = Head(o).last /\ r'.ok = Good(Head(o).addr)
                       /\ Head(o).addr \in Nat
                       /\ r'.ok => r'.data = dram[Head(o).addr]
    BY <2>2, <2>3, <2>4 DEF ReadBeat
  <2>6. ASSUME rl \in Seq(Request), LaidOut(Line(rl, x), IF take THEN Tail(o) ELSE o)
        PROVE  /\ arQueue' \in Seq(Request) /\ ReadInv'
    <3>1. ReadsOwed' = IF take THEN Tail(o) ELSE o
      BY <1>8, <2>4
    <3> QED
      BY <3>1, <2>6, <1>2, <1>6, <1>9, <2>5 DEF ReadInv
  <2>7. CASE ~take
    <3>1. rl = q
      BY <1>2, <1>3, <2>7 DEF ReadsLeft
    <3> QED
      BY <3>1, <2>7, <2>6, <1>1, <1>2, <1>4, <1>5, <1>7, <2>4, <2>5
  <2>8. CASE take /\ q[1].len = 0
    <3>1. rl = Tail(q)
      BY <1>2, <1>3, <1>11, <2>2, <2>8 DEF ReadsLeft
    <3>2. LaidOut(Line(rl, x), Tail(o))
      BY <3>1, <2>1, <2>2, <2>3, <2>8
    <3> QED
      BY <3>1, <3>2, <2>8, <2>2, <2>6, <1>1, <1>2, <1>4, <1>5, <2>4, <2>5
  <2>9. CASE take /\ q[1].len # 0
    <3>1. rl = Advanced(Shortened(q))
      BY <1>2, <1>3, <1>11, <2>2, <2>9 DEF ReadsLeft
    <3>2. PICK y \in Request : /\ rl = <<y>> \o Tail(q)
                               /\ y.id = q[1].id /\ y.addr = q[1].addr + 1 /\ y.len = q[1].len - 1
      BY <3>1, <1>11, <2>9, OneTaken
    <3>3. /\ rl \in Seq(Request) /\ Line(rl, x) \in Seq(Request)
          /\ Len(Line(rl, x)) = Len(l) /\ Line(rl, x)[1] = y
          /\ \A i \in 2 .. Len(l) : Line(rl, x)[i] = l[i]
      <4>1. /\ <<y>> \o Tail(q) \in Seq(Request)
            /\ Line(<<y>> \o Tail(q), x) \in Seq(Request)
            /\ FirstChanged(Line(q, x), Line(<<y>> \o Tail(q), x), y)
        BY <1>11, LineChanged
      <4> QED
        BY <4>1, <3>2, <2>1 DEF FirstChanged
    <3>4. LaidOut(Line(rl, x), Tail(o))
      <4>1. Len(Line(rl, x)) = Len(l) /\ OneBeatOn(l, Line(rl, x), Len(l))
        BY <3>2, <3>3, <2>2, <2>9 DEF OneBeatOn
      <4> QED
        BY <4>1, <3>3, <2>3
    <3> QED
      BY <3>3, <3>4, <2>9, <2>6, <1>1, <1>2, <1>4, <1>5, <2>4, <2>5
  <2> QED
    BY <2>7, <2>8, <2>9
<1> QED
  BY <1>10, <1>11

\* The fields of what is left.
LEMMA LeftAt ==
  ASSUME NEW a, NEW o, NEW p, NEW i \in 1 .. Len(a)
  PROVE  /\ Left(a, o, p)[i].id = a[i].id
         /\ Left(a, o, p)[i].addr = a[i].addr
         /\ Left(a, o, p)[i].len = o[i].beats - 1 - (IF i = 1 THEN p ELSE 0)
BY DEF Left

\* A beat that is placed carries what was sent.
SameBeat(placed, beat) ==
  placed.data = beat.data /\ placed.strb = beat.strb /\ placed.last = beat.last

\* Another burst.
LEMMA WriteMore ==
  ASSUME NEW a \in Seq(Request), NEW o \in Seq(WriteReply), NEW t \in Seq(WriteBeats),
         NEW f \in Seq(PlacedBeat), NEW p, WriteOrder(a, o, t, f, p),
         NEW x \in Request, NEW y \in WriteReply, NEW d \in Seq(WriteBeats), NEW g \in Seq(PlacedBeat),
         Len(d) = x.len + 1, Len(g) = x.len + 1,
         y.id = x.id, y.beats = x.len + 1, y.ok = Good(x.addr + x.len),
         \A k \in 0 .. x.len : IsBeat(g[k + 1], x, k),
         \A k \in 1 .. Len(d) : SameBeat(g[k], d[k])
  PROVE  WriteOrder(Append(a, x), Append(o, y), t \o d, f \o g, p)
<1>1. PICK n \in Nat, m \in Nat, len \in Nat : n = Len(a) /\ m = Len(t) /\ len = x.len
  BY LenProperties DEF Request
<1>2. /\ p \in Nat /\ Len(o) = n /\ Len(f) = p + m /\ (n = 0 => p = 0)
  BY <1>1, EmptySeq DEF WriteOrder
<1> DEFINE q == Left(a, o, p)
<1>3. \A i \in 1 .. n : /\ q[i].len \in Nat
                        /\ o[i].id = q[i].id /\ o[i].ok = Good(q[i].addr + q[i].len)
  BY <1>1 DEF WriteOrder
<1>4. Laid(q, n, Rest(f, p, m), m)
  BY <1>1 DEF WriteOrder
<1>5. \A k \in 1 .. m : SameBeat(f[p + k], t[k])
  BY <1>1 DEF WriteOrder, SameBeat
<1> HIDE DEF q
<1> DEFINE a2 == Append(a, x)
           o2 == Append(o, y)
           t2 == t \o d
           f2 == f \o g
           q2 == Left(a2, o2, p)
<1>6. /\ Len(a2) = n + 1 /\ a2[n + 1] = x /\ \A i \in 1 .. n : a2[i] = a[i]
  BY <1>1, AppendProperties
<1>7. /\ Len(o2) = n + 1 /\ o2[n + 1] = y /\ \A i \in 1 .. n : o2[i] = o[i]
  BY <1>2, AppendProperties
<1>8. /\ Len(t2) = Len(t) + Len(d)
      /\ \A k \in 1 .. Len(t) : t2[k] = t[k]
      /\ \A k \in 1 .. Len(d) : t2[Len(t) + k] = d[k]
  <2>1. t \in Seq(WriteBeats) /\ d \in Seq(WriteBeats)
    OBVIOUS
  <2> QED
    BY ONLY <2>1, ConcatAt
<1>9. /\ Len(f2) = Len(f) + Len(g)
      /\ \A k \in 1 .. Len(f) : f2[k] = f[k]
      /\ \A k \in 1 .. Len(g) : f2[Len(f) + k] = g[k]
  <2>1. f \in Seq(PlacedBeat) /\ g \in Seq(PlacedBeat)
    OBVIOUS
  <2> QED
    BY ONLY <2>1, ConcatAt
<1> HIDE DEF a2, o2, t2, f2
<1>10. Len(t2) = m + len + 1 /\ Len(f2) = p + (m + len + 1)
  <2>1. Len(t2) = m + (len + 1) /\ Len(f2) = (p + m) + (len + 1)
    BY <1>1, <1>2, <1>8, <1>9
  <2> QED
    BY <2>1, <1>2
<1>11. ASSUME NEW i \in 1 .. n PROVE q2[i] = q[i]
  <2>1. i \in 1 .. Len(a) /\ i \in 1 .. Len(a2)
    BY <1>1, <1>6
  <2> QED
    BY <2>1, <1>6, <1>7 DEF Left, q
<1>12. /\ q2[n + 1].id = x.id /\ q2[n + 1].addr = x.addr /\ q2[n + 1].len = len
  <2>1. n + 1 \in 1 .. Len(a2)
    BY <1>6
  <2>2. /\ q2[n + 1].id = x.id /\ q2[n + 1].addr = x.addr
        /\ q2[n + 1].len = y.beats - 1 - (IF n + 1 = 1 THEN p ELSE 0)
    <3>1. /\ q2[n + 1].id = a2[n + 1].id /\ q2[n + 1].addr = a2[n + 1].addr
          /\ q2[n + 1].len = o2[n + 1].beats - 1 - (IF n + 1 = 1 THEN p ELSE 0)
      <4>1. PICK h : h = n + 1
        OBVIOUS
      <4>2. h \in 1 .. Len(a2)
        BY <2>1, <4>1
      <4>3. /\ q2[h].id = a2[h].id /\ q2[h].addr = a2[h].addr
            /\ q2[h].len = o2[h].beats - 1 - (IF h = 1 THEN p ELSE 0)
        BY ONLY <4>2, LeftAt DEF q2
      <4> QED
        BY <4>1, <4>3
    <3> QED
      BY <3>1, <1>6, <1>7
  <2>3. y.beats - 1 - (IF n + 1 = 1 THEN p ELSE 0) = len
    BY <1>1, <1>2
  <2> QED
    BY <2>2, <2>3
<1> DEFINE r1 == Rest(f, p, m)
           r2 == Rest(f2, p, m + len + 1)
<1> HIDE DEF q2
<1>13. ASSUME NEW k \in 1 .. m PROVE f2[p + k] = f[p + k] /\ r2[k] = r1[k]
  <2>1. p + k \in 1 .. Len(f) /\ k \in 1 .. m + len + 1
    <3>1. p \in Nat /\ m \in Nat /\ len \in Nat /\ k \in 1 .. m /\ Len(f) = p + m
      BY <1>2
    <3> QED
      BY ONLY <3>1
  <2>2. f2[p + k] = f[p + k]
    BY <2>1, <1>9
  <2> QED
    BY <2>1, <2>2 DEF Rest
<1>14. ASSUME NEW k \in 0 .. len PROVE f2[p + (m + k + 1)] = g[k + 1] /\ r2[m + k + 1] = g[k + 1]
  <2>1. /\ k + 1 \in 1 .. len + 1 /\ m + k + 1 \in 1 .. m + len + 1
        /\ (p + m) + (k + 1) = p + (m + k + 1)
    BY <1>2
  <2>2. f2[(p + m) + (k + 1)] = g[k + 1]
    BY <2>1, <1>1, <1>2, <1>9
  <2> QED
    BY <2>1, <2>2 DEF Rest
<1>15. Laid(q2, n + 1, r2, m + len + 1)
  <2>1. \A k \in 0 .. len : IsBeat(r2[m + k + 1], q2[n + 1], k)
    <3>1. ASSUME NEW k \in 0 .. len PROVE IsBeat(r2[m + k + 1], q2[n + 1], k)
      <4>1. IsBeat(g[k + 1], x, k)
        BY <1>1
      <4> QED
        BY <4>1, <1>1, <1>12, <1>14 DEF IsBeat
    <3> QED
      BY <3>1
  <2> HIDE DEF r1, r2
  <2>2. /\ \A i \in 1 .. n : q[i].len \in Nat /\ q2[i] = q[i]
        /\ \A k \in 1 .. m : r2[k] = r1[k]
        /\ Laid(q, n, r1, m)
    BY <1>3, <1>4, <1>11, <1>13 DEF r1
  <2>3. n \in Nat /\ m \in Nat /\ len \in Nat /\ q2[n + 1].len = len
    BY <1>12
  <2> QED
    BY ONLY <2>1, <2>2, <2>3, LaidMore
<1>16. ASSUME NEW i \in 1 .. n + 1
       PROVE  /\ q2[i].len \in Nat
              /\ o2[i].id = q2[i].id /\ o2[i].ok = Good(q2[i].addr + q2[i].len)
  <2>1. CASE i = n + 1
    BY <2>1, <1>1, <1>7, <1>12
  <2>2. CASE i \in 1 .. n
    BY <2>2, <1>3, <1>7, <1>11
  <2> QED
    BY <2>1, <2>2
<1>17. ASSUME NEW k \in 1 .. m + len + 1 PROVE SameBeat(f2[p + k], t2[k])
  <2>1. CASE k \in 1 .. m
    <3>1. t2[k] = t[k]
      BY <2>1, <1>1, <1>8
    <3> QED
      BY <2>1, <3>1, <1>5, <1>13
  <2>2. CASE k \notin 1 .. m
    <3>1. PICK h \in 0 .. len : k = m + h + 1
      <4>1. k - m - 1 \in 0 .. len /\ k = m + (k - m - 1) + 1
        BY <2>2
      <4> QED
        BY <4>1
    <3>2. h + 1 \in 1 .. Len(d) /\ m + (h + 1) = m + h + 1
      BY <1>1
    <3>3. t2[k] = d[h + 1] /\ f2[p + k] = g[h + 1]
      BY <3>1, <3>2, <1>1, <1>8, <1>14
    <3> QED
      BY <3>2, <3>3
  <2> QED
    BY <2>1, <2>2
<1>18. n + 1 # 0 /\ a2 # <<>>
  BY <1>6, EmptySeq
<1> QED
  BY <1>2, <1>6, <1>7, <1>10, <1>15, <1>16, <1>17, <1>18
     DEF WriteOrder, SameBeat, a2, o2, t2, f2, q2

\* The beat that is written next.
LEMMA FirstWrite ==
  ASSUME NEW a \in Seq(Request), NEW o \in Seq(WriteReply), NEW t \in Seq(WriteBeats),
         NEW f \in Seq(PlacedBeat), NEW p, WriteOrder(a, o, t, f, p), a # <<>>
  PROVE  /\ p \in Nat /\ t # <<>> /\ o # <<>> /\ p + 1 \in 1 .. Len(f)
         /\ a[1] \in Request /\ a[1].addr \in Nat /\ o[1] \in WriteReply
         /\ Left(a, o, p)[1].len \in Nat
         /\ f[p + 1].addr = a[1].addr /\ SameBeat(f[p + 1], t[1])
         /\ t[1].last => Left(a, o, p)[1].len = 0
         /\ ~t[1].last => Left(a, o, p)[1].len # 0
         /\ o[1].id = a[1].id
         /\ t[1].last => o[1].beats = p + 1 /\ o[1].ok = Good(a[1].addr)
<1>1. PICK n \in Nat \ {0}, m \in Nat : n = Len(a) /\ m = Len(t)
  BY LenNotEmpty
<1>2. /\ p \in Nat /\ Len(o) = n /\ Len(f) = p + m
  BY <1>1 DEF WriteOrder
<1> DEFINE q == Left(a, o, p)
           r1 == Rest(f, p, m)
<1>3. /\ 1 \in 1 .. n /\ 1 \in 1 .. Len(a)
  BY <1>1
<1>4. /\ q[1].len \in Nat
      /\ o[1].id = q[1].id /\ o[1].ok = Good(q[1].addr + q[1].len)
  BY <1>1, <1>3 DEF WriteOrder
<1>5. /\ q[1].id = a[1].id /\ q[1].addr = a[1].addr
      /\ q[1].len = o[1].beats - 1 - p
  BY <1>3, LeftAt
<1>6. a[1] \in Request /\ a[1].addr \in Nat /\ o[1] \in WriteReply /\ o[1].beats \in Nat
  <2>1. a[1] \in Request /\ o[1] \in WriteReply
    BY <1>2, <1>3, <1>1, ElementOfSeq
  <2> QED
    BY <2>1 DEF Request, WriteReply
<1>7. Laid(q, n, r1, m)
  BY <1>1 DEF WriteOrder
<1>8. /\ m >= 1 /\ r1[1].addr = q[1].addr /\ r1[1].last = (q[1].len = 0)
  <2> HIDE DEF q, r1
  <2>1. q[1].addr \in Nat
    BY <1>5, <1>6
  <2> QED
    BY <2>1, <1>4, <1>7, LaidFirst
<1>9. 1 \in 1 .. m
  BY <1>8
<1>10. r1[1] = f[p + 1] /\ SameBeat(f[p + 1], t[1])
  BY <1>1, <1>9 DEF Rest, WriteOrder, SameBeat
<1>11. t # <<>> /\ o # <<>>
  BY <1>1, <1>2, <1>8, LenNotEmpty
<1>12. p + 1 \in 1 .. Len(f)
  BY <1>2, <1>8
<1>13. t[1].last = (q[1].len = 0)
  BY <1>8, <1>10 DEF SameBeat
<1>14. ASSUME t[1].last PROVE o[1].beats = p + 1 /\ o[1].ok = Good(a[1].addr)
  <2>1. q[1].len = 0
    BY <1>13, <1>14
  <2>2. q[1].addr + q[1].len = a[1].addr
    BY <2>1, <1>5, <1>6
  <2> QED
    BY <2>1, <2>2, <1>2, <1>4, <1>5, <1>6, SMTT(60)
<1> QED
  BY <1>2, <1>4, <1>5, <1>6, <1>8, <1>10, <1>11, <1>12, <1>13, <1>14

\* It was not the last of its burst.
LEMMA WriteGoesOn ==
  ASSUME NEW a \in Seq(Request), NEW o \in Seq(WriteReply), NEW t \in Seq(WriteBeats),
         NEW f \in Seq(PlacedBeat), NEW p, WriteOrder(a, o, t, f, p), a # <<>>, ~t[1].last,
         NEW a2 \in Seq(Request), NEW y \in Request, FirstChanged(a, a2, y),
         y.id = a[1].id, y.addr = a[1].addr + 1
  PROVE  WriteOrder(a2, o, Tail(t), f, p + 1)
<1>1. PICK n \in Nat \ {0}, m \in Nat : n = Len(a) /\ m = Len(t)
  BY LenNotEmpty
<1>2. /\ p \in Nat /\ Len(o) = n /\ Len(f) = p + m
  BY <1>1 DEF WriteOrder
<1>3. /\ t # <<>> /\ a[1].addr \in Nat /\ o[1] \in WriteReply
      /\ Left(a, o, p)[1].len # 0
  BY FirstWrite
<1> DEFINE q == Left(a, o, p)
           q2 == Left(a2, o, p + 1)
           r1 == Rest(f, p, m)
           r2 == Rest(f, p + 1, m - 1)
           t2 == Tail(t)
<1>4. \A i \in 1 .. n : /\ q[i].len \in Nat
                        /\ o[i].id = q[i].id /\ o[i].ok = Good(q[i].addr + q[i].len)
  BY <1>1 DEF WriteOrder
<1>5. Laid(q, n, r1, m)
  BY <1>1 DEF WriteOrder
<1>6. \A k \in 1 .. m : SameBeat(f[p + k], t[k])
  BY <1>1 DEF WriteOrder, SameBeat
<1>7. /\ Len(t2) = m - 1 /\ \A k \in 1 .. m - 1 : t2[k] = t[k + 1]
      /\ m # 0
  BY <1>1, <1>3, HeadTailProperties, LenNotEmpty
<1>8. Len(a2) = n /\ a2[1] = y /\ \A i \in 2 .. n : a2[i] = a[i]
  BY <1>1 DEF FirstChanged
<1>9. ASSUME NEW i \in 1 .. n
      PROVE  /\ q[i].id = a[i].id /\ q[i].addr = a[i].addr
             /\ q[i].len = o[i].beats - 1 - (IF i = 1 THEN p ELSE 0)
             /\ q2[i].id = a2[i].id /\ q2[i].addr = a2[i].addr
             /\ q2[i].len = o[i].beats - 1 - (IF i = 1 THEN p + 1 ELSE 0)
  <2>1. i \in 1 .. Len(a) /\ i \in 1 .. Len(a2)
    BY <1>1, <1>8
  <2> QED
    BY <2>1, LeftAt
<1>10. 1 \in 1 .. n
  OBVIOUS
<1>11. q[1].len # 0 /\ q[1].len \in Nat
  BY <1>3, <1>4, <1>10
<1>12. /\ q2[1].id = q[1].id /\ q2[1].addr = q[1].addr + 1 /\ q2[1].len = q[1].len - 1
       /\ q[1].addr = a[1].addr
  <2>1. o[1].beats \in Nat
    BY <1>3 DEF WriteReply
  <2>2. /\ q[1].id = a[1].id /\ q[1].addr = a[1].addr /\ q[1].len = o[1].beats - 1 - p
        /\ q2[1].id = y.id /\ q2[1].addr = y.addr /\ q2[1].len = o[1].beats - 1 - (p + 1)
    BY <1>8, <1>9, <1>10
  <2>3. o[1].beats - 1 - (p + 1) = (o[1].beats - 1 - p) - 1
    <3>1. \A c, d \in Nat : c - 1 - (d + 1) = (c - 1 - d) - 1
      OBVIOUS
    <3> QED
      BY <3>1, <2>1, <1>2
  <2> QED
    BY <2>2, <2>3
<1>13. ASSUME NEW i \in 2 .. n PROVE q2[i] = q[i]
  <2>1. i \in 1 .. Len(a) /\ i \in 1 .. Len(a2) /\ i # 1
    BY <1>1, <1>8
  <2> QED
    BY <2>1, <1>8 DEF Left
<1>14. ASSUME NEW k \in 1 .. m - 1 PROVE r2[k] = r1[k + 1] /\ f[(p + 1) + k] = f[p + (k + 1)]
  <2>1. k + 1 \in 1 .. m /\ (p + 1) + k = p + (k + 1)
    BY <1>2
  <2> QED
    BY <2>1 DEF Rest
<1> HIDE DEF q, q2, r1, r2, t2
<1>15. Laid(q2, n, r2, m - 1)
  <2>1. /\ \A i \in 1 .. n : q[i].len \in Nat
        /\ \A i \in 2 .. n : q2[i] = q[i]
        /\ \A k \in 1 .. m - 1 : r2[k] = r1[k + 1]
        /\ m \in Nat \ {0} /\ q[1].addr \in Nat
    BY <1>3, <1>4, <1>7, <1>12, <1>13, <1>14
  <2>2. OneBeatOn(q, q2, n)
    BY <1>11, <1>12, <1>13 DEF OneBeatOn
  <2> QED
    BY <2>1, <2>2, <1>5, LaidShorter
<1>16. ASSUME NEW i \in 1 .. n
       PROVE  /\ q2[i].len \in Nat
              /\ o[i].id = q2[i].id /\ o[i].ok = Good(q2[i].addr + q2[i].len)
  <2>1. CASE i = 1
    <3>1. q2[1].len \in Nat /\ q2[1].addr + q2[1].len = q[1].addr + q[1].len
      <4>1. \A c \in Nat, d \in Nat \ {0} : d - 1 \in Nat /\ (c + 1) + (d - 1) = c + d
        OBVIOUS
      <4>2. q[1].addr \in Nat /\ q[1].len \in Nat \ {0}
        BY <1>3, <1>11, <1>12
      <4> QED
        BY <4>1, <4>2, <1>12
    <3> QED
      BY <2>1, <3>1, <1>4, <1>12
  <2>2. CASE i # 1
    <3>1. i \in 2 .. n
      BY <2>2
    <3> QED
      BY <3>1, <1>4, <1>13
  <2> QED
    BY <2>1, <2>2
<1>17. ASSUME NEW k \in 1 .. m - 1 PROVE SameBeat(f[(p + 1) + k], t2[k])
  <2>1. k + 1 \in 1 .. m
    OBVIOUS
  <2> QED
    BY <2>1, <1>6, <1>7, <1>14
<1>18. a2 # <<>> /\ Len(f) = (p + 1) + (m - 1) /\ p + 1 \in Nat
  BY <1>2, <1>8, EmptySeq
<1> QED
  BY <1>2, <1>7, <1>8, <1>15, <1>16, <1>17, <1>18 DEF WriteOrder, SameBeat, q2, r2, t2

\* It was the last of its burst.
LEMMA WriteEnds ==
  ASSUME NEW a \in Seq(Request), NEW o \in Seq(WriteReply), NEW t \in Seq(WriteBeats),
         NEW f \in Seq(PlacedBeat), NEW p, WriteOrder(a, o, t, f, p), a # <<>>, t[1].last
  PROVE  WriteOrder(Tail(a), Tail(o), Tail(t), SubSeq(f, p + 2, Len(f)), 0)
<1>1. PICK n \in Nat \ {0}, m \in Nat : n = Len(a) /\ m = Len(t)
  BY LenNotEmpty
<1>2. /\ p \in Nat /\ Len(o) = n /\ Len(f) = p + m
  BY <1>1 DEF WriteOrder
<1>3. /\ t # <<>> /\ o # <<>> /\ p + 1 \in 1 .. Len(f)
      /\ Left(a, o, p)[1].len = 0
  <2>1. t # <<>> /\ o # <<>>
    BY FirstWrite
  <2>2. p + 1 \in 1 .. Len(f)
    BY FirstWrite
  <2>4. Left(a, o, p)[1].len = 0
    BY FirstWrite
  <2> QED
    BY <2>1, <2>2, <2>4
<1> DEFINE q == Left(a, o, p)
           a2 == Tail(a)
           o2 == Tail(o)
           t2 == Tail(t)
           f2 == SubSeq(f, p + 2, Len(f))
           q2 == Left(a2, o2, 0)
           r1 == Rest(f, p, m)
           r2 == Rest(f2, 0, m - 1)
<1>4. \A i \in 1 .. n : /\ q[i].len \in Nat
                        /\ o[i].id = q[i].id /\ o[i].ok = Good(q[i].addr + q[i].len)
  BY <1>1 DEF WriteOrder
<1>5. Laid(q, n, r1, m)
  BY <1>1 DEF WriteOrder
<1>6. \A k \in 1 .. m : SameBeat(f[p + k], t[k])
  BY <1>1 DEF WriteOrder, SameBeat
<1>7. /\ Len(t2) = m - 1 /\ \A k \in 1 .. m - 1 : t2[k] = t[k + 1]
      /\ m # 0
  BY <1>1, <1>3, HeadTailProperties, LenNotEmpty
<1>8. Len(a2) = n - 1 /\ \A i \in 1 .. n - 1 : a2[i] = a[i + 1]
  BY <1>1, HeadTailProperties
<1>9. Len(o2) = n - 1 /\ \A i \in 1 .. n - 1 : o2[i] = o[i + 1]
  BY <1>2, <1>3, HeadTailProperties
<1>10. /\ Len(f2) = m - 1
       /\ \A k \in 1 .. m - 1 : f2[k] = f[p + (k + 1)]
  <2>1. p + 2 \in 1 .. Len(f) + 1 /\ Len(f) \in Nat
    BY <1>2, <1>3
  <2>2. /\ Len(f2) = IF p + 2 <= Len(f) THEN Len(f) - (p + 2) + 1 ELSE 0
        /\ \A i \in 1 .. Len(f) - (p + 2) + 1 : f2[i] = f[(p + 2) + i - 1]
    BY <2>1, SubSeqProperties
  <2>3. Len(f) - (p + 2) + 1 = m - 1 /\ (p + 2 <= Len(f) <=> m >= 2)
    BY <1>2
  <2>4. \A k \in 1 .. m - 1 : (p + 2) + k - 1 = p + (k + 1)
    BY <1>2
  <2>5. m >= 1
    BY <1>7
  <2> HIDE DEF f2
  <2>6. m \in Nat /\ p \in Nat /\ Len(f) \in Nat
    BY <1>2, <2>1
  <2>7. Len(f2) = m - 1
    BY ONLY <2>2, <2>3, <2>5, <2>6
  <2>8. ASSUME NEW k \in 1 .. m - 1 PROVE f2[k] = f[p + (k + 1)]
    <3>1. k \in 1 .. Len(f) - (p + 2) + 1
      BY <2>3
    <3>2. f2[k] = f[(p + 2) + k - 1]
      BY <3>1, <2>2
    <3> QED
      BY <3>2, <2>4
  <2> QED
    BY <2>7, <2>8
<1> HIDE DEF a2, o2, t2, f2
<1>11. ASSUME NEW i \in 1 .. n - 1 PROVE q2[i] = q[i + 1]
  <2>1. i \in 1 .. Len(a2) /\ i + 1 \in 1 .. Len(a) /\ i + 1 # 1
    BY <1>1, <1>8
  <2>2. a2[i] = a[i + 1] /\ o2[i] = o[i + 1]
    BY <1>8, <1>9
  <2>3. (IF i = 1 THEN 0 ELSE 0) = 0
    OBVIOUS
  <2> QED
    BY <2>1, <2>2, <2>3 DEF Left
<1>12. ASSUME NEW k \in 1 .. m - 1 PROVE r2[k] = r1[k + 1] /\ f2[0 + k] = f[p + (k + 1)]
  <2>1. k + 1 \in 1 .. m /\ 0 + k = k
    OBVIOUS
  <2> QED
    BY <2>1, <1>10 DEF Rest
<1> HIDE DEF q, q2, r1, r2
<1>13. Laid(q2, n - 1, r2, m - 1)
  <2>1. /\ \A i \in 1 .. n : q[i].len \in Nat
        /\ \A i \in 1 .. n - 1 : q2[i] = q[i + 1]
        /\ \A k \in 1 .. m - 1 : r2[k] = r1[k + 1]
        /\ m \in Nat \ {0} /\ q[1].len = 0
    BY <1>3, <1>4, <1>7, <1>11, <1>12 DEF q
  <2> QED
    BY <2>1, <1>5, LaidPop
<1>14. ASSUME NEW i \in 1 .. n - 1
       PROVE  /\ q2[i].len \in Nat
              /\ o2[i].id = q2[i].id /\ o2[i].ok = Good(q2[i].addr + q2[i].len)
  <2>1. i + 1 \in 1 .. n
    OBVIOUS
  <2> QED
    BY <2>1, <1>4, <1>9, <1>11
<1>15. ASSUME NEW k \in 1 .. m - 1 PROVE SameBeat(f2[0 + k], t2[k])
  <2>1. k + 1 \in 1 .. m
    OBVIOUS
  <2> QED
    BY <2>1, <1>6, <1>7, <1>12
<1>16. m - 1 = 0 + (m - 1)
  OBVIOUS
<1> QED
  BY <1>7, <1>8, <1>9, <1>10, <1>13, <1>14, <1>15, <1>16
     DEF WriteOrder, SameBeat, a2, o2, t2, f2, q2, r2

\* The beats of a write, where they go.
LEMMA PlacedBurst ==
  ASSUME NEW x \in Request, NEW d \in Seq(WriteBeats), Len(d) = x.len + 1,
         \A k \in 1 .. Len(d) : d[k].last = (k = Len(d))
  PROVE  /\ Placed(x, d) \in Seq(PlacedBeat) /\ Len(Placed(x, d)) = x.len + 1
         /\ \A k \in 0 .. x.len : IsBeat(Placed(x, d)[k + 1], x, k)
         /\ \A k \in 1 .. Len(d) : SameBeat(Placed(x, d)[k], d[k])
<1>1. PICK n \in Nat : n = Len(d)
  BY LenProperties
<1>2. x.len \in Nat /\ x.addr \in Nat /\ x.id \in Nat /\ n = x.len + 1
  BY <1>1 DEF Request
<1> DEFINE e(k) == [id |-> x.id, addr |-> x.addr + k - 1, data |-> d[k].data,
                    strb |-> d[k].strb, last |-> d[k].last]
           g == Placed(x, d)
<1>3. g = [k \in 1 .. n |-> e(k)]
  BY <1>1 DEF Placed
<1>4. ASSUME NEW k \in 1 .. n PROVE e(k) \in PlacedBeat
  <2>1. d[k] \in WriteBeats
    BY <1>1, ElementOfSeq
  <2>2. x.addr + k - 1 \in Nat
    BY <1>2
  <2> QED
    BY <2>1, <2>2, <1>2 DEF WriteBeats, PlacedBeat
<1> HIDE DEF e
<1>5. g \in Seq(PlacedBeat) /\ Len(g) = n
  BY <1>3, <1>4, IsASeq, LenProperties
<1>6. ASSUME NEW k \in 0 .. x.len PROVE IsBeat(g[k + 1], x, k)
  <2>1. k + 1 \in 1 .. n /\ x.addr + (k + 1) - 1 = x.addr + k /\ (k + 1 = n <=> k = x.len)
    BY <1>2
  <2>2. g[k + 1] = e(k + 1)
    BY <1>3, <2>1
  <2>3. d[k + 1].last = (k + 1 = n)
    BY <1>1, <2>1
  <2> QED
    BY <2>1, <2>2, <2>3 DEF IsBeat, e
<1>7. ASSUME NEW k \in 1 .. Len(d) PROVE SameBeat(g[k], d[k])
  BY <1>1, <1>3 DEF SameBeat, e
<1> QED
  BY <1>2, <1>5, <1>6, <1>7

\* A beat that goes from the plan to the channel keeps its place.
LEMMA OneOver ==
  ASSUME NEW S, NEW q \in Seq(S), NEW rest \in Seq(S), rest # <<>>
  PROVE  Append(q, Head(rest)) \o Tail(rest) = q \o rest
<1>1. PICK m \in Nat, n \in Nat \ {0} : m = Len(q) /\ n = Len(rest)
  BY LenNotEmpty
<1>2. /\ Head(rest) = rest[1] /\ rest[1] \in S
      /\ Tail(rest) \in Seq(S) /\ Len(Tail(rest)) = n - 1
      /\ \A k \in 1 .. n - 1 : Tail(rest)[k] = rest[k + 1]
  BY <1>1, HeadTailProperties, TailType
<1> DEFINE a == Append(q, rest[1])
           u == Tail(rest)
           c == a \o u
           d == q \o rest
<1>3. a \in Seq(S) /\ Len(a) = m + 1 /\ a[m + 1] = rest[1] /\ \A i \in 1 .. m : a[i] = q[i]
  BY <1>1, <1>2, AppendProperties
<1>4. /\ d \in Seq(S) /\ Len(d) = Len(q) + Len(rest)
      /\ \A k \in 1 .. Len(q) : d[k] = q[k]
      /\ \A k \in 1 .. Len(rest) : d[Len(q) + k] = rest[k]
  <2>1. q \in Seq(S) /\ rest \in Seq(S)
    OBVIOUS
  <2> QED
    BY ONLY <2>1, ConcatAt
<1> HIDE DEF a, u, d
<1>5. /\ c \in Seq(S) /\ Len(c) = Len(a) + Len(u)
      /\ \A k \in 1 .. Len(a) : c[k] = a[k]
      /\ \A k \in 1 .. Len(u) : c[Len(a) + k] = u[k]
  <2>1. a \in Seq(S) /\ u \in Seq(S)
    BY <1>2, <1>3 DEF u
  <2> QED
    BY ONLY <2>1, ConcatAt DEF c
<1> HIDE DEF c
<1>6. Len(u) = n - 1 /\ \A k \in 1 .. n - 1 : u[k] = rest[k + 1]
  BY <1>2 DEF u
<1>7. Len(c) = m + n /\ Len(d) = m + n
  <2>1. (m + 1) + (n - 1) = m + n
    OBVIOUS
  <2> QED
    BY <2>1, <1>1, <1>3, <1>4, <1>5, <1>6
<1>8. ASSUME NEW i \in 1 .. m + n PROVE c[i] = d[i]
  <2>1. CASE i \in 1 .. m
    <3>1. i \in 1 .. m + 1
      BY <2>1
    <3> QED
      BY <2>1, <3>1, <1>1, <1>3, <1>4, <1>5
  <2>2. CASE i = m + 1
    <3>1. 1 \in 1 .. n /\ m + 1 \in 1 .. m + 1
      OBVIOUS
    <3> QED
      BY <2>2, <3>1, <1>1, <1>3, <1>4, <1>5
  <2>3. CASE i \in m + 2 .. m + n
    <3>1. PICK k \in 1 .. n - 1 : i = (m + 1) + k
      <4>1. i - m - 1 \in 1 .. n - 1 /\ i = (m + 1) + (i - m - 1)
        BY <2>3
      <4> QED
        BY <4>1
    <3>2. k + 1 \in 1 .. n /\ m + (k + 1) = i
      BY <3>1
    <3>3. c[i] = u[k]
      BY <3>1, <1>3, <1>5, <1>6
    <3>4. d[i] = rest[k + 1]
      BY <3>2, <1>1, <1>4
    <3> QED
      BY <3>3, <3>4, <1>6
  <2> QED
    BY <2>1, <2>2, <2>3
<1>9. c = d
  BY <1>4, <1>5, <1>7, <1>8, SeqEqual
<1> QED
  BY <1>2, <1>9 DEF a, u, c, d

\* The answer that the master takes now is for beats that are there.
LEMMA AckedAre ==
  ASSUME DramType, WriteInv
  PROVE  /\ Acked \in 0 .. Len(inFlight)
         /\ WritesOwed \in Seq(WriteReply)
         /\ Unanswered \in Seq(PlacedBeat) /\ Len(Unanswered) = Len(inFlight) - Acked
         /\ \A k \in 1 .. Len(inFlight) - Acked : Unanswered[k] = inFlight[Acked + k]
         /\ Answered = SubSeq(inFlight, 1, Acked) /\ Len(Answered) = Acked
         /\ Part \in 0 .. Len(Unanswered)
         /\ TakesB => Part = 0
<1>1. inFlight \in Seq(PlacedBeat) /\ owedB \in Seq(WriteReply) /\ b.valid \in BOOLEAN
  BY DEF DramType
<1>2. PICK n \in Nat : n = Len(inFlight)
  BY <1>1, LenProperties
<1>3. Part \in Nat /\ Len(Unanswered) = Part + Len(BeatsToCome)
  BY DEF WriteInv, WriteOrder
<1>4. BeatsToCome \in Seq(WriteBeats)
  <2>1. Kept(w, ready.w) \in WriteBeats \cup {None} /\ wQueue \in Seq(WriteBeats)
        /\ plan \in Seq(WriteBeats)
    BY DEF DramType, Kept
  <2>2. PICK u \in Seq(WriteBeats) : u = Line(wQueue, Kept(w, ready.w))
    BY <2>1, LineType
  <2> QED
    BY <2>1, <2>2, ConcatAt DEF BeatsToCome
<1>5. Len(BeatsToCome) \in Nat
  BY <1>4, LenProperties
<1>6. TakesB => /\ owedB # <<>> /\ Head(owedB).beats \in Nat
                /\ Acked = Head(owedB).beats
                /\ Head(owedB).beats = Landed /\ Landed <= n /\ Landed = Acked + Part + 0
  <2>1. SUFFICES ASSUME TakesB
                 PROVE  /\ owedB # <<>> /\ Head(owedB).beats \in Nat
                        /\ Acked = Head(owedB).beats
                        /\ Head(owedB).beats = Landed /\ Landed <= n /\ Landed = Acked + Part + 0
    OBVIOUS
  <2>2. b.valid /\ ~Refused
    BY <2>1 DEF TakesB, Refused
  <2>3. owedB # <<>> /\ Head(owedB).beats = Landed /\ Landed <= n
    BY <2>2, <1>2 DEF WriteInv
  <2>4. Head(owedB).beats \in Nat
    <3>1. Head(owedB) = owedB[1] /\ owedB[1] \in WriteReply
      BY <2>3, <1>1, TailType
    <3> QED
      BY <3>1 DEF WriteReply
  <2>5. Landed = Acked + Part + 0
    BY <2>2 DEF Landed
  <2> QED
    BY <2>1, <2>3, <2>4, <2>5 DEF Acked
<1>7. Acked \in 0 .. n
  <2>1. CASE TakesB
    <3>1. Acked \in Nat /\ Acked <= n
      BY <2>1, <1>6
    <3> QED
      BY <3>1
  <2>2. CASE ~TakesB
    BY <2>2 DEF Acked
  <2> QED
    BY <2>1, <2>2
<1>8. TakesB => Part = 0
  <2>1. TakesB => Acked = Acked + Part + 0 /\ Acked \in Nat
    BY <1>6
  <2> QED
    BY <2>1, <1>3
<1>9. WritesOwed \in Seq(WriteReply)
  BY <1>1, <1>6, TailType DEF WritesOwed
<1>10. PICK k \in 0 .. n : k = Acked
  BY <1>7
<1> DEFINE u == SubSeq(inFlight, k + 1, n)
<1>11. /\ u \in Seq(PlacedBeat)
       /\ Len(u) = n - k
       /\ \A i \in 1 .. n - k : u[i] = inFlight[k + i]
  <2>1. /\ u \in Seq(PlacedBeat)
        /\ Len(u) = IF k + 1 <= n THEN n - (k + 1) + 1 ELSE 0
        /\ \A i \in 1 .. n - (k + 1) + 1 : u[i] = inFlight[(k + 1) + i - 1]
    BY <1>1, <1>2, SubSeqProperties
  <2>2. /\ n - (k + 1) + 1 = n - k
        /\ \A i \in 1 .. n - k : (k + 1) + i - 1 = k + i
        /\ ~(k + 1 <= n) => n - k = 0
    OBVIOUS
  <2> HIDE DEF u
  <2> QED
    BY <2>1, <2>2
<1>12. Unanswered = u
  BY <1>2, <1>10 DEF Unanswered
<1>13. Answered = SubSeq(inFlight, 1, k) /\ Len(SubSeq(inFlight, 1, k)) = k
  <2>1. SubSeq(inFlight, 1, 0) = <<>>
    BY <1>1, SubSeqEmpty
  <2>2. Answered = SubSeq(inFlight, 1, k)
    <3>1. CASE TakesB
      BY <3>1, <1>6, <1>10 DEF Answered
    <3>2. CASE ~TakesB
      BY <3>2, <2>1, <1>10 DEF Answered, Acked
    <3> QED
      BY <3>1, <3>2
  <2>3. Len(SubSeq(inFlight, 1, k)) = k
    <3>1. Len(SubSeq(inFlight, 1, k)) = IF 1 <= k THEN k - 1 + 1 ELSE 0
      BY <1>1, <1>2, SubSeqProperties
    <3> QED
      BY <3>1
  <2> QED
    BY <2>2, <2>3
<1> HIDE DEF u
<1>14. Part \in 0 .. Len(Unanswered)
  <2>1. \A i, j \in Nat : i \in 0 .. i + j
    OBVIOUS
  <2> QED
    BY <2>1, <1>3, <1>5
<1> QED
  BY <1>2, <1>8, <1>9, <1>10, <1>11, <1>12, <1>13, <1>14

\* A write as the channels get it: as many beats as it asks for, and the last one marked.
LEMMA WriteBurstIs ==
  ASSUME NEW write \in WriteBurst \cup {None}
  PROVE  /\ DataOf(write) \in Seq(WriteBeats)
         /\ AwOf(write) = None <=> write = None
         /\ AwOf(write) # None =>
              /\ AwOf(write) \in Request
              /\ Len(DataOf(write)) = AwOf(write).len + 1
              /\ \A k \in 1 .. Len(DataOf(write)) :
                   DataOf(write)[k].last = (k = Len(DataOf(write)))
<1>1. CASE write = None
  BY <1>1 DEF DataOf, AwOf
<1>2. CASE write # None
  <2>1. /\ write \in WriteBurst /\ write.addr \in Nat
        /\ write.data \in Seq(WriteBeats) /\ write.data # <<>>
        /\ \A k \in 1 .. Len(write.data) : write.data[k].last = (k = Len(write.data))
    BY <1>2, BurstAssumption
  <2>2. PICK d \in Seq(WriteBeats), at \in Nat : d = write.data /\ at = write.addr
    BY <2>1
  <2>3. Len(d) \in Nat /\ Len(d) # 0
    BY <2>1, <2>2, LenNotEmpty
  <2>4. PICK len \in Nat : len = Len(d) - 1 /\ Len(d) = len + 1
    <3>1. Len(d) - 1 \in Nat /\ Len(d) = (Len(d) - 1) + 1
      BY <2>3
    <3> QED
      BY <3>1
  <2>5. DataOf(write) = d /\ AwOf(write) = [id |-> at, addr |-> at, len |-> len]
    BY <1>2, <2>2, <2>4 DEF DataOf, AwOf
  <2>6. [id |-> at, addr |-> at, len |-> len] \in Request
    BY DEF Request
  <2>7. None \notin Request
    BY BurstAssumption
  <2> QED
    BY <1>2, <2>1, <2>2, <2>4, <2>5, <2>6, <2>7
<1> QED
  BY <1>1, <1>2

\* The write side after the clock edge.
LEMMA WriteEdge ==
  ASSUME DramType, WriteInv, NEW newAr, NEW write \in WriteBurst \cup {None},
         NEW toW \in BOOLEAN, NEW takeR, NEW takeB \in BOOLEAN,
         Edge(newAr, AwOf(write), DataOf(write), toW, takeR, takeB)
  PROVE  /\ aw' \in Request \cup {None} /\ w' \in WriteBeats \cup {None}
         /\ plan' \in Seq(WriteBeats) /\ bready' \in BOOLEAN
         /\ owedB' \in Seq(WriteReply) /\ inFlight' \in Seq(PlacedBeat)
         /\ \E g \in Seq(PlacedBeat) : inFlight' = Unanswered \o g
         /\ settled' = PutAll(settled, SubSeq(inFlight, 1, Acked))
         /\ WriteOrder(Line(awQueue, aw'), owedB', Line(wQueue, w') \o plan', inFlight', Part)
<1> DEFINE newAw == AwOf(write)
           data == DataOf(write)
           reg == Kept(w, ready.w)
           rest == IF newAw = None THEN plan ELSE data
<1>1. /\ awQueue \in Seq(Request) /\ aw \in Request \cup {None} /\ ready.aw \in BOOLEAN
      /\ wQueue \in Seq(WriteBeats) /\ w \in WriteBeats \cup {None} /\ ready.w \in BOOLEAN
      /\ plan \in Seq(WriteBeats)
  BY DEF DramType
<1>2. /\ data \in Seq(WriteBeats)
      /\ newAw # None =>
           /\ newAw \in Request
           /\ Len(data) = newAw.len + 1
           /\ \A k \in 1 .. Len(data) : data[k].last = (k = Len(data))
  BY WriteBurstIs
<1>3. /\ newAw # None => Kept(aw, ready.aw) = None /\ plan = <<>>
      /\ toW => reg = None /\ rest # <<>>
      /\ aw' = IF newAw # None THEN newAw ELSE Kept(aw, ready.aw)
      /\ w' = IF toW THEN Head(rest) ELSE reg
      /\ plan' = IF toW THEN Tail(rest) ELSE rest
      /\ bready' = takeB
      /\ settled' = PutAll(settled, Answered)
      /\ owedB' = WritesOwed \o (IF newAw # None
                                   THEN <<[id |-> newAw.id, beats |-> newAw.len + 1,
                                           ok |-> Good(newAw.addr + newAw.len)]>>
                                   ELSE <<>>)
      /\ inFlight' = SubSeq(inFlight, Len(Answered) + 1, Len(inFlight))
                       \o (IF newAw # None THEN Placed(newAw, data) ELSE <<>>)
  BY HeldKept DEF Edge, WritesOwed
<1> HIDE DEF newAw, data
<1>4. /\ Acked \in 0 .. Len(inFlight)
      /\ WritesOwed \in Seq(WriteReply)
      /\ Unanswered \in Seq(PlacedBeat)
      /\ Answered = SubSeq(inFlight, 1, Acked) /\ Len(Answered) = Acked
  BY AckedAre
<1>5. rest \in Seq(WriteBeats)
  BY <1>1, <1>2
<1>6. reg \in WriteBeats \cup {None} /\ Kept(aw, ready.aw) \in Request \cup {None}
  BY <1>1 DEF Kept
<1>7. aw' \in Request \cup {None}
  BY <1>2, <1>3, <1>6
<1>8. PICK l0 \in Seq(WriteBeats) : l0 = Line(wQueue, reg)
  BY <1>1, <1>6, LineType
<1>9. /\ w' \in WriteBeats \cup {None} /\ plan' \in Seq(WriteBeats)
      /\ Line(wQueue, w') \o plan' = l0 \o rest
  <2>1. CASE toW
    <3>1. rest # <<>> /\ reg = None /\ l0 = wQueue
      BY <2>1, <1>3, <1>8 DEF Line
    <3>2. PICK u \in Seq(WriteBeats) : u = rest
      BY <1>5
    <3>3. /\ Head(u) \in WriteBeats /\ Tail(u) \in Seq(WriteBeats)
      BY <3>1, <3>2, TailType
    <3>4. w' = Head(u) /\ plan' = Tail(u)
      BY <2>1, <3>2, <1>3
    <3>5. None \notin WriteBeats
      BY BurstAssumption
    <3>6. Line(wQueue, w') = Append(wQueue, Head(u))
      BY <3>3, <3>4, <3>5 DEF Line
    <3>7. Append(wQueue, Head(u)) \o Tail(u) = wQueue \o u
      BY <1>1, <3>1, <3>2, OneOver
    <3> QED
      BY <3>1, <3>2, <3>3, <3>4, <3>6, <3>7
  <2>2. CASE ~toW
    BY <2>2, <1>3, <1>5, <1>6, <1>8
  <2> QED
    BY <2>1, <2>2
<1>10. WriteOrder(Line(awQueue, Kept(aw, ready.aw)), WritesOwed, l0 \o plan, Unanswered, Part)
  BY <1>8 DEF WriteInv, WritesAsked, BeatsToCome
<1> HIDE DEF reg
<1>11. PICK a \in Seq(Request) : a = Line(awQueue, Kept(aw, ready.aw))
  BY <1>1, <1>6, LineType
<1>12. CASE newAw = None
  <2>1. owedB' = WritesOwed \o <<>> /\ WritesOwed \o <<>> = WritesOwed
    BY <1>3, <1>4, <1>12, ConcatSimplifications, ConcatEmptySeq
  <2>2. PICK g \in Seq(PlacedBeat) : g = <<>>
    BY EmptySeq
  <2>3. inFlight' = Unanswered \o g
    BY <1>3, <1>4, <1>12, <2>2 DEF Unanswered
  <2>4. Unanswered \o g = Unanswered
    BY <1>4, <2>2, ConcatEmptySeq
  <2>5. Line(awQueue, aw') = Line(awQueue, Kept(aw, ready.aw)) /\ rest = plan
    BY <1>3, <1>12
  <2>6. WriteOrder(Line(awQueue, aw'), owedB', Line(wQueue, w') \o plan', inFlight', Part)
    BY <1>9, <1>10, <2>1, <2>3, <2>4, <2>5
  <2> QED
    BY <1>3, <1>4, <1>7, <1>9, <2>1, <2>3, <2>4, <2>6
<1>13. CASE newAw # None
  <2>1. PICK x \in Request, d \in Seq(WriteBeats) : x = newAw /\ d = data
    BY <1>2, <1>13
  <2>2. /\ Kept(aw, ready.aw) = None /\ plan = <<>> /\ aw' = x /\ rest = d
        /\ Len(d) = x.len + 1 /\ \A k \in 1 .. Len(d) : d[k].last = (k = Len(d))
    BY <1>2, <1>3, <1>13, <2>1
  <2>3. PICK g \in Seq(PlacedBeat) :
          /\ g = Placed(x, d) /\ Len(g) = x.len + 1
          /\ \A k \in 0 .. x.len : IsBeat(g[k + 1], x, k)
          /\ \A k \in 1 .. Len(d) : SameBeat(g[k], d[k])
    BY <2>2, PlacedBurst
  <2>4. PICK y \in WriteReply :
          y = [id |-> x.id, beats |-> x.len + 1, ok |-> Good(x.addr + x.len)]
    <3>1. x.id \in Nat /\ x.len + 1 \in Nat /\ Good(x.addr + x.len) \in BOOLEAN
      BY DEF Request, Good
    <3> QED
      BY <3>1 DEF WriteReply
  <2>5. y.id = x.id /\ y.beats = x.len + 1 /\ y.ok = Good(x.addr + x.len)
    BY <2>4
  <2>6. PICK o \in Seq(WriteReply), f \in Seq(PlacedBeat) : o = WritesOwed /\ f = Unanswered
    BY <1>4
  <2>7. inFlight' = f \o g
    BY <1>3, <1>4, <1>13, <2>1, <2>3, <2>6 DEF Unanswered
  <2>8. owedB' = o \o <<y>>
    BY <1>3, <1>13, <2>1, <2>4, <2>6
  <2>9. o \o <<y>> = Append(o, y) /\ Append(o, y) \in Seq(WriteReply)
    BY AppendIsConcat, AppendProperties
  <2>10. f \o g \in Seq(PlacedBeat)
    BY ConcatAt
  <2>11. l0 \o plan = l0 /\ Line(awQueue, Kept(aw, ready.aw)) = awQueue
    BY <2>2, ConcatEmptySeq DEF Line
  <2>12. WriteOrder(awQueue, o, l0, f, Part)
    BY <1>10, <2>6, <2>11
  <2>13. WriteOrder(Append(awQueue, x), Append(o, y), l0 \o d, f \o g, Part)
    BY <1>1, <2>2, <2>3, <2>5, <2>12, WriteMore
  <2>14. Line(awQueue, aw') = Append(awQueue, x)
    BY <1>13, <2>1, <2>2 DEF Line
  <2>15. WriteOrder(Line(awQueue, aw'), owedB', Line(wQueue, w') \o plan', inFlight', Part)
    BY <1>9, <2>2, <2>7, <2>8, <2>9, <2>13, <2>14
  <2> QED
    BY <1>3, <1>4, <1>7, <1>9, <2>6, <2>7, <2>8, <2>9, <2>10, <2>15
<1> QED
  BY <1>12, <1>13

\* What has landed is what was answered, what is done of the first burst, and the beat
\* whose answer is refused.
LEMMA LandedIs ==
  ASSUME DramType, WriteInv
  PROVE  /\ Landed \in Acked .. Len(inFlight) /\ Landed \in Nat
         /\ Landed - Acked \in {Part, Part + 1} /\ Landed - Acked \in 0 .. Len(Unanswered)
         /\ ~Refused => Landed - Acked = Part
<1>1. /\ Acked \in 0 .. Len(inFlight) /\ Len(Unanswered) = Len(inFlight) - Acked
      /\ Part \in 0 .. Len(Unanswered)
  BY AckedAre
<1>2. inFlight \in Seq(PlacedBeat)
  BY DEF DramType
<1>3. PICK n \in Nat, k \in Nat, p \in Nat : n = Len(inFlight) /\ k = Acked /\ p = Part
  BY <1>1, <1>2, LenProperties
<1>4. Refused => Landed <= n
  BY <1>3 DEF WriteInv, Refused
<1>5. Landed = IF Refused THEN k + p + 1 ELSE k + p + 0
  BY <1>3 DEF Landed
<1>6. k <= n /\ p <= n - k /\ Len(Unanswered) = n - k
  BY <1>1, <1>3
<1> QED
  BY <1>3, <1>4, <1>5, <1>6

\* Memory, after the master has counted the answered beats as written.
LEMMA MemoryEdge ==
  ASSUME DramType, WriteInv, dram = PutAll(settled, SubSeq(inFlight, 1, Landed)),
         NEW g \in Seq(PlacedBeat), NEW m, m = PutAll(settled, SubSeq(inFlight, 1, Acked))
  PROVE  /\ m \in Memory
         /\ dram = PutAll(m, SubSeq(Unanswered \o g, 1, Landed - Acked))
<1>1. /\ Acked \in 0 .. Len(inFlight)
      /\ Unanswered \in Seq(PlacedBeat) /\ Len(Unanswered) = Len(inFlight) - Acked
      /\ \A k \in 1 .. Len(inFlight) - Acked : Unanswered[k] = inFlight[Acked + k]
  BY AckedAre
<1>2. inFlight \in Seq(PlacedBeat) /\ settled \in Memory
  BY DEF DramType
<1>3. PICK s \in Seq(PlacedBeat), n \in Nat, k \in 0 .. Len(inFlight), u \in Seq(PlacedBeat) :
        s = inFlight /\ n = Len(s) /\ k = Acked /\ u = Unanswered
  BY <1>1, <1>2, LenProperties
<1>4. PICK j \in k .. n : j = Landed
  BY <1>3, LandedIs
<1>5. k \in 0 .. n /\ j - k \in 0 .. n - k
  BY <1>3
<1>6. Len(u) = n - k /\ \A i \in 1 .. n - k : u[i] = s[k + i]
  BY <1>1, <1>3
<1>7. PutAll(PutAll(settled, SubSeq(s, 1, k)), SubSeq(s, k + 1, j)) = PutAll(settled, SubSeq(s, 1, j))
  BY <1>2, <1>3, <1>5, PutInTwo
<1> DEFINE c == u \o g
           x == SubSeq(s, k + 1, j)
           y == SubSeq(c, 1, j - k)
<1>8. /\ c \in Seq(PlacedBeat) /\ Len(c) = Len(u) + Len(g) /\ Len(g) \in Nat
      /\ \A i \in 1 .. Len(u) : c[i] = u[i]
  <2>1. u \in Seq(PlacedBeat) /\ g \in Seq(PlacedBeat)
    OBVIOUS
  <2> QED
    BY ONLY <2>1, ConcatAt
<1> HIDE DEF c
<1>9. /\ x \in Seq(PlacedBeat) /\ Len(x) = j - k
      /\ \A i \in 1 .. j - k : x[i] = s[k + i]
  <2>1. k + 1 \in 1 .. Len(s) + 1 /\ j \in 0 .. Len(s)
    BY <1>3, <1>5
  <2>2. /\ x \in Seq(PlacedBeat)
        /\ Len(x) = IF k + 1 <= j THEN j - (k + 1) + 1 ELSE 0
        /\ \A i \in 1 .. j - (k + 1) + 1 : x[i] = s[(k + 1) + i - 1]
    BY <2>1, SubSeqProperties
  <2>3. /\ j - (k + 1) + 1 = j - k
        /\ \A i \in 1 .. j - k : (k + 1) + i - 1 = k + i
        /\ ~(k + 1 <= j) => j - k = 0
    BY <1>5
  <2> HIDE DEF x
  <2> QED
    BY <2>2, <2>3
<1>10. /\ y \in Seq(PlacedBeat) /\ Len(y) = j - k
       /\ \A i \in 1 .. j - k : y[i] = c[i]
  <2>1. j - k \in 0 .. Len(c) /\ 1 \in 1 .. Len(c) + 1
    BY <1>5, <1>6, <1>8
  <2>2. /\ y \in Seq(PlacedBeat)
        /\ Len(y) = IF 1 <= j - k THEN j - k - 1 + 1 ELSE 0
        /\ \A i \in 1 .. j - k - 1 + 1 : y[i] = c[1 + i - 1]
    BY <1>8, <2>1, SubSeqProperties
  <2>3. /\ j - k - 1 + 1 = j - k
        /\ \A i \in 1 .. j - k : 1 + i - 1 = i
        /\ ~(1 <= j - k) => j - k = 0
    BY <1>5
  <2> HIDE DEF y
  <2> QED
    BY <2>2, <2>3
<1> HIDE DEF x, y
<1>11. x = y
  <2>1. ASSUME NEW i \in 1 .. j - k PROVE x[i] = y[i]
    <3>1. i \in 1 .. n - k
      BY <1>5
    <3> QED
      BY <3>1, <1>6, <1>8, <1>9, <1>10
  <2> QED
    BY <2>1, <1>9, <1>10, SeqEqual
<1>12. m \in Memory
  <2>1. 0 \in 0 .. Len(s) /\ k \in 0 .. Len(s)
    BY <1>3
  <2>2. PutAll(settled, SubSeq(s, 0 + 1, k)) \in Memory
    BY <2>1, <1>2, PutAllType
  <2> QED
    BY <2>2, <1>3
<1> QED
  BY <1>3, <1>4, <1>7, <1>11, <1>12 DEF x, y, c

\* What enters a queue enters behind what it holds.
LEMMA PushedType ==
  ASSUME NEW S, NEW q \in Seq(S), NEW x \in S \cup {None}
  PROVE  /\ Push(q, x) \in Seq(S)
         /\ q # <<>> => Push(q, x) # <<>> /\ Head(Push(q, x)) = Head(q)
<1>1. CASE Room(q) /\ x # None
  <2>1. Push(q, x) = Append(q, x)
    BY <1>1 DEF Push
  <2>2. Append(q, x) \in Seq(S)
    BY <1>1, AppendProperties
  <2>3. ASSUME q # <<>> PROVE Append(q, x) # <<>> /\ Head(Append(q, x)) = Head(q)
    <3>1. /\ Line(q, x) # <<>> /\ Line(q, x)[1] = q[1] /\ Head(q) = q[1] /\ Line(q, x) \in Seq(S)
      BY <2>3, LineHead, LineType
    <3>2. Line(q, x) = Append(q, x)
      BY <1>1 DEF Line
    <3>3. Head(Append(q, x)) = Append(q, x)[1]
      BY <2>2, <3>1, <3>2, TailType
    <3> QED
      BY <3>1, <3>2, <3>3
  <2> QED
    BY <2>1, <2>2, <2>3
<1>2. CASE ~(Room(q) /\ x # None)
  BY <1>2 DEF Push
<1> QED
  BY <1>1, <1>2

\* The first of two sequences gives the first element.
LEMMA TailOfConcat ==
  ASSUME NEW S, NEW s \in Seq(S), s # <<>>, NEW t \in Seq(S)
  PROVE  /\ s \o t # <<>> /\ (s \o t)[1] = s[1]
         /\ Tail(s \o t) = Tail(s) \o t
<1>1. PICK m \in Nat \ {0}, n \in Nat : m = Len(s) /\ n = Len(t)
  BY LenNotEmpty
<1> DEFINE c == s \o t
           u == Tail(s)
           d == u \o t
<1>2. /\ c \in Seq(S) /\ Len(c) = Len(s) + Len(t)
      /\ \A k \in 1 .. Len(s) : c[k] = s[k]
      /\ \A k \in 1 .. Len(t) : c[Len(s) + k] = t[k]
  <2>1. s \in Seq(S) /\ t \in Seq(S)
    OBVIOUS
  <2> QED
    BY ONLY <2>1, ConcatAt
<1> HIDE DEF c
<1>3. Len(c) = m + n /\ c[1] = s[1] /\ c # <<>>
  <2>1. Len(c) = m + n /\ c[1] = s[1]
    BY <1>1, <1>2
  <2>2. Len(c) # 0
    BY <2>1
  <2> QED
    BY <2>1, <2>2, <1>2, LenNotEmpty
<1>4. /\ u \in Seq(S) /\ Len(u) = m - 1 /\ \A k \in 1 .. m - 1 : u[k] = s[k + 1]
  BY <1>1, HeadTailProperties
<1> HIDE DEF u
<1>5. /\ d \in Seq(S) /\ Len(d) = Len(u) + Len(t)
      /\ \A k \in 1 .. Len(u) : d[k] = u[k]
      /\ \A k \in 1 .. Len(t) : d[Len(u) + k] = t[k]
  <2>1. u \in Seq(S) /\ t \in Seq(S)
    BY <1>4
  <2> QED
    BY ONLY <2>1, ConcatAt DEF d
<1> HIDE DEF d
<1>6. /\ Tail(c) \in Seq(S) /\ Len(Tail(c)) = m + n - 1
      /\ \A k \in 1 .. m + n - 1 : Tail(c)[k] = c[k + 1]
  <2>1. c \in Seq(S) /\ c # <<>>
    BY <1>2, <1>3
  <2>2. PICK h \in Nat : h = Len(c) /\ h = m + n
    BY <1>1, <1>3
  <2>3. /\ Tail(c) \in Seq(S) /\ Len(Tail(c)) = h - 1
        /\ \A k \in 1 .. h - 1 : Tail(c)[k] = c[k + 1]
    BY <2>1, <2>2, HeadTailProperties
  <2> QED
    BY <2>2, <2>3
<1>7. Len(d) = m + n - 1
  <2>1. (m - 1) + n = m + n - 1
    OBVIOUS
  <2> QED
    BY <2>1, <1>1, <1>4, <1>5
<1>8. ASSUME NEW k \in 1 .. m + n - 1 PROVE Tail(c)[k] = d[k]
  <2>1. CASE k \in 1 .. m - 1
    <3>1. k + 1 \in 1 .. m
      BY <2>1
    <3> QED
      BY <2>1, <3>1, <1>1, <1>2, <1>4, <1>5, <1>6
  <2>2. CASE k \notin 1 .. m - 1
    <3>1. PICK h \in 1 .. n : k = (m - 1) + h /\ k + 1 = m + h
      <4>1. k - m + 1 \in 1 .. n /\ k = (m - 1) + (k - m + 1) /\ k + 1 = m + (k - m + 1)
        BY <2>2
      <4> QED
        BY <4>1
    <3>2. d[k] = t[h]
      BY <3>1, <1>1, <1>4, <1>5
    <3>3. c[k + 1] = t[h]
      BY <3>1, <1>1, <1>2
    <3> QED
      BY <3>2, <3>3, <1>6
  <2> QED
    BY <2>1, <2>2
<1>9. Tail(c) = d
  BY <1>5, <1>6, <1>7, <1>8, SeqEqual
<1> QED
  BY <1>3, <1>9 DEF c, d, u

\* A cycle, on the write side.
LEMMA WriteStep ==
  ASSUME DramType, WriteInv, dram = PutAll(settled, SubSeq(inFlight, 1, Landed)),
         NEW newAr, NEW write \in WriteBurst \cup {None}, NEW toW \in BOOLEAN, NEW takeR,
         NEW takeB \in BOOLEAN,
         Edge(newAr, AwOf(write), DataOf(write), toW, takeR, takeB), Channels
  PROVE  /\ aw' \in Request \cup {None} /\ w' \in WriteBeats \cup {None}
         /\ plan' \in Seq(WriteBeats) /\ bready' \in BOOLEAN
         /\ owedB' \in Seq(WriteReply) /\ inFlight' \in Seq(PlacedBeat)
         /\ awQueue' \in Seq(Request) /\ wQueue' \in Seq(WriteBeats)
         /\ ready'.aw \in BOOLEAN /\ ready'.w \in BOOLEAN /\ b'.valid \in BOOLEAN
         /\ settled' \in Memory /\ dram' \in Memory
         /\ WriteInv'
         /\ dram' = PutAll(settled', SubSeq(inFlight', 1, Landed'))
         /\ \E k \in 0 .. Len(inFlight') : dram = PutAll(settled', SubSeq(inFlight', 1, k))
<1>1. /\ aw' \in Request \cup {None} /\ w' \in WriteBeats \cup {None}
      /\ plan' \in Seq(WriteBeats) /\ bready' \in BOOLEAN
      /\ owedB' \in Seq(WriteReply) /\ inFlight' \in Seq(PlacedBeat)
      /\ \E g \in Seq(PlacedBeat) : inFlight' = Unanswered \o g
      /\ settled' = PutAll(settled, SubSeq(inFlight, 1, Acked))
      /\ WriteOrder(Line(awQueue, aw'), owedB', Line(wQueue, w') \o plan', inFlight', Part)
  BY WriteEdge
<1>2. PICK q \in Seq(Request), wq \in Seq(WriteBeats), x \in Request \cup {None},
           y \in WriteBeats \cup {None}, pl \in Seq(WriteBeats), o \in Seq(WriteReply),
           f \in Seq(PlacedBeat), take \in BOOLEAN :
        /\ q = awQueue /\ wq = wQueue /\ x = aw' /\ y = w' /\ pl = plan' /\ o = owedB'
        /\ f = inFlight' /\ take = bready'
  BY <1>1 DEF DramType
<1>3. PICK p, m, nf : p = Part /\ m = settled' /\ nf = Len(f)
  OBVIOUS
<1>4. PICK l \in Seq(Request), t1 \in Seq(WriteBeats), t \in Seq(WriteBeats) :
        l = Line(q, x) /\ t1 = Line(wq, y) /\ t = t1 \o pl
  <2>1. Line(q, x) \in Seq(Request) /\ Line(wq, y) \in Seq(WriteBeats)
    BY LineType
  <2>2. PICK t1 \in Seq(WriteBeats) : t1 = Line(wq, y)
    BY <2>1
  <2>3. t1 \o pl \in Seq(WriteBeats)
    BY ConcatAt
  <2> QED
    BY <2>1, <2>2, <2>3
<1>5. WriteOrder(l, o, t, f, p)
  BY <1>1, <1>2, <1>3, <1>4
<1>6. p \in Nat /\ nf \in Nat /\ nf = p + Len(t) /\ Len(t) \in Nat
  BY <1>3, <1>5, LenProperties DEF WriteOrder
<1>7. PICK wl, bl : wl = WritesLeft /\ bl = BeatsLeft
  OBVIOUS
<1>8. /\ ready'.aw = Room(wl) /\ ready'.w = Room(bl)
      /\ awQueue' = Push(wl, x) /\ wQueue' = Push(bl, y)
      /\ b' = WriteAnswer /\ dram' = WriteBeat
  BY <1>2, <1>7 DEF Channels
<1>9. WritesAsked' = Line(wl, x) /\ BeatsToCome' = Line(bl, y) \o pl
  BY <1>2, <1>8, LinePushed DEF WritesAsked, BeatsToCome
<1>10. Room(wl) \in BOOLEAN /\ Room(bl) \in BOOLEAN
  BY DEF Room
<1>11. PICK n : n = Landed - Acked
  OBVIOUS
<1>12. /\ n \in {p, p + 1} /\ (~Refused => n = p) /\ n \in Nat /\ n <= nf
       /\ m \in Memory /\ dram = PutAll(m, SubSeq(f, 1, n))
  <2>1. PICK g \in Seq(PlacedBeat) : inFlight' = Unanswered \o g
    BY <1>1
  <2>2. m \in Memory /\ dram = PutAll(m, SubSeq(f, 1, n))
    BY <2>1, <1>1, <1>2, <1>3, <1>11, MemoryEdge
  <2>3. /\ n \in {p, p + 1} /\ n \in 0 .. Len(Unanswered) /\ (~Refused => n = p)
    BY <1>3, <1>11, LandedIs
  <2>4. Len(Unanswered) \in Nat /\ Len(Unanswered) <= nf
    <3>1. PICK u \in Seq(PlacedBeat) : u = Unanswered
      BY AckedAre
    <3>2. Len(u \o g) = Len(u) + Len(g) /\ Len(u) \in Nat /\ Len(g) \in Nat
      BY ConcatAt
    <3>3. nf = Len(u) + Len(g)
      BY <3>1, <3>2, <2>1, <1>2, <1>3
    <3> QED
      BY <3>1, <3>2, <3>3
  <2>5. PICK h \in Nat : h = Len(Unanswered) /\ h <= nf
    BY <2>4
  <2>6. n \in Nat /\ n <= nf
    <3>1. n \in 0 .. h
      BY <2>3, <2>5
    <3>2. nf \in Nat
      BY <1>6
    <3> QED
      BY <3>1, <3>2, <2>5
  <2> QED
    BY <2>2, <2>3, <2>6
<1>13. \E k \in 0 .. Len(inFlight') : dram = PutAll(settled', SubSeq(inFlight', 1, k))
  <2>1. n \in 0 .. nf
    BY <1>6, <1>12
  <2> QED
    BY <2>1, <1>2, <1>3, <1>12
\* The rest follows from what is left, and from the answer.
<1> DEFINE Kept2(flight, part) ==
             /\ Acked' \in Nat /\ Unanswered' = flight /\ flight \in Seq(PlacedBeat)
             /\ WriteOrder(Line(wl, x), WritesOwed', Line(bl, y) \o pl, flight, part)
<1>14. ASSUME NEW flight, NEW part, Kept2(flight, part), NEW k \in 0 .. nf,
              wl \in Seq(Request), bl \in Seq(WriteBeats), b'.valid \in BOOLEAN,
              Refused' = (b'.valid /\ ~take),
              Acked' + part + (IF b'.valid /\ ~take THEN 1 ELSE 0) = k,
              dram' = PutAll(m, SubSeq(f, 1, k)),
              b'.valid => /\ o # <<>> /\ b'.id = o[1].id /\ b'.ok = o[1].ok /\ o[1].beats = k,
              b'.valid /\ ~take => wl = q /\ bl = wq /\ Serving /\ Head(wq).last
       PROVE  /\ awQueue' \in Seq(Request) /\ wQueue' \in Seq(WriteBeats)
              /\ dram' \in Memory /\ WriteInv'
              /\ dram' = PutAll(settled', SubSeq(inFlight', 1, Landed'))
  <2>1. awQueue' \in Seq(Request) /\ wQueue' \in Seq(WriteBeats)
    BY <1>8, <1>14, PushedType
  <2>2. Len(flight) = part + Len(Line(bl, y) \o pl) /\ part \in Nat
    BY <1>14 DEF WriteOrder
  <2>3. Len(Line(bl, y) \o pl) \in Nat
    <3>1. PICK u \in Seq(WriteBeats) : u = Line(bl, y)
      BY <1>14, LineType
    <3>2. u \o pl \in Seq(WriteBeats)
      BY ConcatAt
    <3> QED
      BY <3>1, <3>2, LenProperties
  <2>4. Part' = part
    <3>1. Part' = Len(flight) - Len(Line(bl, y) \o pl)
      BY <1>9, <1>14 DEF Part
    <3> QED
      BY <3>1, <2>2, <2>3
  <2>5. Landed' = k
    BY <2>4, <1>14 DEF Landed
  <2>6. b'.valid => /\ owedB' # <<>> /\ b'.id = Head(owedB').id /\ b'.ok = Head(owedB').ok
                    /\ Head(owedB').beats = Landed' /\ Landed' <= Len(inFlight')
    <3>1. b'.valid => Head(o) = o[1]
      BY <1>14, TailType
    <3>2. k <= Len(inFlight')
      BY <1>2, <1>3, <1>6
    <3> QED
      BY <3>1, <3>2, <2>5, <1>2, <1>14
  <2>7. Refused' => awQueue' # <<>> /\ wQueue' # <<>> /\ Head(wQueue').last
    <3>1. SUFFICES ASSUME b'.valid /\ ~take
                   PROVE  awQueue' # <<>> /\ wQueue' # <<>> /\ Head(wQueue').last
      BY <1>14
    <3>2. wl = q /\ bl = wq /\ q # <<>> /\ wq # <<>> /\ Head(wq).last
      BY <3>1, <1>2, <1>14 DEF Serving
    <3>3. Push(q, x) # <<>> /\ Push(wq, y) # <<>> /\ Head(Push(wq, y)) = Head(wq)
      BY <3>2, PushedType
    <3> QED
      BY <3>2, <3>3, <1>8
  <2>8. WriteOrder(WritesAsked', WritesOwed', BeatsToCome', Unanswered', Part')
    BY <2>4, <1>9, <1>14
  <2>9. WriteInv'
    BY <2>6, <2>7, <2>8 DEF WriteInv, Serving
  <2>10. dram' \in Memory
    <3>1. 0 \in 0 .. Len(f) /\ k \in 0 .. Len(f)
      BY <1>3, <1>6
    <3>2. PutAll(m, SubSeq(f, 0 + 1, k)) \in Memory
      BY <3>1, <1>12, PutAllType
    <3> QED
      BY <3>2, <1>14
  <2> QED
    BY <2>1, <2>5, <2>9, <2>10, <1>2, <1>3, <1>14
<1> HIDE DEF Kept2
<1>15. SUFFICES /\ awQueue' \in Seq(Request) /\ wQueue' \in Seq(WriteBeats)
                /\ dram' \in Memory /\ WriteInv' /\ b'.valid \in BOOLEAN
                /\ dram' = PutAll(settled', SubSeq(inFlight', 1, Landed'))
  BY <1>1, <1>3, <1>8, <1>10, <1>12, <1>13
\* No answer: the master's counts stay.
<1>16. ASSUME ~b'.valid \/ ~take PROVE Acked' = 0 /\ WritesOwed' = o /\ Unanswered' = f
  <2>1. Acked' = 0 /\ WritesOwed' = o
    BY <1>2, <1>16 DEF Acked, WritesOwed, TakesB
  <2>2. Unanswered' = SubSeq(f, 1, Len(f))
    BY <2>1, <1>2 DEF Unanswered
  <2> QED
    BY <2>1, <2>2, SubSeqFull
<1>17. Refused' = (b'.valid /\ ~take)
  BY <1>2 DEF Refused
<1>18. CASE ~Serving
  <2>1. b'.valid = FALSE /\ wl = q /\ bl = wq /\ dram' = dram
    BY <1>2, <1>7, <1>8, <1>18 DEF WriteAnswer, WritesLeft, BeatsLeft, BeatDone, WriteBeat, DramType
  <2>2. n = p
    BY <1>12, <1>18 DEF WriteInv
  <2>3. Kept2(f, p)
    BY <2>1, <1>4, <1>5, <1>16 DEF Kept2
  <2>4. p \in 0 .. nf /\ 0 + p + 0 = p
    BY <1>6
  <2>5. Acked' + p + (IF b'.valid /\ ~take THEN 1 ELSE 0) = p
    BY <2>1, <2>4, <1>16
  <2>6. dram' = PutAll(m, SubSeq(f, 1, p))
    BY <2>1, <2>2, <1>12
  <2> QED
    BY <2>1, <2>3, <2>4, <2>5, <2>6, <1>14, <1>17
<1>19. CASE Serving
  <2>1. q # <<>> /\ wq # <<>>
    BY <1>2, <1>19 DEF Serving
  <2>2. /\ l # <<>> /\ l[1] = q[1] /\ Head(q) = q[1] /\ q[1] \in Request /\ Tail(q) \in Seq(Request)
        /\ Tail(l) = Line(Tail(q), x)
    <3>1. q \in Seq(Request) /\ x \in Request \cup {None} /\ q # <<>> /\ l = Line(q, x)
      BY <2>1, <1>4
    <3>2. HeadOfLine(Request, q, x, l)
      BY ONLY <3>1, LineHeadIs
    <3> QED
      BY ONLY <3>2 DEF HeadOfLine
  <2>3. /\ t1 # <<>> /\ t1[1] = wq[1] /\ Head(wq) = wq[1] /\ wq[1] \in WriteBeats
        /\ Tail(wq) \in Seq(WriteBeats) /\ Tail(t1) = Line(Tail(wq), y)
    <3>1. wq \in Seq(WriteBeats) /\ y \in WriteBeats \cup {None} /\ wq # <<>> /\ t1 = Line(wq, y)
      BY <2>1, <1>4
    <3>2. HeadOfLine(WriteBeats, wq, y, t1)
      BY ONLY <3>1, LineHeadIs
    <3> QED
      BY ONLY <3>2 DEF HeadOfLine
  <2>4. t # <<>> /\ t[1] = wq[1] /\ Tail(t) = Line(Tail(wq), y) \o pl
    <3>1. t1 \o pl # <<>> /\ (t1 \o pl)[1] = t1[1] /\ Tail(t1 \o pl) = Tail(t1) \o pl
      <4>1. t1 \in Seq(WriteBeats) /\ t1 # <<>> /\ pl \in Seq(WriteBeats)
        BY <2>3
      <4> QED
        BY ONLY <4>1, TailOfConcat
    <3> QED
      BY <3>1, <2>3, <1>4
  <2>5. /\ o # <<>> /\ p + 1 \in 1 .. Len(f)
        /\ f[p + 1].addr = q[1].addr /\ SameBeat(f[p + 1], wq[1])
        /\ o[1].id = q[1].id /\ o[1] \in WriteReply
        /\ wq[1].last => o[1].beats = p + 1 /\ o[1].ok = Good(q[1].addr)
    <3>1. /\ o # <<>> /\ p + 1 \in 1 .. Len(f)
          /\ f[p + 1].addr = l[1].addr /\ SameBeat(f[p + 1], t[1])
          /\ o[1].id = l[1].id /\ o[1] \in WriteReply
          /\ t[1].last => o[1].beats = p + 1 /\ o[1].ok = Good(l[1].addr)
      BY <1>5, <2>2, FirstWrite, SMTT(60)
    <3> QED
      BY <3>1, <2>2, <2>4
  <2>6. /\ b'.valid = wq[1].last /\ b'.id = q[1].id /\ b'.ok = Good(q[1].addr)
        /\ dram' = Put(dram, q[1].addr, wq[1])
    BY <1>2, <1>8, <1>19, <2>2, <2>3 DEF WriteAnswer, WriteBeat
  <2>7. wq[1].last \in BOOLEAN
    BY <2>3 DEF WriteBeats
  <2>8. p + 1 \in 0 .. nf
    BY <2>5, <1>3, <1>6
  <2>9. dram' = PutAll(m, SubSeq(f, 1, p + 1))
    <3>1. p \in 0 .. Len(f) - 1 /\ n \in {p, p + 1}
      BY <2>5, <1>3, <1>6, <1>12
    <3>2. wq[1].strb = f[p + 1].strb /\ wq[1].data = f[p + 1].data
      BY <2>5 DEF SameBeat
    <3>3. Put(PutAll(m, SubSeq(f, 1, n)), f[p + 1].addr, wq[1]) = PutAll(m, SubSeq(f, 1, p + 1))
      BY <3>1, <3>2, <1>12, PutNext
    <3> QED
      BY <3>3, <2>5, <2>6, <1>12
  <2>10. CASE wq[1].last /\ ~take
    <3>1. b'.valid = TRUE /\ wl = q /\ bl = wq
      BY <1>2, <1>7, <2>3, <2>6, <2>7, <2>10 DEF BeatDone, WritesLeft, BeatsLeft
    <3>2. Kept2(f, p)
      BY <3>1, <2>10, <1>4, <1>5, <1>16 DEF Kept2
    <3>3. Acked' + p + (IF b'.valid /\ ~take THEN 1 ELSE 0) = p + 1
      <4>1. Acked' = 0 /\ 0 + p + 1 = p + 1
        BY <2>10, <1>6, <1>16
      <4> QED
        BY <4>1, <3>1, <2>10
    <3> QED
      BY <3>1, <3>2, <3>3, <1>14, <1>17, <1>19, <2>3, <2>5, <2>6, <2>7, <2>8, <2>9, <2>10
  <2>11. CASE wq[1].last /\ take
    <3>1. b'.valid = TRUE /\ wl = Tail(q) /\ bl = Tail(wq)
      BY <1>2, <1>7, <1>19, <2>3, <2>6, <2>7, <2>11 DEF BeatDone, WritesLeft, BeatsLeft
    <3>2. TakesB'
      BY <3>1, <2>11, <1>2 DEF TakesB
    <3>3. Acked' = p + 1 /\ WritesOwed' = Tail(o)
      <4>1. Head(o) = o[1]
        BY <2>5, TailType
      <4> QED
        BY <4>1, <3>2, <1>2, <2>5, <2>11 DEF Acked, WritesOwed
    <3>4. Unanswered' = SubSeq(f, p + 2, Len(f))
      <4>1. (p + 1) + 1 = p + 2
        BY <1>6
      <4> QED
        BY <4>1, <3>3, <1>2 DEF Unanswered
    <3>5. WriteOrder(Tail(l), Tail(o), Tail(t), SubSeq(f, p + 2, Len(f)), 0)
      BY <1>5, <2>2, <2>4, <2>11, WriteEnds
    <3>6. SubSeq(f, p + 2, Len(f)) \in Seq(PlacedBeat)
      <4>1. p + 2 \in 1 .. Len(f) + 1 /\ Len(f) \in 0 .. Len(f)
        BY <1>3, <1>6, <2>5
      <4> QED
        BY <4>1, SubSeqProperties
    <3>7. Kept2(SubSeq(f, p + 2, Len(f)), 0)
      <4>1. Acked' \in Nat
        BY <3>3, <1>6
      <4>2. /\ Line(wl, x) = Tail(l) /\ WritesOwed' = Tail(o) /\ Line(bl, y) \o pl = Tail(t)
        BY <3>1, <3>3, <2>2, <2>4
      <4> QED
        BY <4>1, <4>2, <3>4, <3>5, <3>6 DEF Kept2
    <3>8. Acked' + 0 + (IF b'.valid /\ ~take THEN 1 ELSE 0) = p + 1
      <4>1. (p + 1) + 0 + 0 = p + 1
        BY <1>6
      <4> QED
        BY <4>1, <3>3, <2>11
    <3> QED
      BY <3>1, <3>7, <3>8, <1>14, <1>17, <2>2, <2>3, <2>5, <2>6, <2>8, <2>9, <2>11
  <2>12. CASE ~wq[1].last
    <3>1. b'.valid = FALSE /\ wl = Advanced(q) /\ bl = Tail(wq)
      BY <1>2, <1>7, <1>19, <2>3, <2>6, <2>7, <2>12 DEF BeatDone, WritesLeft, BeatsLeft
    <3>2. PICK z \in Request : z = [q[1] EXCEPT !.addr = @ + 1]
      <4>0. q[1].addr \in Nat
        BY <2>2 DEF Request
      <4>1. q[1].addr + 1 \in Nat
        BY <4>0
      <4>2. [q[1] EXCEPT !.addr = q[1].addr + 1] \in Request
        BY <4>1, <2>2, Zenon DEF Request
      <4> QED
        BY <4>2
    <3>3. z.id = q[1].id /\ z.addr = q[1].addr + 1
      BY <3>2, <2>2 DEF Request
    <3>4. wl = <<z>> \o Tail(q)
      BY <3>1, <3>2, <2>2 DEF Advanced
    <3>5. /\ wl \in Seq(Request) /\ Line(wl, x) \in Seq(Request)
          /\ FirstChanged(l, Line(wl, x), z)
      BY <3>4, <2>1, <1>4, LineChanged
    <3>6. WriteOrder(Line(wl, x), o, Tail(t), f, p + 1)
      BY <3>3, <3>5, <1>5, <2>2, <2>4, <2>12, WriteGoesOn
    <3>7. Kept2(f, p + 1)
      <4>1. Acked' = 0 /\ WritesOwed' = o /\ Unanswered' = f
        BY <3>1, <1>16
      <4>2. Line(bl, y) \o pl = Tail(t)
        BY <3>1, <2>4
      <4> QED
        BY <4>1, <4>2, <3>6 DEF Kept2
    <3>8. Acked' + (p + 1) + (IF b'.valid /\ ~take THEN 1 ELSE 0) = p + 1
      <4>1. 0 + (p + 1) + 0 = p + 1
        BY <1>6
      <4> QED
        BY <4>1, <3>1, <1>16
    <3> QED
      BY <3>1, <3>5, <3>7, <3>8, <1>14, <1>17, <2>3, <2>8, <2>9
  <2> QED
    BY <2>10, <2>11, <2>12
<1> QED
  BY <1>18, <1>19

\* Every byte of the memory has a number, and the image has bytes where it is loaded.
LEMMA BytesNat ==
  /\ Bytes \in Nat /\ ImgSize \in Nat /\ ImgSize <= Len(Image)
  /\ \A a \in Address, l \in Lane : a * Bytes + l \in Nat
  /\ \A i \in Nat : i < ImgSize => Image[i + 1] \in Byte
  /\ 0 \in Byte
<1>1. /\ IsFiniteSet(Lane) /\ Lane = 0 .. Cardinality(Lane) - 1
      /\ FlashBoundary \in Nat /\ Image \in Seq(Byte) /\ 0 \in Byte
  BY DramAssumption
<1>2. Bytes \in Nat
  BY <1>1, FS_CardinalityType DEF Bytes
<1>3. PICK n \in Nat : n = Len(Image)
  BY <1>1, LenProperties
<1>4. FlashBoundary * Bytes \in Nat
  BY <1>1, <1>2
<1>5. ImgSize \in Nat /\ ImgSize <= n
  BY <1>3, <1>4 DEF ImgSize
<1>6. ASSUME NEW a \in Address, NEW l \in Lane PROVE a * Bytes + l \in Nat
  <2>1. a \in Nat /\ l \in Nat
    BY <1>1, <1>2 DEF Address, Bytes
  <2>2. a * Bytes \in Nat
    BY <2>1, <1>2
  <2> QED
    BY <2>1, <2>2
<1>7. ASSUME NEW i \in Nat, i < ImgSize PROVE Image[i + 1] \in Byte
  <2>1. i + 1 \in 1 .. Len(Image)
    BY <1>3, <1>5, <1>7
  <2> QED
    BY <2>1, <1>1, ElementOfSeq
<1> QED
  BY <1>1, <1>2, <1>3, <1>5, <1>6, <1>7

\* When nothing is on its way the memory is as the master believes.
LEMMA NothingOnItsWay ==
  ASSUME NEW m \in Memory
  PROVE  PutAll(m, SubSeq(<<>>, 1, 0)) = m
<1>1. <<>> \in Seq(PlacedBeat) /\ Len(<<>>) = 0
  BY EmptySeq
<1>2. PICK s \in Seq(PlacedBeat) : s = <<>> /\ 0 \in 0 .. Len(s)
  <2>1. PICK s \in Seq(PlacedBeat) : s = <<>>
    BY <1>1
  <2>2. Len(s) = 0
    BY <2>1
  <2>3. 0 \in 0 .. Len(s)
    BY <2>2
  <2> QED
    BY <2>1, <2>3
<1>3. PutAll(m, SubSeq(s, 0 + 1, 0)) = m
  BY <1>2, PutNone
<1> QED
  BY <1>2, <1>3

\* A bus at rest.
LEMMA AtRest ==
  ASSUME arQueue = <<>>, awQueue = <<>>, wQueue = <<>>, ar = None, aw = None, w = None,
         r.valid = FALSE, b.valid = FALSE, plan = <<>>, owedR = <<>>, owedB = <<>>, inFlight = <<>>
  PROVE  ReadInv /\ WriteInv /\ Landed = 0 /\ ReadsCurrent
<1>1. ~TakesR /\ ~TakesB /\ ~Refused
  BY DEF TakesR, TakesB, Refused
<1>2. \A x \in BOOLEAN : Kept(None, x) = None
  BY DEF Kept
<1>3. Kept(ar, ready.ar) = None /\ Kept(aw, ready.aw) = None /\ Kept(w, ready.w) = None
  BY DEF Kept
<1>4. ReadsAsked = <<>> /\ WritesAsked = <<>> /\ Line(wQueue, Kept(w, ready.w)) = <<>>
  BY <1>3 DEF ReadsAsked, WritesAsked, Line
<1>5. <<>> \o <<>> = <<>>
  <2>1. <<>> \in Seq(WriteBeats)
    BY EmptySeq
  <2> QED
    BY <2>1, ConcatEmptySeq
<1>6. BeatsToCome = <<>>
  BY <1>4, <1>5 DEF BeatsToCome
<1>7. ReadsOwed = <<>> /\ WritesOwed = <<>> /\ Acked = 0
  BY <1>1 DEF ReadsOwed, WritesOwed, Acked
<1>8. ReadInv
  BY <1>4, <1>7, NoBursts DEF ReadInv
<1>9. Len(<<>>) = 0
  OBVIOUS
<1>10. Unanswered = <<>>
  <2>1. <<>> \in Seq(PlacedBeat)
    BY EmptySeq
  <2>2. SubSeq(<<>>, 1, Len(<<>>)) = <<>>
    BY <2>1, SubSeqFull
  <2> QED
    BY <2>2, <1>7 DEF Unanswered
<1>11. Part = 0
  BY <1>6, <1>9, <1>10 DEF Part
<1>12. WriteOrder(<<>>, <<>>, <<>>, <<>>, 0)
  <2>1. Laid(Left(<<>>, <<>>, 0), 0, Rest(<<>>, 0, 0), 0)
    BY NothingLaid
  <2>2. /\ Len(<<>>) = 0 + Len(<<>>)
        /\ \A i \in 1 .. Len(<<>>) : FALSE
    BY <1>9
  <2> QED
    BY <2>1, <2>2, <1>9 DEF WriteOrder
<1>13. WriteInv
  <2>1. ~b.valid
    OBVIOUS
  <2>2. WriteOrder(WritesAsked, WritesOwed, BeatsToCome, Unanswered, Part)
    BY <1>4, <1>6, <1>7, <1>10, <1>11, <1>12
  <2> QED
    BY <2>1, <2>2, <1>1 DEF WriteInv
<1> QED
  BY <1>1, <1>7, <1>8, <1>11, <1>13 DEF Landed, ReadsCurrent

\* The invariant of the memory holds when the simulator starts.
LEMMA DramStarts == ASSUME DramInit PROVE DramInv
<1> USE DEF DramInit
<1>1. dram \in Memory
  BY BytesNat DEF Memory, Address, Word
<1>2. settled \in Memory
  <2>1. settled = [a \in Address |-> [l \in Lane |->
                     IF a * Bytes + l < ImgSize THEN Image[a * Bytes + l + 1] ELSE 0]]
    BY DEF Address
  <2>2. ASSUME NEW a \in Address, NEW l \in Lane
        PROVE  (IF a * Bytes + l < ImgSize THEN Image[a * Bytes + l + 1] ELSE 0) \in Byte
    <3>1. PICK i \in Nat : i = a * Bytes + l
      BY BytesNat
    <3>2. (IF i < ImgSize THEN Image[i + 1] ELSE 0) \in Byte
      BY BytesNat
    <3> QED
      BY <3>1, <3>2
  <2>3. \A a \in Address :
          [l \in Lane |-> IF a * Bytes + l < ImgSize THEN Image[a * Bytes + l + 1] ELSE 0] \in Word
    BY <2>2, Zenon DEF Word
  <2> QED
    BY <2>1, <2>3, Zenon DEF Memory
<1>3. /\ <<>> \in Seq(Request) /\ <<>> \in Seq(WriteBeats) /\ <<>> \in Seq(ReadBeat)
      /\ <<>> \in Seq(WriteReply) /\ <<>> \in Seq(PlacedBeat)
  BY EmptySeq
<1>4. /\ r.valid = FALSE /\ b.valid = FALSE /\ ready \in [ar : BOOLEAN, aw : BOOLEAN, w : BOOLEAN]
  OBVIOUS
<1>5. toLoad \in 0 .. ImgSize
  BY BytesNat
<1>6. DramType
  BY <1>1, <1>2, <1>3, <1>4, <1>5 DEF DramType
<1>7. \A a \in Address, l \in Lane :
        /\ dram[a][l] = 0
        /\ settled[a][l] = IF a * Bytes + l < ImgSize THEN Image[a * Bytes + l + 1] ELSE 0
  BY DEF Address
<1>8. LoadInv
  <2>1. ASSUME NEW a \in Address, NEW l \in Lane
        PROVE  ~(a * Bytes + l < ImgSize - toLoad)
    <3>1. PICK i \in Nat : i = a * Bytes + l
      BY BytesNat
    <3>2. ~(i < ImgSize - ImgSize)
      BY BytesNat
    <3> QED
      BY <3>1, <3>2
  <2> QED
    BY <1>4, <1>7, <2>1 DEF LoadInv
<1>9. ReadInv /\ WriteInv /\ Landed = 0 /\ ReadsCurrent
  BY <1>4, AtRest
<1>10. ASSUME toLoad = 0 PROVE dram = settled
  <2>1. ASSUME NEW a \in Address, NEW l \in Lane PROVE dram[a][l] = settled[a][l]
    <3>1. PICK i \in Nat : i = a * Bytes + l
      BY BytesNat
    <3>2. ~(i < ImgSize)
      <4>1. ImgSize = 0
        BY <1>10
      <4> QED
        BY <4>1
    <3>3. dram[a][l] = 0 /\ settled[a][l] = IF i < ImgSize THEN Image[i + 1] ELSE 0
      BY <3>1, <1>7
    <3> QED
      BY <3>2, <3>3
  <2> QED
    BY <2>1, <1>1, <1>2, MemoryEqual
<1>11. MemoryInv
  BY <1>2, <1>9, <1>10, NothingOnItsWay DEF MemoryInv
<1> QED
  BY <1>6, <1>8, <1>9, <1>11 DEF DramInv

\* What does not look at the memory.
LEMMA BusUnchanged ==
  ASSUME ReadInv, WriteInv, ReadsCurrent,
         UNCHANGED <<arQueue, awQueue, wQueue, r, ready, ar, aw, w, rready, bready, plan, b,
                     owedR, owedB, settled, inFlight>>
  PROVE  /\ ReadInv' /\ WriteInv' /\ ReadsCurrent' /\ Landed' = Landed
<1>1. /\ TakesR' = TakesR /\ TakesB' = TakesB /\ Refused' = Refused /\ Serving' = Serving
  BY DEF TakesR, TakesB, Refused, Serving
<1>2. /\ ReadsAsked' = ReadsAsked /\ WritesAsked' = WritesAsked /\ BeatsToCome' = BeatsToCome
  BY DEF ReadsAsked, WritesAsked, BeatsToCome
<1>3. ReadsOwed' = ReadsOwed /\ WritesOwed' = WritesOwed /\ Acked' = Acked
  BY <1>1 DEF ReadsOwed, WritesOwed, Acked
<1>4. Unanswered' = Unanswered
  BY <1>3 DEF Unanswered
<1>5. Part' = Part
  BY <1>2, <1>4 DEF Part
<1>6. Landed' = Landed
  BY <1>1, <1>3, <1>5 DEF Landed
<1>7. ReadInv'
  BY <1>2, <1>3 DEF ReadInv
<1>8. WriteInv'
  BY <1>1, <1>2, <1>3, <1>4, <1>5, <1>6 DEF WriteInv
<1>9. ReadsCurrent'
  BY DEF ReadsCurrent
<1> QED
  BY <1>6, <1>7, <1>8, <1>9

\* It stays when the memory, the bus and the master do nothing.
LEMMA DramRests == ASSUME DramInv, UNCHANGED dramVars PROVE DramInv'
<1>1. DramType' /\ LoadInv'
  BY DEF DramInv, dramVars, DramType, LoadInv
<1>2. ReadInv' /\ WriteInv' /\ ReadsCurrent' /\ Landed' = Landed
  BY BusUnchanged DEF DramInv, dramVars
<1>3. MemoryInv'
  BY <1>2 DEF DramInv, dramVars, MemoryInv
<1> QED
  BY <1>1, <1>2, <1>3 DEF DramInv

\* It stays when some bytes of the image are read; with the last of them the memory is
\* what the master believes it to be.
LEMMA LoadStep == ASSUME DramInv, NEW n, LoadFlash(n) PROVE DramInv'
<1>1. PICK base \in Nat, left0 \in Nat \ {0} :
        /\ left0 = toLoad /\ base = ImgSize - left0 /\ n \in 1 .. left0 /\ ImgSize = base + left0
        /\ toLoad' = left0 - n
  <2>1. toLoad \in 0 .. ImgSize /\ toLoad > 0 /\ n \in 1 .. toLoad /\ ImgSize \in Nat
    BY BytesNat DEF LoadFlash, DramInv, DramType
  <2>2. PICK i0 \in Nat, l0 \in Nat : i0 = ImgSize /\ l0 = toLoad /\ l0 \in 1 .. i0
    BY <2>1
  <2>3. i0 - l0 \in Nat /\ l0 \in Nat \ {0} /\ i0 = (i0 - l0) + l0
    BY <2>2
  <2> QED
    BY <2>1, <2>2, <2>3 DEF LoadFlash
<1>2. n \in Nat /\ left0 - n \in 0 .. ImgSize /\ ImgSize - (left0 - n) = base + n
  BY <1>1
<1>3. /\ toLoad # 0 /\ LoadInv /\ DramType /\ ReadInv /\ WriteInv /\ ReadsCurrent
      /\ inFlight = <<>> /\ ~b.valid
  BY <1>1 DEF DramInv, LoadInv
<1>4. ASSUME NEW a \in Address, NEW l \in Lane
      PROVE  /\ a * Bytes + l \in Nat
             /\ dram'[a][l] = IF a * Bytes + l \in base .. base + n - 1
                                THEN Image[a * Bytes + l + 1] ELSE dram[a][l]
             /\ dram[a][l] = IF a * Bytes + l < base THEN Image[a * Bytes + l + 1] ELSE 0
             /\ settled[a][l] = IF a * Bytes + l < ImgSize THEN Image[a * Bytes + l + 1] ELSE 0
  <2>1. a * Bytes + l \in Nat
    BY BytesNat
  <2>2. dram'[a][l] = IF a * Bytes + l \in base .. base + n - 1
                        THEN Image[a * Bytes + l + 1] ELSE dram[a][l]
    BY <1>1 DEF LoadFlash, Address
  <2>3. /\ dram[a][l] = IF a * Bytes + l < base THEN Image[a * Bytes + l + 1] ELSE 0
        /\ settled[a][l] = IF a * Bytes + l < ImgSize THEN Image[a * Bytes + l + 1] ELSE 0
    BY <1>1, <1>3 DEF LoadInv
  <2> QED
    BY <2>1, <2>2, <2>3
<1>5. ASSUME NEW a \in Address, NEW l \in Lane
      PROVE  dram'[a][l] = IF a * Bytes + l < base + n THEN Image[a * Bytes + l + 1] ELSE 0
  <2>1. PICK i \in Nat : i = a * Bytes + l
    BY <1>4
  <2>2. /\ dram'[a][l] = IF i \in base .. base + n - 1 THEN Image[i + 1] ELSE dram[a][l]
        /\ dram[a][l] = IF i < base THEN Image[i + 1] ELSE 0
    BY <1>4, <2>1
  <2>3. i < base + n <=> i \in base .. base + n - 1 \/ i < base
    BY <1>2
  <2> QED
    BY <2>1, <2>2, <2>3
<1>6. dram' \in Memory
  <2>1. ASSUME NEW a \in Address, NEW l \in Lane PROVE dram'[a][l] \in Byte
    <3>1. PICK i \in Nat : i = a * Bytes + l
      BY <1>4
    <3>2. dram'[a][l] = IF i < base + n THEN Image[i + 1] ELSE 0
      BY <1>5, <3>1
    <3>3. i < base + n => i < ImgSize
      BY <1>1, <1>2
    <3> QED
      BY <3>2, <3>3, BytesNat
  <2>2. PICK g : dram' = [a \in Address |-> [l \in Lane |-> g[a][l]]]
    <3>1. dram' = [a \in Address |-> [l \in Lane |-> dram'[a][l]]]
      BY DEF LoadFlash, Address
    <3> QED
      BY <3>1
  <2>3. \A a \in Address, l \in Lane : g[a][l] \in Byte
    BY <2>1, <2>2
  <2>4. \A a \in Address : [l \in Lane |-> g[a][l]] \in Word
    BY <2>3, Zenon DEF Word
  <2> QED
    BY <2>2, <2>4, Zenon DEF Memory
<1>7. /\ UNCHANGED <<arQueue, awQueue, wQueue, r, ready, ar, aw, w, rready, bready, plan, b,
                     owedR, owedB, settled, inFlight>>
  BY DEF LoadFlash
<1>8. DramType'
  BY <1>1, <1>2, <1>3, <1>6, <1>7 DEF DramType
<1>9. ReadInv' /\ WriteInv' /\ ReadsCurrent' /\ Landed' = Landed
  BY <1>3, <1>7, BusUnchanged
<1>10. LoadInv'
  <2>1. ASSUME NEW a \in Address, NEW l \in Lane
        PROVE  /\ dram'[a][l] = IF a * Bytes + l < ImgSize - toLoad'
                                  THEN Image[a * Bytes + l + 1] ELSE 0
               /\ settled'[a][l] = IF a * Bytes + l < ImgSize
                                     THEN Image[a * Bytes + l + 1] ELSE 0
    BY <1>1, <1>2, <1>4, <1>5, <1>7
  <2> QED
    BY <2>1, <1>3, <1>7 DEF LoadInv
<1>11. Landed = 0
  <2>1. Acked = 0 /\ ~TakesB /\ ~Refused
    BY <1>3 DEF Acked, TakesB, Refused
  <2>2. Len(inFlight) = 0
    BY <1>3
  <2>3. Part = 0
    BY <2>1, <2>2, <1>3, AckedAre
  <2> QED
    BY <2>1, <2>3 DEF Landed
<1>12. MemoryInv'
  <2>1. SUFFICES ASSUME toLoad' = 0 PROVE dram' = PutAll(settled', SubSeq(inFlight', 1, Landed'))
    BY DEF MemoryInv
  <2>2. base + n = ImgSize
    BY <2>1, <1>1, <1>2
  <2>3. settled \in Memory /\ settled' = settled
    BY <1>3, <1>7 DEF DramType
  <2>4. \A a \in Address, l \in Lane : dram'[a][l] = settled[a][l]
    BY <2>2, <1>4, <1>5
  <2>5. dram' = settled
    BY <2>3, <2>4, <1>6, MemoryEqual
  <2>6. PutAll(settled, SubSeq(<<>>, 1, 0)) = settled
    BY <2>3, NothingOnItsWay
  <2> QED
    BY <2>3, <2>5, <2>6, <1>3, <1>7, <1>9, <1>11
<1> QED
  BY <1>8, <1>9, <1>10, <1>12 DEF DramInv

\* It stays in a bus cycle.
LEMMA CycleStep == ASSUME DramInv, toLoad = 0, Cycle PROVE DramInv'
<1>1. PICK newAr \in ReadBurst \cup {None}, write \in WriteBurst \cup {None},
           toW \in BOOLEAN, takeR \in BOOLEAN, takeB \in BOOLEAN, pixel \in {FALSE, left.video} :
        SysBusCycle(newAr, AwOf(write), DataOf(write), toW, takeR, takeB, pixel)
  BY ZenonT(60) DEF Cycle
<1>2. /\ Edge(newAr, AwOf(write), DataOf(write), toW, takeR, takeB) /\ Channels
      /\ toLoad' = 0
  BY <1>1 DEF SysBusCycle
<1>3. DramType /\ ReadInv /\ WriteInv /\ dram = PutAll(settled, SubSeq(inFlight, 1, Landed))
  BY DEF DramInv, MemoryInv
<1>4. /\ ar' \in Request \cup {None} /\ rready' \in BOOLEAN /\ owedR' \in Seq(ReadBeat)
      /\ arQueue' \in Seq(Request) /\ r'.valid \in BOOLEAN /\ ready'.ar \in BOOLEAN
      /\ ReadInv'
      /\ r'.valid => /\ Head(owedR').addr \in Nat
                     /\ r'.ok => r'.data = dram[Head(owedR').addr]
  BY <1>1, <1>2, <1>3, ReadStep
<1>5. /\ aw' \in Request \cup {None} /\ w' \in WriteBeats \cup {None}
      /\ plan' \in Seq(WriteBeats) /\ bready' \in BOOLEAN
      /\ owedB' \in Seq(WriteReply) /\ inFlight' \in Seq(PlacedBeat)
      /\ awQueue' \in Seq(Request) /\ wQueue' \in Seq(WriteBeats)
      /\ ready'.aw \in BOOLEAN /\ ready'.w \in BOOLEAN /\ b'.valid \in BOOLEAN
      /\ settled' \in Memory /\ dram' \in Memory
      /\ WriteInv'
      /\ dram' = PutAll(settled', SubSeq(inFlight', 1, Landed'))
      /\ \E k \in 0 .. Len(inFlight') : dram = PutAll(settled', SubSeq(inFlight', 1, k))
  BY <1>1, <1>2, <1>3, WriteStep
<1>6. ready' \in [ar : BOOLEAN, aw : BOOLEAN, w : BOOLEAN]
  BY <1>2 DEF Channels, Room
<1>7. DramType'
  <2>1. toLoad' \in 0 .. ImgSize
    BY <1>2, BytesNat
  <2> QED
    BY <2>1, <1>4, <1>5, <1>6 DEF DramType
<1>8. LoadInv' /\ MemoryInv'
  BY <1>2, <1>5 DEF LoadInv, MemoryInv
<1>9. ReadsCurrent'
  <2>1. PICK k \in 0 .. Len(inFlight') : dram = PutAll(settled', SubSeq(inFlight', 1, k))
    BY <1>5
  <2>2. r'.valid /\ r'.ok =>
          r'.data = PutAll(settled', SubSeq(inFlight', 1, k))[Head(owedR').addr]
    BY <2>1, <1>4
  <2> QED
    BY <2>2, <1>4 DEF ReadInv, ReadsCurrent
<1> QED
  BY <1>4, <1>5, <1>7, <1>8, <1>9 DEF DramInv

\* In every state of the simulation the beats that have landed are a first part of those
\* on their way, bursts stay in order, and each answer is for the burst that is due
\* (main.cpp:134-237).
THEOREM MemoryInvariant == Spec => []DramInv
<1>1. Init => DramInv
  BY DramStarts DEF Init
<1>2. DramInv /\ [Next]_vars => DramInv'
  <2> SUFFICES ASSUME DramInv, [Next]_vars PROVE DramInv'
    OBVIOUS
  <2>1. CASE Load
    BY <2>1, LoadStep DEF Load
  <2>2. CASE Running /\ (Debugger \/ MainStep)
    <3>1. CASE Cycle
      BY <2>2, <3>1, CycleStep DEF Running
    <3>2. CASE UNCHANGED dramVars
      BY <3>2, DramRests
    <3> QED
      BY <2>2, <3>1, <3>2 DEF Debugger, MainStep, BusStep, Still
  <2>3. CASE Running /\ (PollerStep \/ Wake(TRUE)) /\ Still
    BY <2>3, DramRests DEF Still
  <2>4. CASE UNCHANGED vars
    BY <2>4, DramRests DEF vars
  <2> QED
    BY <2>1, <2>2, <2>3, <2>4 DEF Next
<1> QED
  BY <1>1, <1>2, PTL DEF Spec

\* A word on offer is the one the master waits for and no older than the last answered
\* write, whatever is queued (main.cpp:140-163).
THEOREM ReadsAlwaysCurrent == Spec => []ReadsCurrent
<1>1. DramInv => ReadsCurrent
  BY DEF DramInv
<1> QED
  BY <1>1, MemoryInvariant, PTL

\* The memory is what the answered writes made of it and a first part of the others, and
\* a write is answered when all of it is there (main.cpp:114-120, 165-213).
THEOREM WritesAlwaysLand == Spec => []WritesLand
<1>1. ASSUME DramInv PROVE WritesLand
  <2>1. /\ DramType /\ WriteInv /\ LoadInv
        /\ toLoad = 0 => dram = PutAll(settled, SubSeq(inFlight, 1, Landed))
    <3>1. DramType /\ WriteInv /\ LoadInv /\ MemoryInv
      BY <1>1 DEF DramInv
    <3> QED
      BY <3>1 DEF MemoryInv
  <2>2. /\ Landed \in 0 .. Len(inFlight) /\ Len(inFlight) \in Nat /\ Landed \in Nat
    <3>1. Landed \in Acked .. Len(inFlight) /\ Landed \in Nat /\ Acked \in 0 .. Len(inFlight)
      BY <2>1, LandedIs, AckedAre
    <3>2. Len(inFlight) \in Nat
      BY <2>1, LenProperties DEF DramType
    <3> QED
      BY <3>1, <3>2
  <2>3. Running => BeatsWritten(0)
    BY <2>1, <2>2 DEF Running, BeatsWritten
  <2>4. ASSUME b.valid
        PROVE  /\ owedB # <<>> /\ b.id = Head(owedB).id /\ b.ok = Head(owedB).ok
               /\ BeatsWritten(Head(owedB).beats)
    <3>1. toLoad = 0
      BY <2>1, <2>4 DEF LoadInv
    <3>2. Landed \in Landed .. Len(inFlight)
      BY <2>2
    <3>3. BeatsWritten(Landed)
      BY <3>1, <3>2, <2>1 DEF BeatsWritten
    <3> QED
      BY <3>3, <2>1, <2>4 DEF WriteInv
  <2> QED
    BY <2>3, <2>4 DEF WritesLand
<1> QED
  BY <1>1, MemoryInvariant, PTL

-----------------------------------------------------------------------------
(***************************************************************************)
(* The replies of the JTAG server, for any commands and batches.           *)
(***************************************************************************)
\* What is true of 0, and of k + 1 when it is of k, is true of all numbers to n.
LEMMA Induction ==
  ASSUME NEW n \in Nat, NEW T, 0 \in T, \A k \in 0 .. n : k \in T /\ k < n => k + 1 \in T
  PROVE  \A k \in 0 .. n : k \in T
<1> DEFINE R == OpToRel(<, Nat)
           D == {k \in 0 .. n : k \notin T}
<1>1. IsWellFoundedOn(R, Nat)
  BY NatLessThanWellFounded
<1>2. SUFFICES ASSUME D # {} PROVE FALSE
  OBVIOUS
<1>3. D \subseteq Nat
  OBVIOUS
<1>4. PICK x \in D : \A y \in D : ~(<<y, x>> \in R)
  <2> HIDE DEF R, D
  <2> QED
    BY <1>1, <1>2, <1>3, WFMin
<1>5. x \in 0 .. n /\ x \notin T /\ x # 0
  OBVIOUS
<1>6. x - 1 \in 0 .. n /\ x - 1 < n /\ x - 1 < x /\ (x - 1) + 1 = x /\ x \in Nat /\ x - 1 \in Nat
  BY <1>5
<1>7. <<x - 1, x>> \in R
  BY <1>6 DEF OpToRel
<1>8. x - 1 \in T
  BY <1>4, <1>6, <1>7
<1> QED
  BY <1>5, <1>6, <1>8

\* What pins, the port and a run of commands may be.
Pins == [tck : BOOLEAN, tms : BOOLEAN, tdi : BOOLEAN]
Tap == [bit : BOOLEAN, tdo : BOOLEAN]
Status == [pins : Pins, tap : Tap, replies : Seq(BOOLEAN)]

\* A command leads from a status of the server to the next.
LEMMA ObeyedType ==
  ASSUME NEW s \in Status, NEW c
  PROVE  Obeyed(s, c) \in Status
<1>1. s.pins \in Pins /\ s.tap \in Tap /\ s.replies \in Seq(BOOLEAN) /\ s.tap.tdo \in BOOLEAN
  BY DEF Status, Tap
<1>2. High(c) \in Pins
  BY DEF High, Pins
<1>3. SetPins(s.pins, c) \in Pins
  BY <1>1, <1>2 DEF SetPins
<1>4. ASSUME NEW p \in Pins, NEW q \in Pins, NEW t \in Tap PROVE Clocked(t, p, q) \in Tap
  BY DEF Clocked, Pins, Tap
<1>5. Clocked(s.tap, s.pins, SetPins(s.pins, c)) \in Tap
  BY <1>1, <1>3, <1>4
<1>6. Append(s.replies, s.tap.tdo) \in Seq(BOOLEAN)
  BY <1>1, AppendProperties
<1> QED
  BY <1>1, <1>3, <1>5, <1>6, Zenon DEF Obeyed, Status

\* Before the first command.
LEMMA FreshType == Fresh \in Status
<1>1. PinsAtReset \in Pins /\ TapAtReset \in Tap
  BY DEF PinsAtReset, TapAtReset, Pins, Tap
<1>2. <<>> \in Seq(BOOLEAN)
  BY EmptySeq
<1> QED
  BY <1>1, <1>2, Zenon DEF Fresh, Status

\* f goes through the first n commands, one by one.
Follows(f, commands, n) ==
  /\ f \in [0 .. n -> Status] /\ f[0] = Fresh
  /\ \A k \in 1 .. n : f[k] = Obeyed(f[k - 1], commands[k])

\* Course(commands) is what its recursion says.
LEMMA CourseIs ==
  ASSUME NEW commands, NEW n \in Nat, n = Len(commands)
  PROVE  Follows(Course(commands), commands, n)
<1> DEFINE T == {k \in 0 .. n : \E f : Follows(f, commands, k)}
<1>1. 0 \in T
  <2> DEFINE f == [i \in 0 .. 0 |-> Fresh]
  <2>1. f \in [0 .. 0 -> Status] /\ f[0] = Fresh /\ \A k \in 1 .. 0 : FALSE
    BY FreshType
  <2> HIDE DEF f
  <2>2. Follows(f, commands, 0)
    BY <2>1 DEF Follows
  <2> QED
    BY <2>2
<1>2. ASSUME NEW k \in 0 .. n, k \in T, k < n PROVE k + 1 \in T
  <2>1. PICK f : Follows(f, commands, k)
    BY <1>2
  <2>2. f \in [0 .. k -> Status] /\ f[0] = Fresh
        /\ \A i \in 1 .. k : f[i] = Obeyed(f[i - 1], commands[i])
    BY <2>1 DEF Follows
  <2> DEFINE z == Obeyed(f[k], commands[k + 1])
             g == [i \in 0 .. k + 1 |-> IF i = k + 1 THEN z ELSE f[i]]
  <2>3. z \in Status
    BY <2>2, ObeyedType
  <2> HIDE DEF z
  <2>4. g \in [0 .. k + 1 -> Status]
    BY <2>2, <2>3
  <2>5. \A i \in 0 .. k : g[i] = f[i]
    OBVIOUS
  <2>6. g[k + 1] = z
    OBVIOUS
  <2> HIDE DEF g
  <2>7. ASSUME NEW i \in 1 .. k + 1 PROVE g[i] = Obeyed(g[i - 1], commands[i])
    <3>1. CASE i = k + 1
      <4>1. i - 1 = k /\ k \in 0 .. k
        BY <3>1
      <4> QED
        BY <4>1, <3>1, <2>5, <2>6 DEF z
    <3>2. CASE i # k + 1
      <4>1. i \in 1 .. k /\ i \in 0 .. k /\ i - 1 \in 0 .. k
        BY <3>2
      <4> QED
        BY <4>1, <2>2, <2>5
    <3> QED
      BY <3>1, <3>2
  <2>8. g[0] = Fresh
    <3>1. 0 \in 0 .. k
      OBVIOUS
    <3> QED
      BY <3>1, <2>2, <2>5
  <2>9. Follows(g, commands, k + 1)
    BY <2>4, <2>7, <2>8 DEF Follows
  <2>10. k + 1 \in 0 .. n
    BY <1>2
  <2> QED
    BY <2>9, <2>10
<1>3. n \in 0 .. n
  OBVIOUS
<1>4. n \in T
  <2> HIDE DEF T
  <2> QED
    BY <1>1, <1>2, <1>3, Induction
<1>5. PICK f : Follows(f, commands, n)
  BY <1>4
<1> DEFINE Step(h) == [k \in 0 .. n |-> IF k = 0 THEN Fresh ELSE Obeyed(h[k - 1], commands[k])]
<1>6. f = Step(f)
  BY <1>5 DEF Follows
<1>7. Course(commands) = CHOOSE h : h = Step(h)
  BY Zenon DEF Course
<1>8. PICK h : h = Course(commands)
  OBVIOUS
<1>9. h = Step(h)
  BY <1>6, <1>7, <1>8
<1>10. /\ h[0] = Fresh /\ DOMAIN h = 0 .. n
       /\ \A k \in 1 .. n : h[k] = Obeyed(h[k - 1], commands[k])
  <2>1. h = [k \in 0 .. n |-> IF k = 0 THEN Fresh ELSE Obeyed(h[k - 1], commands[k])]
    BY <1>9
  <2>2. DOMAIN h = 0 .. n
    BY <2>1
  <2>3. \A k \in 0 .. n : h[k] = IF k = 0 THEN Fresh ELSE Obeyed(h[k - 1], commands[k])
    BY <2>1
  <2> QED
    BY <2>2, <2>3
<1> DEFINE U == {k \in 0 .. n : h[k] \in Status}
<1>11. 0 \in U
  BY <1>10, FreshType
<1>12. ASSUME NEW k \in 0 .. n, k \in U, k < n PROVE k + 1 \in U
  <2>1. k + 1 \in 1 .. n /\ (k + 1) - 1 = k /\ k + 1 \in 0 .. n
    BY <1>12
  <2>2. h[k + 1] = Obeyed(h[k], commands[k + 1])
    BY <2>1, <1>10
  <2>3. h[k] \in Status
    BY <1>12
  <2> QED
    BY <2>1, <2>2, <2>3, ObeyedType
<1>13. \A k \in 0 .. n : h[k] \in Status
  <2>1. \A k \in 0 .. n : k \in U
    <3> HIDE DEF U
    <3> QED
      BY <1>11, <1>12, Induction
  <2> QED
    BY <2>1
<1>14. h = [k \in 0 .. n |-> h[k]]
  BY <1>9
<1>15. h \in [0 .. n -> Status]
  BY <1>13, <1>14
<1> QED
  BY <1>8, <1>10, <1>15 DEF Follows

\* What follows changes nothing of what was.
LEMMA CourseGoesOn ==
  ASSUME NEW c \in Seq(Command), NEW d \in Seq(Command), NEW n \in Nat, n = Len(c)
  PROVE  \A k \in 0 .. n : Course(c \o d)[k] = Course(c)[k]
<1>1. PICK m \in Nat : m = Len(d)
  BY LenProperties
<1>2. c \o d \in Seq(Command) /\ Len(c \o d) = n + m /\ \A k \in 1 .. n : (c \o d)[k] = c[k]
  <2>1. c \in Seq(Command) /\ d \in Seq(Command)
    OBVIOUS
  <2>2. /\ c \o d \in Seq(Command)
        /\ Len(c \o d) = Len(c) + Len(d)
        /\ \A k \in 1 .. Len(c) : (c \o d)[k] = c[k]
    BY ONLY <2>1, ConcatAt
  <2> QED
    BY <2>2, <1>1
<1>3. PICK e : e = c \o d
  OBVIOUS
<1>4. PICK l \in Nat : l = Len(e) /\ l = n + m
  BY <1>2, <1>3
<1>5. PICK f, g : f = Course(c) /\ g = Course(e)
  OBVIOUS
<1>6. Follows(f, c, n) /\ Follows(g, e, l)
  BY <1>4, <1>5, CourseIs
<1> DEFINE T == {k \in 0 .. n : g[k] = f[k]}
<1>7. 0 \in T
  BY <1>6 DEF Follows
<1>8. ASSUME NEW k \in 0 .. n, k \in T, k < n PROVE k + 1 \in T
  <2>1. k + 1 \in 1 .. n /\ k + 1 \in 1 .. l /\ (k + 1) - 1 = k /\ k + 1 \in 0 .. n
    BY <1>4, <1>8
  <2>2. f[k + 1] = Obeyed(f[k], c[k + 1]) /\ g[k + 1] = Obeyed(g[k], e[k + 1])
    BY <2>1, <1>6 DEF Follows
  <2>3. e[k + 1] = c[k + 1]
    BY <2>1, <1>2, <1>3
  <2>4. g[k] = f[k]
    BY <1>8
  <2> QED
    BY <2>1, <2>2, <2>3, <2>4
<1>9. \A k \in 0 .. n : k \in T
  <2> HIDE DEF T
  <2> QED
    BY <1>7, <1>8, Induction
<1> QED
  BY <1>3, <1>5, <1>9

\* z is a, or goes on from it.
Begins(a, z) == \E t \in Seq(BOOLEAN) : z = a \o t

\* The empty rest.
LEMMA BeginsItself == \A a \in Seq(BOOLEAN) : Begins(a, a)
<1>1. <<>> \in Seq(BOOLEAN)
  BY EmptySeq
<1>2. \A a \in Seq(BOOLEAN) : a \o <<>> = a
  BY ConcatEmptySeq
<1> QED
  BY <1>1, <1>2 DEF Begins

\* Two rests make one.
LEMMA BeginsFurther ==
  ASSUME NEW a \in Seq(BOOLEAN), NEW y, NEW z, Begins(a, y), Begins(y, z)
  PROVE  Begins(a, z)
<1>1. PICK s \in Seq(BOOLEAN), t \in Seq(BOOLEAN) : y = a \o s /\ z = y \o t
  BY DEF Begins
<1>2. (a \o s) \o t = a \o (s \o t) /\ s \o t \in Seq(BOOLEAN)
  BY ConcatAssociative, ConcatProperties
<1> QED
  BY <1>1, <1>2 DEF Begins

\* Replies are only added.
LEMMA RepliesGrow ==
  ASSUME NEW c, NEW n \in Nat, n = Len(c), NEW i \in 0 .. n
  PROVE  Begins(Course(c)[i].replies, Course(c)[n].replies)
<1>1. PICK f : f = Course(c)
  OBVIOUS
<1>2. Follows(f, c, n)
  BY <1>1, CourseIs
<1>3. \A k \in 0 .. n : f[k] \in Status /\ f[k].replies \in Seq(BOOLEAN) /\ f[k].tap.tdo \in BOOLEAN
  BY <1>2 DEF Follows, Status, Tap
<1> DEFINE T == {k \in 0 .. n : k <= i \/ Begins(f[i].replies, f[k].replies)}
<1>4. 0 \in T
  OBVIOUS
<1>5. ASSUME NEW k \in 0 .. n, k \in T, k < n PROVE k + 1 \in T
  <2>1. k + 1 \in 1 .. n /\ (k + 1) - 1 = k /\ k + 1 \in 0 .. n
    BY <1>5
  <2>2. f[k + 1] = Obeyed(f[k], c[k + 1])
    BY <2>1, <1>2 DEF Follows
  <2>3. Begins(f[k].replies, f[k + 1].replies)
    <3>1. PICK r0 \in Seq(BOOLEAN), x \in BOOLEAN : r0 = f[k].replies /\ x = f[k].tap.tdo
      BY <1>3
    <3>2. f[k + 1].replies \in {r0, Append(r0, x)}
      BY <2>2, <3>1 DEF Obeyed
    <3>3. Append(r0, x) = r0 \o <<x>> /\ <<x>> \in Seq(BOOLEAN)
      BY AppendIsConcat
    <3> QED
      BY <3>1, <3>2, <3>3, BeginsItself DEF Begins
  <2>4. CASE k + 1 <= i
    BY <2>1, <2>4
  <2>5. CASE k = i
    BY <2>1, <2>3, <2>5
  <2>6. CASE k > i
    <3>1. Begins(f[i].replies, f[k].replies)
      BY <1>5, <2>6
    <3>2. Begins(f[i].replies, f[k + 1].replies)
      BY <3>1, <2>3, <1>3, BeginsFurther
    <3> QED
      BY <3>2, <2>1
  <2> QED
    BY <2>4, <2>5, <2>6
<1>6. \A k \in 0 .. n : k \in T
  <2> HIDE DEF T
  <2> QED
    BY <1>4, <1>5, Induction
<1>7. n \in T
  BY <1>6
<1>8. CASE i = n
  BY <1>1, <1>3, <1>8, BeginsItself
<1>9. CASE i # n
  BY <1>1, <1>7, <1>9
<1> QED
  BY <1>8, <1>9

\* A batch that process() has not begun, and one whose replies wait to be written.
Unread == readOk /\ (poller = "publish" \/ (readable /\ main \notin {"command", "release"}))
Answerable == readOk /\ ~Unread /\ poller \in {"wait", "asleep"}

\* The commands that the pins have had, and the replies that the debugger will get.
Done ==
  CASE Unread -> Len(consumed) - Len(inBuffer)
    [] ~Unread /\ main = "command" -> Len(consumed) - Len(inBuffer) + next - 1
    [] OTHER -> Len(consumed)
Unsent ==
  CASE poller = "write" -> SubSeq(outBuffer, WriteStart + 1, Len(outBuffer))
    [] Answerable -> outBuffer
    [] OTHER -> <<>>

RepliesType ==
  /\ consumed \in Seq(Command) /\ received \in Seq(BOOLEAN) /\ writeSize \in Nat
  /\ readOk \in BOOLEAN /\ open \in BOOLEAN
  /\ main = "command" => readOk
  /\ poller = "write" => writeSize <= Len(outBuffer)
  /\ \E past \in Seq(Command) : consumed = past \o inBuffer

\* The port is where the commands so far have brought it, and the debugger has, or
\* will have, their replies.
RepliesInv ==
  LET now == Course(consumed)[Done]
  IN /\ RepliesType
     /\ pins = now.pins /\ tap = now.tap
     /\ Begins(received, now.replies)
     /\ open /\ poller # "close" => received \o Unsent = now.replies

\* At the start nothing has been asked.
LEMMA RepliesStart == ASSUME Init PROVE RepliesInv
<1> USE DEF Init, JtagInit
<1>1. <<>> \in Seq(Command) /\ <<>> \in Seq(BOOLEAN) /\ Len(<<>>) = 0
  BY EmptySeq
<1>2. consumed = <<>> \o inBuffer
  BY <1>1, ConcatEmptySeq
<1>3. RepliesType
  BY <1>1, <1>2 DEF RepliesType
<1>4. Done = 0 /\ Unsent = <<>>
  BY <1>1 DEF Done, Unread, Unsent, Answerable
<1>5. PICK f : f = Course(consumed) /\ f[0] = Fresh
  <2>1. Follows(Course(consumed), consumed, 0)
    BY <1>1, CourseIs
  <2> QED
    BY <2>1 DEF Follows
<1>6. f[0].pins = PinsAtReset /\ f[0].tap = TapAtReset /\ f[0].replies = <<>>
  BY <1>5 DEF Fresh
<1>7. Begins(<<>>, <<>>) /\ <<>> \o <<>> = <<>>
  BY <1>1, BeginsItself, ConcatEmptySeq
<1> QED
  BY <1>3, <1>4, <1>5, <1>6, <1>7 DEF RepliesInv

\* A step that moves no command and no reply.
LEMMA NothingMoves ==
  ASSUME RepliesInv, RepliesType', UNCHANGED <<consumed, received, pins, tap>>, Done' = Done,
         open' => open, open' /\ poller' # "close" => poller # "close" /\ Unsent' = Unsent
  PROVE  RepliesInv'
BY DEF RepliesInv

\* How many commands there are before, in and after the batch.
LEMMA Counted ==
  ASSUME JtagInv, RepliesInv
  PROVE  \E past \in Seq(Command), p \in Nat, l \in Nat :
           /\ consumed = past \o inBuffer
           /\ p = Len(past) /\ l = Len(inBuffer) /\ Len(consumed) = p + l
           /\ Len(consumed) - Len(inBuffer) = p
           /\ \A k \in 1 .. l : consumed[p + k] = inBuffer[k]
           /\ Done \in 0 .. p + l
           /\ Unread => Done = p
           /\ ~Unread /\ main = "command" => Done = p + next - 1
           /\ ~Unread /\ main # "command" => Done = p + l
<1>1. PICK past \in Seq(Command) : consumed = past \o inBuffer
  BY DEF RepliesInv, RepliesType
<1>2. past \in Seq(Command) /\ inBuffer \in Seq(Command)
  BY DEF JtagInv, JtagType
<1>3. /\ Len(past) \in Nat /\ Len(inBuffer) \in Nat
      /\ Len(past \o inBuffer) = Len(past) + Len(inBuffer)
      /\ \A k \in 1 .. Len(inBuffer) : (past \o inBuffer)[Len(past) + k] = inBuffer[k]
  BY ONLY <1>2, ConcatAt
<1>4. PICK p \in Nat, l \in Nat : p = Len(past) /\ l = Len(inBuffer)
  BY <1>3
<1>5. /\ Len(consumed) = p + l /\ \A k \in 1 .. l : consumed[p + k] = inBuffer[k]
      /\ Len(consumed) - Len(inBuffer) = p
  BY <1>1, <1>3, <1>4
<1>6. /\ Unread => Done = p
      /\ ~Unread /\ main = "command" => Done = p + next - 1
      /\ ~Unread /\ main # "command" => Done = p + l
  BY <1>5 DEF Done
<1>7. main = "command" => next \in 1 .. l + 1
  BY <1>4 DEF JtagInv, RoomInv
<1>8. Done \in 0 .. p + l
  <2>1. CASE Unread
    BY <2>1, <1>6
  <2>2. CASE ~Unread /\ main = "command"
    <3>1. PICK h \in 1 .. l + 1 : h = next
      BY <2>2, <1>7
    <3>2. p + h - 1 \in 0 .. p + l
      BY <3>1
    <3> QED
      BY <3>1, <3>2, <2>2, <1>6
  <2>3. CASE ~Unread /\ main # "command"
    BY <2>3, <1>6
  <2> QED
    BY <2>1, <2>2, <2>3
<1> QED
  BY <1>1, <1>4, <1>5, <1>6, <1>8

\* The debugger sends, or leaves.
LEMMA DebuggerReplies ==
  ASSUME RepliesInv, (\E c \in Command : Send(c)) \/ Hangup
  PROVE  RepliesInv'
<1> USE DEF buffers
<1>1. /\ UNCHANGED <<readable, inBuffer, outBuffer, readOk, writeSize, poller, main, next, pins, tap,
                     consumed, received>>
      /\ open' \in BOOLEAN /\ (open' => open)
  BY DEF Send, Hangup, RepliesInv, RepliesType
<1>2. RepliesType'
  BY <1>1 DEF RepliesInv, RepliesType
<1>3. Done' = Done /\ Unsent' = Unsent
  BY <1>1 DEF Done, Unread, Unsent, Answerable, WriteStart
<1> QED
  BY <1>1, <1>2, <1>3, NothingMoves

\* A batch is read.
LEMMA ReadReplies ==
  ASSUME JtagInv, JtagInv', RepliesInv, NEW n \in 0 .. BufSize, Read(n)
  PROVE  RepliesInv'
<1>1. /\ poller = "read" /\ poller' = "publish" /\ ~readable /\ main # "command"
      /\ UNCHANGED <<readable, outBuffer, writeSize, main, next, pins, tap, open, received>>
  BY DEF Read, JtagInv, ReadableInv
<1>2. ~Unread /\ Unsent = <<>> /\ Unsent' = <<>> /\ (Unread' <=> readOk')
  BY <1>1 DEF Unread, Unsent, Answerable, Read, RepliesInv, RepliesType
<1>3. PICK past \in Seq(Command), p \in Nat, l \in Nat :
        /\ consumed = past \o inBuffer /\ p = Len(past) /\ l = Len(inBuffer)
        /\ Len(consumed) = p + l /\ Done = p + l
  BY <1>1, <1>2, Counted
<1>4. CASE n = 0
  <2>1. readOk' = FALSE /\ UNCHANGED <<inBuffer, stream, consumed>>
    BY <1>4 DEF Read
  <2>2. RepliesType'
    BY <2>1, <1>1 DEF RepliesInv, RepliesType
  <2>3. Done' = Done
    BY <2>1, <1>1, <1>2 DEF Done
  <2> QED
    BY <2>1, <2>2, <2>3, <1>1, <1>2, NothingMoves
<1>5. CASE n # 0
  <2>1. readOk' = TRUE /\ consumed' = consumed \o inBuffer'
    BY <1>5 DEF Read
  <2>2. PICK c \in Seq(Command), d \in Seq(Command) : c = consumed /\ d = inBuffer'
    BY DEF RepliesInv, RepliesType, JtagInv, JtagType
  <2>3. /\ c \o d \in Seq(Command) /\ Len(c) \in Nat /\ Len(d) \in Nat
        /\ Len(c \o d) = Len(c) + Len(d)
    <3>1. c \in Seq(Command) /\ d \in Seq(Command)
      OBVIOUS
    <3> QED
      BY ONLY <3>1, ConcatAt
  <2>4. RepliesType'
    BY <2>1, <2>2, <2>3, <1>1 DEF RepliesInv, RepliesType
  <2>5. PICK k \in Nat : k = Len(c) /\ k = Done
    BY <1>3, <2>2
  <2>6. Done' = k
    <3>1. Done' = Len(c \o d) - Len(d)
      BY <2>1, <2>2, <1>2 DEF Done
    <3>2. PICK j \in Nat : j = Len(d) /\ Len(c \o d) = k + j
      BY <2>3, <2>5
    <3>3. (k + j) - j = k
      OBVIOUS
    <3> QED
      BY <3>1, <3>2, <3>3
  <2>7. Course(c \o d)[k] = Course(c)[k]
    <3>1. \A j \in 0 .. k : Course(c \o d)[j] = Course(c)[j]
      BY <2>5, CourseGoesOn
    <3>2. k \in 0 .. k
      BY <2>5
    <3> QED
      BY <3>1, <3>2
  <2> QED
    BY <2>1, <2>2, <2>4, <2>5, <2>6, <2>7, <1>1, <1>2 DEF RepliesInv
<1> QED
  BY <1>4, <1>5

\* Replies are written.
LEMMA WriteReplies ==
  ASSUME JtagInv, RepliesInv, NEW n \in 0 .. BufSize, Write(n)
  PROVE  RepliesInv'
<1>1. /\ poller = "write" /\ writeSize > 0 /\ ~readable /\ main # "command"
      /\ UNCHANGED <<readable, inBuffer, outBuffer, readOk, main, next, pins, tap, open, stream,
                     consumed>>
  BY DEF Write, JtagInv, ReadableInv, Others, debugger
<1>2. ~Unread /\ ~Unread'
  BY <1>1 DEF Unread, Write
<1>3. Done' = Done
  BY <1>1, <1>2 DEF Done
<1>4. CASE n = 0
  <2>1. ~open /\ poller' = "read" /\ UNCHANGED <<writeSize, received>>
    BY <1>4 DEF Write
  <2>2. RepliesType'
    BY <2>1, <1>1 DEF RepliesInv, RepliesType
  <2> QED
    BY <2>1, <2>2, <1>1, <1>3, NothingMoves
<1>5. CASE n # 0
  <2>1. /\ n <= writeSize /\ writeSize' = writeSize - n /\ poller' = "write"
        /\ received' = IF open THEN received \o SubSeq(outBuffer, WriteStart + 1, WriteStart + n)
                       ELSE received
    BY <1>1, <1>5 DEF Write
  <2>2. PICK o \in Seq(BOOLEAN), l \in Nat, s \in Nat, ws \in Nat, rc \in Seq(BOOLEAN) :
          /\ o = outBuffer /\ l = Len(outBuffer) /\ ws = writeSize /\ rc = received
          /\ ws <= l /\ s = l - ws /\ s = WriteStart
    <3>1. outBuffer \in Seq(BOOLEAN) /\ writeSize \in Nat /\ writeSize <= Len(outBuffer)
          /\ received \in Seq(BOOLEAN)
      BY <1>1 DEF RepliesInv, RepliesType, JtagInv, JtagType
    <3>2. PICK l \in Nat, ws \in Nat : l = Len(outBuffer) /\ ws = writeSize /\ ws <= l
      BY <3>1, LenProperties
    <3>3. l - ws \in Nat
      BY <3>2
    <3> QED
      BY <3>1, <3>2, <3>3 DEF WriteStart
  <2>3. n \in 1 .. ws /\ n \in Nat /\ s + n <= l /\ s + n \in Nat
    BY <2>1, <2>2, <1>5
  <2>4. WriteStart' = s + n /\ writeSize' = ws - n /\ ws - n \in Nat /\ ws - n <= l
    <3>1. WriteStart' = l - (ws - n)
      BY <2>1, <2>2, <1>1 DEF WriteStart
    <3>2. l - (ws - n) = s + n /\ ws - n \in Nat /\ ws - n <= l
      BY <2>2, <2>3
    <3> QED
      BY <3>1, <3>2, <2>1, <2>2
  <2>5. PICK x \in Seq(BOOLEAN), y \in Seq(BOOLEAN), z \in Seq(BOOLEAN) :
          /\ x = SubSeq(o, s + 1, l) /\ y = SubSeq(o, s + 1, s + n) /\ z = SubSeq(o, s + n + 1, l)
          /\ x = y \o z
    <3>1. /\ o \in Seq(BOOLEAN) /\ l = Len(o) /\ s + 1 \in 1 .. l + 1 /\ s + n + 1 \in 1 .. l + 1
          /\ s + n \in (s + 1) - 1 .. l /\ l \in s + n .. l
          /\ \A i \in 1 .. l : o[i] \in BOOLEAN
          /\ \A i \in s + 1 .. l : i \in 1 .. l
          /\ \A i \in s + 1 .. s + n : i \in 1 .. l
          /\ \A i \in s + n + 1 .. l : i \in 1 .. l
      BY <2>2, <2>3
    <3>2. /\ SubSeq(o, s + 1, l) \in Seq(BOOLEAN) /\ SubSeq(o, s + 1, s + n) \in Seq(BOOLEAN)
          /\ SubSeq(o, s + n + 1, l) \in Seq(BOOLEAN)
      BY <3>1, SubSeqProperties
    <3>3. SubSeq(o, s + 1, l) = SubSeq(o, s + 1, s + n) \o SubSeq(o, s + n + 1, l)
      BY <3>1, ConcatAdjacentSubSeq
    <3> QED
      BY <3>2, <3>3
  <2>6. Unsent = x /\ Unsent' = z
    BY <2>1, <2>2, <2>4, <2>5, <1>1 DEF Unsent, Answerable
  <2>7. (rc \o y) \o z = rc \o (y \o z) /\ rc \o y \in Seq(BOOLEAN)
    BY ConcatAssociative, ConcatProperties, SMTT(60)
  <2>8. received' = IF open THEN rc \o y ELSE rc
    BY <2>1, <2>2, <2>5
  <2>9. RepliesType'
    BY <2>1, <2>2, <2>4, <2>7, <2>8, <1>1 DEF RepliesInv, RepliesType
  <2>10. CASE open
    <3>1. PICK now : now = Course(consumed)[Done]
      OBVIOUS
    <3>2. rc \o x = now.replies
      BY <3>1, <2>2, <2>6, <2>10, <1>1 DEF RepliesInv
    <3>3. (rc \o y) \o z = now.replies
      BY <3>2, <2>5, <2>7
    <3>4. Begins(rc \o y, now.replies)
      BY <3>3 DEF Begins
    <3> QED
      BY <3>1, <3>3, <3>4, <2>6, <2>8, <2>9, <2>10, <1>1, <1>3 DEF RepliesInv
  <2>11. CASE ~open
    <3>1. UNCHANGED received
      BY <2>2, <2>8, <2>11
    <3> QED
      BY <3>1, <2>9, <2>11, <1>1, <1>3, NothingMoves
  <2> QED
    BY <2>10, <2>11
<1> QED
  BY <1>4, <1>5

\* The other steps of the poll thread.
LEMMA PollerReplies ==
  ASSUME JtagInv, JtagInv', RepliesInv, PollerStep \/ Wake(TRUE)
  PROVE  RepliesInv'
<1> USE DEF buffers, debugger, Others
<1>1. ASSUME NEW n \in 0 .. BufSize, Read(n) \/ Write(n) PROVE RepliesInv'
  BY <1>1, ReadReplies, WriteReplies
<1>2. RepliesType /\ outBuffer \in Seq(BOOLEAN) /\ (readable => poller \in {"wait", "asleep"})
      /\ (main \in {"lock", "command", "release"} => readable)
  BY DEF RepliesInv, JtagInv, JtagType, ReadableInv
\* What the others leave alone.
<1> DEFINE Quiet ==
      /\ UNCHANGED <<inBuffer, outBuffer, readOk, main, next, pins, tap, consumed, received>>
      /\ open' \in BOOLEAN /\ (open' => open)
      /\ writeSize' \in Nat
<1>3. ASSUME Quiet, Done' = Done, poller' = "write" => writeSize' <= Len(outBuffer),
             open' /\ poller' # "close" => poller # "close" /\ Unsent' = Unsent
      PROVE  RepliesInv'
  <2>1. RepliesType'
    BY <1>2, <1>3 DEF RepliesType
  <2> QED
    BY <2>1, <1>3, NothingMoves
<1>4. ASSUME NEW ok \in BOOLEAN, Accept(ok) PROVE RepliesInv'
  <2>1. Quiet /\ poller' \in {"read", "done"} /\ poller = "accept" /\ UNCHANGED readable
    BY <1>2, <1>4 DEF Accept, RepliesType
  <2>2. Done' = Done /\ Unsent' = Unsent
    BY <2>1 DEF Done, Unread, Unsent, Answerable
  <2> QED
    BY <2>1, <2>2, <1>3
<1>5. CASE Publish
  <2>1. /\ Quiet /\ poller' = "wait" /\ poller = "publish" /\ ~readable /\ readable'
        /\ main \notin {"command", "release"}
    BY <1>2, <1>5 DEF Publish, RepliesType
  <2>2. (Unread' <=> Unread) /\ (Unread <=> readOk)
    BY <2>1, <1>2 DEF Unread, RepliesType
  <2>3. Done' = Done
    BY <2>1, <2>2 DEF Done
  <2>4. Unsent' = Unsent
    BY <2>1, <2>2 DEF Unsent, Answerable
  <2> QED
    BY <2>1, <2>3, <2>4, <1>3
<1>6. CASE Wait
  <2>1. Quiet /\ poller' = "asleep" /\ poller = "wait" /\ UNCHANGED readable
    BY <1>2, <1>6 DEF Wait, RepliesType
  <2>2. Done' = Done /\ Unsent' = Unsent
    BY <2>1 DEF Done, Unread, Unsent, Answerable
  <2> QED
    BY <2>1, <2>2, <1>3
<1>7. ASSUME NEW s \in BOOLEAN, Wake(s) PROVE RepliesInv'
  <2>1. Quiet /\ poller' = "wait" /\ poller = "asleep" /\ UNCHANGED readable
    BY <1>2, <1>7 DEF Wake, RepliesType
  <2>2. Done' = Done /\ Unsent' = Unsent
    BY <2>1 DEF Done, Unread, Unsent, Answerable
  <2> QED
    BY <2>1, <2>2, <1>3
<1>8. CASE Resume
  <2>1. /\ UNCHANGED <<inBuffer, outBuffer, readOk, main, next, pins, tap, consumed, received,
                       readable, open>>
        /\ open' \in BOOLEAN /\ poller = "wait" /\ ~readable
    BY <1>2, <1>8 DEF Resume, RepliesType
  <2>2. ~Unread
    BY <2>1 DEF Unread
  <2>3. CASE ~readOk \/ dead
    <3>1. poller' = "close" /\ UNCHANGED writeSize
      BY <2>3, <1>8 DEF Resume
    <3>2. Quiet
      BY <2>1, <3>1, <1>2 DEF RepliesType
    <3>3. Done' = Done
      BY <3>1, <2>1 DEF Done, Unread
    <3> QED
      BY <3>1, <3>2, <3>3, <1>3
  <2>4. CASE ~(~readOk \/ dead)
    <3>1. poller' = "write" /\ writeSize' = Len(outBuffer)
      BY <2>4, <1>8 DEF Resume
    <3>2. PICK l \in Nat : l = Len(outBuffer)
      BY <1>2, LenProperties
    <3>3. Quiet /\ writeSize' <= Len(outBuffer)
      BY <3>1, <3>2, <2>1
    <3>4. Done' = Done
      BY <3>1, <2>1 DEF Done, Unread
    <3>5. Unsent' = Unsent
      <4>1. Unsent = outBuffer
        BY <2>1, <2>2, <2>4 DEF Unsent, Answerable
      <4>2. WriteStart' = 0
        BY <3>1, <3>2, <2>1 DEF WriteStart
      <4>3. Unsent' = SubSeq(outBuffer, 1, l)
        BY <4>2, <3>1, <3>2, <2>1 DEF Unsent, Answerable
      <4>4. SubSeq(outBuffer, 1, l) = outBuffer
        BY <3>2, <1>2, SubSeqFull
      <4> QED
        BY <4>1, <4>3, <4>4
    <3> QED
      BY <3>1, <3>3, <3>4, <3>5, <2>1, <1>3
  <2> QED
    BY <2>3, <2>4
<1>9. CASE Written
  <2>1. Quiet /\ poller' = "read" /\ poller = "write" /\ writeSize = 0 /\ UNCHANGED readable
    BY <1>2, <1>9 DEF Written, RepliesType
  <2>2. Done' = Done
    BY <2>1 DEF Done, Unread
  <2>3. Unsent = <<>>
    <3>1. PICK l \in Nat : l = Len(outBuffer)
      BY <1>2, LenProperties
    <3>2. WriteStart = l
      BY <3>1, <2>1 DEF WriteStart
    <3>3. Unsent = SubSeq(outBuffer, l + 1, l)
      BY <3>1, <3>2, <2>1 DEF Unsent, Answerable
    <3>4. SubSeq(outBuffer, l + 1, l) = <<>>
      BY <3>1, <1>2, SubSeqEmpty
    <3> QED
      BY <3>3, <3>4
  <2>4. Unsent' = <<>>
    BY <2>1 DEF Unsent, Answerable
  <2> QED
    BY <2>1, <2>2, <2>3, <2>4, <1>3
<1>10. CASE Close
  <2>1. Quiet /\ ~open' /\ poller' = "return" /\ poller = "close" /\ UNCHANGED readable
    BY <1>2, <1>10 DEF Close, RepliesType
  <2>2. Done' = Done
    BY <2>1 DEF Done, Unread
  <2> QED
    BY <2>1, <2>2, <1>3
<1>11. CASE Return
  <2>1. Quiet /\ poller' = "done" /\ poller = "return" /\ UNCHANGED readable
    BY <1>2, <1>11 DEF Return, RepliesType
  <2>2. Done' = Done /\ Unsent' = Unsent
    BY <2>1 DEF Done, Unread, Unsent, Answerable
  <2> QED
    BY <2>1, <2>2, <1>3
<1> HIDE DEF Quiet
<1> QED
  BY <1>1, <1>4, <1>5, <1>6, <1>7, <1>8, <1>9, <1>10, <1>11 DEF PollerStep

\* One command: the pins, the port and the replies are those of the next status.
LEMMA CommandReplies ==
  ASSUME JtagInv, RepliesInv, ProcessCommand
  PROVE  RepliesInv'
<1>1. /\ main = "command" /\ readable /\ poller \in {"wait", "asleep"} /\ readOk /\ next \in Nat
      /\ next <= Len(inBuffer)
      /\ UNCHANGED <<poller, open, inBuffer, readOk, writeSize, consumed, received, readable, main>>
  BY DEF ProcessCommand, OtherThread, debugger, RepliesInv, RepliesType, JtagInv, JtagType, ReadableInv
<1>2. ~Unread /\ ~Unread' /\ Answerable /\ Answerable'
  BY <1>1 DEF Unread, Answerable
<1>3. PICK past \in Seq(Command), p \in Nat, l \in Nat, h \in Nat :
        /\ h \in 1 .. l
        /\ consumed = past \o inBuffer
        /\ p = Len(past) /\ l = Len(inBuffer) /\ Len(consumed) = p + l
        /\ Len(consumed) - Len(inBuffer) = p
        /\ h = next /\ consumed[p + h] = inBuffer[h]
        /\ Done = p + h - 1
  <2>1. PICK past \in Seq(Command), p \in Nat, l \in Nat :
          /\ consumed = past \o inBuffer
          /\ p = Len(past) /\ l = Len(inBuffer) /\ Len(consumed) = p + l
          /\ Len(consumed) - Len(inBuffer) = p
          /\ \A k \in 1 .. l : consumed[p + k] = inBuffer[k]
          /\ Done = p + next - 1
    BY <1>1, <1>2, Counted
  <2>2. PICK h \in Nat : h = next /\ h \in 1 .. l
    BY <1>1, <2>1 DEF JtagInv, RoomInv
  <2>3. consumed[p + h] = inBuffer[h] /\ Done = p + h - 1
    BY <2>1, <2>2
  <2> QED
    BY <2>1, <2>2, <2>3
<1>4. PICK c \in {inBuffer[h]}, b0 \in BOOLEAN, o \in Seq(BOOLEAN), rc \in Seq(BOOLEAN) :
        b0 = tap.tdo /\ o = outBuffer /\ rc = received
  BY DEF RepliesInv, RepliesType, JtagInv, JtagType
<1>5. /\ pins' = SetPins(pins, c)
      /\ tap' = Clocked(tap, pins, SetPins(pins, c))
      /\ outBuffer' = IF c = "R" THEN Append(o, b0) ELSE o
      /\ next' = h + 1
  BY <1>3, <1>4 DEF ProcessCommand
<1>6. PICK n \in Nat, k \in Nat :
        n = p + l /\ k \in 0 .. n /\ k = p + h - 1 /\ k + 1 = p + h /\ k + 1 \in 1 .. n /\ (k + 1) - 1 = k
  <2>1. p \in Nat /\ l \in Nat /\ h \in 1 .. l
    BY <1>3
  <2>2. /\ p + l \in Nat /\ p + h - 1 \in Nat /\ p + h - 1 \in 0 .. p + l /\ (p + h - 1) + 1 = p + h
        /\ (p + h - 1) + 1 \in 1 .. p + l /\ ((p + h - 1) + 1) - 1 = p + h - 1
    BY ONLY <2>1
  <2> QED
    BY <2>2
<1>7. Done = k /\ Done' = k + 1
  <2>1. Done' = Len(consumed) - Len(inBuffer) + (h + 1) - 1
    BY <1>1, <1>2, <1>5 DEF Done
  <2>2. p + (h + 1) - 1 = k + 1
    BY <1>6
  <2> QED
    BY <2>1, <2>2, <1>3, <1>6
<1>8. PICK f : f = Course(consumed)
  OBVIOUS
<1>9. f[k] \in Status /\ f[k + 1] = Obeyed(f[k], c)
  <2>1. Follows(f, consumed, n)
    <3>1. n = Len(consumed)
      BY <1>3, <1>6
    <3> QED
      BY <3>1, <1>8, CourseIs
  <2>2. f[k] \in Status
    BY <2>1, <1>6 DEF Follows
  <2>3. f[k + 1] = Obeyed(f[k], consumed[k + 1])
    BY <2>1, <1>6 DEF Follows
  <2> QED
    BY <2>2, <2>3, <1>3, <1>4, <1>6
<1>10. /\ pins = f[k].pins /\ tap = f[k].tap /\ Begins(rc, f[k].replies)
       /\ open => rc \o o = f[k].replies
  <2>1. Unsent = outBuffer
    BY <1>1, <1>2 DEF Unsent
  <2> QED
    BY <2>1, <1>1, <1>4, <1>7, <1>8 DEF RepliesInv
<1>11. PICK rs \in Seq(BOOLEAN) : rs = f[k].replies
  BY <1>9 DEF Status
<1>12. /\ f[k + 1].pins = SetPins(pins, c) /\ f[k + 1].tap = Clocked(tap, pins, SetPins(pins, c))
       /\ f[k + 1].replies = IF c = "R" THEN Append(rs, b0) ELSE rs
  BY <1>4, <1>9, <1>10, <1>11 DEF Obeyed
<1>13. /\ Append(o, b0) = o \o <<b0>> /\ Append(rs, b0) = rs \o <<b0>> /\ <<b0>> \in Seq(BOOLEAN)
       /\ (rc \o o) \o <<b0>> = rc \o (o \o <<b0>>)
  <2>1. <<b0>> \in Seq(BOOLEAN)
    OBVIOUS
  <2>2. Append(o, b0) = o \o <<b0>> /\ Append(rs, b0) = rs \o <<b0>>
    BY AppendIsConcat
  <2>3. (rc \o o) \o <<b0>> = rc \o (o \o <<b0>>)
    BY <2>1, ConcatAssociative
  <2> QED
    BY <2>1, <2>2, <2>3
<1>14. Begins(rc, f[k + 1].replies)
  <2>1. Begins(rs, f[k + 1].replies)
    BY <1>12, <1>13, BeginsItself DEF Begins
  <2> QED
    BY <2>1, <1>10, <1>11, BeginsFurther
<1>15. Unsent' = outBuffer'
  BY <1>1, <1>2 DEF Unsent
<1>16. open' => received' \o Unsent' = f[k + 1].replies
  BY <1>1, <1>4, <1>5, <1>10, <1>11, <1>12, <1>13, <1>15
<1>17. RepliesType'
  BY <1>1 DEF RepliesInv, RepliesType
<1> QED
  BY <1>1, <1>4, <1>5, <1>7, <1>8, <1>12, <1>14, <1>16, <1>17 DEF RepliesInv

\* The other steps of the main thread.
LEMMA MainReplies ==
  ASSUME JtagInv, JtagInv', RepliesInv,
         LoopCycle \/ Lock \/ ProcessCommand \/ Processed \/ Release \/ Notify \/ Alive \/ Join
  PROVE  RepliesInv'
<1> USE DEF OtherThread, debugger
<1>1. RepliesType /\ (readable => poller \in {"wait", "asleep"})
      /\ (main \in {"lock", "command", "release"} => readable)
  BY DEF RepliesInv, JtagInv, JtagType, ReadableInv
<1>2. PICK past \in Seq(Command), p \in Nat, l \in Nat :
        /\ p = Len(past) /\ l = Len(inBuffer) /\ Len(consumed) = p + l
        /\ Len(consumed) - Len(inBuffer) = p
        /\ Unread => Done = p
        /\ ~Unread /\ main = "command" => Done = p + next - 1
        /\ ~Unread /\ main # "command" => Done = p + l
  BY Counted
<1> DEFINE Quiet ==
      UNCHANGED <<inBuffer, readOk, writeSize, pins, tap, consumed, received, open, poller>>
<1>3. ASSUME Quiet, Done' = Done, Unsent' = Unsent, main' = "command" => readOk,
             poller = "write" => UNCHANGED outBuffer
      PROVE  RepliesInv'
  <2>1. RepliesType'
    BY <1>1, <1>3 DEF RepliesType
  <2> QED
    BY <2>1, <1>3, NothingMoves
<1>4. CASE LoopCycle \/ Notify \/ Alive \/ Join
  <2>1. /\ Quiet /\ UNCHANGED <<readable, outBuffer, next>>
        /\ main \notin {"command", "release"} /\ main' \notin {"command", "release"}
    BY <1>4 DEF LoopCycle, Notify, Alive, Join
  <2>2. Done' = Done /\ Unsent' = Unsent
    BY <2>1 DEF Done, Unread, Unsent, Answerable, WriteStart
  <2> QED
    BY <2>1, <2>2, <1>3
<1>5. CASE Lock
  <2>1. Quiet /\ main = "lock" /\ readable /\ readable' /\ poller \in {"wait", "asleep"}
    BY <1>1, <1>5 DEF Lock
  <2>2. CASE readOk
    <3>1. main' = "command" /\ next' = 1 /\ outBuffer' = <<>>
      BY <1>5, <2>2 DEF Lock
    <3>2. Unread /\ ~Unread' /\ Answerable' /\ ~Answerable
      BY <2>1, <2>2, <3>1 DEF Unread, Answerable
    <3>3. Done' = p + 1 - 1
      BY <2>1, <3>1, <3>2, <1>2 DEF Done
    <3>4. Done' = Done
      BY <3>2, <3>3, <1>2
    <3>5. Unsent' = Unsent
      BY <2>1, <3>1, <3>2 DEF Unsent
    <3> QED
      BY <2>1, <2>2, <3>4, <3>5, <1>3
  <2>3. CASE ~readOk
    <3>1. main' = "release" /\ UNCHANGED <<outBuffer, next>>
      BY <1>5, <2>3 DEF Lock
    <3>2. ~Unread /\ ~Unread' /\ ~Answerable' /\ ~Answerable
      BY <2>1, <2>3, <3>1 DEF Unread, Answerable
    <3>3. Done' = Done /\ Unsent' = Unsent
      BY <2>1, <3>1, <3>2 DEF Done, Unsent
    <3> QED
      BY <2>1, <3>1, <3>3, <1>3
  <2> QED
    BY <2>2, <2>3
<1>6. CASE ProcessCommand
  BY <1>6, CommandReplies
<1>7. CASE Processed
  <2>1. /\ Quiet /\ main = "command" /\ main' = "release" /\ next > Len(inBuffer)
        /\ UNCHANGED <<readable, outBuffer>> /\ readable /\ poller \in {"wait", "asleep"} /\ readOk
    BY <1>1, <1>7 DEF Processed, RepliesType
  <2>2. ~Unread /\ ~Unread' /\ Answerable /\ Answerable'
    BY <2>1 DEF Unread, Answerable
  <2>3. next = l + 1
    BY <2>1, <1>2 DEF JtagInv, RoomInv
  <2>4. Done = p + l
    <3>1. p + (l + 1) - 1 = p + l
      BY <1>2
    <3> QED
      BY <3>1, <2>1, <2>2, <2>3, <1>2
  <2>5. Done' = p + l
    BY <2>1, <2>2, <1>2 DEF Done
  <2>6. Unsent' = Unsent
    BY <2>1, <2>2 DEF Unsent
  <2> QED
    BY <2>1, <2>4, <2>5, <2>6, <1>3
<1>8. CASE Release
  <2>1. /\ Quiet /\ main = "release" /\ main' = "notify" /\ readable' = FALSE
        /\ UNCHANGED outBuffer /\ readable /\ poller \in {"wait", "asleep"}
    BY <1>1, <1>8 DEF Release
  <2>2. ~Unread /\ ~Unread' /\ (Answerable' <=> Answerable)
    BY <2>1 DEF Unread, Answerable
  <2>3. Done' = Done
    BY <2>1, <2>2 DEF Done
  <2>4. Unsent' = Unsent
    BY <2>1, <2>2 DEF Unsent
  <2> QED
    BY <2>1, <2>3, <2>4, <1>3
<1> HIDE DEF Quiet
<1> QED
  BY <1>4, <1>5, <1>6, <1>7, <1>8

\* The replies are those of the commands, in order, whatever the batches and however the
\* two threads, the reads and the writes interleave (remote_jtag.hpp:135-149).
THEOREM RepliesAlwaysRight == Spec => []RepliesRight
<1>1. Init => RepliesInv
  BY RepliesStart
<1>2. JtagInv /\ JtagInv' /\ RepliesInv /\ [Next]_vars => RepliesInv'
  <2> SUFFICES ASSUME JtagInv, JtagInv', RepliesInv, [JtagNext]_jtagVars PROVE RepliesInv'
    BY JtagSteps
  <2>1. CASE UNCHANGED jtagVars
    <3>1. UNCHANGED <<readable, inBuffer, outBuffer, readOk, writeSize, poller, main, next, pins, tap,
                      consumed, received, open>>
      BY <2>1 DEF jtagVars, buffers, debugger
    <3>2. RepliesType' /\ Done' = Done /\ Unsent' = Unsent
      BY <3>1 DEF RepliesInv, RepliesType, Done, Unread, Unsent, Answerable, WriteStart
    <3> QED
      BY <3>1, <3>2, NothingMoves
  <2> QED
    BY <2>1, DebuggerReplies, PollerReplies, MainReplies DEF JtagNext
<1>3. JtagInv /\ RepliesInv => RepliesRight
  <2> SUFFICES ASSUME JtagInv, RepliesInv PROVE RepliesRight
    OBVIOUS
  <2>1. PICK n \in Nat : n = Len(consumed) /\ Done \in 0 .. n
    BY Counted
  <2>2. PICK f : f = Course(consumed)
    OBVIOUS
  <2>3. Direct(consumed) = f[n].replies
    BY <2>1, <2>2 DEF Direct
  <2>4. PICK rc \in Seq(BOOLEAN), z \in {f[n].replies} : rc = received
    BY DEF RepliesInv, RepliesType
  <2>5. Begins(rc, z)
    <3>1. Begins(rc, f[Done].replies)
      BY <2>2, <2>4 DEF RepliesInv
    <3>2. Begins(f[Done].replies, z)
      BY <2>1, <2>2, <2>4, RepliesGrow
    <3> QED
      BY <3>1, <3>2, BeginsFurther
  <2>6. Len(rc) <= Len(z) /\ rc = SubSeq(z, 1, Len(rc))
    <3>1. PICK t \in Seq(BOOLEAN) : z = rc \o t
      BY <2>5 DEF Begins
    <3>2. Len(rc \o t) = Len(rc) + Len(t) /\ Len(rc) \in Nat /\ Len(t) \in Nat
      BY ConcatAt
    <3>3. SubSeq(rc \o t, 1, Len(rc)) = rc
      <4>1. PICK l \in Nat : l = Len(rc)
        BY LenProperties
      <4>2. CASE l = 0
        <5>1. SubSeq(rc \o t, 1, 0) = <<>>
          BY SubSeqEmpty
        <5>2. rc = <<>>
          BY <4>1, <4>2, LenNotEmpty
        <5> QED
          BY <5>1, <5>2, <4>1, <4>2
      <4>3. CASE l # 0
        <5>1. 1 \in 1 .. Len(rc) /\ Len(rc) \in 1 .. Len(rc)
          BY <4>1, <4>3
        <5>2. SubSeq(rc \o t, 1, Len(rc)) = SubSeq(rc, 1, Len(rc))
          BY <5>1, SubSeqOfConcat1
        <5> QED
          BY <5>2, SubSeqFull
      <4> QED
        BY <4>2, <4>3
    <3> QED
      BY <3>1, <3>2, <3>3
  <2>7. ASSUME poller = "read", open PROVE rc = z
    <3>1. ~readable /\ main # "command"
      BY <2>7 DEF JtagInv, ReadableInv
    <3>2. Done = n /\ Unsent = <<>>
      BY <3>1, <2>1, <2>7 DEF Done, Unread, Unsent, Answerable
    <3>3. rc \o <<>> = z
      BY <3>2, <2>2, <2>4, <2>7 DEF RepliesInv
    <3> QED
      BY <3>3, ConcatEmptySeq
  <2> QED
    BY <2>3, <2>4, <2>6, <2>7 DEF RepliesRight
<1> QED
  BY <1>1, <1>2, <1>3, JtagInvariant, PTL DEF Spec
=============================================================================
