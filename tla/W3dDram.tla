------------------------------ MODULE W3dDram -------------------------------
(***************************************************************************)
(* The memory, flash and screen of the wavelet3d simulator: the lambda     *)
(* sys_bus_cycle of platform/wavelet3d/main.cpp, and what precedes it.     *)
(*                                                                         *)
(* The design has an AXI master with five channels and registered outputs. *)
(* In a cycle it first sees, at the clock edge, what the simulator has put *)
(* on the pins; then the simulator looks at the new outputs and answers.   *)
(* A read or write moves one word.  A word is a function of its Lanes.     *)
(***************************************************************************)
EXTENDS Integers, Sequences, FiniteSets

CONSTANTS
  Lane,          \* the bytes of a word, 0 .. 3
  Byte,          \* what they hold; 0 is one
  DramSize,      \* words of DRAM
  FlashBoundary, \* words at the start of DRAM that hold the flash
  Image,         \* the flash image, a sequence of bytes
  MaxPending,    \* MAX_PENDING
  FbSize,        \* pixels of a frame
  None

ASSUME DramAssumption ==
  /\ MaxPending \in Nat \ {0} /\ FbSize \in Nat \ {0} /\ DramSize \in Nat \ {0}
  /\ FlashBoundary \in 0 .. DramSize
  /\ 0 \in Byte /\ Image \in Seq(Byte)
  /\ IsFiniteSet(Lane) /\ Lane # {} /\ Lane = 0 .. Cardinality(Lane) - 1

VARIABLES
  dram,      \* the words
  toLoad,    \* img_size: bytes of the image still to be read
  arQueue, awQueue, wQueue,
  r, b,      \* the pins of the answers: [valid, id, last, ok, data], [valid, id, ok]
  ready,     \* arready, awready and wready, as a record
  fb, fbPtr, \* the frame
  screen,    \* what the window shows
  (* the master *)
  ar, aw, w,       \* what it holds on the request channels, or None
  rready, bready,  \* it takes answers
  plan,            \* beats of the begun write burst that are not on w yet
  owedR, owedB,    \* history: the answers it waits for, in order
  settled,         \* history: the memory as the master believes it to be
  inFlight,        \* history: beats of the writes that have no answer
  dac              \* position of its video output in the frame

dramVars == <<dram, toLoad, arQueue, awQueue, wQueue, r, b, ready, fb, fbPtr, screen, ar, aw, w,
              rready, bready, plan, owedR, owedB, settled, inFlight, dac>>

Word == [Lane -> Byte]
Good(addr) == addr < DramSize
MaskedByFirst(old, beat) == [l \in Lane |-> IF 0 \in beat.strb THEN beat.data[l] ELSE old[l]]
Masked(old, beat) == [l \in Lane |-> IF l \in beat.strb THEN beat.data[l] ELSE old[l]]
Put(m, addr, beat) == IF Good(addr) THEN [m EXCEPT ![addr] = Masked(@, beat)] ELSE m

-----------------------------------------------------------------------------
(***************************************************************************)
(* The image is read into the first words.  A file longer than the flash   *)
(* is cut; fread() gives some bytes of it at a time.                       *)
(***************************************************************************)
Bytes == Cardinality(Lane)
ImgSize == IF Len(Image) > FlashBoundary * Bytes THEN FlashBoundary * Bytes ELSE Len(Image)

LoadFlash(n) ==
  /\ toLoad > 0 /\ n \in 1 .. toLoad
  /\ LET readBase == ImgSize - toLoad
     IN dram' = [a \in 0 .. DramSize - 1 |-> [l \in Lane |->
                   LET i == a * Bytes + l
                   IN IF i \in readBase .. readBase + n - 1 THEN Image[i + 1] ELSE dram[a][l]]]
  /\ toLoad' = toLoad - n
  /\ UNCHANGED <<arQueue, awQueue, wQueue, r, b, ready, fb, fbPtr, screen, ar, aw, w, rready,
                 bready, plan, owedR, owedB, settled, inFlight, dac>>

-----------------------------------------------------------------------------
(***************************************************************************)
(* The clock edge: the master takes answers, hands over what it held, and  *)
(* may ask for more.  It begins a write burst when the last one is on its  *)
(* way, and address and data go separately.                                *)
(***************************************************************************)
Beats(burst) == [k \in 1 .. burst.len + 1 |->
                   [id |-> burst.id, addr |-> burst.addr + k - 1, last |-> k = burst.len + 1]]

\* A channel's register: kept until it is taken.
Held(reg, taken) == IF taken THEN None ELSE reg

TakesR == r.valid /\ rready
TakesB == b.valid /\ bready

\* An answered write is in the memory; the beats before `last' are answered with it.
Answered == IF TakesB THEN SubSeq(inFlight, 1, Head(owedB).beats) ELSE <<>>

\* History: memory m after some beats, each byte as the last beat with it has it.
PutAll(m, beats) ==
  [a \in DOMAIN m |-> [l \in Lane |->
     LET those == {k \in DOMAIN beats : beats[k].addr = a /\ l \in beats[k].strb}
     IN IF those = {} THEN m[a][l]
        ELSE beats[CHOOSE k \in those : \A j \in those : j <= k].data[l]]]

\* History: the beats of a write, and where they go.
Placed(burst, data) ==
  [k \in 1 .. Len(data) |-> [id |-> burst.id, addr |-> burst.addr + k - 1, data |-> data[k].data,
                            strb |-> data[k].strb, last |-> data[k].last]]

\* newAr, newAw: a burst [id, addr, len] that is begun, or None; data: the beats
\* [data, strb, last] of the latter; toW: the next beat goes to the w channel.
Edge(newAr, newAw, data, toW, takeR, takeB) ==
  LET arTaken == ready.ar /\ ar # None
      awTaken == ready.aw /\ aw # None
      wTaken == ready.w /\ w # None
      rest == IF newAw = None THEN plan ELSE data
  IN /\ newAr # None => Held(ar, arTaken) = None
     /\ newAw # None => Held(aw, awTaken) = None /\ plan = <<>>
     /\ toW => Held(w, wTaken) = None /\ rest # <<>>
     /\ ar' = IF newAr # None THEN newAr ELSE Held(ar, arTaken)
     /\ aw' = IF newAw # None THEN newAw ELSE Held(aw, awTaken)
     /\ w' = IF toW THEN Head(rest) ELSE Held(w, wTaken)
     /\ plan' = IF toW THEN Tail(rest) ELSE rest
     /\ rready' = takeR /\ bready' = takeB
     /\ owedR' = (IF TakesR THEN Tail(owedR) ELSE owedR)
                   \o (IF newAr # None THEN Beats(newAr) ELSE <<>>)
     /\ owedB' = (IF TakesB THEN Tail(owedB) ELSE owedB)
                   \o (IF newAw # None
                         THEN <<[id |-> newAw.id, beats |-> newAw.len + 1,
                                 ok |-> Good(newAw.addr + newAw.len)]>>
                         ELSE <<>>)
     /\ settled' = PutAll(settled, Answered)
     /\ inFlight' = SubSeq(inFlight, Len(Answered) + 1, Len(inFlight))
                      \o (IF newAw # None
                            THEN Placed(newAw, data) ELSE <<>>)

-----------------------------------------------------------------------------
(***************************************************************************)
(* What the simulator does with the new outputs.                           *)
(***************************************************************************)
Serving == awQueue # <<>> /\ wQueue # <<>>
Advanced(q) == <<[Head(q) EXCEPT !.addr = @ + 1]>> \o Tail(q)
Shortened(q) == <<[Head(q) EXCEPT !.len = @ - 1]>> \o Tail(q)

\* Of the read burst at the front one word is offered in each cycle.
ReadAnswer ==
  IF arQueue = <<>>
    THEN [r EXCEPT !.valid = FALSE]
    ELSE LET front == Head(arQueue)
         IN [valid |-> TRUE, id |-> front.id, last |-> front.len = 0,
             ok |-> Good(front.addr),
             data |-> IF Good(front.addr) THEN dram[front.addr] ELSE r.data]

\* Mutants: the address moves on whether or not the word has been taken; the burst
\* ends with its first word.
ReadsLeftAnyway ==
  CASE arQueue = <<>> -> arQueue
    [] arQueue # <<>> /\ Head(arQueue).len = 0 /\ rready' -> Tail(arQueue)
    [] OTHER -> Advanced(arQueue)
ReadsLeftOne == IF arQueue = <<>> \/ ~rready' THEN arQueue ELSE Tail(arQueue)

\* What is left of the queue if the master takes the word.
ReadsLeft ==
  CASE arQueue = <<>> \/ ~rready' -> arQueue
    [] arQueue # <<>> /\ rready' /\ Head(arQueue).len = 0 -> Tail(arQueue)
    [] OTHER -> Advanced(Shortened(arQueue))

\* The beat at the front is written in each cycle until it is done with.
WriteBeat == IF Serving THEN Put(dram, Head(awQueue).addr, Head(wQueue)) ELSE dram

WriteAnswerEarly ==
  IF Serving
    THEN [valid |-> TRUE, id |-> Head(awQueue).id, ok |-> Good(Head(awQueue).addr)]
    ELSE [b EXCEPT !.valid = FALSE]

WriteAnswer ==
  IF Serving
    THEN [valid |-> Head(wQueue).last, id |-> Head(awQueue).id, ok |-> Good(Head(awQueue).addr)]
    ELSE [b EXCEPT !.valid = FALSE]

BeatDone == Serving /\ (Head(wQueue).last => bready')

BeatsLeft == IF BeatDone THEN Tail(wQueue) ELSE wQueue

WritesLeft ==
  CASE ~BeatDone -> awQueue
    [] BeatDone /\ Head(wQueue).last -> Tail(awQueue)
    [] OTHER -> Advanced(awQueue)

\* A channel is ready while its queue has room; what is on it enters.
Room(q) == Len(q) < MaxPending
Push(q, req) == IF Room(q) /\ req # None THEN Append(q, req) ELSE q

Channels ==
  /\ r' = ReadAnswer
  /\ dram' = WriteBeat
  /\ b' = WriteAnswer
  /\ ready' = [ar |-> Room(ReadsLeft), aw |-> Room(WritesLeft), w |-> Room(BeatsLeft)]
  /\ arQueue' = Push(ReadsLeft, ar')
  /\ awQueue' = Push(WritesLeft, aw')
  /\ wQueue' = Push(BeatsLeft, w')

\* fb_ptr goes back to the start with the first pixel of a frame.
PixelAt(first) == IF first THEN 0 ELSE fbPtr

\* The frame is shown with its last pixel.
Screen(valid) ==
  IF ~valid
    THEN UNCHANGED <<fb, fbPtr, screen, dac>>
    ELSE LET at == PixelAt(dac.at = 0)
             last == dac.at = FbSize - 1
         IN /\ fb' = [fb EXCEPT ![at] = dac]
            /\ fbPtr' = at + 1
            /\ screen' = IF last THEN fb' ELSE screen
            /\ dac' = IF last THEN [frame |-> 1 - dac.frame, at |-> 0]
                              ELSE [dac EXCEPT !.at = @ + 1]

SysBusCycle(newAr, newAw, data, toW, takeR, takeB, pixel) ==
  /\ toLoad = 0
  /\ Edge(newAr, newAw, data, toW, takeR, takeB)
  /\ Channels
  /\ Screen(pixel)
  /\ UNCHANGED toLoad

DramInit ==
  /\ dram = [a \in 0 .. DramSize - 1 |-> [l \in Lane |-> 0]]
  /\ settled = [a \in DOMAIN dram |-> [l \in Lane |->
                  LET i == a * Bytes + l IN IF i < ImgSize THEN Image[i + 1] ELSE 0]]
  /\ toLoad = ImgSize
  /\ arQueue = <<>> /\ awQueue = <<>> /\ wQueue = <<>>
  /\ r = [valid |-> FALSE, id |-> None, last |-> FALSE, ok |-> TRUE, data |-> dram[0]]
  /\ b = [valid |-> FALSE, id |-> None, ok |-> TRUE]
  /\ ready = [ar |-> FALSE, aw |-> FALSE, w |-> FALSE]
  /\ dac = [frame |-> 0, at |-> 0]
  /\ fb = [i \in 0 .. FbSize - 1 |-> None]
  /\ fbPtr = 0 /\ screen = fb
  /\ ar = None /\ aw = None /\ w = None
  /\ rready = FALSE /\ bready = FALSE
  /\ plan = <<>> /\ owedR = <<>> /\ owedB = <<>> /\ inFlight = <<>>
=============================================================================
