--------------------------- MODULE Simulator_proof --------------------------
(***************************************************************************)
(* Three results about the simulator of the platform, for any number of    *)
(* cores, devices and values, any programs and any user of the debugger.   *)
(* A core executes the instructions of its program, for any number of      *)
(* addresses and any size of the queue, and the bus answers the walk that  *)
(* has asked.  A device in the design takes an access once.  A session of  *)
(* the debugger leaves no instruction out and repeats none.                *)
(***************************************************************************)
EXTENDS Simulator, TLAPS

-----------------------------------------------------------------------------
(***************************************************************************)
(* The fetch.  What is in the queue goes on from what is in the porch,     *)
(* address by address, and hold_addr goes on from the queue.  An answer    *)
(* that is awaited and not to be thrown away is the one for hold_addr.     *)
(***************************************************************************)
QueueType == queue.valid \in 0 .. QueueSize

InPorch ==
  /\ porch.nop \in BOOLEAN
  /\ porch.pc = wanted
  /\ ~porch.nop => porch.insn = wanted
  /\ porch.nop => queue.pc = wanted
  /\ ~porch.nop => queue.pc = After(wanted)

InQueue ==
  /\ queue.valid > 0 => queue.slot[0] = queue.pc
  /\ \A i \in Slots : i > 0 /\ i < queue.valid => queue.slot[i] = After(queue.slot[i - 1])
  /\ fetch.addr = IF queue.valid = 0 THEN queue.pc ELSE After(queue.slot[queue.valid - 1])

Awaited ==
  /\ fetch.discard \in BOOLEAN
  /\ port.busy => port.answer = Nil /\ fetch.pending
  /\ ~fetch.discard =>
       /\ port.busy => port.at = fetch.addr
       /\ port.answer # Nil => port.answer = fetch.addr

FetchInv == QueueType /\ InPorch /\ InQueue /\ Awaited

USE DEF QueueType

LEMMA FetchInitially == FetchInit => FetchInv
BY FetchAssumption DEF FetchInit, FetchInv, InPorch, InQueue, Awaited, Slots, Unused

\* A flush empties the queue.
LEMMA FlushedQueue ==
  ASSUME NEW stall \in BOOLEAN, FetchInv, FetchCycle(stall), Flushes
  PROVE  QueueType' /\ InPorch' /\ InQueue'
<1>1. porch' = [nop |-> TRUE, insn |-> Nil, pc |-> GoesTo] /\ wanted' = GoesTo
  <2>1. CASE branch # Nil
    BY <2>1 DEF FetchCycle, PorchEdge, IssueEdge, GoesTo
  <2>2. CASE branch = Nil
    BY <2>2 DEF FetchCycle, PorchEdge, IssueEdge, GoesTo, FetchInv, InPorch
  <2> QED BY <2>1, <2>2
<1>2. queue'.pc = GoesTo /\ queue'.valid = 0 /\ fetch'.addr = GoesTo
  BY DEF FetchCycle, FetchEdge, QueueEdge, ValidNext, Addr
<1>3. QueueType' /\ InQueue'
  BY <1>2, FetchAssumption DEF InQueue, Slots
<1>4. porch'.nop /\ porch'.nop \in BOOLEAN /\ porch'.pc = wanted' /\ queue'.pc = wanted'
  BY <1>1, <1>2, Zenon
<1>5. InPorch'
  BY <1>4, Zenon DEF InPorch
<1> QED BY <1>3, <1>5

\* Without one, what leaves the queue goes into the porch.
LEMMA NextPorch ==
  ASSUME NEW stall \in BOOLEAN, FetchInv, FetchCycle(stall), ~Flushes
  PROVE  InPorch'
<1> USE FetchAssumption DEF FetchInv, InPorch, InQueue, FetchCycle, QueueEdge, PorchEdge, IssueEdge, Flushes
<1>1. CASE stall
  BY <1>1
<1>2. CASE ~stall
  <2>1. /\ wanted' = IF porch.nop THEN wanted ELSE After(wanted)
        /\ queue'.pc = IF queue.valid > 0 THEN After(queue.pc) ELSE queue.pc
    BY <1>2
  <2>p. porch' = [nop |-> queue.valid = 0, insn |-> queue.slot[0], pc |-> queue.pc]
    BY <1>2
  <2> HIDE DEF FetchInv, InPorch, InQueue, FetchCycle, QueueEdge, PorchEdge, IssueEdge, Flushes
  <2>2. porch'.nop = (queue.valid = 0) /\ porch'.insn = queue.slot[0] /\ porch'.pc = queue.pc
    BY <2>p, Zenon
  <2> USE DEF FetchInv, InPorch, InQueue, FetchCycle, QueueEdge, PorchEdge, IssueEdge, Flushes
  <2>3. wanted' = queue.pc
    BY <2>1
  <2>4. queue.valid \in Nat
    OBVIOUS
  <2> HIDE DEF FetchInv, InPorch, InQueue, FetchCycle, QueueEdge, PorchEdge, IssueEdge, Flushes
  <2>5. CASE queue.valid = 0
    <3>1. porch'.nop /\ porch'.nop \in BOOLEAN
      BY <2>2, <2>5, Zenon
    <3>2. queue'.pc = wanted'
      BY <2>1, <2>3, <2>5
    <3> QED BY <2>2, <2>3, <3>1, <3>2, Zenon DEF InPorch
  <2>6. CASE queue.valid > 0
    <3>1. queue.valid # 0
      BY <2>6, <2>4
    <3>2. ~porch'.nop /\ porch'.nop \in BOOLEAN
      BY <2>2, <3>1, Zenon
    <3>3. porch'.insn = wanted'
      BY <2>2, <2>3, <2>6 DEF FetchInv, InQueue
    <3>4. queue'.pc = After(wanted')
      BY <2>1, <2>3, <2>6
    <3> QED BY <2>2, <2>3, <3>2, <3>3, <3>4, Zenon DEF InPorch, After
  <2> QED BY <2>4, <2>5, <2>6
<1> QED BY <1>1, <1>2

LEMMA NextQueue ==
  ASSUME NEW stall \in BOOLEAN, FetchInv, FetchCycle(stall), ~Flushes
  PROVE  QueueType' /\ InQueue'
<1> USE FetchAssumption DEF FetchInv, InQueue, Slots
<1> DEFINE n == queue.valid
<1>e. /\ queue'.pc = IF ~stall /\ n > 0 THEN After(queue.pc) ELSE queue.pc
      /\ n' = ValidNext(stall)
      /\ \A i \in Slots : queue'.slot[i] = SlotNext(i, stall)
      /\ fetch'.addr = Addr(stall)
  BY DEF FetchCycle, FetchEdge, QueueEdge
<1>1. CASE FetchedValid
  <2>a. port.answer = fetch.addr
    BY <1>1 DEF FetchedValid, Fetched, Awaited
  <2>1. CASE stall /\ n = QueueSize
    <3>1. n' = n /\ fetch'.addr = fetch.addr /\ queue'.pc = queue.pc
      BY <1>1, <1>e, <2>1 DEF ValidNext, Addr, Fetch, Full, FetchedValid
    <3>2. \A i \in Slots : queue'.slot[i] = queue.slot[i]
      BY <1>1, <1>e, <2>1 DEF SlotNext, Lands
    <3> QED BY <3>1, <3>2
  <2>2. CASE stall /\ n # QueueSize
    <3>1. n' = n + 1 /\ fetch'.addr = After(fetch.addr) /\ queue'.pc = queue.pc
      BY <1>1, <1>e, <2>2 DEF ValidNext, Addr, Fetch, Full, FetchedValid
    <3>2. \A i \in Slots : queue'.slot[i] = IF i = n THEN fetch.addr ELSE queue.slot[i]
      BY <1>1, <1>e, <2>2, <2>a DEF SlotNext, Lands
    <3> QED BY <2>2, <3>1, <3>2
  <2>3. CASE ~stall /\ n = 0
    <3>1. n' = 1 /\ fetch'.addr = After(fetch.addr) /\ queue'.pc = queue.pc
      BY <1>1, <1>e, <2>3 DEF ValidNext, Addr, Fetch, Full, FetchedValid
    <3>2. queue'.slot[0] = fetch.addr
      BY <1>1, <1>e, <2>3, <2>a DEF SlotNext, Lands
    <3> QED BY <2>3, <3>1, <3>2
  <2>4. CASE ~stall /\ n > 0
    <3>1. n' = n /\ fetch'.addr = After(fetch.addr) /\ queue'.pc = After(queue.pc)
      BY <1>1, <1>e, <2>4 DEF ValidNext, Addr, Fetch, Full, FetchedValid
    <3>2. \A i \in Slots : i < n => queue'.slot[i] = IF i = n - 1 THEN fetch.addr ELSE queue.slot[i + 1]
      BY <1>1, <1>e, <2>4, <2>a DEF SlotNext, Lands
    <3> QED BY <2>4, <3>1, <3>2
  <2> QED BY <2>1, <2>2, <2>3, <2>4
<1>2. CASE ~FetchedValid
  <2>0. fetch'.addr = fetch.addr
    BY <1>2, <1>e DEF Addr
  <2>1. CASE stall \/ n = 0
    <3>1. n' = n /\ queue'.pc = queue.pc
      BY <1>2, <1>e, <2>1 DEF ValidNext
    <3>2. \A i \in Slots : i < n => queue'.slot[i] = queue.slot[i]
      BY <1>2, <1>e, <2>1 DEF SlotNext, Lands
    <3> QED BY <2>0, <2>1, <3>1, <3>2
  <2>2. CASE ~stall /\ n > 0
    <3>1. n' = n - 1 /\ queue'.pc = After(queue.pc)
      BY <1>2, <1>e, <2>2 DEF ValidNext
    <3>2. \A i \in Slots : i < n - 1 => queue'.slot[i] = queue.slot[i + 1]
      BY <1>2, <1>e, <2>2 DEF SlotNext, Lands
    <3> QED BY <2>0, <2>2, <3>1, <3>2
  <2> QED BY <2>1, <2>2
<1> QED BY <1>1, <1>2

\* A flush while an answer is awaited makes the fetch throw it away.
LEMMA NextAwaited ==
  ASSUME NEW stall \in BOOLEAN, FetchInv, FetchCycle(stall), PortEdge(stall)
  PROVE  Awaited'
<1> USE FetchAssumption DEF FetchInv, Awaited, Unused, Asked, Answered
<1>e. /\ fetch'.pending = (Fetch(stall) \/ (fetch.pending /\ ~Fetched))
      /\ fetch'.discard = (fetch'.pending /\ (fetch.discard \/ Flushes))
      /\ fetch'.addr = Addr(stall)
  BY DEF FetchCycle, FetchEdge
<1>d. fetch'.discard \in BOOLEAN
  BY <1>e
<1>1. CASE ~port.busy
  <2>1. CASE Fetch(stall)
    <3>1. port' = Asked(Addr(stall)) /\ fetch'.pending
      BY <1>1, <1>e, <2>1 DEF PortEdge
    <3> QED BY <1>e, <1>d, <3>1
  <2>2. CASE ~Fetch(stall)
    <3>1. port' = Unused
      BY <1>1, <2>2 DEF PortEdge
    <3> QED BY <1>d, <3>1
  <2> QED BY <2>1, <2>2
<1>2. CASE port.busy
  <2>1. ~Fetched /\ fetch'.pending
    BY <1>2, <1>e DEF Fetched
  <2>2. ~fetch'.discard => fetch'.addr = fetch.addr
    BY <1>e, <2>1 DEF Addr, FetchedValid
  <2> QED BY <1>2, <1>e, <1>d, <2>1, <2>2 DEF PortEdge
<1> QED BY <1>1, <1>2

LEMMA FetchStep == FetchInv /\ [FetchNext]_fetchVars => FetchInv'
<1> SUFFICES ASSUME FetchInv, [FetchNext]_fetchVars PROVE FetchInv'
  OBVIOUS
<1>1. ASSUME NEW stall \in BOOLEAN, FetchCycle(stall), PortEdge(stall) PROVE FetchInv'
  <2>1. CASE Flushes
    BY <1>1, <2>1, FlushedQueue, NextAwaited DEF FetchInv
  <2>2. CASE ~Flushes
    BY <1>1, <2>2, NextPorch, NextQueue, NextAwaited DEF FetchInv
  <2> QED BY <2>1, <2>2
<1>2. CASE UNCHANGED fetchVars
  BY <1>2 DEF fetchVars, FetchInv, InPorch, InQueue, Awaited
<1> QED BY <1>1, <1>2 DEF FetchNext

\* For any program, queue and port, the core executes the instructions that are due.
THEOREM FetchRight == FetchSpec => []RightInstructions
<1>1. FetchInv => RightInstructions
  BY DEF FetchInv, InPorch, RightInstructions
<1> QED BY FetchInitially, FetchStep, <1>1, PTL DEF FetchSpec

-----------------------------------------------------------------------------
(***************************************************************************)
(* The arbiter.  A request is in one place: a walk has just started, or    *)
(* the request is at the bus, or it is held while the other one is there.  *)
(***************************************************************************)
WalkType(w, p, A) ==
  /\ w.state \in {"IDLE", "L1", "L2", "DATA", "FAULT"}
  /\ w.start \in BOOLEAN
  /\ w.start => Busy(w)
  /\ w.state # "IDLE" => p.at \in A

Places ==
  /\ branch \in Address \cup {Nil}
  /\ fetch.addr \in Address /\ porch.pc \in Address /\ queue.pc \in Address

MmuType ==
  /\ Places
  /\ WalkType(iwalk, port, Address)
  /\ WalkType(dwalk, dport, DataPtr)
  /\ arb.master \in {"INSN", "DATA"}
  /\ arb.active \in BOOLEAN

\* The request r is that of a walk.
Of(r, of, w, p) == r = Req(of, w, p) /\ Busy(w) /\ ~w.start

AtBus ==
  /\ arb.active <=> wire # Nil
  /\ wire # Nil /\ arb.master = "INSN" => Of(wire, "INSN", iwalk, port)
  /\ wire # Nil /\ arb.master = "DATA" => Of(wire, "DATA", dwalk, dport)

Held ==
  arb.hold # Nil =>
    /\ wire # Nil
    /\ arb.master = "INSN" => Of(arb.hold, "DATA", dwalk, dport)
    /\ arb.master = "DATA" => Of(arb.hold, "INSN", iwalk, port)

MmuInv == MmuType /\ AtBus /\ Held

LEMMA MmuInitially == CoreInit => MmuInv
<1> SUFFICES ASSUME CoreInit PROVE MmuInv
  OBVIOUS
<1>1. ASSUME NEW w, w = [state |-> "IDLE", start |-> FALSE], NEW p, NEW A PROVE WalkType(w, p, A)
  <2>1. w.state = "IDLE" /\ ~w.start /\ w.start \in BOOLEAN
    BY <1>1, Zenon
  <2> QED BY <2>1, Zenon DEF WalkType
<1>2. WalkType(iwalk, port, Address) /\ WalkType(dwalk, dport, DataPtr)
  BY <1>1, Zenon DEF CoreInit, MmuInit
<1>3. arb.master = "INSN" /\ ~arb.active /\ arb.active \in BOOLEAN /\ arb.hold = Nil
  BY Zenon DEF CoreInit, MmuInit
<1>4. Places
  BY FetchAssumption DEF CoreInit, FetchInit, Places, Address
<1>5. wire = Nil
  BY DEF CoreInit, MmuInit
<1> QED BY <1>2, <1>3, <1>4, <1>5, Zenon DEF MmuInv, MmuType, AtBus, Held

LEMMA PlacesStep ==
  ASSUME Places, NEW stall \in BOOLEAN, FetchCycle(stall)
  PROVE  Places' /\ Addr(stall) \in Address
<1> USE FetchAssumption DEF Places
<1>1. \A a \in Address : After(a) \in Address
  BY DEF Address, After
<1>2. GoesTo \in Address
  BY DEF GoesTo
<1>3. Addr(stall) \in Address
  BY <1>1, <1>2 DEF Addr
<1>4. fetch'.addr \in Address
  BY <1>3 DEF FetchCycle, FetchEdge
<1>5. porch'.pc \in Address
  BY <1>2 DEF FetchCycle, PorchEdge
<1>6. queue'.pc \in Address
  BY <1>1, <1>2 DEF FetchCycle, QueueEdge
<1>7. branch' \in Address \cup {Nil}
  BY DEF FetchCycle, IssueEdge
<1> QED BY <1>3, <1>4, <1>5, <1>6, <1>7

\* A walk that awaits an answer goes on waiting; and any walk stays one.
LEMMA WalkGoesOn ==
  ASSUME NEW w, NEW p, NEW A, NEW a \in A \cup {Nil}, NEW ready \in BOOLEAN, WalkType(w, p, A),
         NEW n \in WalkNext(w, p, a, ready)
  PROVE  /\ WalkType(n.walk, n.port, A)
         /\ Busy(w) /\ ~ready => n.walk.state = w.state /\ ~n.walk.start /\ n.port = p
<1>a. \A q : Asked(q).at = q
  BY DEF Asked
<1>1. CASE w.state = "IDLE"
  <2>1. ~Busy(w)
    BY <1>1 DEF Busy
  <2>2. CASE a = Nil
    <3>1. n = Becomes("IDLE", FALSE, Unused)
      BY <1>1, <2>2 DEF WalkNext
    <3>2. n.walk.state = "IDLE" /\ ~n.walk.start /\ n.walk.start \in BOOLEAN
      BY <3>1, Zenon DEF Becomes
    <3> QED BY <2>1, <3>2, Zenon DEF WalkType
  <2>3. CASE a # Nil
    <3>1. PICK s \in {"L1", "DATA"} : n = Becomes(s, TRUE, Asked(a))
      BY <1>1, <2>3 DEF WalkNext
    <3>2. n.walk.state = s /\ n.walk.start /\ n.walk.start \in BOOLEAN /\ n.port = Asked(a)
      BY <3>1, Zenon DEF Becomes
    <3>3. Busy(n.walk) /\ n.walk.state \in {"IDLE", "L1", "L2", "DATA", "FAULT"}
      BY <3>2 DEF Busy
    <3>4. n.port.at \in A
      BY <2>3, <3>2, <1>a
    <3> QED BY <2>1, <3>2, <3>3, <3>4, Zenon DEF WalkType
  <2> QED BY <2>2, <2>3
<1>2. CASE w.state = "FAULT"
  <2>1. n = Becomes("IDLE", FALSE, Answered(p.at))
    BY <1>2 DEF WalkNext
  <2>2. n.walk.state = "IDLE" /\ ~n.walk.start /\ n.walk.start \in BOOLEAN
    BY <2>1, Zenon DEF Becomes
  <2>3. ~Busy(w)
    BY <1>2 DEF Busy
  <2> QED BY <2>2, <2>3, Zenon DEF WalkType
<1>3. CASE w.state \notin {"IDLE", "FAULT"} /\ ~ready
  <2>1. n = Becomes(w.state, FALSE, p)
    BY <1>3 DEF WalkNext
  <2>2. n.walk.state = w.state /\ ~n.walk.start /\ n.walk.start \in BOOLEAN /\ n.port = p
    BY <2>1, Zenon DEF Becomes
  <2>3. n.walk.state \in {"IDLE", "L1", "L2", "DATA", "FAULT"} /\ n.port.at \in A
    BY <1>3, <2>2 DEF WalkType
  <2> QED BY <2>2, <2>3, Zenon DEF WalkType
<1>4. CASE w.state \in {"L1", "L2", "DATA"} /\ ready
  <2>1. \/ \E s \in {"L2", "DATA"} : n = Becomes(s, TRUE, p)
        \/ n = Becomes("FAULT", FALSE, p)
        \/ n = Becomes("IDLE", FALSE, Answered(wire.at))
    BY <1>4 DEF WalkNext
  <2>2. p.at \in A
    BY <1>4 DEF WalkType
  <2>3. ASSUME NEW s \in {"L2", "DATA"}, n = Becomes(s, TRUE, p) PROVE WalkType(n.walk, n.port, A)
    <3>1. n.walk.state = s /\ n.walk.start /\ n.walk.start \in BOOLEAN /\ n.port = p
      BY <2>3, Zenon DEF Becomes
    <3>2. Busy(n.walk) /\ n.walk.state \in {"IDLE", "L1", "L2", "DATA", "FAULT"}
      BY <3>1 DEF Busy
    <3> QED BY <2>2, <3>1, <3>2, Zenon DEF WalkType
  <2>4. CASE n = Becomes("FAULT", FALSE, p)
    <3>1. n.walk.state = "FAULT" /\ ~n.walk.start /\ n.walk.start \in BOOLEAN /\ n.port = p
      BY <2>4, Zenon DEF Becomes
    <3> QED BY <1>4, <2>2, <3>1, Zenon DEF WalkType
  <2>5. CASE n = Becomes("IDLE", FALSE, Answered(wire.at))
    <3>1. n.walk.state = "IDLE" /\ ~n.walk.start /\ n.walk.start \in BOOLEAN
      BY <2>5, Zenon DEF Becomes
    <3> QED BY <1>4, <3>1, Zenon DEF WalkType
  <2> QED BY <1>4, <2>1, <2>3, <2>4, <2>5
<1> QED BY <1>1, <1>2, <1>3, <1>4 DEF WalkType

\* A walk has started with its request, or asks for nothing.
LEMMA Starting ==
  ASSUME MmuInv
  PROVE  /\ iwalk.start => Busy(iwalk) /\ InsnStart = Req("INSN", iwalk, port)
         /\ ~iwalk.start => InsnStart = Nil
         /\ dwalk.start => Busy(dwalk) /\ DataStart = Req("DATA", dwalk, dport)
         /\ ~dwalk.start => DataStart = Nil
<1>1. /\ iwalk.start => Busy(iwalk)
      /\ dwalk.start => Busy(dwalk)
  BY Zenon DEF MmuInv, MmuType, WalkType
<1> QED BY <1>1, Zenon DEF InsnStart, DataStart, StartOf

\* A cycle in which the bus is not done with a request changes neither the master nor
\* the bus.
LEMMA BusWaits ==
  ASSUME MmuInv, NEW ready \in BOOLEAN, ready => wire # Nil, ArbEdge(ready), WireEdge(ready),
         wire # Nil, ~ready
  PROVE  /\ arb'.master = arb.master /\ arb'.active \in BOOLEAN /\ arb'.active
         /\ wire' = wire
         /\ arb'.hold = IF arb.hold # Nil THEN arb.hold ELSE IF arb.master = "INSN" THEN DataStart ELSE InsnStart
<1>1. arb.active /\ NextMaster(ready) = arb.master /\ ~Transition(ready)
  BY DEF MmuInv, AtBus, NextMaster, Transition
<1>2. BusStart(ready) = Nil
  BY <1>1, Starting DEF MmuInv, MmuType, AtBus, Of, BusStart
<1> QED BY <1>1, <1>2 DEF ArbEdge, WireEdge

\* In any other, the request that was held has the bus, or one of those that start.
LEMMA BusMoves ==
  ASSUME MmuInv, NEW ready \in BOOLEAN, ready => wire # Nil, ArbEdge(ready), WireEdge(ready),
         wire = Nil \/ ready
  PROVE  /\ arb'.master \in {"INSN", "DATA"}
         /\ wire' = BusStart(ready)
         /\ arb'.active \in BOOLEAN /\ (arb'.active <=> wire' # Nil)
         /\ arb'.master = "INSN" =>
              /\ wire' = IF arb.hold # Nil THEN arb.hold ELSE InsnStart
              /\ arb.hold # Nil => arb.master = "DATA"
              /\ arb'.hold = Nil
         /\ arb'.master = "DATA" =>
              /\ wire' = IF arb.hold # Nil THEN arb.hold ELSE DataStart
              /\ arb.hold # Nil => arb.master = "INSN"
              /\ arb'.hold # Nil => arb'.hold = InsnStart /\ wire' # Nil /\ ~InsnReady(ready)
<1> DEFINE turn == NextMaster(ready)
           start == BusStart(ready)
<1>1. turn = IF DataStart = Nil /\ (arb.master = "DATA" \/ arb.hold = Nil) THEN "INSN" ELSE "DATA"
  BY DEF NextMaster, MmuInv, AtBus
<1>2. arb'.master = turn /\ arb'.hold = IF Transition(ready) \/ arb.hold = Nil
                                          THEN IF turn = "INSN" THEN DataStart ELSE InsnStart ELSE arb.hold
  BY DEF ArbEdge
<1>3. wire' = start
  BY DEF WireEdge
<1>4. arb'.active \in BOOLEAN /\ (arb'.active <=> start # Nil)
  <2>1. arb'.active = (start # Nil \/ (arb.active /\ ~ready))
    BY Zenon DEF ArbEdge
  <2>2. ~(arb.active /\ ~ready)
    BY DEF MmuInv, AtBus
  <2> QED BY <2>1, <2>2, Zenon
<1>5. /\ arb.master \in {"INSN", "DATA"}
      /\ wire # Nil /\ arb.master = "INSN" => InsnStart = Nil
      /\ wire # Nil /\ arb.master = "DATA" => DataStart = Nil
      /\ arb.hold # Nil => wire # Nil /\ InsnStart = Nil /\ DataStart = Nil
  <2>1. arb.master \in {"INSN", "DATA"}
    BY DEF MmuInv, MmuType
  <2>2. wire # Nil => (arb.master = "INSN" => InsnStart = Nil) /\ (arb.master = "DATA" => DataStart = Nil)
    BY Starting, Zenon DEF MmuInv, AtBus, Of
  <2>3. arb.hold # Nil => /\ wire # Nil
                          /\ arb.master = "INSN" => DataStart = Nil
                          /\ arb.master = "DATA" => InsnStart = Nil
    BY Starting, Zenon DEF MmuInv, Held, Of
  <2> QED BY <2>1, <2>2, <2>3
<1>6. CASE arb.hold # Nil
  <2>1. turn # arb.master /\ turn = IF arb.master = "INSN" THEN "DATA" ELSE "INSN"
    BY <1>1, <1>5, <1>6
  <2>2. start = arb.hold
    BY <1>6, <2>1 DEF BusStart, Transition
  <2>3. arb'.hold = Nil
    BY <1>2, <1>5, <1>6, <2>1 DEF Transition
  <2> QED BY <1>1, <1>2, <1>3, <1>4, <1>5, <1>6, <2>1, <2>2, <2>3
<1>7. CASE arb.hold = Nil
  <2>1. start = IF turn = "INSN" THEN InsnStart ELSE DataStart
    BY <1>7, <1>1 DEF BusStart
  <2>2. arb'.hold = IF turn = "INSN" THEN DataStart ELSE InsnStart
    BY <1>2, <1>7
  <2>3. InsnReady(ready) => InsnStart = Nil
    BY <1>5 DEF InsnReady
  <2> QED BY <1>1, <1>2, <1>3, <1>4, <1>7, <2>1, <2>2, <2>3
<1> QED BY <1>6, <1>7

\* A walk whose request waits or is new stays as it is, and only it.
LEMMA WalksStep ==
  ASSUME MmuInv, NEW ready \in BOOLEAN, NEW stall \in BOOLEAN, FetchCycle(stall),
         IwalkEdge(stall, ready), DwalkEdge(ready)
  PROVE  /\ Places' /\ WalkType(iwalk, port, Address)' /\ WalkType(dwalk, dport, DataPtr)'
         /\ \A r : Busy(iwalk) /\ r = Req("INSN", iwalk, port) /\ ~InsnReady(ready)
                     => Of(r, "INSN", iwalk', port')
         /\ \A r : Busy(dwalk) /\ r = Req("DATA", dwalk, dport) /\ ~DataReady(ready)
                     => Of(r, "DATA", dwalk', dport')
<1>1. Places' /\ Addr(stall) \in Address
  BY PlacesStep DEF MmuInv, MmuType
<1>2. InsnReady(ready) \in BOOLEAN /\ DataReady(ready) \in BOOLEAN
  BY DEF InsnReady, DataReady
<1>3. /\ WalkType(iwalk', port', Address)
      /\ Busy(iwalk) /\ ~InsnReady(ready) => iwalk'.state = iwalk.state /\ ~iwalk'.start /\ port' = port
  <2>1. PICK n \in WalkNext(iwalk, port, IF Fetch(stall) THEN Addr(stall) ELSE Nil, InsnReady(ready)) :
          iwalk' = n.walk /\ port' = n.port
    BY DEF IwalkEdge
  <2>2. WalkType(iwalk, port, Address) /\ (IF Fetch(stall) THEN Addr(stall) ELSE Nil) \in Address \cup {Nil}
    BY <1>1 DEF MmuInv, MmuType
  <2> DEFINE a == IF Fetch(stall) THEN Addr(stall) ELSE Nil
             now == InsnReady(ready)
  <2>3. n \in WalkNext(iwalk, port, a, now) /\ a \in Address \cup {Nil} /\ now \in BOOLEAN
    BY <1>2, <2>2
  <2> HIDE DEF a, now
  <2>4. /\ WalkType(n.walk, n.port, Address)
        /\ Busy(iwalk) /\ ~now => n.walk.state = iwalk.state /\ ~n.walk.start /\ n.port = port
    BY <2>2, <2>3, WalkGoesOn
  <2> QED BY <2>1, <2>4, Zenon DEF now
<1>4. /\ WalkType(dwalk', dport', DataPtr)
      /\ Busy(dwalk) /\ ~DataReady(ready) => dwalk'.state = dwalk.state /\ ~dwalk'.start /\ dport' = dport
  <2>1. PICK a \in {Nil} \cup {d \in DataPtr : MayAsk} :
          \E n \in WalkNext(dwalk, dport, a, DataReady(ready)) : dwalk' = n.walk /\ dport' = n.port
    BY DEF DwalkEdge
  <2>2. PICK n \in WalkNext(dwalk, dport, a, DataReady(ready)) : dwalk' = n.walk /\ dport' = n.port
    BY <2>1
  <2>3. WalkType(dwalk, dport, DataPtr) /\ a \in DataPtr \cup {Nil}
    BY DEF MmuInv, MmuType
  <2> DEFINE now == DataReady(ready)
  <2>4. n \in WalkNext(dwalk, dport, a, now) /\ now \in BOOLEAN
    BY <1>2
  <2> HIDE DEF now
  <2>5. /\ WalkType(n.walk, n.port, DataPtr)
        /\ Busy(dwalk) /\ ~now => n.walk.state = dwalk.state /\ ~n.walk.start /\ n.port = dport
    <3> DEFINE b == a
    <3>1. n \in WalkNext(dwalk, dport, b, now) /\ b \in DataPtr \cup {Nil}
      BY <2>3, <2>4
    <3> HIDE DEF b
    <3> QED BY <2>3, <2>4, <3>1, WalkGoesOn
  <2> QED BY <2>2, <2>5, Zenon DEF now
<1>5. ASSUME NEW r, Busy(iwalk), r = Req("INSN", iwalk, port), ~InsnReady(ready)
      PROVE  Of(r, "INSN", iwalk', port')
  <2>1. iwalk'.state = iwalk.state /\ ~iwalk'.start /\ port' = port
    BY <1>3, <1>5, Zenon
  <2>2. r = Req("INSN", iwalk', port')
    BY <1>5, <2>1 DEF Req
  <2>3. Busy(iwalk')
    BY <1>5, <2>1 DEF Busy
  <2> QED BY <2>1, <2>2, <2>3, Zenon DEF Of
<1>6. ASSUME NEW r, Busy(dwalk), r = Req("DATA", dwalk, dport), ~DataReady(ready)
      PROVE  Of(r, "DATA", dwalk', dport')
  <2>1. dwalk'.state = dwalk.state /\ ~dwalk'.start /\ dport' = dport
    BY <1>4, <1>6, Zenon
  <2>2. r = Req("DATA", dwalk', dport')
    BY <1>6, <2>1 DEF Req
  <2>3. Busy(dwalk')
    BY <1>6, <2>1 DEF Busy
  <2> QED BY <2>1, <2>2, <2>3, Zenon DEF Of
<1>7. WalkType(iwalk, port, Address)' /\ WalkType(dwalk, dport, DataPtr)'
  BY <1>3, <1>4, Zenon DEF WalkType, Busy, Address
<1> QED BY <1>1, <1>5, <1>6, <1>7, Zenon

LEMMA MmuStep == MmuInv /\ [CoreNext]_coreVars => MmuInv'
<1> SUFFICES ASSUME MmuInv, [CoreNext]_coreVars PROVE MmuInv'
  OBVIOUS
<1>1. ASSUME NEW ready \in BOOLEAN, CoreCycle(ready) PROVE MmuInv'
  <2>1. PICK stall \in BOOLEAN : FetchCycle(stall) /\ IwalkEdge(stall, ready)
    BY <1>1 DEF CoreCycle
  <2>2. (ready => wire # Nil) /\ ArbEdge(ready) /\ WireEdge(ready) /\ DwalkEdge(ready)
    BY <1>1 DEF CoreCycle
  <2>3. /\ Places' /\ WalkType(iwalk, port, Address)' /\ WalkType(dwalk, dport, DataPtr)'
        /\ \A r : Busy(iwalk) /\ r = Req("INSN", iwalk, port) /\ ~InsnReady(ready)
                    => Of(r, "INSN", iwalk', port')
        /\ \A r : Busy(dwalk) /\ r = Req("DATA", dwalk, dport) /\ ~DataReady(ready)
                    => Of(r, "DATA", dwalk', dport')
    BY <2>1, <2>2, WalksStep
  <2>4. /\ \A r : Of(r, "INSN", iwalk, port) /\ ~InsnReady(ready) => Of(r, "INSN", iwalk', port')
        /\ \A r : Of(r, "DATA", dwalk, dport) /\ ~DataReady(ready) => Of(r, "DATA", dwalk', dport')
        /\ InsnStart # Nil /\ ~InsnReady(ready) => Of(InsnStart, "INSN", iwalk', port')
        /\ DataStart # Nil /\ ~DataReady(ready) => Of(DataStart, "DATA", dwalk', dport')
    BY <2>3, Starting, Zenon DEF Of
  <2>5. /\ arb.master \in {"INSN", "DATA"}
        /\ wire # Nil /\ arb.master = "INSN" => Of(wire, "INSN", iwalk, port) /\ InsnStart = Nil
        /\ wire # Nil /\ arb.master = "DATA" => Of(wire, "DATA", dwalk, dport) /\ DataStart = Nil
        /\ arb.hold # Nil => wire # Nil
        /\ arb.hold # Nil /\ arb.master = "INSN" => Of(arb.hold, "DATA", dwalk, dport)
        /\ arb.hold # Nil /\ arb.master = "DATA" => Of(arb.hold, "INSN", iwalk, port)
    BY Starting, Zenon DEF MmuInv, MmuType, AtBus, Held, Of
  <2> DEFINE
        Bus == /\ arb'.master \in {"INSN", "DATA"} /\ arb'.active \in BOOLEAN
               /\ arb'.active <=> wire' # Nil
               /\ arb'.hold # Nil => wire' # Nil
        InsnHas == arb'.master = "INSN" =>
                     /\ wire' # Nil => Of(wire', "INSN", iwalk', port')
                     /\ arb'.hold # Nil => Of(arb'.hold, "DATA", dwalk', dport')
        DataHas == arb'.master = "DATA" =>
                     /\ wire' # Nil => Of(wire', "DATA", dwalk', dport')
                     /\ arb'.hold # Nil => Of(arb'.hold, "INSN", iwalk', port')
  <2> SUFFICES Bus /\ InsnHas /\ DataHas
    BY <2>3, Zenon DEF MmuInv, MmuType, AtBus, Held, Of, Busy, Req
  <2>6. CASE wire # Nil /\ ~ready
    <3>1. /\ arb'.master = arb.master /\ arb'.active \in BOOLEAN /\ arb'.active
          /\ wire' = wire
          /\ arb'.hold = IF arb.hold # Nil THEN arb.hold
                         ELSE IF arb.master = "INSN" THEN DataStart ELSE InsnStart
      BY <2>2, <2>6, BusWaits
    <3>2. ~InsnReady(ready) /\ ~DataReady(ready)
      BY <2>6 DEF InsnReady, DataReady
    <3>3. Bus
      BY <2>5, <2>6, <3>1, Zenon
    <3>4. InsnHas
      BY <2>4, <2>5, <2>6, <3>1, <3>2
    <3>5. DataHas
      BY <2>4, <2>5, <2>6, <3>1, <3>2
    <3> QED BY <3>3, <3>4, <3>5
  <2>7. CASE wire = Nil \/ ready
    <3>1. /\ arb'.master \in {"INSN", "DATA"}
          /\ arb'.active \in BOOLEAN /\ (arb'.active <=> wire' # Nil)
          /\ arb'.master = "INSN" =>
               /\ wire' = IF arb.hold # Nil THEN arb.hold ELSE InsnStart
               /\ arb.hold # Nil => arb.master = "DATA"
               /\ arb'.hold = Nil
          /\ arb'.master = "DATA" =>
               /\ wire' = IF arb.hold # Nil THEN arb.hold ELSE DataStart
               /\ arb.hold # Nil => arb.master = "INSN"
               /\ arb'.hold # Nil => arb'.hold = InsnStart /\ wire' # Nil /\ ~InsnReady(ready)
      BY <2>2, <2>7, BusMoves
    <3>2. /\ InsnReady(ready) => arb.master = "INSN" /\ wire # Nil
          /\ DataReady(ready) => arb.master = "DATA" /\ wire # Nil
      BY <2>2 DEF InsnReady, DataReady
    <3>3. Bus
      BY <3>1
    <3>4. InsnHas
      BY <2>4, <2>5, <3>1, <3>2
    <3>5. DataHas
      BY <2>4, <2>5, <3>1, <3>2
    <3> QED BY <3>3, <3>4, <3>5
  <2> QED BY <2>6, <2>7
<1>2. CASE UNCHANGED coreVars
  BY <1>2 DEF coreVars, fetchVars, mmuVars, MmuInv, MmuType, Places, WalkType, Busy, AtBus, Held, Of, Req
<1> QED BY <1>1, <1>2 DEF CoreNext

\* For any addresses and any queue, whatever the tables say and however the requests of
\* the two walks meet, the bus answers the walk that has asked, and what it has asked.
THEOREM ArbiterRight == CoreSpec => []OwnAnswers
<1>1. MmuInv => OwnAnswers
  <2> SUFFICES ASSUME MmuInv, wire # Nil PROVE OwnAnswers
    BY DEF OwnAnswers
  <2>1. CASE arb.master = "INSN"
    BY <2>1 DEF MmuInv, AtBus, Of, OwnAnswers, Req
  <2>2. CASE arb.master = "DATA"
    BY <2>2 DEF MmuInv, AtBus, Of, OwnAnswers, Req
  <2> QED BY <2>1, <2>2, Zenon DEF MmuInv, MmuType
<1> QED BY MmuInitially, MmuStep, <1>1, PTL DEF CoreSpec

\* The port of the fetch is busy as long as the walk is.
PortBusy == port.busy \in BOOLEAN /\ (port.busy <=> iwalk.state # "IDLE")

\* To the fetch, its walk and the bus behind it are a port.
LEMMA WalkIsPort ==
  ASSUME MmuInv, PortBusy, NEW ready \in BOOLEAN, ready => wire # Nil,
         NEW stall \in BOOLEAN, FetchCycle(stall), IwalkEdge(stall, ready)
  PROVE  PortEdge(stall) /\ PortBusy'
<1> DEFINE a == IF Fetch(stall) THEN Addr(stall) ELSE Nil
<1>1. Addr(stall) \in Address /\ Nil \notin Address
  BY PlacesStep, FetchAssumption DEF MmuInv, MmuType
<1>2. PICK n \in WalkNext(iwalk, port, a, InsnReady(ready)) : iwalk' = n.walk /\ port' = n.port
  BY DEF IwalkEdge
<1>4. InsnReady(ready) => wire.at = port.at
  BY DEF InsnReady, MmuInv, AtBus, Of, Req
<1>5. /\ \A q : Asked(q).busy /\ Asked(q).busy \in BOOLEAN
      /\ \A q : ~Answered(q).busy /\ Answered(q).busy \in BOOLEAN
      /\ ~Unused.busy /\ Unused.busy \in BOOLEAN
  BY Zenon DEF Asked, Answered, Unused
<1>6. CASE iwalk.state = "IDLE"
  <2>1. \/ a = Nil /\ n = Becomes("IDLE", FALSE, Unused)
        \/ a # Nil /\ \E s \in {"L1", "DATA"} : n = Becomes(s, TRUE, Asked(a))
    BY <1>2, <1>6 DEF WalkNext
  <2>2. CASE a = Nil
    <3>0. n = Becomes("IDLE", FALSE, Unused)
      BY <2>1, <2>2
    <3>1. port' = Unused /\ iwalk'.state = "IDLE"
      BY <1>2, <3>0, Zenon DEF Becomes
    <3>2. ~Fetch(stall)
      BY <1>1, <2>2
    <3> QED BY <1>5, <1>6, <3>1, <3>2, Zenon DEF PortBusy, PortEdge
  <2>3. CASE a # Nil
    <3>1. PICK s \in {"L1", "DATA"} : n = Becomes(s, TRUE, Asked(a))
      BY <2>1, <2>3
    <3>2. port' = Asked(a) /\ iwalk'.state = s
      BY <1>2, <3>1, Zenon DEF Becomes
    <3>3. iwalk'.state # "IDLE"
      BY <3>2
    <3>4. Fetch(stall) /\ port' = Asked(Addr(stall))
      BY <2>3, <3>2
    <3> QED BY <1>5, <1>6, <3>3, <3>4, Zenon DEF PortBusy, PortEdge
  <2> QED BY <2>2, <2>3
<1>7. CASE iwalk.state # "IDLE"
  <2>1. \/ \E s \in {"L1", "L2", "DATA", "FAULT"}, b \in BOOLEAN : n = Becomes(s, b, port)
        \/ n = Becomes("IDLE", FALSE, Answered(port.at))
    BY <1>2, <1>4, <1>7 DEF WalkNext, MmuInv, MmuType, WalkType
  <2>2. CASE n = Becomes("IDLE", FALSE, Answered(port.at))
    <3>1. port' = Answered(port.at) /\ iwalk'.state = "IDLE"
      BY <1>2, <2>2, Zenon DEF Becomes
    <3> QED BY <1>5, <1>7, <3>1, Zenon DEF PortBusy, PortEdge
  <2>3. CASE \E s \in {"L1", "L2", "DATA", "FAULT"}, b \in BOOLEAN : n = Becomes(s, b, port)
    <3>1. PICK s \in {"L1", "L2", "DATA", "FAULT"}, b \in BOOLEAN : n = Becomes(s, b, port)
      BY <2>3
    <3>2. port' = port /\ iwalk'.state = s
      BY <1>2, <3>1, Zenon DEF Becomes
    <3>3. iwalk'.state # "IDLE"
      BY <3>2
    <3> QED BY <1>7, <3>2, <3>3, Zenon DEF PortBusy, PortEdge
  <2> QED BY <2>1, <2>2, <2>3
<1> QED BY <1>6, <1>7

\* A core with its MMU fetches as the fetch alone does over a port that answers when it
\* likes.
THEOREM CoreFetches == CoreSpec => FetchSpec
<1>1. CoreInit => FetchInit /\ PortBusy
  <2> SUFFICES ASSUME CoreInit PROVE FetchInit /\ PortBusy
    OBVIOUS
  <2>1. ~port.busy /\ port.busy \in BOOLEAN
    BY Zenon DEF CoreInit, FetchInit, Unused
  <2>2. iwalk.state = "IDLE"
    BY DEF CoreInit, MmuInit
  <2> QED BY <2>1, <2>2, Zenon DEF CoreInit, PortBusy
<1>2. MmuInv /\ PortBusy /\ [CoreNext]_coreVars => [FetchNext]_fetchVars /\ PortBusy'
  <2>1. ASSUME MmuInv, PortBusy, NEW ready \in BOOLEAN, CoreCycle(ready) PROVE FetchNext /\ PortBusy'
    BY <2>1, WalkIsPort DEF CoreCycle, FetchNext
  <2>2. UNCHANGED coreVars => UNCHANGED fetchVars /\ UNCHANGED <<port, iwalk>>
    BY DEF coreVars, fetchVars, mmuVars
  <2> QED BY <2>1, <2>2, Zenon DEF CoreNext, PortBusy
<1> QED BY <1>1, <1>2, MmuInitially, MmuStep, PTL DEF CoreSpec, FetchSpec

\* Behind its MMU, too, a core executes the instructions of its program.
THEOREM CoreRight == CoreSpec => []RightInstructions
BY CoreFetches, FetchRight, PTL

-----------------------------------------------------------------------------
(***************************************************************************)
(* The bus of the simulator.  The fields of a slave and of the bus.        *)
(***************************************************************************)
SlaveFields(v) ==
  v = [read |-> v.read, write |-> v.write, at |-> v.at, data |-> v.data, latch |-> v.latch, got |-> v.got]

Up(v) == v.read \/ v.write

LEMMA SlaveLiteral ==
  ASSUME NEW r, NEW w, NEW a, NEW x, NEW l, NEW g, NEW u,
         u = [read |-> r, write |-> w, at |-> a, data |-> x, latch |-> l, got |-> g]
  PROVE  SlaveFields(u) /\ u.read = r /\ u.write = w /\ u.latch = l /\ u.got = g
BY DEF SlaveFields

\* The answer of a device is latched with its value, and the wires stay.
LEMMA SlaveFalls ==
  ASSUME NEW v, NEW waits, NEW value, SlaveFields(v), NEW u, u = SlaveFalling(v, waits, value)
  PROVE  /\ SlaveFields(u) /\ (Up(u) <=> Up(v))
         /\ u.latch <=> v.latch \/ (Up(v) /\ ~waits)
         /\ Up(v) /\ ~waits => u.got = value
<1>1. CASE Up(v) /\ ~waits
  <2>1. u = [v EXCEPT !.latch = TRUE, !.got = value]
    BY <1>1 DEF SlaveFalling, Up
  <2>2. u = [read |-> v.read, write |-> v.write, at |-> v.at, data |-> v.data, latch |-> TRUE, got |-> value]
    BY <2>1 DEF SlaveFields
  <2>3. SlaveFields(u) /\ u.read = v.read /\ u.write = v.write /\ u.latch = TRUE /\ u.got = value
    BY ONLY <2>2, SlaveLiteral
  <2> QED BY <1>1, <2>3, Zenon DEF Up
<1>2. CASE ~(Up(v) /\ ~waits)
  <2>1. u = v
    BY <1>2 DEF SlaveFalling, Up
  <2> QED BY <1>2, <2>1, Zenon
<1> QED BY <1>1, <1>2

\* A latched slave takes its wires down.
LEMMA SlaveTicks ==
  ASSUME NEW v, SlaveFields(v), NEW u, u = SlaveTick(v)
  PROVE  SlaveFields(u) /\ (Up(u) <=> Up(v) /\ ~v.latch) /\ (u.latch <=> v.latch) /\ u.got = v.got
<1>1. CASE v.latch
  <2>1. u = [v EXCEPT !.read = FALSE, !.write = FALSE]
    BY <1>1 DEF SlaveTick
  <2>2. u = [read |-> FALSE, write |-> FALSE, at |-> v.at, data |-> v.data, latch |-> v.latch, got |-> v.got]
    BY <2>1 DEF SlaveFields
  <2>3. SlaveFields(u) /\ u.read = FALSE /\ u.write = FALSE /\ u.latch = v.latch /\ u.got = v.got
    BY ONLY <2>2, SlaveLiteral
  <2> QED BY <1>1, <2>3, Zenon DEF Up
<1>2. CASE ~v.latch
  <2>1. u = v
    BY <1>2 DEF SlaveTick
  <2> QED BY <1>2, <2>1, Zenon
<1> QED BY <1>1, <1>2

\* What an access leaves of a slave.
Reached(v, u) ==
  /\ SlaveFields(u) /\ ~u.latch
  /\ v.latch => (Up(u) <=> Up(v))
  /\ ~v.latch => Up(u)

LEMMA SlaveReads ==
  ASSUME NEW v, NEW pos, SlaveFields(v), NEW u, u = SlaveRead(v, pos)
  PROVE  Reached(v, u)
<1>1. CASE v.latch
  <2>1. u = [v EXCEPT !.latch = FALSE]
    BY <1>1 DEF SlaveRead
  <2>2. u = [read |-> v.read, write |-> v.write, at |-> v.at, data |-> v.data, latch |-> FALSE, got |-> v.got]
    BY <2>1 DEF SlaveFields
  <2>3. SlaveFields(u) /\ u.read = v.read /\ u.write = v.write /\ u.latch = FALSE /\ u.got = v.got
    BY ONLY <2>2, SlaveLiteral
  <2> QED BY <1>1, <2>3, Zenon DEF Up, Reached
<1>2. CASE ~v.latch /\ ~Up(v)
  <2>1. u = [v EXCEPT !.read = TRUE, !.at = pos]
    BY <1>2 DEF SlaveRead, Up
  <2>2. u = [read |-> TRUE, write |-> v.write, at |-> pos, data |-> v.data, latch |-> v.latch, got |-> v.got]
    BY <2>1 DEF SlaveFields
  <2>3. SlaveFields(u) /\ u.read = TRUE /\ u.write = v.write /\ u.latch = v.latch /\ u.got = v.got
    BY ONLY <2>2, SlaveLiteral
  <2> QED BY <1>2, <2>3, Zenon DEF Up, Reached
<1>3. CASE ~v.latch /\ Up(v)
  <2>1. u = v
    BY <1>3 DEF SlaveRead, Up
  <2> QED BY <1>3, <2>1, Zenon DEF Reached
<1> QED BY <1>1, <1>2, <1>3

LEMMA SlaveWrites ==
  ASSUME NEW v, NEW pos, NEW data, SlaveFields(v), NEW u, u = SlaveWrite(v, pos, data)
  PROVE  Reached(v, u)
<1>1. CASE v.latch
  <2>1. u = [v EXCEPT !.latch = FALSE]
    BY <1>1 DEF SlaveWrite
  <2>2. u = [read |-> v.read, write |-> v.write, at |-> v.at, data |-> v.data, latch |-> FALSE, got |-> v.got]
    BY <2>1 DEF SlaveFields
  <2>3. SlaveFields(u) /\ u.read = v.read /\ u.write = v.write /\ u.latch = FALSE /\ u.got = v.got
    BY ONLY <2>2, SlaveLiteral
  <2> QED BY <1>1, <2>3, Zenon DEF Up, Reached
<1>2. CASE ~v.latch /\ ~Up(v)
  <2>1. u = [v EXCEPT !.write = TRUE, !.at = pos, !.data = data]
    BY <1>2 DEF SlaveWrite, Up
  <2>2. u = [read |-> v.read, write |-> TRUE, at |-> pos, data |-> data, latch |-> v.latch, got |-> v.got]
    BY <2>1 DEF SlaveFields
  <2>3. SlaveFields(u) /\ u.read = v.read /\ u.write = TRUE /\ u.latch = v.latch /\ u.got = v.got
    BY ONLY <2>2, SlaveLiteral
  <2> QED BY <1>2, <2>3, Zenon DEF Up, Reached
<1>3. CASE ~v.latch /\ Up(v)
  <2>1. u = v
    BY <1>3 DEF SlaveWrite, Up
  <2> QED BY <1>3, <2>1, Zenon DEF Reached
<1> QED BY <1>1, <1>2, <1>3

-----------------------------------------------------------------------------
BusFields(b) ==
  b = [active |-> b.active, op |-> b.op, addr |-> b.addr, data |-> b.data, wait |-> b.wait,
       rdata |-> b.rdata, hole |-> b.hole, irq |-> b.irq, slave |-> b.slave, timer |-> b.timer,
       mask |-> b.mask, ram |-> b.ram]

BusShape(b) ==
  /\ BusFields(b)
  /\ b.slave = [d \in SimSlave |-> b.slave[d]]
  /\ \A d \in SimSlave : SlaveFields(b.slave[d])

\* The access goes on as it was.
SameAccess(c, b) == c.active = b.active /\ c.op = b.op /\ c.wait = b.wait /\ c.rdata = b.rdata

\* The devices in C++.
LEMMA ReadOfOther ==
  ASSUME NEW b, NEW dev, dev \notin SimSlave, NEW pos
  PROVE  DeviceRead(b, dev, pos).ok /\ DeviceRead(b, dev, pos).bus = b
BY DEF DeviceRead

\* What has no wires.
LEMMA RamOnly ==
  ASSUME NEW b, BusShape(b), NEW x, NEW c,
         c = [b EXCEPT !.ram = x] \/ c = [b EXCEPT !.timer = x] \/ c = [b EXCEPT !.mask = x]
  PROVE  BusShape(c) /\ SameAccess(c, b) /\ c.slave = b.slave
<1>1. BusFields(c) /\ SameAccess(c, b) /\ c.slave = b.slave
  BY DEF BusShape, BusFields, SameAccess
<1> QED BY <1>1, Zenon DEF BusShape

\* A write, too, ends at once and leaves the slaves alone.
LEMMA WriteOfOther ==
  ASSUME NEW b, BusShape(b), NEW dev, dev \notin SimSlave, NEW pos, NEW data,
         NEW a, a = DeviceWrite(b, dev, pos, data)
  PROVE  a.ok /\ BusShape(a.bus) /\ SameAccess(a.bus, b) /\ a.bus.slave = b.slave
<1>0. SameAccess(b, b)
  BY DEF SameAccess
<1>1. CASE dev = "hps_ddr3"
  <2>1. a.ok /\ a.bus = [b EXCEPT !.ram = MemWrite(b.ram, pos, data)]
    BY <1>1 DEF DeviceWrite
  <2> QED BY <2>1, RamOnly
<1>2. CASE dev = "timer"
  <2>1. a.ok /\ a.bus = [b EXCEPT !.timer = TimerWrite(b.timer, pos, data)]
    BY <1>2 DEF DeviceWrite
  <2> QED BY <2>1, RamOnly
<1>3. CASE dev = "intc"
  <2>1. a.ok /\ a.bus = IntcWrite(b, pos, data)
    BY <1>3 DEF DeviceWrite
  <2>2. a.bus = b \/ a.bus = [b EXCEPT !.mask = data]
    BY <2>1 DEF IntcWrite
  <2> QED BY <1>0, <2>1, <2>2, RamOnly
<1>4. CASE dev \notin {"hps_ddr3", "timer", "intc"}
  <2>1. a.ok /\ a.bus = b
    BY <1>4 DEF DeviceWrite
  <2> QED BY <1>0, <2>1
<1> QED BY <1>1, <1>2, <1>3, <1>4

\* Those in the design.
ReachedAt(b, c, dev) ==
  /\ BusShape(c) /\ SameAccess(c, b)
  /\ \A d \in SimSlave \ {dev} : c.slave[d] = b.slave[d]
  /\ Reached(b.slave[dev], c.slave[dev])

\* One slave changes.
LEMMA OneSlave ==
  ASSUME NEW b, BusShape(b), NEW dev \in SimSlave, NEW u, Reached(b.slave[dev], u),
         NEW c, c = [b EXCEPT !.slave[dev] = u]
  PROVE  ReachedAt(b, c, dev)
<1>1. BusFields(c) /\ SameAccess(c, b) /\ c.slave = [b.slave EXCEPT ![dev] = u]
  BY DEF BusShape, BusFields, SameAccess
<1>2. c.slave = [d \in SimSlave |-> c.slave[d]] /\ c.slave[dev] = u
      /\ \A d \in SimSlave \ {dev} : c.slave[d] = b.slave[d]
  BY <1>1 DEF BusShape
<1>3. SlaveFields(u)
  BY DEF Reached
<1> QED BY <1>1, <1>2, <1>3, Zenon DEF BusShape, ReachedAt

\* An access to a slave ends if it is latched, with the value that it got then.
LEMMA AccessOfSlave ==
  ASSUME NEW b, BusShape(b), NEW dev \in SimSlave, NEW op, NEW pos, NEW data,
         NEW a, a = DeviceAccess(b, dev, op, pos, data)
  PROVE  /\ a.ok = b.slave[dev].latch /\ ReachedAt(b, a.bus, dev)
         /\ op = "read" => a.value = b.slave[dev].got
<1>0. SlaveFields(b.slave[dev]) /\ dev \notin {"hps_ddr3", "timer", "intc", "const"}
  BY SlaveAssumption DEF BusShape
<1>1. CASE op = "read"
  <2>1. a = [ok |-> b.slave[dev].latch, value |-> b.slave[dev].got,
             bus |-> [b EXCEPT !.slave[dev] = SlaveRead(b.slave[dev], pos)]]
    BY <1>0, <1>1 DEF DeviceAccess, DeviceRead
  <2>2. Reached(b.slave[dev], SlaveRead(b.slave[dev], pos))
    BY <1>0, SlaveReads
  <2>3. ReachedAt(b, [b EXCEPT !.slave[dev] = SlaveRead(b.slave[dev], pos)], dev)
    BY <2>2, OneSlave
  <2> QED BY <2>1, <2>3
<1>2. CASE op # "read"
  <2>1. a = [ok |-> b.slave[dev].latch, value |-> 0,
             bus |-> [b EXCEPT !.slave[dev] = SlaveWrite(b.slave[dev], pos, data)]]
    BY <1>0, <1>2 DEF DeviceAccess, DeviceWrite
  <2>2. Reached(b.slave[dev], SlaveWrite(b.slave[dev], pos, data))
    BY <1>0, SlaveWrites
  <2>3. ReachedAt(b, [b EXCEPT !.slave[dev] = SlaveWrite(b.slave[dev], pos, data)], dev)
    BY <2>2, OneSlave
  <2> QED BY <1>2, <2>1, <2>3
<1> QED BY <1>1, <1>2

\* Any other ends.
LEMMA AccessOfOther ==
  ASSUME NEW b, BusShape(b), NEW dev, dev \notin SimSlave, NEW op, NEW pos, NEW data,
         NEW a, a = DeviceAccess(b, dev, op, pos, data)
  PROVE  a.ok /\ BusShape(a.bus) /\ SameAccess(a.bus, b) /\ a.bus.slave = b.slave
<1>1. CASE op = "read"
  BY <1>1, ReadOfOther DEF DeviceAccess, SameAccess
<1>2. CASE op # "read"
  <2>1. a = DeviceWrite(b, dev, pos, data)
    BY <1>2 DEF DeviceAccess
  <2> QED BY <2>1, WriteOfOther
<1> QED BY <1>1, <1>2

-----------------------------------------------------------------------------
\* The two edges.
LEMMA BusFalls ==
  ASSUME NEW b, BusShape(b), NEW waits, NEW value, NEW c, c = TickFalling(b, waits, value)
  PROVE  /\ BusShape(c) /\ c.op = b.op /\ c.wait = b.wait /\ c.rdata = b.rdata
         /\ c.active = IF b.wait THEN b.active ELSE None
         /\ \A d \in SimSlave : c.slave[d] = SlaveFalling(b.slave[d], waits[d], value[d])
<1>1. /\ BusFields(c) /\ c.op = b.op /\ c.wait = b.wait /\ c.rdata = b.rdata
      /\ c.active = IF b.wait THEN b.active ELSE None
      /\ c.slave = [d \in SimSlave |-> SlaveFalling(b.slave[d], waits[d], value[d])]
  BY DEF BusShape, BusFields, TickFalling
<1>2. \A d \in SimSlave : c.slave[d] = SlaveFalling(b.slave[d], waits[d], value[d])
  BY <1>1
<1>3. \A d \in SimSlave : SlaveFields(c.slave[d])
  BY <1>2, SlaveFalls DEF BusShape
<1>4. c.slave = [d \in SimSlave |-> c.slave[d]]
  BY <1>1
<1> QED BY <1>1, <1>2, <1>3, <1>4, Zenon DEF BusShape

LEMMA DevicesTick ==
  ASSUME NEW b, BusShape(b), NEW c, c = TickDevices(b)
  PROVE  BusShape(c) /\ SameAccess(c, b) /\ \A d \in SimSlave : c.slave[d] = SlaveTick(b.slave[d])
<1> DEFINE s == [d \in SimSlave |-> SlaveTick(b.slave[d])]
<1>1. PICK e : e = [b EXCEPT !.timer = TimerTick(b.timer), !.slave = s]
  OBVIOUS
<1>2. BusFields(e) /\ SameAccess(e, b) /\ e.slave = s
  BY <1>1 DEF BusShape, BusFields, SameAccess
<1>3. c = [e EXCEPT !.irq = Status(e) # {}, !.hole = FALSE]
  BY <1>1 DEF TickDevices
<1>4. BusFields(c) /\ SameAccess(c, b) /\ c.slave = s
  BY <1>2, <1>3 DEF BusFields, SameAccess
<1>5. \A d \in SimSlave : c.slave[d] = SlaveTick(b.slave[d])
  BY <1>4
<1>6. \A d \in SimSlave : SlaveFields(c.slave[d])
  BY <1>5, SlaveTicks DEF BusShape
<1>7. c.slave = [d \in SimSlave |-> c.slave[d]]
  BY <1>4
<1> QED BY <1>4, <1>5, <1>6, <1>7, Zenon DEF BusShape

\* The access of now, new if there was none.
Continues(n, b) ==
  /\ BusShape(n) /\ n.wait = b.wait /\ \A d \in SimSlave : n.slave[d] = SlaveTick(b.slave[d])
  /\ b.active # None => n.active = b.active /\ n.op = b.op

\* What becomes of it.
Ends(n, c) ==
  /\ BusShape(c) /\ c.active = n.active /\ c.op = n.op
  /\ n.active \in SimSlave =>
       /\ c.wait = ~n.slave[n.active].latch
       /\ n.op = "read" => c.rdata = n.slave[n.active].got
       /\ Reached(n.slave[n.active], c.slave[n.active])
       /\ \A d \in SimSlave \ {n.active} : c.slave[d] = n.slave[d]
  /\ n.active \notin SimSlave =>
       /\ c.wait => n.active = None /\ n.wait
       /\ \A d \in SimSlave : c.slave[d] = n.slave[d]

\* A change of anything but the slaves.
LEMMA SlavesShape ==
  ASSUME NEW b, BusShape(b), NEW c, BusFields(c), c.slave = b.slave
  PROVE  BusShape(c)
BY DEF BusShape

LEMMA AccessEnds ==
  ASSUME NEW n, BusShape(n), n.active # None, NEW pos, NEW a, a = DeviceAccess(n, n.active, n.op, pos, n.data),
         NEW c, c = IF n.op = "read" THEN [a.bus EXCEPT !.wait = ~a.ok, !.rdata = a.value]
                    ELSE [a.bus EXCEPT !.wait = ~a.ok]
  PROVE  Ends(n, c)
<1>1. BusShape(a.bus) /\ SameAccess(a.bus, n)
  BY AccessOfSlave, AccessOfOther DEF ReachedAt
<1>2. /\ BusFields(c) /\ c.active = n.active /\ c.op = n.op /\ c.wait = ~a.ok /\ c.slave = a.bus.slave
      /\ n.op = "read" => c.rdata = a.value
  BY <1>1 DEF BusShape, BusFields, SameAccess
<1>3. BusShape(c)
  BY <1>1, <1>2, SlavesShape
<1>4. CASE n.active \in SimSlave
  <2>1. /\ a.ok = n.slave[n.active].latch /\ ReachedAt(n, a.bus, n.active)
        /\ n.op = "read" => a.value = n.slave[n.active].got
    BY <1>4, AccessOfSlave
  <2> QED BY <1>2, <1>3, <1>4, <2>1 DEF Ends, ReachedAt
<1>5. CASE n.active \notin SimSlave
  <2>1. a.ok /\ a.bus.slave = n.slave
    BY <1>5, AccessOfOther
  <2> QED BY <1>2, <1>3, <1>5, <2>1 DEF Ends
<1> QED BY <1>4, <1>5

LEMMA BusRises ==
  ASSUME NEW b, BusShape(b), NEW request, NEW c, c = TickRising(b, request)
  PROVE  \E n : Continues(n, b) /\ Ends(n, c)
<1>1. PICK t : t = TickDevices(b)
  OBVIOUS
<1>2. BusShape(t) /\ SameAccess(t, b) /\ \A d \in SimSlave : t.slave[d] = SlaveTick(b.slave[d])
  BY <1>1, DevicesTick
<1> DEFINE new == [t EXCEPT !.op = request.op, !.addr = request.addr, !.data = request.data,
                            !.active = IF request.op = "none" THEN None ELSE Binding(request.addr).dev]
<1>3. PICK m : m = new
  OBVIOUS
<1>4. BusFields(m) /\ m.wait = b.wait /\ m.slave = t.slave
  BY <1>2, <1>3 DEF BusShape, BusFields, SameAccess
<1>5. BusShape(m)
  BY <1>2, <1>4, Zenon DEF BusShape
<1>6. PICK n : n = IF b.active = None THEN m ELSE t
  OBVIOUS
<1>7. Continues(n, b)
  BY <1>2, <1>4, <1>5, <1>6 DEF Continues, SameAccess
<1>8. PICK a : a = DeviceAccess(n, n.active, n.op, n.addr - Binding(n.addr).base, n.data)
  OBVIOUS
<1>9. c = CASE n.active = None -> [n EXCEPT !.hole = n.op # "none"]
            [] n.active # None /\ n.op = "read" -> [a.bus EXCEPT !.wait = ~a.ok, !.rdata = a.value]
            [] OTHER -> [a.bus EXCEPT !.wait = ~a.ok]
  BY <1>1, <1>3, <1>6, <1>8, Zenon DEF TickRising
<1>10. CASE n.active = None
  <2>1. c = [n EXCEPT !.hole = n.op # "none"]
    BY <1>9, <1>10, Zenon
  <2>2. BusFields(c) /\ c.active = n.active /\ c.op = n.op /\ c.wait = n.wait /\ c.slave = n.slave
    BY <1>7, <2>1 DEF Continues, BusShape, BusFields
  <2>3. BusShape(c)
    BY <1>7, <2>2, Zenon DEF BusShape, Continues
  <2>4. n.active \notin SimSlave
    BY <1>10, SlaveAssumption
  <2> QED BY <1>7, <1>10, <2>2, <2>3, <2>4 DEF Ends
<1>11. CASE n.active # None
  <2>1. c = IF n.op = "read" THEN [a.bus EXCEPT !.wait = ~a.ok, !.rdata = a.value]
            ELSE [a.bus EXCEPT !.wait = ~a.ok]
    <3>1. CASE n.op = "read"
      BY <1>9, <1>11, <3>1, Zenon
    <3>2. CASE n.op # "read"
      BY <1>9, <1>11, <3>2, Zenon
    <3> QED BY <3>1, <3>2
  <2>2. BusShape(n)
    BY <1>7 DEF Continues
  <2>3. Ends(n, c)
    BY ONLY <1>8, <1>11, <2>1, <2>2, AccessEnds
  <2> QED BY <1>7, <2>3
<1> QED BY <1>10, <1>11

-----------------------------------------------------------------------------
(***************************************************************************)
(* A device in the design has wires up exactly while it has the access,    *)
(* and its latch is set only by its birth, and then until its first one.   *)
(* `off' are the devices that are `lost', n and `saw' what was `taken'.    *)
(***************************************************************************)
Wired(b, off, n) ==
  /\ off \subseteq SimSlave
  /\ \A d \in SimSlave :
       /\ Up(b.slave[d]) <=> b.wait /\ b.active = d
       /\ b.slave[d].latch => d \in off /\ b.active # d
       /\ d \in off => b.slave[d].latch \/ (b.active = d /\ ~b.wait)
  /\ b.wait => b.active \in SimSlave /\ n = 0

Given(b, off, n, saw) ==
  (b.active \in SimSlave /\ ~b.wait) =>
    \/ b.active \in off
    \/ n = 1 /\ (b.op = "read" => b.rdata = saw)

\* What a cycle makes of a slave, before the access reaches it.
LEMMA SlaveCycles ==
  ASSUME NEW b, BusShape(b), NEW waits, NEW value, NEW f, f = TickFalling(b, waits, value),
         NEW m, Continues(m, f), NEW d \in SimSlave
  PROVE  /\ m.slave[d].latch <=> b.slave[d].latch \/ (Up(b.slave[d]) /\ ~waits[d])
         /\ Up(m.slave[d]) <=> Up(b.slave[d]) /\ ~m.slave[d].latch
         /\ Up(b.slave[d]) /\ ~waits[d] => m.slave[d].got = value[d]
<1>1. BusShape(f) /\ f.slave[d] = SlaveFalling(b.slave[d], waits[d], value[d])
  BY BusFalls
<1>2. SlaveFields(b.slave[d]) /\ SlaveFields(f.slave[d]) /\ m.slave[d] = SlaveTick(f.slave[d])
  BY <1>1 DEF BusShape, Continues
<1>3. /\ Up(f.slave[d]) <=> Up(b.slave[d])
      /\ f.slave[d].latch <=> b.slave[d].latch \/ (Up(b.slave[d]) /\ ~waits[d])
      /\ Up(b.slave[d]) /\ ~waits[d] => f.slave[d].got = value[d]
  BY ONLY <1>1, <1>2, SlaveFalls
<1>4. /\ Up(m.slave[d]) <=> Up(f.slave[d]) /\ ~f.slave[d].latch
      /\ m.slave[d].latch <=> f.slave[d].latch
      /\ m.slave[d].got = f.slave[d].got
  BY ONLY <1>2, SlaveTicks
<1> QED BY <1>3, <1>4, Zenon

\* An access that waits goes on waiting, or ends with what the device has now.
LEMMA WaitingCycle ==
  ASSUME NEW b, BusShape(b), NEW off, NEW n, Wired(b, off, n), b.wait,
         NEW waits, NEW value, NEW f, f = TickFalling(b, waits, value),
         NEW m, Continues(m, f), NEW c, Ends(m, c),
         NEW saw, waits[b.active] \/ saw = value[b.active],
         NEW k, k = IF waits[b.active] THEN 0 ELSE 1
  PROVE  Wired(c, off, k) /\ Given(c, off, k, saw)
<1>0. b.active \in SimSlave /\ b.active # None
  BY SlaveAssumption DEF Wired
<1>1. f.active = b.active /\ f.op = b.op
  BY BusFalls
<1>2. m.active = b.active /\ m.op = b.op
  BY <1>0, <1>1 DEF Continues
<1>3. \A d \in SimSlave \ {b.active} :
        /\ c.slave[d] = m.slave[d]
        /\ ~Up(b.slave[d]) /\ ~Up(m.slave[d]) /\ (m.slave[d].latch <=> b.slave[d].latch)
  BY <1>0, <1>2, SlaveCycles DEF Wired, Ends
<1>4. \A d \in SimSlave \ {b.active} : ~Up(c.slave[d]) /\ (c.slave[d].latch <=> b.slave[d].latch)
  BY <1>3
<1>5. Up(b.slave[b.active]) /\ ~b.slave[b.active].latch /\ b.active \notin off
  BY <1>0 DEF Wired
<1>6. /\ m.slave[b.active].latch <=> ~waits[b.active]
      /\ Up(m.slave[b.active]) <=> waits[b.active]
      /\ ~waits[b.active] => m.slave[b.active].got = value[b.active]
  BY <1>0, <1>5, SlaveCycles
<1>7. /\ c.active = b.active /\ c.op = b.op /\ (c.wait <=> waits[b.active])
      /\ b.op = "read" => c.rdata = m.slave[b.active].got
      /\ Reached(m.slave[b.active], c.slave[b.active])
  BY <1>0, <1>2, <1>6 DEF Ends
<1>8. ~c.slave[b.active].latch /\ (Up(c.slave[b.active]) <=> waits[b.active])
  BY <1>6, <1>7 DEF Reached
<1>9. Wired(c, off, k)
  BY <1>0, <1>4, <1>5, <1>7, <1>8 DEF Wired
<1>10. Given(c, off, k, saw)
  BY <1>6, <1>7 DEF Given
<1> QED BY <1>9, <1>10

\* Without one, a new one may begin: that of a latched device ends at once.
LEMMA QuietCycle ==
  ASSUME NEW b, BusShape(b), NEW off, NEW n, Wired(b, off, n), ~b.wait,
         NEW waits, NEW value, NEW f, f = TickFalling(b, waits, value),
         NEW m, Continues(m, f), NEW c, Ends(m, c), NEW saw
  PROVE  Wired(c, off \ {b.active}, 0) /\ Given(c, off \ {b.active}, 0, saw)
<1>1. \A d \in SimSlave : ~Up(b.slave[d]) /\ ~Up(m.slave[d]) /\ (m.slave[d].latch <=> b.slave[d].latch)
  BY SlaveCycles DEF Wired
<1>2. ~m.wait
  BY BusFalls DEF Continues
<1>3. \A d \in SimSlave : d \in off \ {b.active} <=> m.slave[d].latch
  BY <1>1 DEF Wired
<1>4. off \ {b.active} \subseteq SimSlave
  BY DEF Wired
<1>5. CASE m.active \in SimSlave
  <2>1. /\ c.active = m.active /\ (c.wait <=> ~m.slave[m.active].latch)
        /\ Reached(m.slave[m.active], c.slave[m.active])
        /\ \A d \in SimSlave \ {m.active} : c.slave[d] = m.slave[d]
    BY <1>5 DEF Ends
  <2>2. ~c.slave[m.active].latch /\ (Up(c.slave[m.active]) <=> c.wait)
    BY <1>1, <1>5, <2>1 DEF Reached
  <2>3. \A d \in SimSlave \ {m.active} : ~Up(c.slave[d]) /\ (c.slave[d].latch <=> m.slave[d].latch)
    BY <1>1, <2>1
  <2>4. Wired(c, off \ {b.active}, 0)
    BY <1>3, <1>4, <1>5, <2>1, <2>2, <2>3 DEF Wired
  <2>5. Given(c, off \ {b.active}, 0, saw)
    BY <1>3, <1>5, <2>1 DEF Given
  <2> QED BY <2>4, <2>5
<1>6. CASE m.active \notin SimSlave
  <2>1. c.active = m.active /\ ~c.wait /\ \A d \in SimSlave : c.slave[d] = m.slave[d]
    BY <1>2, <1>6 DEF Ends
  <2> QED BY <1>1, <1>3, <1>4, <1>6, <2>1 DEF Wired, Given
<1> QED BY <1>5, <1>6

-----------------------------------------------------------------------------
(***************************************************************************)
(* The cycles of the platform.                                             *)
(***************************************************************************)
PlatShape == plat = [core |-> plat.core, bus |-> plat.bus, dbg |-> plat.dbg]

TakenShape == taken = [times |-> taken.times, saw |-> taken.saw]

AccessInv ==
  /\ PlatShape /\ TakenShape
  /\ Given(plat.bus, lost, taken.times, taken.saw)
  /\ host # "stuck" => BusShape(plat.bus) /\ Wired(plat.bus, lost, taken.times)

Waits(ready) == [d \in SimSlave |-> SlaveWaits(plat.bus, ready, d)]
Values == [d \in SimSlave |-> SlaveValue(plat, d)]

\* The platform after a cycle.
LEMMA CycledPlat ==
  ASSUME NEW go, NEW ready, NEW fetched, NEW p \in Cycled(go, ready, fetched)
  PROVE  /\ p = [core |-> p.core, bus |-> p.bus, dbg |-> p.dbg]
         /\ \E request : p.bus = TickRising(TickFalling(plat.bus, Waits(ready), Values), request)
         /\ \E asked : p.core = [c \in Core |-> CoreEdge(plat, force, go, c, fetched, asked[c])]
<1>1. PICK q : q = Fallen(go, ready, fetched) /\ p = [q EXCEPT !.bus = TickRising(q.bus, Request(q))]
  BY DEF Cycled
<1> DEFINE b == plat.bus
           asked == [c \in Core |-> IF b.slave["smp"].write THEN b.slave["smp"].data[c] ELSE {}]
           dbg == IF b.slave["dbg"].write /\ Takes(b, ready, "dbg") THEN b.slave["dbg"].data ELSE plat.dbg
<1>2. \A c \in Core : asked[c] = IF b.slave["smp"].write THEN b.slave["smp"].data[c] ELSE {}
  OBVIOUS
<1> HIDE DEF asked
<1>3. q = [core |-> [c \in Core |-> CoreEdge(plat, force, go, c, fetched, asked[c])],
           bus |-> TickFalling(plat.bus, Waits(ready), Values),
           dbg |-> dbg]
  BY <1>1, <1>2, Zenon DEF Fallen, Waits, Values
<1> HIDE DEF dbg
<1>4. /\ q.core = [c \in Core |-> CoreEdge(plat, force, go, c, fetched, asked[c])]
      /\ q.bus = TickFalling(plat.bus, Waits(ready), Values)
      /\ q = [core |-> q.core, bus |-> q.bus, dbg |-> q.dbg]
  BY <1>3
<1>5. /\ p.core = q.core /\ p.bus = TickRising(q.bus, Request(q))
      /\ p = [core |-> p.core, bus |-> p.bus, dbg |-> p.dbg]
  BY <1>1, <1>4
<1>6. \E request : p.bus = TickRising(TickFalling(plat.bus, Waits(ready), Values), request)
  BY <1>4, <1>5
<1>7. \E x : p.core = [c \in Core |-> CoreEdge(plat, force, go, c, fetched, x[c])]
  <2> WITNESS asked
  <2> QED BY ONLY <1>4, <1>5
<1> QED BY ONLY <1>5, <1>6, <1>7

\* A cycle serves the access that waits, or begins one.
LEMMA AccessCycle ==
  ASSUME AccessInv, host # "stuck", NEW f, NEW go, NEW ready, NEW fetched, NEW stops,
         NEW p \in Cycled(go, ready, fetched), plat' = p, Noted(p, f, go, ready, stops)
  PROVE  AccessInv'
<1>1. PICK request, a, m :
        /\ a = TickFalling(plat.bus, Waits(ready), Values)
        /\ Continues(m, a) /\ Ends(m, p.bus)
        /\ p = [core |-> p.core, bus |-> p.bus, dbg |-> p.dbg]
  <2>0. p = [core |-> p.core, bus |-> p.bus, dbg |-> p.dbg]
    BY CycledPlat
  <2>1. PICK request : p.bus = TickRising(TickFalling(plat.bus, Waits(ready), Values), request)
    BY CycledPlat
  <2>2. PICK a : a = TickFalling(plat.bus, Waits(ready), Values)
    OBVIOUS
  <2>3. BusShape(a)
    BY <2>2, BusFalls DEF AccessInv
  <2>4. \E m : Continues(m, a) /\ Ends(m, p.bus)
    BY <2>1, <2>2, <2>3, BusRises
  <2> QED BY <2>0, <2>1, <2>2, <2>4, Zenon
<1> DEFINE b == plat.bus
           took == {d \in SimSlave : Takes(b, ready, d)}
           before == IF b.wait THEN taken.times ELSE 0
<1>2. /\ lost' = IF b.wait THEN lost ELSE lost \ {b.active}
      /\ taken' = IF took = {} THEN [taken EXCEPT !.times = before]
                  ELSE [times |-> before + 1, saw |-> SlaveValue(plat, CHOOSE d \in took : TRUE)]
  BY Zenon DEF Noted
<1>3. took = {d \in SimSlave : Up(b.slave[d]) /\ ~Waits(ready)[d]}
  BY DEF Takes, Up, Waits
<1>4. BusShape(b) /\ Wired(b, lost, taken.times)
  BY DEF AccessInv
<1>5. BusShape(p.bus) /\ PlatShape'
  BY <1>1, Zenon DEF Ends, PlatShape
<1> HIDE DEF took
<1>6. CASE b.wait
  <2>1. b.active \in SimSlave /\ taken.times = 0 /\ took = IF Waits(ready)[b.active] THEN {} ELSE {b.active}
    BY <1>3, <1>4, <1>6 DEF Wired
  <2>2. CASE Waits(ready)[b.active]
    <3>1. taken' = [taken EXCEPT !.times = 0] /\ lost' = lost
      BY <1>2, <1>6, <2>1, <2>2
    <3>2. TakenShape' /\ taken'.times = 0
      BY <3>1 DEF TakenShape, AccessInv
    <3>3. Wired(p.bus, lost, 0) /\ Given(p.bus, lost, 0, taken'.saw)
      BY <1>1, <1>4, <1>6, <2>2, WaitingCycle
    <3> QED BY <1>5, <3>1, <3>2, <3>3 DEF AccessInv
  <2>3. CASE ~Waits(ready)[b.active]
    <3>1. (CHOOSE d \in took : TRUE) = b.active
      BY <2>1, <2>3
    <3>2. taken' = [times |-> 0 + 1, saw |-> Values[b.active]] /\ lost' = lost
      BY <1>2, <1>6, <2>1, <2>3, <3>1 DEF Values
    <3>3. TakenShape' /\ taken'.times = 1 /\ taken'.saw = Values[b.active]
      BY <3>2 DEF TakenShape
    <3>4. Wired(p.bus, lost, 1) /\ Given(p.bus, lost, 1, taken'.saw)
      BY <1>1, <1>4, <1>6, <2>3, <3>3, WaitingCycle
    <3> QED BY <1>5, <3>2, <3>3, <3>4 DEF AccessInv
  <2> QED BY <2>2, <2>3
<1>7. CASE ~b.wait
  <2>1. took = {}
    BY <1>3, <1>4, <1>7 DEF Wired
  <2>2. taken' = [taken EXCEPT !.times = 0] /\ lost' = lost \ {b.active}
    BY <1>2, <1>7, <2>1
  <2>3. TakenShape' /\ taken'.times = 0
    BY <2>2 DEF TakenShape, AccessInv
  <2>4. Wired(p.bus, lost \ {b.active}, 0) /\ Given(p.bus, lost \ {b.active}, 0, taken'.saw)
    BY <1>1, <1>4, <1>7, QuietCycle
  <2> QED BY <1>5, <2>2, <2>3, <2>4 DEF AccessInv
<1> QED BY <1>6, <1>7

\* dump and patch, between two cycles.
LEMMA AccessReached ==
  ASSUME AccessInv, host # "stuck", NEW addr, NEW op, NEW data, Reaches(addr, Outside(plat.bus, op, addr, data))
  PROVE  AccessInv'
<1> DEFINE b == plat.bus
           dev == Binding(addr).dev
<1>1. PICK x : x = Outside(b, op, addr, data)
  OBVIOUS
<1>2. /\ plat' = [plat EXCEPT !.bus = x.bus]
      /\ host' = IF x.ok THEN host ELSE "stuck"
      /\ lost' = IF x.ok THEN lost \ {dev} ELSE lost
      /\ taken' = taken
  BY <1>1 DEF Reaches, InSession
<1>3. PlatShape' /\ plat'.bus = x.bus /\ TakenShape'
  BY <1>2 DEF PlatShape, TakenShape, AccessInv
<1>4. BusShape(b) /\ Wired(b, lost, taken.times) /\ Given(b, lost, taken.times, taken.saw)
  BY DEF AccessInv
<1>5. CASE dev \notin SimSlave
  <2>1. x.ok /\ BusShape(x.bus) /\ SameAccess(x.bus, b) /\ x.bus.slave = b.slave
    <3>1. CASE dev = None
      BY <1>1, <1>4, <3>1 DEF Outside, SameAccess
    <3>2. CASE dev # None
      <4>1. x = DeviceAccess(b, dev, op, addr - Binding(addr).base, data)
        BY <1>1, <3>2 DEF Outside
      <4> QED BY ONLY <1>4, <1>5, <4>1, AccessOfOther
    <3> QED BY <3>1, <3>2
  <2>2. lost' = lost
    BY <1>2, <1>4, <1>5, <2>1 DEF Wired
  <2>3. Wired(x.bus, lost, taken.times) /\ Given(x.bus, lost, taken.times, taken.saw)
    BY <1>4, <2>1 DEF Wired, Given, SameAccess
  <2> QED BY <1>2, <1>3, <2>1, <2>2, <2>3 DEF AccessInv
<1>6. CASE dev \in SimSlave
  <2>1. x = DeviceAccess(b, dev, op, addr - Binding(addr).base, data)
    BY <1>1, <1>6, SlaveAssumption DEF Outside
  <2>2. x.ok = b.slave[dev].latch /\ ReachedAt(b, x.bus, dev)
    BY ONLY <1>4, <1>6, <2>1, AccessOfSlave
  <2>3. SameAccess(x.bus, b) /\ BusShape(x.bus)
    BY <2>2 DEF ReachedAt
  <2>4. CASE b.slave[dev].latch
    <3>1. host' = host /\ lost' = lost \ {dev}
      BY <1>2, <2>2, <2>4
    <3>2. dev # b.active /\ ~Up(b.slave[dev])
      BY <1>4, <1>6, <2>4 DEF Wired
    <3>3. ~x.bus.slave[dev].latch /\ ~Up(x.bus.slave[dev])
      BY <2>2, <2>4, <3>2 DEF ReachedAt, Reached
    <3>4. \A d \in SimSlave \ {dev} : x.bus.slave[d] = b.slave[d]
      BY <2>2 DEF ReachedAt
    <3>5. Wired(x.bus, lost \ {dev}, taken.times)
      BY <1>4, <2>3, <3>2, <3>3, <3>4 DEF Wired, SameAccess
    <3>6. Given(x.bus, lost \ {dev}, taken.times, taken.saw)
      BY <1>4, <2>3, <3>2 DEF Given, SameAccess
    <3> QED BY <1>2, <1>3, <2>3, <3>1, <3>5, <3>6 DEF AccessInv
  <2>5. CASE ~b.slave[dev].latch
    <3>1. host' = "stuck" /\ lost' = lost
      BY <1>2, <2>2, <2>5
    <3>2. Given(x.bus, lost, taken.times, taken.saw)
      BY <1>4, <2>3 DEF Given, SameAccess
    <3> QED BY <1>2, <1>3, <3>1, <3>2 DEF AccessInv
  <2> QED BY <2>4, <2>5
<1> QED BY <1>5, <1>6

-----------------------------------------------------------------------------
(***************************************************************************)
(* Core 0.                                                                 *)
(***************************************************************************)
Positions == 0 .. Len(program) - 1

\* Where core 0 is, and where it goes on.
CoreAt == /\ plat.core[0].at \in Positions /\ plat.core[0].goto \in Positions
          /\ plat.core[0].pc \in Positions

Going == IF plat.core[0].branch THEN next \in {Anywhere, plat.core[0].goto}
         ELSE next \in {Anywhere, plat.core[0].at}

\* A session resumes the core at the instruction that is due.
Resuming ==
  /\ force[0] = [halt |-> force[0].halt, step |-> force[0].step, target |-> force[0].target]
  /\ force = [c \in Core |-> force[c]]
  /\ force[0].target \in Positions
  /\ next \in {Anywhere, force[0].target}

RunsInv ==
  /\ setup \in Setup
  /\ RunsOnce
  /\ CoreAt
  /\ host \in {"loop", "fast", "accurate"} => Going
  /\ host \in {"session", "resume"} => Resuming

\* The last instruction is a branch, so that the next one is in the program.
LEMMA NextInProgram ==
  ASSUME setup \in Setup, NEW at \in Positions
  PROVE  /\ InsnAt(0, at) = program[at + 1]
         /\ InsnAt(0, at).kind = "branch" => InsnAt(0, at).to \in Positions
         /\ InsnAt(0, at).kind # "branch" => at + 1 \in Positions /\ (at + 1) % Len(program) = at + 1
<1>1. PICK n \in Nat \ {0} : n = Len(program)
  BY ProgramAssumption DEF program
<1>2. /\ program[n].kind = "branch"
      /\ \A i \in 1 .. n : program[i].kind = "branch" => program[i].to \in 0 .. n - 1
  BY <1>1, ProgramAssumption DEF program
<1>3. at \in 0 .. n - 1 /\ Positions = 0 .. n - 1
  BY <1>1 DEF Positions
<1>4. at % n = at
  BY <1>1, <1>3
<1>5. InsnAt(0, at) = program[at + 1]
  BY <1>1, <1>4 DEF InsnAt
<1>6. at + 1 \in 1 .. n
  BY <1>1, <1>3
<1>7. ASSUME InsnAt(0, at).kind # "branch"
      PROVE  at + 1 \in 0 .. n - 1 /\ (at + 1) % n = at + 1
  <2>1. at + 1 # n
    BY <1>2, <1>5, <1>7
  <2>2. at + 1 \in 0 .. n - 1
    BY <1>3, <2>1
  <2> QED BY <1>1, <2>2
<1> QED BY <1>1, <1>2, <1>3, <1>5, <1>6, <1>7

\* Core 0 executes an instruction.
Runs(go) == Issues(plat, force, go, 0)

LEMMA CoreLiteral ==
  ASSUME NEW a, NEW b, NEW c, NEW d, NEW e, NEW f, NEW g, NEW h, NEW jumps, NEW goto, NEW q,
         q = [pc |-> a, at |-> b, nop |-> c, busy |-> d, branch |-> jumps, goto |-> goto,
              trigger |-> e, halt |-> f, step |-> g, status |-> h]
  PROVE  q.branch = jumps /\ q.goto = goto
OBVIOUS

\* What a cycle makes of core 0.
LEMMA CoreCycles ==
  ASSUME CoreAt, setup \in Setup, NEW go \in BOOLEAN, NEW ready, NEW fetched,
         NEW p \in Cycled(go, ready, fetched)
  PROVE  LET k == plat.core[0]
             q == p.core[0]
             insn == InsnAt(0, k.at)
         IN /\ q.branch <=> Runs(go) /\ insn.kind = "branch"
            /\ q.goto = IF Runs(go) /\ insn.kind = "branch" THEN insn.to ELSE k.goto
            /\ q.pc = IF NextIssue(plat, 0) THEN k.at ELSE k.pc
            /\ go => q.at = force[0].target
            /\ Runs(go) => q.at = (k.at + 1) % Len(program) /\ ~k.branch /\ ~go /\ ~Halts(plat, force, 0)
            /\ ~go /\ k.branch => q.at = k.goto
            /\ ~go /\ ~k.branch /\ ~Runs(go) => q.at = k.at
<1> DEFINE k == plat.core[0]
           q == p.core[0]
           insn == InsnAt(0, k.at)
<1>1. PICK asked : p.core = [c \in Core |-> CoreEdge(plat, force, go, c, fetched, asked[c])]
  BY CycledPlat
<1>2. q = CoreEdge(plat, force, go, 0, fetched, asked[0])
  BY <1>1, CoreAssumption
<1> DEFINE flush == Flushed(plat, force, go, 0)
           moves == NextIssue(plat, 0)
<1>3. /\ q.branch <=> Runs(go) /\ insn.kind = "branch"
      /\ q.goto = IF Runs(go) /\ insn.kind = "branch" THEN insn.to ELSE k.goto
      /\ q.pc = IF moves THEN k.at ELSE k.pc
  <2> DEFINE jumps == Issues(plat, force, go, 0) /\ insn.kind = "branch"
             goto == IF Issues(plat, force, go, 0) /\ insn.kind = "branch" THEN insn.to ELSE k.goto
             pc == IF moves THEN k.at ELSE k.pc
             at == CASE flush -> (IF go THEN force[0].target ELSE IF k.branch THEN k.goto ELSE k.at)
                     [] ~flush /\ moves /\ ~k.nop -> (k.at + 1) % Len(IF 0 = 0 THEN program ELSE OthersRun)
                     [] OTHER -> k.at
             nop == IF flush THEN TRUE ELSE IF moves THEN ~fetched ELSE k.nop
             busy == IF moves THEN Issues(plat, force, go, 0) /\ insn.kind = "bus" ELSE TRUE
             trigger == (k.step \/ force[0].step) /\ (k.trigger \/ Stable(plat, 0)) /\ ~Breakpoint(plat, 0)
             halt == PeHalt(plat, 0, asked[0])
             step == (k.step /\ ~Breakpoint(plat, 0)) \/ "step" \in asked[0]
             status == {"alive"} \cup (IF Breakpoint(plat, 0) THEN {"breakpoint"} ELSE {})
                                 \cup (IF Halted(plat, force, 0) THEN {"halted"} ELSE {})
  <2>1. q = [pc |-> pc, at |-> at, nop |-> nop, busy |-> busy, branch |-> jumps, goto |-> goto,
             trigger |-> trigger, halt |-> halt, step |-> step, status |-> status]
    BY ONLY <1>2, Zenon DEF CoreEdge
  <2>2. q.pc = IF moves THEN k.at ELSE k.pc
    BY <1>2 DEF CoreEdge
  <2> HIDE DEF jumps, goto, pc, at, nop, busy, trigger, halt, step, status
  <2>3. q.branch = jumps /\ q.goto = goto
    BY ONLY <2>1, CoreLiteral
  <2> QED BY <2>2, <2>3, Zenon DEF jumps, goto, Runs
<1>4. q.at = CASE flush -> (IF go THEN force[0].target ELSE IF k.branch THEN k.goto ELSE k.at)
               [] ~flush /\ moves /\ ~k.nop -> (k.at + 1) % Len(program)
               [] OTHER -> k.at
  BY <1>2 DEF CoreEdge
<1>5. /\ Runs(go) <=> ~flush /\ moves /\ ~k.nop
      /\ flush <=> Halts(plat, force, 0) \/ k.branch \/ go
  BY DEF Runs, Issues, Flushed, Stable
<1> HIDE DEF flush, moves, k, q, insn
<1>6. go => q.at = force[0].target
  BY <1>4, <1>5, Zenon
<1>7. Runs(go) => q.at = (k.at + 1) % Len(program) /\ ~k.branch /\ ~go /\ ~Halts(plat, force, 0)
  BY <1>4, <1>5, Zenon
<1>8. ~go /\ k.branch => q.at = k.goto
  BY <1>4, <1>5, Zenon
<1>9. ~go /\ ~k.branch /\ ~Runs(go) => q.at = k.at
  <2> SUFFICES ASSUME ~go, ~k.branch, ~Runs(go) PROVE q.at = k.at
    OBVIOUS
  <2>1. CASE flush
    BY <1>4, <2>1, Zenon
  <2>2. CASE ~flush
    BY <1>4, <1>5, <2>2, Zenon
  <2> QED BY <2>1, <2>2
<1> QED BY <1>3, <1>6, <1>7, <1>8, <1>9, Zenon DEF moves, k, q, insn

\* A cycle of the loop.
LEMMA RunsCycle ==
  ASSUME setup \in Setup, setup' = setup, RunsOnce, CoreAt, Going,
         NEW ready, NEW fetched, NEW stops \in BOOLEAN, NEW p \in Cycled(FALSE, ready, fetched),
         plat' = p, Noted(p, force, FALSE, ready, stops)
  PROVE  /\ RunsOnce' /\ CoreAt'
         /\ ~stops => Going'
         /\ stops => next' \in {Anywhere, p.core[0].pc}
<1> DEFINE k == plat.core[0]
           q == p.core[0]
           insn == InsnAt(0, k.at)
           still == Halted(plat, force, 0) /\ Halted(p, force, 0) /\ ~Turns(0)
<1>1. /\ q.branch <=> Runs(FALSE) /\ insn.kind = "branch"
      /\ q.goto = IF Runs(FALSE) /\ insn.kind = "branch" THEN insn.to ELSE k.goto
      /\ q.pc = IF NextIssue(plat, 0) THEN k.at ELSE k.pc
      /\ Runs(FALSE) => q.at = (k.at + 1) % Len(program) /\ ~k.branch /\ ~Halts(plat, force, 0)
      /\ k.branch => q.at = k.goto
      /\ ~k.branch /\ ~Runs(FALSE) => q.at = k.at
  BY CoreCycles, Zenon
<1>2. /\ k.at \in Positions /\ k.goto \in Positions /\ k.pc \in Positions
      /\ insn.kind = "branch" => insn.to \in Positions
      /\ insn.kind # "branch" => k.at + 1 \in Positions /\ (k.at + 1) % Len(program) = k.at + 1
  BY NextInProgram DEF CoreAt
<1>3. /\ ran' = IF Runs(FALSE) THEN k.at ELSE ran
      /\ due' = IF Runs(FALSE) THEN next ELSE due
      /\ next' = CASE stops /\ ~still -> Anywhere
                   [] ~(stops /\ ~still) /\ ~Runs(FALSE) -> next
                   [] OTHER -> IF insn.kind = "branch" THEN insn.to ELSE k.at + 1
  BY Zenon DEF Noted, Runs
<1>4. IF k.branch THEN next \in {Anywhere, k.goto} ELSE next \in {Anywhere, k.at}
  BY DEF Going
<1>5. still => ~Runs(FALSE) /\ NextIssue(plat, 0) /\ (k.branch => k.goto = k.at)
  <2>1. still => Halts(plat, force, 0) /\ NextIssue(plat, 0) /\ (k.branch => k.goto = k.at)
    BY DEF Halted, Turns
  <2> QED BY <1>1, <2>1, Zenon
<1>6. Positions' = Positions /\ plat'.core[0] = q
  BY DEF Positions, program
<1> HIDE DEF k, q, insn, still
<1>7. RunsOnce'
  BY <1>1, <1>3, <1>4 DEF RunsOnce
<1>8. q.at \in Positions /\ q.goto \in Positions /\ q.pc \in Positions
  <2>1. q.at \in Positions
    <3>1. CASE Runs(FALSE) /\ insn.kind # "branch"
      BY <1>1, <1>2, <3>1
    <3>2. CASE Runs(FALSE) /\ insn.kind = "branch"
      <4>1. k.at + 1 \in 1 .. Len(program)
        BY <1>2 DEF Positions
      <4> QED BY <1>1, <1>2, <3>2, <4>1 DEF Positions
    <3>3. CASE ~Runs(FALSE)
      BY <1>1, <1>2, <3>3
    <3> QED BY <3>1, <3>2, <3>3
  <2> QED BY <1>1, <1>2, <2>1
<1>9. CoreAt'
  BY <1>6, <1>8 DEF CoreAt
<1>10. ~stops => Going'
  <2> SUFFICES ASSUME ~stops PROVE IF q.branch THEN next' \in {Anywhere, q.goto} ELSE next' \in {Anywhere, q.at}
    BY <1>6, Zenon DEF Going
  <2>1. CASE Runs(FALSE)
    <3>1. next' = IF insn.kind = "branch" THEN insn.to ELSE k.at + 1
      BY <1>3, <2>1
    <3> QED BY <1>1, <1>2, <2>1, <3>1
  <2>2. CASE ~Runs(FALSE)
    <3>1. next' = next
      BY <1>3, <2>2
    <3> QED BY <1>1, <1>4, <2>2, <3>1
  <2> QED BY <2>1, <2>2
<1>11. stops => next' \in {Anywhere, q.pc}
  <2> SUFFICES ASSUME stops PROVE next' \in {Anywhere, q.pc}
    OBVIOUS
  <2>1. CASE still
    <3>1. next' = next /\ q.pc = k.at
      BY <1>1, <1>3, <1>5, <2>1
    <3> QED BY <1>4, <1>5, <2>1, <3>1
  <2>2. CASE ~still
    BY <1>3, <2>2
  <2> QED BY <2>1, <2>2
<1> QED BY <1>7, <1>9, <1>10, <1>11 DEF q

\* The cycle that forces the branch.
LEMMA RunsResume ==
  ASSUME setup \in Setup, setup' = setup, RunsOnce, CoreAt, Resuming, NEW ready, NEW fetched,
         NEW p \in Cycled(TRUE, ready, fetched), plat' = p, Noted(p, force, TRUE, ready, FALSE)
  PROVE  RunsOnce' /\ CoreAt' /\ Going'
<1> DEFINE k == plat.core[0]
           q == p.core[0]
<1>1. /\ ~Runs(TRUE) /\ ~q.branch
      /\ q.goto = k.goto
      /\ q.pc = IF NextIssue(plat, 0) THEN k.at ELSE k.pc
      /\ q.at = force[0].target
  BY CoreCycles, Zenon
<1>2. ran' = ran /\ due' = due /\ next' = next
  BY <1>1 DEF Noted, Runs
<1>3. Positions' = Positions /\ plat'.core[0] = q
  BY DEF Positions, program
<1> HIDE DEF k, q
<1>4. RunsOnce'
  BY <1>2 DEF RunsOnce
<1>5. CoreAt'
  BY <1>1, <1>3 DEF CoreAt, Resuming, k
<1>6. Going'
  BY <1>1, <1>2, <1>3 DEF Going, Resuming
<1> QED BY <1>4, <1>5, <1>6

\* A session starts with what Stops gives it.
LEMMA StopsAtPc ==
  ASSUME NEW f, NEW p, plat' = p, CoreAt', next' \in {Anywhere, p.core[0].pc}, force' = Stops(p, f)
  PROVE  Resuming'
<1>1. force' = [c \in Core |-> [halt |-> f[c].halt, step |-> FALSE, target |-> p.core[c].pc]]
  BY DEF Stops
<1>2. force'[0] = [halt |-> f[0].halt, step |-> FALSE, target |-> p.core[0].pc]
  BY <1>1, CoreAssumption
<1>3. /\ force'[0] = [halt |-> force'[0].halt, step |-> force'[0].step, target |-> force'[0].target]
      /\ force'[0].target = p.core[0].pc
  BY <1>2
<1>4. force' = [c \in Core |-> force'[c]]
  BY <1>1
<1> QED BY <1>3, <1>4 DEF Resuming, CoreAt

-----------------------------------------------------------------------------
(***************************************************************************)
(* The steps of main().                                                    *)
(***************************************************************************)
\* The commands by their names.
LEMMA HostSteps ==
  ASSUME Command
  PROVE  \/ Continue \/ Unreadable \/ Step
         \/ \E at \in Positions : PatchPc(at)
         \/ \E patch \in Patch : Dump(patch.addr) \/ PatchMem(patch.addr, patch.data)
BY Zenon DEF Command, Positions

\* What is followed beside main() does not touch it.
LEMMA StepKinds ==
  ASSUME Next
  PROVE  \/ setup' = setup /\ (Choose \/ Clock \/ Command \/ Signal)
         \/ setup' = setup /\ UNCHANGED runVars
BY Zenon DEF Next, Main, vars

\* The latches are all set or all clear.
LEMMA AccessInitially == Init => AccessInv
<1> SUFFICES ASSUME Init PROVE AccessInv
  OBVIOUS
<1> DEFINE b == NewBus([d \in SimSlave |-> setup.born], Half - 1, [a \in {0} |-> 0])
<1>1. /\ plat = [core |-> [c \in Core |-> CoreReset(c)], dbg |-> 0, bus |-> b]
      /\ lost = (IF setup.born THEN SimSlave ELSE {})
      /\ taken = [times |-> 0, saw |-> 0]
  BY Zenon DEF Init
<1>2. /\ BusFields(b) /\ b.active = None /\ b.wait = FALSE
      /\ b.slave = [d \in SimSlave |-> NewSlave(setup.born)]
  BY DEF NewBus, BusFields
<1> HIDE DEF b
<1>3. PlatShape /\ TakenShape /\ plat.bus = b /\ taken.times = 0
  BY <1>1 DEF PlatShape, TakenShape
<1>4. ASSUME NEW d \in SimSlave
      PROVE  SlaveFields(b.slave[d]) /\ ~Up(b.slave[d]) /\ (b.slave[d].latch = setup.born)
  <2>1. b.slave[d] = [read |-> FALSE, write |-> FALSE, at |-> 0, data |-> 0, latch |-> setup.born, got |-> 0]
    BY <1>2 DEF NewSlave
  <2>2. SlaveFields(b.slave[d]) /\ b.slave[d].read = FALSE /\ b.slave[d].write = FALSE
        /\ b.slave[d].latch = setup.born
    BY ONLY <2>1, SlaveLiteral
  <2> QED BY <2>2, Zenon DEF Up
<1>5. BusShape(b)
  BY <1>2, <1>4 DEF BusShape
<1>6. None \notin SimSlave
  BY SlaveAssumption
<1>7. \A d \in SimSlave : d \in lost <=> setup.born
  BY <1>1
<1>8. lost \subseteq SimSlave
  BY <1>1
<1>9. Wired(b, lost, 0)
  BY <1>2, <1>4, <1>6, <1>7, <1>8 DEF Wired
<1>10. Given(b, lost, 0, taken.saw)
  BY <1>2, <1>6 DEF Given
<1> QED BY <1>3, <1>5, <1>9, <1>10 DEF AccessInv

\* Cycles, dumps and patches move the bus, and nothing else does.
LEMMA AccessStep == AccessInv /\ [Next]_vars => AccessInv'
<1> SUFFICES ASSUME AccessInv, [Next]_vars PROVE AccessInv'
  OBVIOUS
<1> DEFINE Still == UNCHANGED <<plat, lost, taken>>
<1>1. ASSUME Still, host' # "stuck" => host # "stuck" PROVE AccessInv'
  BY <1>1 DEF AccessInv, PlatShape, TakenShape
<1>2. CASE UNCHANGED runVars
  BY <1>1, <1>2 DEF runVars, history
<1>3. CASE Choose \/ Signal \/ Continue \/ Unreadable \/ Step \/ \E at \in Positions : PatchPc(at)
  <2>1. Still
    BY <1>3 DEF Choose, Signal, Continue, Unreadable, Step, PatchPc, history
  <2>2. host' # "stuck" => host # "stuck"
    BY <1>3 DEF Choose, Signal, Continue, Unreadable, Step, PatchPc, InSession
  <2> QED BY <1>1, <2>1, <2>2
<1>4. CASE Clock
  <2>1. PICK ready \in BOOLEAN, fetched \in BOOLEAN :
          FastCycle(ready, fetched) \/ AccurateCycle(ready, fetched) \/ Resume(ready, fetched)
    BY <1>4 DEF Clock
  <2>2. host # "stuck"
    BY <2>1 DEF FastCycle, AccurateCycle, Resume
  <2>3. \E go \in BOOLEAN, stops \in BOOLEAN : \E p \in Cycled(go, ready, fetched) :
          plat' = p /\ Noted(p, force, go, ready, stops)
    <3>1. CASE FastCycle(ready, fetched)
      BY <3>1, Zenon DEF FastCycle
    <3>2. CASE AccurateCycle(ready, fetched)
      BY <3>2, Zenon DEF AccurateCycle
    <3>3. CASE Resume(ready, fetched)
      BY <3>3, Zenon DEF Resume
    <3> QED BY <2>1, <3>1, <3>2, <3>3
  <2> QED BY <2>2, <2>3, AccessCycle
<1>5. CASE \E patch \in Patch : Dump(patch.addr) \/ PatchMem(patch.addr, patch.data)
  <2>1. host # "stuck"
    BY <1>5 DEF Dump, PatchMem, Reaches, InSession
  <2>2. \E addr, op, data : Reaches(addr, Outside(plat.bus, op, addr, data))
    BY <1>5, Zenon DEF Dump, PatchMem
  <2> QED BY <2>1, <2>2, AccessReached
<1>6. UNCHANGED vars => UNCHANGED runVars
  BY DEF vars
<1> QED BY <1>2, <1>3, <1>4, <1>5, <1>6, HostSteps, StepKinds

\* An access to a device in the design takes effect at exactly one edge, and a read gives
\* what the device had then, whatever devices, programs and debuggers there are, and
\* whether the latches are born set or not (sim_slave.cpp).
THEOREM AccessRight == Spec => []AccessOnce
<1>1. AccessInv => AccessOnce
  BY DEF AccessInv, Given, AccessOnce
<1> QED BY <1>1, AccessInitially, AccessStep, PTL DEF Spec

-----------------------------------------------------------------------------
\* The cores start at 0, on a branch to 0.
LEMMA RunsInitially == Init => RunsInv
<1> SUFFICES ASSUME Init PROVE RunsInv
  OBVIOUS
<1>1. /\ setup \in Setup /\ host = "loop" /\ due = 0 /\ ran = 0 /\ next = 0
      /\ plat.core = [c \in Core |-> CoreReset(c)]
  BY DEF Init
<1>2. plat.core[0] = CoreReset(0)
  BY <1>1, CoreAssumption
<1>3. plat.core[0].at = 0 /\ plat.core[0].goto = 0 /\ plat.core[0].pc = 0
  BY <1>2 DEF CoreReset
<1>4. Len(program) \in Nat \ {0}
  BY <1>1, ProgramAssumption DEF program
<1>5. 0 \in Positions
  BY <1>4 DEF Positions
<1> QED BY <1>1, <1>3, <1>5 DEF RunsInv, RunsOnce, CoreAt, Going

\* What is forced after a cycle.
Halting(p) == MaybeHalt(p, force)

\* One case for each step: cycles by where main() is.
LEMMA RunsStep == RunsInv /\ [Next]_vars => RunsInv'
<1> SUFFICES ASSUME RunsInv, [Next]_vars PROVE RunsInv'
  OBVIOUS
<1>0. setup' = setup /\ Positions' = Positions
  BY StepKinds DEF vars, Positions, program
<1>1. ASSUME UNCHANGED <<plat, ran, due, next, force>>,
             \/ host' = host
             \/ host = "loop" /\ host' \in {"fast", "accurate"}
             \/ host = "session" /\ host' = "resume"
      PROVE  RunsInv'
  BY <1>0, <1>1 DEF RunsInv, RunsOnce, CoreAt, Going, Resuming
<1>2. CASE UNCHANGED runVars
  BY <1>1, <1>2 DEF runVars, history
<1>3. CASE Choose \/ Signal \/ Continue \/ Unreadable
  BY <1>1, <1>3 DEF Choose, Signal, Continue, Unreadable, InSession, history
<1>4. CASE Step
  <2>1. /\ host = "session" /\ host' = "resume" /\ UNCHANGED <<plat, ran, due, next>>
        /\ force' = [force EXCEPT ![0].step = TRUE]
    BY <1>4 DEF Step, InSession, history
  <2>2. Resuming
    BY <2>1 DEF RunsInv
  <2>3. /\ force' = [c \in Core |-> force'[c]]
        /\ force'[0] = [force[0] EXCEPT !.step = TRUE]
    BY <2>1, <2>2, CoreAssumption DEF Resuming
  <2>4. force'[0] = [halt |-> force'[0].halt, step |-> force'[0].step, target |-> force'[0].target]
        /\ force'[0].target = force[0].target
    BY <2>2, <2>3 DEF Resuming
  <2>5. Resuming'
    BY <1>0, <2>1, <2>2, <2>3, <2>4 DEF Resuming
  <2> QED BY <1>0, <2>1, <2>5 DEF RunsInv, RunsOnce, CoreAt
<1>5. CASE \E at \in Positions : PatchPc(at)
  <2>1. PICK at \in Positions :
          /\ host = "session" /\ host' = host /\ UNCHANGED <<plat, ran, due>> /\ next' = at
          /\ force' = [force EXCEPT ![0].target = at]
    BY <1>5 DEF PatchPc, InSession
  <2>2. Resuming
    BY <2>1 DEF RunsInv
  <2>3. /\ force' = [c \in Core |-> force'[c]]
        /\ force'[0] = [force[0] EXCEPT !.target = at]
    BY <2>1, <2>2, CoreAssumption DEF Resuming
  <2>4. force'[0] = [halt |-> force'[0].halt, step |-> force'[0].step, target |-> force'[0].target]
        /\ force'[0].target = at
    BY <2>2, <2>3 DEF Resuming
  <2>5. Resuming'
    BY <1>0, <2>1, <2>2, <2>3, <2>4 DEF Resuming
  <2> QED BY <1>0, <2>1, <2>5 DEF RunsInv, RunsOnce, CoreAt
<1>6. CASE \E patch \in Patch : Dump(patch.addr) \/ PatchMem(patch.addr, patch.data)
  <2>1. PICK x : /\ host = "session" /\ host' \in {host, "stuck"} /\ UNCHANGED <<force, ran, due, next>>
                 /\ plat' = [plat EXCEPT !.bus = x]
    BY <1>6 DEF Dump, PatchMem, Reaches, InSession
  <2>2. plat'.core = plat.core
    BY <2>1
  <2> QED BY <1>0, <2>1, <2>2 DEF RunsInv, RunsOnce, CoreAt, Resuming
<1>7. CASE Clock
  <2>1. PICK ready \in BOOLEAN, fetched \in BOOLEAN :
          FastCycle(ready, fetched) \/ AccurateCycle(ready, fetched) \/ Resume(ready, fetched)
    BY <1>7 DEF Clock
  <2>2. CASE FastCycle(ready, fetched)
    <3>1. PICK p \in Cycled(FALSE, ready, fetched), stops \in BOOLEAN :
            /\ plat' = p /\ Noted(p, force, FALSE, ready, stops)
            /\ \/ host' = "end"
               \/ host' = "session" /\ stops /\ force' = Stops(p, Halting(p))
               \/ host' = "fast" /\ ~stops
      <4>1. PICK p \in Cycled(FALSE, ready, fetched) :
              /\ plat' = p
              /\ Noted(p, force, FALSE, ready, ~p.bus.hole /\ cycles + 1 = Burst /\ HasHalted(Halting(p)))
              /\ force' = IF p.bus.hole \/ ~(cycles + 1 = Burst /\ HasHalted(Halting(p)))
                            THEN force ELSE Stops(p, Halting(p))
              /\ host' = CASE p.bus.hole \/ (cycles + 1 = Burst /\ HasHalted(Halting(p)) /\ failed) -> "end"
                           [] ~p.bus.hole /\ cycles + 1 = Burst /\ HasHalted(Halting(p)) /\ ~failed -> "session"
                           [] OTHER -> "fast"
        BY <2>2 DEF FastCycle, Halting
      <4> DEFINE stops == ~p.bus.hole /\ cycles + 1 = Burst /\ HasHalted(Halting(p))
      <4>2. stops \in BOOLEAN
        OBVIOUS
      <4>3. \/ host' = "end"
            \/ host' = "session" /\ stops /\ force' = Stops(p, Halting(p))
            \/ host' = "fast" /\ ~stops
        BY <4>1
      <4> QED BY <4>1, <4>2, <4>3, Zenon
    <3>2. host = "fast"
      BY <2>2 DEF FastCycle
    <3>3. /\ RunsOnce' /\ CoreAt'
          /\ ~stops => Going'
          /\ stops => next' \in {Anywhere, p.core[0].pc}
      BY <1>0, <3>1, <3>2, RunsCycle DEF RunsInv
    <3>4. stops /\ force' = Stops(p, Halting(p)) => Resuming'
      BY <3>1, <3>3, StopsAtPc
    <3> QED BY <1>0, <3>1, <3>3, <3>4 DEF RunsInv
  <2>3. CASE AccurateCycle(ready, fetched)
    <3>1. PICK p \in Cycled(FALSE, ready, fetched), stops \in BOOLEAN :
            /\ plat' = p /\ Noted(p, force, FALSE, ready, stops)
            /\ \/ host' = "end"
               \/ host' = "session" /\ stops /\ force' = Stops(p, Halting(p))
               \/ host' = "accurate" /\ ~stops
      <4> DEFINE Exit(p) == HasHalted(Halting(p)) /\ \E c \in Core : Halted(p, force, c)
      <4>1. PICK p \in Cycled(FALSE, ready, fetched) : \E exit \in {Exit(p)} :
              /\ plat' = p
              /\ Noted(p, force, FALSE, ready, exit)
              /\ force' = IF exit THEN Stops(p, Halting(p)) ELSE Halting(p)
              /\ host' = CASE \/ failed \/ p.bus.hole
                               \/ /\ ~exit /\ ~(failed \/ p.bus.hole)
                                  /\ setup.limit > 0 /\ cycles + 1 = setup.limit -> "end"
                           [] ~(failed \/ p.bus.hole) /\ exit -> "session"
                           [] OTHER -> "accurate"
        BY <2>3, Zenon DEF AccurateCycle, Halting
      <4>2. PICK exit \in BOOLEAN :
              /\ plat' = p
              /\ Noted(p, force, FALSE, ready, exit)
              /\ force' = IF exit THEN Stops(p, Halting(p)) ELSE Halting(p)
              /\ host' = CASE \/ failed \/ p.bus.hole
                               \/ /\ ~exit /\ ~(failed \/ p.bus.hole)
                                  /\ setup.limit > 0 /\ cycles + 1 = setup.limit -> "end"
                           [] ~(failed \/ p.bus.hole) /\ exit -> "session"
                           [] OTHER -> "accurate"
        BY <4>1, Zenon
      <4>3. \/ host' = "end"
            \/ host' = "session" /\ exit /\ force' = Stops(p, Halting(p))
            \/ host' = "accurate" /\ ~exit
        BY <4>2
      <4> QED BY <4>2, <4>3, Zenon
    <3>2. host = "accurate"
      BY <2>3 DEF AccurateCycle
    <3>3. /\ RunsOnce' /\ CoreAt'
          /\ ~stops => Going'
          /\ stops => next' \in {Anywhere, p.core[0].pc}
      BY <1>0, <3>1, <3>2, RunsCycle DEF RunsInv
    <3>4. stops /\ force' = Stops(p, Halting(p)) => Resuming'
      BY <3>1, <3>3, StopsAtPc
    <3> QED BY <1>0, <3>1, <3>3, <3>4 DEF RunsInv
  <2>4. CASE Resume(ready, fetched)
    <3>1. PICK p \in Cycled(TRUE, ready, fetched) :
            plat' = p /\ Noted(p, force, TRUE, ready, FALSE) /\ host = "resume" /\ host' = "loop"
      BY <2>4 DEF Resume
    <3>2. RunsOnce' /\ CoreAt' /\ Going'
      BY <1>0, <3>1, RunsResume DEF RunsInv
    <3> QED BY <1>0, <3>1, <3>2 DEF RunsInv
  <2> QED BY <2>1, <2>2, <2>3, <2>4
<1>8. UNCHANGED vars => UNCHANGED runVars
  BY DEF vars
<1> QED BY <1>2, <1>3, <1>4, <1>5, <1>6, <1>7, <1>8, HostSteps, StepKinds

\* Whatever programs the cores have, whenever they stop, and whatever the user of the
\* debugger does then, the instruction that core 0 executes is the one that was due, if
\* the session found the core halted (conspiracion.cpp:664-768).
THEOREM SessionsRight == Spec => []RunsOnce
<1>1. RunsInv => RunsOnce
  BY DEF RunsInv
<1> QED BY <1>1, RunsInitially, RunsStep, PTL DEF Spec

\* The core that is followed alone is the one of CoreSpec.
THEOREM SimulatorCore == Spec => CoreSpec
<1>1. Init => CoreInit
  BY DEF Init
<1>2. [Next]_vars => [CoreNext]_coreVars
  BY Zenon DEF Next, vars
<1> QED BY <1>1, <1>2, PTL DEF Spec, CoreSpec

\* In the simulator, too, a core executes the instructions of its program, and the bus
\* answers the walk that has asked (core_fetch.sv, core_mmu_arbiter.sv).
THEOREM SimulatorRight == Spec => [](RightInstructions /\ OwnAnswers)
BY SimulatorCore, CoreRight, ArbiterRight, PTL
=============================================================================
