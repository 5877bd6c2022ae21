------------------------------ MODULE CoreMmu -------------------------------
(***************************************************************************)
(* The fetch and the loads and stores of a core, down to its bus           *)
(* (core_mmu.sv): each has a page walk of its own, and the two walks meet  *)
(* in an arbiter that keeps one request while the other has the bus.       *)
(*                                                                         *)
(* What the entries of the page tables say is free here: a walk may lead   *)
(* over one table or two or fail (PageWalk has them).  A request at the    *)
(* bus is known by whose it is, what it looks for, and for which address   *)
(* of the program.                                                         *)
(***************************************************************************)
EXTENDS CoreFetch

CONSTANT DataPtr   \* what is loaded and stored

VARIABLES
  iwalk,   \* state, and start (bus_start), of the walk of the fetch
  dport,   \* the port of loads and stores, as that of the fetch
  dwalk,
  arb,     \* master, active, and hold (a request or Nil)
  wire     \* bus_master: the request at the bus, or Nil

mmuVars == <<iwalk, dport, dwalk, arb, wire>>
coreVars == <<fetchVars, mmuVars>>

\* What a walk asks for.
Req(of, w, p) == [of |-> of, for |-> w.state, at |-> p.at]
StartOf(of, w, p) == IF w.start THEN Req(of, w, p) ELSE Nil
InsnStart == StartOf("INSN", iwalk, port)
DataStart == StartOf("DATA", dwalk, dport)

-----------------------------------------------------------------------------
(***************************************************************************)
(* core_mmu_arbiter.  `ready' is that of the bus.                          *)
(***************************************************************************)
\* Mutant: the master does not wait for the end of what it has on the bus.
NextMasterHasty(ready) ==
  IF DataStart = Nil /\ (arb.master = "DATA" \/ arb.hold = Nil) THEN "INSN" ELSE "DATA"

NextMaster(ready) ==
  CASE ~(ready \/ ~arb.active) -> arb.master
    [] (ready \/ ~arb.active) /\ DataStart = Nil /\ (arb.master = "DATA" \/ arb.hold = Nil) -> "INSN"
    [] OTHER -> "DATA"

Transition(ready) == arb.master # NextMaster(ready)

BusStart(ready) ==
  CASE Transition(ready) /\ arb.hold # Nil -> arb.hold
    [] ~(Transition(ready) /\ arb.hold # Nil) /\ NextMaster(ready) = "INSN" -> InsnStart
    [] OTHER -> DataStart

\* Mutant: what is held is only held for a cycle.
ArbEdgeForgets(ready) ==
  arb' = [master |-> NextMaster(ready),
          active |-> BusStart(ready) # Nil \/ (arb.active /\ ~ready),
          hold   |-> IF NextMaster(ready) = "INSN" THEN DataStart ELSE InsnStart]

ArbEdge(ready) ==
  arb' = [master |-> NextMaster(ready),
          active |-> BusStart(ready) # Nil \/ (arb.active /\ ~ready),
          hold   |-> IF Transition(ready) \/ arb.hold = Nil
                       THEN IF NextMaster(ready) = "INSN" THEN DataStart ELSE InsnStart
                       ELSE arb.hold]

\* bus_master.
WireEdge(ready) ==
  wire' = CASE (wire = Nil \/ ready) /\ BusStart(ready) # Nil -> BusStart(ready)
            [] ready /\ BusStart(ready) = Nil -> Nil
            [] OTHER -> wire

-----------------------------------------------------------------------------
(***************************************************************************)
(* core_mmu_pagewalk: what becomes of a walk and its port.  It looks at a  *)
(* request (of address a, or Nil) when it is idle.                         *)
(***************************************************************************)
Becomes(state, start, p) == [walk |-> [state |-> state, start |-> start], port |-> p]

WalkNext(w, p, a, ready) ==
  CASE w.state = "IDLE" ->
         IF a = Nil THEN {Becomes("IDLE", FALSE, Unused)} ELSE {Becomes(s, TRUE, Asked(a)) : s \in {"L1", "DATA"}}
    [] w.state = "FAULT" -> {Becomes("IDLE", FALSE, Answered(p.at))}
    [] w.state \notin {"IDLE", "FAULT"} /\ ~ready -> {Becomes(w.state, FALSE, p)}
    [] w.state = "L1" /\ ready -> {Becomes("L2", TRUE, p), Becomes("DATA", TRUE, p), Becomes("FAULT", FALSE, p)}
    [] w.state = "L2" /\ ready -> {Becomes("DATA", TRUE, p), Becomes("FAULT", FALSE, p)}
    [] w.state = "DATA" /\ ready -> {Becomes("IDLE", FALSE, Answered(wire.at))}

InsnReady(ready) == ready /\ arb.master = "INSN"
DataReady(ready) == ready /\ arb.master = "DATA"

IwalkEdge(stall, ready) ==
  \E n \in WalkNext(iwalk, port, IF Fetch(stall) THEN Addr(stall) ELSE Nil, InsnReady(ready)) :
    iwalk' = n.walk /\ port' = n.port

\* core_control_ldst asks for the next word when it has seen the answer to the last.
MayAsk == dwalk.state = "IDLE" /\ dport.answer = Nil

DwalkEdge(ready) ==
  \E a \in {Nil} \cup {d \in DataPtr : MayAsk} :
    \E n \in WalkNext(dwalk, dport, a, DataReady(ready)) : dwalk' = n.walk /\ dport' = n.port

-----------------------------------------------------------------------------
CoreCycle(ready) ==
  /\ ready => wire # Nil
  /\ ArbEdge(ready) /\ WireEdge(ready) /\ DwalkEdge(ready)
  /\ \E stall \in BOOLEAN : IwalkEdge(stall, ready) /\ FetchCycle(stall)

CoreNext == \E ready \in BOOLEAN : CoreCycle(ready)

MmuInit ==
  /\ iwalk = [state |-> "IDLE", start |-> FALSE] /\ dwalk = iwalk
  /\ dport = Unused
  /\ arb = [master |-> "INSN", active |-> FALSE, hold |-> Nil]
  /\ wire = Nil

CoreInit == FetchInit /\ MmuInit

CoreSpec == CoreInit /\ [][CoreNext]_coreVars

\* The clock runs, and the bus answers what it has been asked.
CoreFairness == WF_coreVars(CoreCycle(wire # Nil))

-----------------------------------------------------------------------------
\* An answer of the bus goes to the walk that has asked, and to what it has asked last:
\* two walks that start in one cycle, or one while the other waits, are not mixed up
\* (core_mmu_arbiter.sv:50-125).
Busy(w) == w.state \in {"L1", "L2", "DATA"}
OwnAnswers ==
  wire # Nil =>
    /\ wire.of = arb.master
    /\ wire = IF arb.master = "INSN" THEN Req("INSN", iwalk, port) ELSE Req("DATA", dwalk, dport)
    /\ Busy(IF arb.master = "INSN" THEN iwalk ELSE dwalk)

\* A load or a store ends whatever the fetch asks for, and the fetch brings an
\* instruction unless the core goes elsewhere: neither keeps the other from the bus,
\* and no request is lost.
CoreServed ==
  /\ dwalk.state # "IDLE" ~> dport.answer # Nil
  /\ queue.valid = 0 ~> queue.valid > 0 \/ Flushes
=============================================================================
