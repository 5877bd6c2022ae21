--------------------------- MODULE MemPorts_proof ---------------------------
(***************************************************************************)
(* The memory arbiter is fair and keeps to the bus protocol, for any       *)
(* number of ports.                                                        *)
(***************************************************************************)
EXTENDS MemPorts, WellFoundedInduction, TLAPS

USE PortsAssumption

\* The places in the queue of the ports are natural numbers, all different, and
\* the last one is that of the port that was selected last.
LEMMA AheadType ==
  ASSUME lastSelect \in Port
  PROVE  /\ \A p \in Port : Ahead(p) \in Port
         /\ \A p, q \in Port : Ahead(p) = Ahead(q) => p = q
         /\ \A p \in Port : p # lastSelect => Ahead(p) < Ahead(lastSelect)
BY DEF Port, Ahead

\* First, by which Select is defined, exists: some port is asked before the others.
LEMMA FirstIsFirst ==
  ASSUME lastSelect \in Port, busy \subseteq Port, busy # {}
  PROVE  First \in busy /\ \A q \in busy : Ahead(First) <= Ahead(q)
<1> DEFINE T == {Ahead(p) : p \in busy}
           R == OpToRel(<, Nat)
<1>1. T \subseteq Nat /\ T # {}
  <2>1. \A p \in busy : Ahead(p) \in Nat
    BY AheadType DEF Port
  <2> QED BY <2>1
<1>2. PICK a \in T : \A b \in T : <<b, a>> \notin R
  <2> HIDE DEF T, R
  <2>1. IsWellFoundedOn(R, Nat)
    BY NatLessThanWellFounded DEF R
  <2> QED BY <1>1, <2>1, WFMin
<1>3. PICK p \in busy : a = Ahead(p)
  OBVIOUS
<1>4. \A q \in busy : Ahead(p) <= Ahead(q)
  <2> SUFFICES ASSUME NEW q \in busy PROVE Ahead(p) <= Ahead(q)
    OBVIOUS
  <2>1. Ahead(q) \in T /\ <<Ahead(q), Ahead(p)>> \notin R
    BY <1>2, <1>3
  <2>2. Ahead(p) \in Nat /\ Ahead(q) \in Nat
    BY <1>1
  <2>3. ~(Ahead(q) < Ahead(p))
    BY <2>1, <2>2 DEF OpToRel
  <2> QED BY <2>2, <2>3
<1> QED BY <1>4 DEF First

\* The port that gets the memory is the held one, or the first of those that
\* want it, or nobody wants it.
LEMMA SelectType ==
  ASSUME TypeOK
  PROVE  /\ Select \in Port
         /\ lastHold => Select = lastSelect
         /\ ~lastHold /\ busy # {} => Select \in busy /\ \A q \in busy : Ahead(Select) <= Ahead(q)
         /\ busy = {} => Select = lastSelect
BY FirstIsFirst DEF TypeOK, Select

\* A port that has passed a waiting one is asked after it: who is asked first
\* has passed nobody.
LEMMA FairNow == ArbiterInv => NoOvertaking
<1> SUFFICES ASSUME ArbiterInv, NEW p \in busy, Select \in busy, Select \in passed[p]
             PROVE  FALSE
  BY DEF NoOvertaking
<1> USE DEF ArbiterInv
<1>1. CASE lastHold
  BY <1>1, SelectType DEF HeldIsNew
<1>2. CASE ~lastHold
  <2>1. Ahead(p) < Ahead(Select)
    BY <1>2 DEF PassedIsBehind, AtMemory
  <2>2. Ahead(Select) <= Ahead(p)
    BY <1>2, SelectType
  <2>3. Ahead(p) \in Port /\ Ahead(Select) \in Port
    BY AheadType, SelectType DEF TypeOK
  <2> QED BY <2>1, <2>2, <2>3 DEF Port
<1> QED BY <1>1, <1>2

\* After a cycle the queue has moved on: the selected port is the last one now,
\* those behind it have come nearer, in the same order.
LEMMA QueueMoves ==
  ASSUME TypeOK, lastSelect' = Select, NEW p \in Port, NEW q \in Port,
         Ahead(Select) < Ahead(p), Ahead(p) < Ahead(q)
  PROVE  Ahead(p)' < Ahead(q)'
BY SelectType, SMTT(60) DEF TypeOK, Port, Ahead

\* At most the selected port is served, and nobody if the memory waits.
LEMMA ServedType ==
  ASSUME NEW wait \in BOOLEAN
  PROVE  /\ Served(wait) \subseteq {Select} \cap busy
         /\ wait => Served(wait) = {}
         /\ ~wait /\ Select \in busy => Select \in Served(wait)
BY DEF Served, Waits

LEMMA InitInv == Init => ArbiterInv
BY DEF Init, ResetArbiter, ArbiterInv, TypeOK, PassedIsBehind, HeldIsNew, Port

LEMMA TypeStep ==
  ASSUME TypeOK, NEW wait \in BOOLEAN, NEW starting \in SUBSET Port, Cycle(wait, starting)
  PROVE  TypeOK'
BY SelectType, ServedType DEF TypeOK, Cycle, Arbitrate

\* Every cycle keeps the order: a port that is passed now goes to the end of the
\* queue, and the others keep their order.
LEMMA BehindStep ==
  ASSUME ArbiterInv, NEW wait \in BOOLEAN, NEW starting \in SUBSET Port, Cycle(wait, starting)
  PROVE  PassedIsBehind'
<1> USE DEF ArbiterInv
<1>0. TypeOK' /\ lastSelect' = Select /\ Select \in Port
  BY TypeStep, SelectType DEF Cycle, Arbitrate
<1> SUFFICES ASSUME NEW p \in busy', ~AtMemory(p)', NEW q \in passed'[p]
             PROVE  Ahead(p)' < Ahead(q)'
  BY DEF PassedIsBehind
<1>1. /\ p \in busy /\ p \in Port /\ p \notin Served(wait)
      /\ q \in passed[p] \cup Served(wait) /\ q \in Port
  BY <1>0 DEF Cycle, TypeOK
<1>2. p # Select
  BY <1>1, ServedType DEF AtMemory, Cycle, Arbitrate
<1>3. CASE q \in Served(wait)
  <2>1. q = lastSelect'
    BY <1>0, <1>3, ServedType
  <2> QED BY <1>0, <1>1, <1>2, <2>1, AheadType DEF Ahead, Port
<1>4. CASE q \in passed[p] /\ lastHold
  <2>1. lastSelect' = lastSelect /\ Ahead(p) < Ahead(q)
    BY <1>0, <1>1, <1>2, <1>4, SelectType DEF PassedIsBehind, AtMemory
  <2> QED BY <2>1 DEF Ahead
<1>5. CASE q \in passed[p] /\ ~lastHold
  <2>1. Ahead(p) < Ahead(q)
    BY <1>1, <1>5 DEF PassedIsBehind, AtMemory
  <2>2. Ahead(Select) <= Ahead(p) /\ Ahead(Select) # Ahead(p)
    BY <1>0, <1>1, <1>2, <1>5, SelectType, AheadType DEF TypeOK
  <2>3. Ahead(Select) < Ahead(p)
    BY <1>0, <1>1, <2>2, AheadType DEF TypeOK, Port
  <2> QED BY <1>0, <1>1, <2>1, <2>3, QueueMoves
<1> QED BY <1>1, <1>3, <1>4, <1>5

\* A port that the memory makes wait has passed nobody: it was just selected.
LEMMA HeldStep ==
  ASSUME ArbiterInv, NEW wait \in BOOLEAN, NEW starting \in SUBSET Port, Cycle(wait, starting)
  PROVE  HeldIsNew'
<1> SUFFICES ASSUME lastHold', NEW p \in busy', Select \in passed'[p]
             PROVE  FALSE
  BY DEF HeldIsNew, Cycle, Arbitrate
<1>1. Select \in busy /\ Served(wait) = {}
  BY ServedType DEF Cycle, Arbitrate
<1>2. p \in busy /\ Select \in passed[p]
  BY <1>1 DEF Cycle, ArbiterInv, TypeOK
<1> QED BY <1>1, <1>2, FairNow DEF NoOvertaking

LEMMA StepInv == ArbiterInv /\ [Tick]_vars => ArbiterInv'
<1> SUFFICES ASSUME ArbiterInv, [Tick]_vars PROVE ArbiterInv'
  OBVIOUS
<1>1. CASE Tick
  BY <1>1, TypeStep, BehindStep, HeldStep DEF Tick, ArbiterInv
<1>2. CASE UNCHANGED vars
  BY <1>2 DEF vars, ArbiterInv, TypeOK, PassedIsBehind, HeldIsNew, AtMemory, Ahead
<1> QED BY <1>1, <1>2

\* Round robin keeps its promise: while an access waits, every other port is
\* served once at most.
THEOREM FairArbiter == Spec => []NoOvertaking
<1>1. Spec => []ArbiterInv
  BY InitInv, StepInv, PTL DEF Spec
<1> QED BY <1>1, FairNow, PTL

\* The memory's port keeps the access that waits there.
THEOREM PortHeld == Spec => HoldStable
<1>1. TypeOK /\ [Tick]_vars => [lastHold' => Select' = Select /\ Select \in busy']_vars
  <2> SUFFICES ASSUME TypeOK, Tick, lastHold' PROVE Select' = Select /\ Select \in busy'
    OBVIOUS
  <2>1. PICK wait \in BOOLEAN, starting \in SUBSET Port : Cycle(wait, starting)
    BY DEF Tick
  <2>2. Select \in busy /\ Served(wait) = {}
    BY <2>1, ServedType DEF Cycle, Arbitrate
  <2>3. Select' = Select
    BY <2>1 DEF Select, Cycle, Arbitrate
  <2> QED BY <2>1, <2>2, <2>3 DEF Cycle
<1>2. Spec => []TypeOK
  BY InitInv, StepInv, PTL DEF Spec, ArbiterInv
<1> QED BY <1>1, <1>2, PTL DEF Spec, HoldStable
=============================================================================
