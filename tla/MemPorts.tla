------------------------------ MODULE MemPorts ------------------------------
(***************************************************************************)
(* The memory arbiter with a master at each port.  A master is a           *)
(* bus_master.sv, or the routing of a cache: it keeps its access up until  *)
(* the cycle in which waitrequest is low, and may then begin the next one  *)
(* at once.                                                                *)
(***************************************************************************)
EXTENDS MemInterconnect

VARIABLE
  passed    \* history, per port: who has been served since its access began

vars == <<busy, lastHold, lastSelect, passed>>

\* The ports whose access ends in a cycle: at most the selected one.
Served(wait) == {p \in busy : ~Waits(p, wait)}

Cycle(wait, starting) ==
  LET waiting == busy \ Served(wait)
  IN /\ busy' = waiting \cup starting
     /\ passed' = [p \in Port |-> IF p \in waiting THEN passed[p] \cup Served(wait) ELSE {}]
     /\ Arbitrate(wait)

Tick == \E wait \in BOOLEAN, starting \in SUBSET Port : Cycle(wait, starting)

Init ==
  /\ busy = {}
  /\ passed = [p \in Port |-> {}]
  /\ ResetArbiter

Spec == Init /\ [][Tick]_vars

-----------------------------------------------------------------------------
TypeOK ==
  /\ busy \in SUBSET Port
  /\ lastHold \in BOOLEAN
  /\ lastSelect \in Port
  /\ passed \in [Port -> SUBSET Port]

\* Nobody gets the memory a second time while another port waits
\* (mem_interconnect.sv:52, "Arbitraje round-robin"): an access waits for the
\* accesses of Ports - 1 others at most.
NoOvertaking == \A p \in busy : Select \in busy => Select \notin passed[p]

\* What is at the memory's port stays there as long as the memory keeps it
\* waiting, whatever comes in at the other ports (bus_master.sv:45-50).
HoldStable == [][lastHold' => Select' = Select /\ Select \in busy']_vars

\* Behind NoOvertaking: whoever has passed a waiting port is asked after it, and
\* the memory is not kept by one of them.
AtMemory(p) == lastHold /\ p = lastSelect
PassedIsBehind ==
  \A p \in busy : AtMemory(p) \/ \A q \in passed[p] : Ahead(p) < Ahead(q)
HeldIsNew == lastHold => \A p \in busy : lastSelect \notin passed[p]

ArbiterInv == TypeOK /\ PassedIsBehind /\ HeldIsNew
=============================================================================
