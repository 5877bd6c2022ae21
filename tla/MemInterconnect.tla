-------------------------- MODULE MemInterconnect ---------------------------
(***************************************************************************)
(* The arbiter between the caches' memory ports and the one memory port of *)
(* the system (tb/mem_interconnect.sv): round robin, and a port that is    *)
(* made to wait by the memory keeps it.                                    *)
(*                                                                         *)
(* CacheSystem uses the operators with the state of its caches' ports;     *)
(* MemPorts gives them masters of their own.                               *)
(***************************************************************************)
EXTENDS Integers

CONSTANT Ports    \* four in the code
ASSUME PortsAssumption == Ports \in Nat \ {0}

Port == 0 .. Ports - 1

VARIABLES
  busy,         \* the ports whose mem_read or mem_write is up
  lastHold,     \* last_hold: the selected port was made to wait
  lastSelect    \* last_select

arbiter == <<lastHold, lastSelect>>

\* How many ports are asked before p.  The port that was served last comes last.
Ahead(p) == IF p > lastSelect THEN p - lastSelect - 1 ELSE p - lastSelect - 1 + Ports

First == CHOOSE p \in busy : \A q \in busy : Ahead(p) <= Ahead(q)

\* The port that was selected last is asked first.
SelectSelfFirst ==
  IF lastHold \/ busy = {} \/ lastSelect \in busy THEN lastSelect ELSE First

\* Does not look whether the memory keeps a port waiting.
SelectAfresh == IF busy = {} THEN lastSelect ELSE First

\* select
Select == IF lastHold \/ busy = {} THEN lastSelect ELSE First

\* mem_N_waitrequest, when the memory's avl_waitrequest is `wait'.
Waits(p, wait) == p # Select \/ wait

\* last_hold and last_select at the end of a cycle.
Arbitrate(wait) ==
  /\ lastHold' = (Select \in busy /\ wait)
  /\ lastSelect' = Select

ResetArbiter == lastHold = TRUE /\ lastSelect = 0
=============================================================================
