----------------------------- MODULE CoreFetch ------------------------------
(***************************************************************************)
(* How a core gets its instructions: core_fetch.sv, core_prefetch.sv and   *)
(* core_porch.sv, cycle by cycle.  Instructions are read ahead into a      *)
(* queue of a few slots; a branch or a halt empties it and makes the fetch *)
(* start elsewhere, while an answer of before may still be on its way.     *)
(*                                                                         *)
(* An instruction (the word, or the fault in its place) is known by the    *)
(* address that it was read from.  What is behind the fetch is a port: it  *)
(* takes a request when it has nothing to do, and answers it some time     *)
(* later.                                                                  *)
(***************************************************************************)
EXTENDS Integers

CONSTANTS
  Ptr,       \* 2^30 word addresses
  QueueSize, \* 3
  Target,    \* where branches go
  Nil

Address == 0 .. Ptr - 1

ASSUME FetchAssumption == Ptr \in Nat \ {0} /\ QueueSize \in Nat /\ QueueSize > 1
                          /\ Target \subseteq Address /\ Nil \notin Address

VARIABLES
  fetch,     \* pending, discard, and addr (hold_addr)
  queue,     \* insn_pc, valid (how many), and slot
  porch,     \* nop (the flag, or the NOP of a reset), insn and pc of what is to be issued
  branch,    \* where explicit_branch or wr_pc goes, or Nil
  halting,
  port,      \* busy, at (the address), and answer: in one cycle, and then Nil
  wanted     \* history: where the program is

fetchVars == <<fetch, queue, porch, branch, halting, port, wanted>>

After(a) == (a + 1) % Ptr

Slots == 0 .. QueueSize - 1

-----------------------------------------------------------------------------
(***************************************************************************)
(* Wires.                                                                  *)
(***************************************************************************)
Flushes == branch # Nil \/ halting
GoesTo == IF branch # Nil THEN branch ELSE porch.pc

Full == queue.valid = QueueSize
Fetch(stall) == (~stall \/ ~Full) /\ ~fetch.discard

Fetched == port.answer # Nil
FetchedValid == Fetched /\ ~fetch.discard

Addr(stall) ==
  CASE Flushes -> GoesTo
    [] ~Flushes /\ Fetch(stall) /\ FetchedValid -> After(fetch.addr)
    [] OTHER -> fetch.addr

-----------------------------------------------------------------------------
(***************************************************************************)
(* A clock edge.                                                           *)
(***************************************************************************)
\* Mutant: a second flush, or none, makes it forget the first.
FetchEdgeForgets(stall) ==
  LET awaits == Fetch(stall) \/ (fetch.pending /\ ~Fetched)
  IN fetch' = [pending |-> awaits, discard |-> awaits /\ Flushes, addr |-> Addr(stall)]

\* core_fetch.  An answer is thrown away if a flush came while it was awaited, or
\* just when it was asked for.
FetchEdge(stall) ==
  LET awaits == Fetch(stall) \/ (fetch.pending /\ ~Fetched)
  IN fetch' = [pending |-> awaits, discard |-> awaits /\ (fetch.discard \/ Flushes), addr |-> Addr(stall)]

\* core_prefetch: what goes into a slot, if what is fetched goes there, and the count.
Lands(i, stall) ==
  FetchedValid /\ ((i = 0 /\ queue.valid = 0) \/ queue.valid = i + (IF stall THEN 0 ELSE 1))

SlotNext(i, stall) ==
  CASE Flushes -> Nil
    [] ~Flushes /\ Lands(i, stall) -> port.answer
    [] ~Flushes /\ ~Lands(i, stall) /\ ~stall -> IF i + 1 \in Slots THEN queue.slot[i + 1] ELSE Nil
    [] OTHER -> queue.slot[i]

ValidNext(stall) ==
  CASE Flushes -> 0
    [] ~Flushes /\ FetchedValid /\ ((stall /\ ~Full) \/ queue.valid = 0) -> queue.valid + 1
    [] ~Flushes /\ ~FetchedValid /\ ~stall /\ queue.valid > 0 -> queue.valid - 1
    [] OTHER -> queue.valid

QueueEdge(stall) ==
  queue' = [pc |-> CASE Flushes -> GoesTo
                     [] ~Flushes /\ ~stall /\ queue.valid > 0 -> After(queue.pc)
                     [] OTHER -> queue.pc,
            valid |-> ValidNext(stall),
            slot |-> [i \in Slots |-> SlotNext(i, stall)]]

\* core_porch.
PorchEdge(stall) ==
  porch' = CASE Flushes -> [nop |-> TRUE, insn |-> Nil, pc |-> GoesTo]
             [] ~Flushes /\ ~stall -> [nop |-> queue.valid = 0, insn |-> queue.slot[0], pc |-> queue.pc]
             [] OTHER -> porch

\* The instruction in the porch is issued unless it is flushed, and the next is due.
\* Branches and halts come when they like.
IssueEdge(stall) ==
  /\ wanted' = CASE branch # Nil -> branch
                 [] branch = Nil /\ ~stall /\ ~Flushes /\ ~porch.nop -> After(wanted)
                 [] OTHER -> wanted
  /\ branch' \in Target \cup {Nil}
  /\ halting' \in BOOLEAN

FetchCycle(stall) ==
  /\ halting => stall
  /\ FetchEdge(stall) /\ QueueEdge(stall) /\ PorchEdge(stall) /\ IssueEdge(stall)

Unused == [busy |-> FALSE, at |-> Nil, answer |-> Nil]
Asked(a) == [busy |-> TRUE, at |-> a, answer |-> Nil]
Answered(a) == [busy |-> FALSE, at |-> Nil, answer |-> a]

\* The port looks at a request when it is not busy with one.
PortEdge(stall) ==
  \/ ~port.busy /\ port' = IF Fetch(stall) THEN Asked(Addr(stall)) ELSE Unused
  \/ port.busy /\ port' = port
  \/ port.busy /\ port' = Answered(port.at)

FetchNext == \E stall \in BOOLEAN : PortEdge(stall) /\ FetchCycle(stall)

\* After a reset the core branches to 0, and it may have to stop there.
FetchInit ==
  /\ fetch = [pending |-> FALSE, discard |-> FALSE, addr |-> 0]
  /\ queue = [pc |-> 0, valid |-> 0, slot |-> [i \in Slots |-> Nil]]
  /\ porch = [nop |-> TRUE, insn |-> Nil, pc |-> 0]
  /\ branch = 0 /\ halting \in BOOLEAN
  /\ port = Unused
  /\ wanted = 0

FetchSpec == FetchInit /\ [][FetchNext]_fetchVars

-----------------------------------------------------------------------------
\* The core executes the program: whatever is in the porch was read from where the
\* program is, with none left out or repeated by stalls, branches, halts and a queue
\* that is full when an answer comes (core_fetch.sv:36-70, core_prefetch.sv:58-81).
RightInstructions == ~porch.nop => porch.pc = wanted /\ porch.insn = wanted
=============================================================================
