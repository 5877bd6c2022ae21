------------------------------ MODULE PageWalk ------------------------------
(***************************************************************************)
(* Two walks of the page tables.  The MMU of a core reads the tables over  *)
(* the bus, entry by entry (core_mmu_pagewalk.sv).  The debugger of the    *)
(* simulator walks them while time stands still, and looks for each word   *)
(* in the memory and in all caches (conspiracion.cpp, pagewalk and         *)
(* dump_coherent).                                                         *)
(*                                                                         *)
(* Addresses are of words, and a page has PageWords of them, a large page  *)
(* LargePages pages, a section L2Entries pages.  An entry is a record of   *)
(* typ (the two bits) and base, which each use cuts down to its alignment. *)
(***************************************************************************)
EXTENDS Integers

CONSTANTS
  PageWords,    \* 1024
  LargePages,   \* 16
  L2Entries,    \* 256
  Span,         \* words that the caches tell apart: tags are cut to these
  NumCaches,    \* 4
  Space,        \* memories, with what the caches have of them
  Virtual       \* addresses to translate

VARIABLES
  space,   \* [mmu, ttbr, ram, copies]: copies[i] gives the words that cache i has
  walk     \* the MMU: state, target, addr (on the bus), and how it ended

walkVars == <<space, walk>>

Section == L2Entries * PageWords
Down(a, n) == n * (a \div n)

-----------------------------------------------------------------------------
\* What the bus gives: a copy in a cache is what the word is now.
Owners(a) == {i \in 0 .. NumCaches - 1 : a \in DOMAIN space.copies[i]}
Word(a) == IF Owners(a) = {} THEN space.ram[a] ELSE space.copies[CHOOSE i \in Owners(a) : TRUE][a]

\* The MMU starts with core_start.
WalkStart(va) ==
  IF space.mmu THEN [state |-> "L1", target |-> va, addr |-> space.ttbr + (va \div Section), fault |-> "no"]
  ELSE [state |-> "DATA", target |-> va, addr |-> va, fault |-> "no"]

Invalid(e) == (walk.state = "L1" /\ e.typ \notin {1, 2}) \/ (walk.state = "L2" /\ e.typ = 0)

\* Permissions are checked, an entry of no type is not.
AccessFaultAnyEntry(e, denied) ==
  IF (walk.state = "L1" /\ e.typ = 1) \/ Invalid(e) \/ ~denied THEN "no" ELSE "denied"

\* core_mmu_fault.  A table has no permissions of its own.
AccessFault(e, denied) ==
  CASE Invalid(e) -> "walk"
    [] ~Invalid(e) /\ denied /\ ~(walk.state = "L1" /\ e.typ = 1) -> "denied"
    [] OTHER -> "no"

\* Where an entry leads, if it is one.
Follow(e) ==
  CASE walk.state = "L1" /\ e.typ = 1 ->
         [walk EXCEPT !.state = "L2", !.addr = Down(e.base, L2Entries) + ((walk.target \div PageWords) % L2Entries)]
    [] walk.state = "L1" /\ e.typ = 2 ->
         [walk EXCEPT !.state = "DATA", !.addr = Down(e.base, Section) + (walk.target % Section)]
    [] walk.state = "L1" /\ e.typ \notin {1, 2} -> walk
    [] walk.state = "L2" /\ e.typ = 0 -> [walk EXCEPT !.state = "DATA"]
    [] walk.state = "L2" /\ e.typ = 1 ->
         [walk EXCEPT !.state = "DATA",
                      !.addr = Down(e.base, LargePages * PageWords) + (walk.target % (LargePages * PageWords))]
    [] OTHER -> [walk EXCEPT !.state = "DATA", !.addr = Down(e.base, PageWords) + (walk.target % PageWords)]

\* The bus answers.
WalkEntry ==
  /\ walk.state \in {"L1", "L2"}
  /\ \E denied \in BOOLEAN :
       LET e == Word(walk.addr)
           fault == AccessFault(e, denied)
       IN walk' = IF fault = "no" THEN Follow(e) ELSE [Follow(e) EXCEPT !.state = "FAULT", !.fault = fault]
  /\ UNCHANGED space

WalkEnd ==
  /\ walk.state \in {"DATA", "FAULT"}
  /\ walk' = [walk EXCEPT !.state = "IDLE"]
  /\ UNCHANGED space

WalkStep == WalkEntry \/ WalkEnd

WalkInit == space \in Space /\ \E va \in Virtual : walk = WalkStart(va)

-----------------------------------------------------------------------------
(***************************************************************************)
(* The debugger.                                                           *)
(***************************************************************************)
\* It reads the memory only.
DumpMemory(a) == space.ram[a]

\* The last cache that has the word wins.  The high bits of the address do not count.
DumpCoherent(a) ==
  LET holders == Owners(a % Span)
  IN IF holders = {} THEN space.ram[a]
     ELSE space.copies[CHOOSE i \in holders : \A j \in holders : j <= i][a % Span]

NoPage == [ok |-> FALSE, addr |-> 0]
Page(e, size, va) == [ok |-> TRUE, addr |-> Down(e.base, size) + (va % size)]

DebugSecond(e, va) ==
  LET s == DumpCoherent(Down(e.base, L2Entries) + ((va \div PageWords) % L2Entries))
  IN CASE s.typ = 1 -> Page(s, LargePages * PageWords, va)
       [] s.typ \in {2, 3} -> Page(s, PageWords, va)
       [] OTHER -> NoPage

DebugWalk(va) ==
  LET e == DumpCoherent(space.ttbr + (va \div Section))
  IN CASE ~space.mmu -> [ok |-> TRUE, addr |-> va]
       [] space.mmu /\ e.typ = 1 -> DebugSecond(e, va)
       [] space.mmu /\ e.typ = 2 -> Page(e, Section, va)
       [] OTHER -> NoPage

\* The walk has ended, and both have found the same.
Agreed ==
  /\ walk.state = "IDLE"
  /\ LET debug == DebugWalk(walk.target)
     IN /\ debug.ok = (walk.fault # "walk")
        /\ walk.fault = "no" => debug.addr = walk.addr
=============================================================================
