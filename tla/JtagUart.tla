------------------------------ MODULE JtagUart ------------------------------
(***************************************************************************)
(* The JTAG UART of the simulator (tb/top/conspiracion/jtag_uart.cpp): the *)
(* keys that the user has typed wait in a ring of `Fifo' places until they *)
(* are read, and there is always room for what the cores write.            *)
(*                                                                         *)
(* An UART is a record u: rx (the ring), next and avail (the first key and *)
(* the number of keys in it), re and we (interrupts enabled), and ac (the  *)
(* host has been active since the bit was cleared).                        *)
(***************************************************************************)
EXTENDS Integers

CONSTANTS
  Fifo,     \* places in the ring (64)
  NoKey     \* getch() has nothing

ASSUME FifoAssumption == Fifo \in Nat \ {0}

UartReset == [rx |-> [i \in 0 .. Fifo - 1 |-> NoKey], next |-> 0, avail |-> 0,
              re |-> FALSE, we |-> FALSE, ac |-> TRUE]

UartFull(u) == u.avail = Fifo

Wrapped(i) == IF i >= Fifo THEN i - Fifo ELSE i

\* A tick that finds the countdown of 10 000 at zero.  With a full ring there is
\* none: keys wait in the terminal, and ac is not set.
Ticked(u, key) ==
  CASE UartFull(u) -> u
    [] ~UartFull(u) /\ key = NoKey -> [u EXCEPT !.ac = TRUE]
    [] OTHER -> [u EXCEPT !.ac = TRUE, !.avail = @ + 1,
                          !.rx[Wrapped(u.next + u.avail)] = key]

\* What a read of the data register gives, and what it leaves behind.  The number
\* of keys is the one that are left.
DataRead(u) == [valid |-> u.avail > 0, key |-> u.rx[u.next],
                left |-> IF u.avail > 0 THEN u.avail - 1 ELSE 0]

AfterDataRead(u) ==
  IF u.avail > 0
    THEN [u EXCEPT !.avail = @ - 1, !.next = IF @ + 1 < Fifo THEN @ + 1 ELSE 0]
    ELSE u

\* A character is put on the screen.
AfterDataWrite(u) == [u EXCEPT !.ac = TRUE]

\* What print() looks at in the control register: there is always room to write.
ControlRead(u) == [ac |-> u.ac, space |-> 63]

AfterControlWrite(u, re, we, clear) ==
  [u EXCEPT !.re = re, !.we = we, !.ac = @ /\ ~clear]

UartIrq(u) == u.we \/ (u.re /\ u.avail > 0)
=============================================================================
