------------------------------- MODULE MCDemo -------------------------------
(***************************************************************************)
(* Three cores at most, a UART that keeps two keys, and users of which     *)
(* each types one sequence of keys.                                        *)
(***************************************************************************)
EXTENDS Demo

MCLine == {LockLine} \cup {BoxLine(n) : n \in Cpu}

MCHex == [w \in {"0x0", "0x1", "0x4", "0x5", "0x8", "0x80", "0x3ff", "0x400"} |->
            CASE w = "0x0" -> 0 [] w = "0x1" -> 1 [] w = "0x4" -> 4 [] w = "0x5" -> 5 [] w = "0x8" -> 8
              [] w = "0x80" -> 128 [] w = "0x3ff" -> 1023 [] w = "0x400" -> 1024]

MCDecimal == [w \in {"-2", "0.9", "1.5", "3.1415"} |->
                CASE w = "-2"     -> [neg |-> TRUE, digits |-> 2, denominator |-> 1]
                  [] w = "0.9"    -> [neg |-> FALSE, digits |-> 9, denominator |-> 10]
                  [] w = "1.5"    -> [neg |-> FALSE, digits |-> 15, denominator |-> 10]
                  [] w = "3.1415" -> [neg |-> FALSE, digits |-> 31415, denominator |-> 10000]]

MCPointers == {0, 4, 8}

User(n, typed) == [alive |-> 0 .. n - 1, keys |-> typed, patient |-> FALSE]
Patient(n, typed) == [User(n, typed) EXCEPT !.patient = TRUE]

\* Two messages, one after the other, that have one word in common.
Writes(ptr) == <<"remote", "cpu1", "write", ptr, "0x5", "nl">>
Resends == Patient(2, <<"run", "cpu1", "nl">> \o Writes("0x4") \o Writes("0x8")
                        \o Writes("0x4") \o Writes("0x8"))
MCResends == {Resends}

\* An unsigned has twelve bits, and the GPU's memory room for eight vectors: the last
\* one there; the last one of all; and two more that are in the place of vector 0, one
\* after the other, the second of which does not fit into an unsigned.
Vector(block, lane, w) == <<"gfx", "data", block, lane, w, w, w, w, "nl">>
Edges == Vector("0x3ff", "lane3", "-2") \o Vector("0x0", "lane0", "0.9")
           \o Vector("0x400", "lane0", "1.5") \o Vector("0x80", "lane0", "0.9")

MCSetups == {Resends,
  Patient(1, Edges \o <<"gfx", "bg", "0x80", "nl">>),
  User(1, <<"gfx", "data", "0x1", "lane3", "1.5", "-2", "0.9", "3.1415", "nl">>),
  User(1, <<"gfx", "bg", "0x5", "esc", "0x8", "del", "del", "0x4", "nl", "gfx", "swap", "nl">>),
  User(1, <<"gfx", "data", "0x0", "lane0", "0.9", "0.9", "0.9", "0.9", "del", "0.9", "1.5", "nl">>),
  User(1, <<"write", "0x8", "0x5", "nl", "read", "0x8", "nl", "read", "0x5", "nl">>),
  User(1, <<"perf", "cpu0", "show", "nl", "cache", "cpu0", "0x4", "nl", "gfx", "clear", "nl">>),
  User(1, <<"halt", "cpu0", "nl">>),
  User(2, <<"run", "cpu1", "nl", "halt", "cpu1", "nl">>),
  Patient(2, <<"remote", "cpu1", "write", "0x4", "0x5", "nl", "run", "cpu1", "nl",
               "remote", "cpu1", "read", "0x8", "nl">>),
  Patient(2, <<"run", "cpu1", "nl", "remote", "cpu1", "read", "0x8", "nl",
               "remote", "cpu1", "write", "0x4", "0x5", "nl">>),
  User(3, <<>>) }
=============================================================================
