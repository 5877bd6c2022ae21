--------------------------- MODULE MCCacheSystem ----------------------------
(***************************************************************************)
(* Instances of CacheSystem for TLC: the lines, where they are in the      *)
(* caches, and what each core asks for, as often as it likes.              *)
(***************************************************************************)
EXTENDS CacheSystem

CONSTANTS x, y, z

Load(l) == [op |-> "read", lock |-> FALSE, line |-> l, off |-> 0, data |-> 0]
Store(l, v) == [op |-> "write", lock |-> FALSE, line |-> l, off |-> 0, data |-> v]
Ldrex(l) == [op |-> "read", lock |-> TRUE, line |-> l, off |-> 0, data |-> 0]
Strex(l, v) == [op |-> "write", lock |-> TRUE, line |-> l, off |-> 0, data |-> v]

\* All lines at one index, so that they evict each other; or apart.
SameIndex == [l \in Line |-> 0]
OwnIndex == [l \in Line |-> IF l = x THEN 0 ELSE IF l = y THEN 1 ELSE 2]
TwoIndexes == [l \in Line |-> IF l = z THEN 1 ELSE 0]

\* Two cores: one line is linked and written by both, the other one evicts it.
BothShare == [n \in Cpu |-> {Ldrex(x), Strex(x, n), Load(y)}
                           \cup IF n = 0 THEN {Store(x, 1)} ELSE {}]

\* Two cores with a line, evictions and uncached accesses.
BothUncached == [n \in Cpu |-> {Load(x), Store(x, 0), Load(y), Load(IO)}]

\* Three cores after one line.
ThreeContend == [n \in Cpu |-> IF n = 3 THEN {} ELSE IF n = 2 THEN {Load(x)}
                               ELSE {Load(x), Store(x, 0)}]

\* Cores 0 and 3 share a line while 1 and 2 fetch lines of their own.
FourMessages == [n \in Cpu |-> IF n \in {0, 3} THEN {Load(x)}
                               ELSE IF n = 1 THEN {Load(y)} ELSE {Load(z)}]

\* Core 1 stores to a line and evicts it, core 0 loads it, core 2 is at the memory.
Evicted == [n \in Cpu |-> IF n = 0 THEN {Load(x)} ELSE IF n = 1 THEN {Store(x, 1), Load(y)}
                          ELSE IF n = 2 THEN {Load(z)} ELSE {}]
=============================================================================
