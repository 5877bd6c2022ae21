---------------------------- MODULE CacheMonitor ----------------------------
(***************************************************************************)
(* The exclusive-access monitor of a cache (rtl/cache/cache_monitor.sv),   *)
(* which gives ldrex and strex to the core.                                *)
(*                                                                         *)
(* The monitor does not watch the ring.  It remembers the line that was    *)
(* read by ldrex, and strex succeeds if the line still has the same data.  *)
(* Several words of a line can be linked (mask); the strex of each but the *)
(* last is only collected in `wr', and the last one writes them together.  *)
(*                                                                         *)
(* A monitor is a record m:                                                *)
(*   line   tag and index of the last ldrex                                *)
(*   mask   the words that have been linked and not stored                 *)
(*   dirty  a strex has been collected since the last ldrex                *)
(*   rd     monitor_rd, the data that was linked                           *)
(*   wr     monitor_wr, the data with the collected words                  *)
(***************************************************************************)
CONSTANTS Line, Offset, Value, None

Data == [Offset -> Value]

Monitor == [line : Line \cup {None}, mask : SUBSET Offset, dirty : BOOLEAN,
            rd : Data \cup {None}, wr : Data \cup {None}]

\* After reset.  tag, index, monitor_rd and monitor_wr have no reset; with an
\* empty mask nothing depends on them.
ResetMonitor == [line |-> None, mask |-> {}, dirty |-> FALSE, rd |-> None, wr |-> None]

Hit(m, line) == m.line = line
Known(m, off) == off \in m.mask

\* monitor_update: the collected words and the one now stored.
Update(m, off, word) == [m.wr EXCEPT ![off] = word]

\* Does not look whether the line has changed since it was linked.
CommitUnchanged(m, line, off, data) ==
  /\ Hit(m, line) /\ Known(m, off)
  /\ m.mask \ {off} = {}

\* monitor_commit of a strex to word `off' of a line with the given data.
Commit(m, line, off, data) ==
  /\ Hit(m, line) /\ Known(m, off)
  /\ m.rd = data
  /\ m.mask \ {off} = {}

\* ldrex: link one more word of the same line, or start over with this word.
Acquire(m, line, off, data) ==
  LET more == Hit(m, line) /\ ~Known(m, off) /\ ~m.dirty
      keep == more /\ m.mask # {}
  IN [line |-> line, dirty |-> FALSE,
      mask |-> IF more THEN m.mask \cup {off} ELSE {off},
      rd |-> IF keep THEN m.rd ELSE data,
      wr |-> IF keep THEN m.wr ELSE data]

\* strex, whether it commits or not.  A monitor with an empty mask is as good
\* as one after reset: the next ldrex loads all of it.
Release(m, line, off, word) ==
  LET left == IF Hit(m, line) /\ Known(m, off) THEN m.mask \ {off} ELSE {}
  IN IF left = {}
       THEN ResetMonitor
       ELSE [m EXCEPT !.mask = left, !.dirty = TRUE, !.wr = Update(m, off, word)]
=============================================================================
