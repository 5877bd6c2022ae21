----------------------------- MODULE MCWavelet ------------------------------
EXTENDS Wavelet

\* Words of two bytes; the flash is the first word, and the image is too long for it.
MCLane == 0 .. 1
MCByte == 0 .. 2
MCImage == <<2, 1, 2>>

MCCommand == {"0", "5", "R", "Q"}

Beat(v, strb, last) == [data |-> [l \in MCLane |-> v], strb |-> strb, last |-> last]
\* Bursts of two beats: in the memory, and across its end.
MCWriteBurst ==
  {[addr |-> a, data |-> <<Beat(a + 1, {0, 1}, FALSE), Beat(1, {a}, TRUE)>>] : a \in 0 .. 1}
MCReadBurst == {[id |-> 7, addr |-> 0, len |-> 1], [id |-> 8, addr |-> 1, len |-> 1]}

\* The debugger alone, the memory alone, the screen alone, and a little of each.
MCBudget == {[commands |-> 4, bursts |-> 0, video |-> FALSE],
             [commands |-> 0, bursts |-> 3, video |-> FALSE],
             [commands |-> 1, bursts |-> 1, video |-> TRUE]}
=============================================================================
