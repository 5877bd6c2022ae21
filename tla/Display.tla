------------------------------ MODULE Display -------------------------------
(***************************************************************************)
(* The screen of the simulator (tb/top/conspiracion/vga.impl.hpp).  In the *)
(* fast mode the cores write pixels to it over the bus.  In the accurate   *)
(* mode it is given the signals of a video source, one pixel at a time,    *)
(* finds out from the syncs which mode they have, and follows them.        *)
(*                                                                         *)
(* A display is a record d: mode (an index of Modes, 0 for none), window   *)
(* (the mode for which its size is right, 0 if it is closed), row and col, *)
(* the lengths of the syncs that are being measured (hlo, hhi in pixels;   *)
(* vlo, vhi in lines), found (a line has been measured), the syncs of the  *)
(* last pixel (lh, lv), and ticks (to the next refresh).                   *)
(***************************************************************************)
EXTENDS Integers, Sequences

CONSTANTS
  Modes,     \* MODES, as records of h and v: active, front, sync, back; and clk
  ClockHz,   \* of the source
  Refresh,   \* refresh_ticks
  Slack      \* by how much a measure may be off (2)

Whole(t) == t.active + t.front + t.sync + t.back
Size(m) == [w |-> Modes[m].h.active, h |-> Modes[m].v.active]

\* bus_hz is not zero, so that the first mode is assumed until there is a signal.
NewDisplay ==
  [mode |-> 1, window |-> 0, row |-> 0, col |-> 0, hlo |-> 0, hhi |-> 0, vlo |-> 0, vhi |-> 0,
   lh |-> FALSE, lv |-> FALSE, found |-> FALSE, ticks |-> Refresh - 1]

UpdateWindow(d) ==
  CASE d.mode = 0 -> [d EXCEPT !.window = 0]
    [] d.mode # 0 /\ d.window = 0 -> [d EXCEPT !.window = d.mode]
    [] OTHER -> d

\* tick() of the fast mode.
DisplayTick(d) ==
  IF d.ticks + 1 = Refresh THEN UpdateWindow([d EXCEPT !.ticks = 0]) ELSE [d EXCEPT !.ticks = @ + 1]

\* The pixel that a write over the bus changes, and that a pixel of the signal does.
NoPixel == [w |-> -1, h |-> -1]
WrittenPixel(d, addr) ==
  LET size == Size(d.window)
  IN IF d.window # 0 /\ d.mode # 0 /\ addr < Size(1).w * Size(1).h
       THEN [w |-> addr % size.w, h |-> addr \div size.w] ELSE NoPixel

PutPixel(d) ==
  LET h == Modes[d.mode].h
      v == Modes[d.mode].v
      x == d.col - (h.sync + h.back)
      y == d.row - (v.sync + v.back)
  IN IF d.mode # 0 /\ d.window # 0 /\ x \in 0 .. h.active - 1 /\ y \in 0 .. v.active - 1
       THEN [w |-> x, h |-> y] ELSE NoPixel

-----------------------------------------------------------------------------
\* The position goes on, but waits at the end of each sync for its edge.
\* It does not wait for the edges of the syncs.
MovePosFreely(d, hs, vs) ==
  LET next == IF d.col + 1 >= Whole(Modes[d.mode].h) THEN 0 ELSE d.col + 1
      line == IF d.row + 1 >= Whole(Modes[d.mode].v) THEN 0 ELSE d.row + 1
  IN [d EXCEPT !.col = IF d.mode = 0 /\ ~d.found THEN @
                       ELSE IF d.mode = 0 THEN (IF d.col + 1 >= d.hlo + d.hhi THEN 0 ELSE d.col + 1)
                       ELSE next,
               !.row = IF d.mode # 0 /\ next = 0 THEN line ELSE @]

MovePos(d, hs, vs) ==
  LET h == Modes[d.mode].h
      v == Modes[d.mode].v
      turns == d.col + 1 # h.sync \/ (~d.lh /\ hs)
      wraps == turns /\ d.col + 1 >= Whole(h)
      row == IF ~wraps \/ d.row + 1 = v.sync THEN d.row
             ELSE IF d.row + 1 >= Whole(v) THEN 0 ELSE d.row + 1
  IN IF d.mode = 0
       THEN [d EXCEPT !.col = IF ~d.found THEN @
                              ELSE IF d.col + 1 >= d.hlo + d.hhi THEN 0 ELSE d.col + 1]
       ELSE [d EXCEPT !.col = IF ~turns THEN @ ELSE IF wraps THEN 0 ELSE d.col + 1,
                      !.row = row + (IF ~d.lv /\ vs THEN 1 ELSE 0)]

Unmeasured(d) == [d EXCEPT !.hlo = 0, !.hhi = 0, !.vlo = 0, !.vhi = 0, !.found = FALSE]

SignalLost(d) == UpdateWindow(Unmeasured([d EXCEPT !.mode = 0, !.row = 0, !.col = 0]))

Distance(a, b) == IF a < b THEN b - a ELSE a - b

TimingsMatch(d, m) ==
  LET h == Modes[m].h
      v == Modes[m].v
  IN /\ Distance(Whole(h) - h.sync, d.hhi) <= Slack /\ Distance(d.hlo, h.sync) <= Slack
     /\ Distance(Whole(v) - v.sync, d.vhi) <= Slack /\ Distance(d.vlo, v.sync) <= Slack

\* The pixel clock is within two percent.
Fits(d, m) == TimingsMatch(d, m) /\ 50 * Distance(Modes[m].clk, ClockHz) < Modes[m].clk

GuessMode(d) ==
  LET fits == {m \in DOMAIN Modes : Fits(d, m)}
      guess == IF fits = {} THEN 0 ELSE CHOOSE m \in fits : \A n \in fits : m <= n
      shown == UpdateWindow([d EXCEPT !.mode = guess])
  IN IF d.mode # 0 /\ TimingsMatch(d, d.mode) THEN d
     ELSE [shown EXCEPT !.window = IF guess # 0 THEN guess ELSE @]

\* After a guess the syncs are measured anew; the fall with which the frame ended is
\* the first one of the next.
ScanVsync(d, hs, vs) ==
  LET fell == d.lh /\ ~hs
  IN CASE d.found /\ hs # (d.col >= d.hlo) -> SignalLost(d)
       [] ~d.found -> IF hs THEN [d EXCEPT !.hhi = @ + 1] ELSE [d EXCEPT !.found = TRUE]
       [] d.found /\ hs = (d.col >= d.hlo) /\ d.vlo = 0 ->
            [d EXCEPT !.vlo = IF d.lv /\ ~vs THEN 1 ELSE 0]
       [] OTHER ->
            CASE ~fell -> d
              [] fell /\ vs -> [d EXCEPT !.vhi = @ + 1]
              [] fell /\ ~vs /\ d.vhi = 0 -> [d EXCEPT !.vlo = @ + 1]
              [] OTHER -> [Unmeasured(GuessMode(d)) EXCEPT !.hlo = 1]

ScanSyncs(d, hs, vs) ==
  CASE d.hlo = 0 -> [d EXCEPT !.hlo = IF d.lh /\ ~hs THEN 1 ELSE 0]
    [] d.hlo # 0 /\ d.hhi = 0 /\ ~hs -> [d EXCEPT !.hlo = @ + 1]
    [] OTHER -> ScanVsync(d, hs, vs)

\* signal_tick: a pixel of the signal.
SignalTick(d, hs, vs) ==
  [ScanSyncs(MovePos(d, hs, vs), hs, vs) EXCEPT !.lh = hs, !.lv = vs]

-----------------------------------------------------------------------------
(***************************************************************************)
(* A source of video: a mode and a position in it.  Syncs are low, and     *)
(* come first.                                                             *)
(***************************************************************************)
Hsync(s) == s.x >= Modes[s.mode].h.sync
Vsync(s) == s.y >= Modes[s.mode].v.sync

NextPixel(s) ==
  LET ends == s.x + 1 = Whole(Modes[s.mode].h)
  IN [s EXCEPT !.x = IF ends THEN 0 ELSE @ + 1,
               !.y = IF ~ends THEN @ ELSE IF @ + 1 = Whole(Modes[s.mode].v) THEN 0 ELSE @ + 1]

\* Where the pixel of a position belongs.
Place(s) ==
  LET x == s.x - Modes[s.mode].h.sync - Modes[s.mode].h.back
      y == s.y - Modes[s.mode].v.sync - Modes[s.mode].v.back
      size == Size(s.mode)
  IN IF x \in 0 .. size.w - 1 /\ y \in 0 .. size.h - 1 THEN [w |-> x, h |-> y] ELSE NoPixel

\* The display has the mode of the source and its position, and the window is of that
\* size.  There is none if the first mode, which is assumed at first, is the right one
\* and has never been another: guess_mode returns before it opens one.
InStep(d, s) ==
  /\ d.mode = s.mode /\ d.col = s.x /\ d.row = s.y
  /\ d.window = s.mode \/ (d.window = 0 /\ s.mode = 1)
=============================================================================
