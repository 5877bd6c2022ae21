------------------------------- MODULE Raster -------------------------------
(***************************************************************************)
(* The software renderer of the wavelet3d host                             *)
(* (platform/wavelet3d/host_sw/demo.c).  Quads are cut in two triangles,   *)
(* their corners are transformed and projected, and each triangle is       *)
(* sampled once per pixel: an edge function per side, kept up to date by   *)
(* additions, says whether the sample is inside, and a depth buffer        *)
(* whether it is seen.                                                     *)
(*                                                                         *)
(* Floating point is modelled by exact fractions: a quotient is a pair     *)
(* <<n, d>>.  Matrices and points have integer entries.                    *)
(***************************************************************************)
EXTENDS Integers, Sequences

CONSTANTS
  W, H,       \* the screen, in pixels
  Sub,        \* grid units per pixel (16)
  ZOne,       \* depth units from 0 to 1 (1 << 15)
  ColorOne,   \* colour units from 0 to 1 (1 << 8)
  Scale,      \* grid units of a coordinate of 1 (1 << 13)
  Blank       \* what a pixel has that has never been drawn; no triangle

\* The screen has a middle: W and H are 640 and 480.
ASSUME RasterAssumption ==
  /\ W \in Nat /\ W % 2 = 0 /\ H \in Nat /\ H % 2 = 0
  /\ Sub \in Nat \ {0} /\ ZOne \in Nat \ {0}

VARIABLES
  calls,      \* the triangles that raster() has still to draw
  tri,        \* v0, v1 and v2 of the one being drawn, or Blank
  x, y,       \* the loop counters
  baseX, baseY, \* the edge functions of the sides, at (x, sy) and at (x, y)
  zBuff, fb   \* depth and colour of every pixel

rasterVars == <<calls, tri, x, y, baseX, baseY, zBuff, fb>>

Min2(a, b) == IF a < b THEN a ELSE b
Max2(a, b) == IF a > b THEN a ELSE b

\* Division of int.
Quotient(a, b) == IF a >= 0 THEN a \div b ELSE -((-a) \div b)

-----------------------------------------------------------------------------
(***************************************************************************)
(* Matrices and the corners of a triangle.                                 *)
(***************************************************************************)
Four == 1 .. 4
Sum4(f) == f[1] + f[2] + f[3] + f[4]

MatVec(a, v) == [i \in Four |-> Sum4([k \in Four |-> a[i][k] * v[k]])]
MatMat(a, b) == [i \in Four |-> [j \in Four |-> Sum4([k \in Four |-> a[i][k] * b[k][j]])]]

Translate(dx, dy, dz) == <<<<1, 0, 0, dx>>, <<0, 1, 0, dy>>, <<0, 0, 1, dz>>, <<0, 0, 0, 1>>>>
Resize(fx, fy, fz) == <<<<fx, 0, 0, 0>>, <<0, fy, 0, 0>>, <<0, 0, fz, 0>>, <<0, 0, 0, 1>>>>

\* A rotation by an angle with cosine c and sine s around a unit vector.
Rotate(u, v, w, c, s) ==
  <<<<u * u * (1 - c) + c,     u * v * (1 - c) - w * s, u * w * (1 - c) + v * s, 0>>,
    <<v * u * (1 - c) + w * s, v * v * (1 - c) + c,     v * w * (1 - c) - u * s, 0>>,
    <<u * w * (1 - c) - v * s, v * w * (1 - c) + u * s, w * w * (1 - c) + c,     0>>,
    <<0, 0, 0, 1>>>>

\* Left, bottom and so on are such that the divisions are exact.
Frustum(l, r, b, t, n, f) ==
  <<<<(2 * n) \div (r - l), 0, (r + l) \div (r - l), 0>>,
    <<0, (2 * n) \div (t - b), (t + b) \div (t - b), 0>>,
    <<0, 0, -((f + n) \div (f - n)), -((2 * f * n) \div (f - n))>>,
    <<0, 0, -1, 0>>>>

\* tri(): a corner after mat_vec, persp_div and fixed.  persp_div leaves 1/w in the
\* last component and fixed divides by it again, so the grid has the coordinates
\* from before the perspective division; z and w are those of the transformed point.
Corner(mvp, p, color) ==
  LET v == MatVec(mvp, <<p[1], p[2], p[3], 1>>)
  IN [x |-> v[1] * Scale, y |-> v[2] * Scale, z |-> v[3], w |-> v[4], color |-> color]

Tri(mvp, p, q, r) == <<Corner(mvp, p, 1), Corner(mvp, q, 2), Corner(mvp, r, 3)>>

QuadOtherCorner(mvp, p1, p2, p3, p4) == <<Tri(mvp, p2, p1, p3), Tri(mvp, p1, p4, p3)>>

\* quad(): the second and third corners are the diagonal.
Quad(mvp, p1, p2, p3, p4) == <<Tri(mvp, p2, p1, p3), Tri(mvp, p2, p4, p3)>>

-----------------------------------------------------------------------------
(***************************************************************************)
(* A triangle t = <<v0, v1, v2>>.                                          *)
(***************************************************************************)
Side == 1 .. 3
From(t, e) == t[e]
To(t, e) == IF e = 3 THEN t[1] ELSE t[e + 1]

\* v1 and v2 change places if the corners go round the wrong way.
Ordered(v0, v1, v2) ==
  LET A == v1.x * v0.y + v2.x * v1.y + v0.x * v2.y
      B == v0.x * v1.y + v1.x * v2.y + v2.x * v0.y
  IN IF A > B THEN <<v0, v2, v1>> ELSE <<v0, v1, v2>>

MinX(t) == Max2(Min2(t[1].x, Min2(t[2].x, t[3].x)), (-(W \div 2)) * Sub)
MaxX(t) == Min2(Max2(t[1].x, Max2(t[2].x, t[3].x)), (W \div 2) * Sub)
MinY(t) == Max2(Min2(t[1].y, Min2(t[2].y, t[3].y)), (-(H \div 2)) * Sub)
MaxY(t) == Min2(Max2(t[1].y, Max2(t[2].y, t[3].y)), (H \div 2) * Sub)

\* Where the sampling starts.  Rounded towards zero: for a negative bound that is
\* inside of it, for a positive one before it.
StartX(t) == Quotient(MinX(t), Sub) * Sub
StartY(t) == Quotient(MinY(t), Sub) * Sub

\* edge_fn: what one unit of x or y adds to a side's function.
AddX(t, e) == From(t, e).y - To(t, e).y
AddY(t, e) == -(From(t, e).x - To(t, e).x)
Edge(t, e, sx, sy) == (sx - To(t, e).x) * AddX(t, e) + (sy - To(t, e).y) * AddY(t, e)

\* Twice the area() of three points.
Area2(a, b, c) == a.x * (b.y - c.y) + b.x * (c.y - a.y) + c.x * (a.y - b.y)

\* b0, b1 and b2: the area in front of each corner, divided by 1/w.
Weights(t, p) == <<Area2(p, t[2], t[3]) * t[1].w,
                   Area2(t[1], p, t[3]) * t[2].w,
                   Area2(t[1], t[2], p) * t[3].w>>

Sign(n) == IF n < 0 THEN -1 ELSE 1

\* z, with a positive denominator.  The weights and z/w of the corners make the w cancel.
Depth(t, p) ==
  LET b == Weights(t, p)
      d == b[1] + b[2] + b[3]
      n == Area2(p, t[2], t[3]) * t[1].z + Area2(t[1], p, t[3]) * t[2].z
             + Area2(t[1], t[2], p) * t[3].z
  IN <<n * Sign(d), d * Sign(d)>>

InDepth(z) == -z[2] <= z[1] /\ z[1] < z[2]
ZInt(z) == ((z[1] + z[2]) * ZOne) \div z[2]

ClampColor(n, d) ==
  CASE n < 0 -> 0
    [] n >= d -> ColorOne - 1
    [] OTHER -> (n * ColorOne) \div d

\* The colour of a corner is one of red, green and blue.
Color(t, p) ==
  LET b == Weights(t, p)
      d == b[1] + b[2] + b[3]
  IN [c \in Side |->
        LET k == CHOOSE k \in Side : t[k].color = c
        IN ClampColor(b[k] * Sign(d), d * Sign(d))]

-----------------------------------------------------------------------------
(***************************************************************************)
(* raster().                                                               *)
(***************************************************************************)
Screen == (0 .. W - 1) \X (0 .. H - 1)

\* The pixel of a sample: the screen's origin is its upper left corner.
Pixel(sx, sy) == <<sx \div Sub + W \div 2, H \div 2 - sy \div Sub - 1>>
OnScreen(sx, sy) == Pixel(sx, sy) \in Screen

Begin ==
  LET t == Ordered(calls[1][1], calls[1][2], calls[1][3])
  IN /\ tri = Blank /\ calls # <<>>
     /\ tri' = t
     /\ calls' = Tail(calls)
     /\ x' = StartX(t) /\ y' = StartY(t)
     /\ baseX' = [e \in Side |-> Edge(t, e, StartX(t), StartY(t))]
     /\ baseY' = baseX'
     /\ UNCHANGED <<zBuff, fb>>

\* The depth buffer keeps the greatest depth, and with it what is farthest: Frustum has
\* -1 for what is near and 1 for what is far.
PlotAlways(pixel, z, color) ==
  /\ zBuff' = [zBuff EXCEPT ![pixel] = z]
  /\ fb' = [fb EXCEPT ![pixel] = color]

Plot(pixel, z, color) ==
  IF zBuff[pixel] > z
    THEN UNCHANGED <<zBuff, fb>>
    ELSE /\ zBuff' = [zBuff EXCEPT ![pixel] = z]
         /\ fb' = [fb EXCEPT ![pixel] = color]

\* Of a triangle without area z is 0/0, and what becomes of it as an integer is
\* undefined: any depth and colour.
PlotSample ==
  LET p == [x |-> x, y |-> y]
      z == Depth(tri, p)
  IN CASE z[2] = 0 -> \E any \in {0, 2 * ZOne - 1}, c \in {0, ColorOne - 1} :
                        Plot(Pixel(x, y), any, [k \in Side |-> c])
       [] z[2] # 0 /\ InDepth(z) -> Plot(Pixel(x, y), ZInt(z), Color(tri, p))
       [] OTHER -> UNCHANGED <<zBuff, fb>>

\* The edge functions move on whether or not the sample is inside.
SampleContinueFirst ==
  LET inside == \A e \in Side : baseY[e] >= 0
  IN /\ tri # Blank /\ x < MaxX(tri) + Sub /\ y < MaxY(tri) + Sub
     /\ baseY' = IF inside THEN [e \in Side |-> baseY[e] + AddY(tri, e) * Sub] ELSE baseY
     /\ IF inside /\ OnScreen(x, y) THEN PlotSample ELSE UNCHANGED <<zBuff, fb>>
     /\ y' = y + Sub
     /\ UNCHANGED <<calls, tri, x, baseX>>

Sample ==
  /\ tri # Blank /\ x < MaxX(tri) + Sub /\ y < MaxY(tri) + Sub
  /\ IF (\A e \in Side : baseY[e] >= 0) /\ OnScreen(x, y)
       THEN PlotSample
       ELSE UNCHANGED <<zBuff, fb>>
  /\ baseY' = [e \in Side |-> baseY[e] + AddY(tri, e) * Sub]
  /\ y' = y + Sub
  /\ UNCHANGED <<calls, tri, x, baseX>>

NextColumn ==
  /\ tri # Blank /\ x < MaxX(tri) + Sub /\ y >= MaxY(tri) + Sub
  /\ baseX' = [e \in Side |-> baseX[e] + AddX(tri, e) * Sub]
  /\ baseY' = baseX'
  /\ x' = x + Sub
  /\ y' = StartY(tri)
  /\ UNCHANGED <<calls, tri, zBuff, fb>>

Finish ==
  /\ tri # Blank /\ x >= MaxX(tri) + Sub
  /\ tri' = Blank
  /\ UNCHANGED <<calls, x, y, baseX, baseY, zBuff, fb>>

RasterStep == Begin \/ Sample \/ NextColumn \/ Finish

RasterDone == calls = <<>> /\ tri = Blank

\* z_buff is zero at first; the frame buffer is not cleared.
RasterInit ==
  /\ tri = Blank
  /\ x = 0 /\ y = 0
  /\ baseX = [e \in Side |-> 0] /\ baseY = baseX
  /\ zBuff = [p \in Screen |-> 0]
  /\ fb = [p \in Screen |-> Blank]
=============================================================================
