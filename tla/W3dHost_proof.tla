--------------------------- MODULE W3dHost_proof ----------------------------
(***************************************************************************)
(* The rasterizer's sums are the edge functions, and the finished picture  *)
(* is what the geometry says, proved for screens, pictures and grids of    *)
(* any size; the GPU is given to firmware that is in its memory as a       *)
(* whole, proved for firmware of any length.                               *)
(***************************************************************************)
EXTENDS W3dHost, SequenceTheorems, TLAPS

RasterType ==
  /\ calls \in Seq(Triangle)
  /\ tri # Blank => tri \in Triangle
  /\ x \in Int /\ y \in Int
  /\ baseX \in [Side -> Int] /\ baseY \in [Side -> Int]

RasterInv == RasterType /\ EdgesExact

LEMMA Distributes ==
  ASSUME NEW a \in Int, NEW b \in Int, NEW c \in Int
  PROVE  (a + b) * c = a * c + b * c
  OBVIOUS

\* The corners of a side, and what a step adds to its function, are integers.
LEMMA SideType ==
  ASSUME NEW t \in Triangle, NEW e \in Side
  PROVE  /\ To(t, e).x \in Int /\ To(t, e).y \in Int
         /\ AddX(t, e) \in Int /\ AddY(t, e) \in Int
<1>1. From(t, e) \in Vertex /\ To(t, e) \in Vertex
  BY DEF Triangle, Side, From, To
<1>2. \A v \in Vertex : v.x \in Int /\ v.y \in Int
  BY DEF Vertex
<1> QED
  BY <1>1, <1>2 DEF AddX, AddY

\* Edge functions are linear: a step of Sub adds a fixed amount.
LEMMA EdgeSteps ==
  ASSUME NEW t \in Triangle, NEW e \in Side, NEW sx \in Int, NEW sy \in Int
  PROVE  /\ Edge(t, e, sx, sy) \in Int
         /\ Edge(t, e, sx + Sub, sy) = Edge(t, e, sx, sy) + AddX(t, e) * Sub
         /\ Edge(t, e, sx, sy + Sub) = Edge(t, e, sx, sy) + AddY(t, e) * Sub
<1> DEFINE qx == To(t, e).x
           qy == To(t, e).y
           a == AddX(t, e)
           b == AddY(t, e)
<1>1. qx \in Int /\ qy \in Int /\ a \in Int /\ b \in Int /\ Sub \in Int
  BY SideType, RasterAssumption
<1>2. \A u, v : Edge(t, e, u, v) = (u - qx) * a + (v - qy) * b
  BY DEF Edge
<1> HIDE DEF qx, qy, a, b
<1>3. Edge(t, e, sx + Sub, sy) = (sx + Sub - qx) * a + (sy - qy) * b
  BY <1>1, <1>2
<1>4. Edge(t, e, sx, sy + Sub) = (sx - qx) * a + (sy + Sub - qy) * b
  BY <1>1, <1>2
<1>5. (sx + Sub - qx) * a = (sx - qx) * a + a * Sub
  BY <1>1
<1>6. (sy + Sub - qy) * b = (sy - qy) * b + b * Sub
  BY <1>1
<1>7. (sx - qx) * a \in Int /\ (sy - qy) * b \in Int /\ a * Sub \in Int /\ b * Sub \in Int
  BY <1>1
<1>8. /\ Edge(t, e, sx, sy) \in Int
      /\ Edge(t, e, sx + Sub, sy) = Edge(t, e, sx, sy) + a * Sub
      /\ Edge(t, e, sx, sy + Sub) = Edge(t, e, sx, sy) + b * Sub
  BY <1>2, <1>3, <1>4, <1>5, <1>6, <1>7
<1> QED
  BY <1>8 DEF a, b

\* A triangle keeps its corners when they are put in order.
LEMMA OrderedType ==
  ASSUME NEW t \in Triangle
  PROVE  Ordered(t[1], t[2], t[3]) \in Triangle
<1>1. t[1] \in Vertex /\ t[2] \in Vertex /\ t[3] \in Vertex
  BY DEF Triangle, Side
<1>2. \A u, v, w \in Vertex : <<u, v, w>> \in Triangle
  BY DEF Triangle, Side
<1> QED
  BY <1>1, <1>2 DEF Ordered

\* Sampling starts at a point of the grid.
LEMMA StartType ==
  ASSUME NEW t \in Triangle
  PROVE  StartX(t) \in Int /\ StartY(t) \in Int
<1>1. \A a, b \in Int : Min2(a, b) \in Int /\ Max2(a, b) \in Int
  BY DEF Min2, Max2
<1>2. \A a \in Int : Quotient(a, Sub) * Sub \in Int
  BY RasterAssumption DEF Quotient
<1>3. /\ t[1] \in Vertex /\ t[2] \in Vertex /\ t[3] \in Vertex
      /\ \A v \in Vertex : v.x \in Int /\ v.y \in Int
  BY DEF Triangle, Side, Vertex
<1>4. (-(W \div 2)) * Sub \in Int /\ (-(H \div 2)) * Sub \in Int
  BY RasterAssumption
<1>5. MinX(t) \in Int /\ MinY(t) \in Int
  BY <1>1, <1>3, <1>4 DEF MinX, MinY
<1> QED
  BY <1>2, <1>5 DEF StartX, StartY

LEMMA RasterInitial == Init => RasterInv
  BY SceneAssumption DEF Init, RasterInit, RasterInv, RasterType, EdgesExact

LEMMA RasterKeeps == RasterInv /\ [Next]_vars => RasterInv'
<1> SUFFICES ASSUME RasterInv, [Next]_vars PROVE RasterInv'
  OBVIOUS
<1> USE DEF RasterInv
<1>1. CASE Begin
  <2> DEFINE t == Ordered(calls[1][1], calls[1][2], calls[1][3])
  <2>1. calls[1] \in Triangle /\ Tail(calls) \in Seq(Triangle)
    BY <1>1 DEF Begin, RasterType
  <2>2. t \in Triangle
    BY <2>1, OrderedType
  <2>3. /\ tri' = t /\ calls' = Tail(calls) /\ x' = StartX(t) /\ y' = StartY(t)
        /\ baseX' = [e \in Side |-> Edge(t, e, StartX(t), StartY(t))]
        /\ baseY' = baseX'
    BY <1>1 DEF Begin
  <2> HIDE DEF t
  <2>4. StartX(t) \in Int /\ StartY(t) \in Int
    BY <2>2, StartType
  <2>5. \A e \in Side : Edge(t, e, StartX(t), StartY(t)) \in Int
    BY <2>2, <2>4, EdgeSteps
  <2>6. RasterType'
    BY <2>1, <2>2, <2>3, <2>4, <2>5 DEF RasterType
  <2>7. EdgesExact'
    BY <2>3 DEF EdgesExact
  <2> QED
    BY <2>6, <2>7
<1>2. CASE Sample
  <2>1. /\ tri \in Triangle /\ x \in Int /\ y \in Int /\ Sub \in Int
        /\ UNCHANGED <<calls, tri, x, baseX>>
        /\ y' = y + Sub
        /\ baseY' = [e \in Side |-> baseY[e] + AddY(tri, e) * Sub]
    BY <1>2, RasterAssumption DEF Sample, RasterType
  <2>2. ASSUME NEW e \in Side
        PROVE  /\ baseY'[e] \in Int
               /\ baseY'[e] = Edge(tri, e, x, y + Sub)
    <3>1. baseY[e] = Edge(tri, e, x, y)
      BY <1>2 DEF EdgesExact, Sample
    <3>2. Edge(tri, e, x, y + Sub) = Edge(tri, e, x, y) + AddY(tri, e) * Sub
      BY <2>1, EdgeSteps
    <3>3. Edge(tri, e, x, y + Sub) \in Int
      BY <2>1, EdgeSteps
    <3> QED
      BY <2>1, <3>1, <3>2, <3>3
  <2>3. RasterType'
    BY <2>1, <2>2 DEF RasterType
  <2>4. EdgesExact'
    BY <2>1, <2>2 DEF EdgesExact
  <2> QED
    BY <2>3, <2>4
<1>3. CASE NextColumn
  <2>1. /\ tri \in Triangle /\ x \in Int /\ Sub \in Int
        /\ UNCHANGED <<calls, tri>>
        /\ x' = x + Sub /\ y' = StartY(tri)
        /\ baseX' = [e \in Side |-> baseX[e] + AddX(tri, e) * Sub]
        /\ baseY' = baseX'
    BY <1>3, RasterAssumption DEF NextColumn, RasterType
  <2>2. StartY(tri) \in Int
    BY <2>1, StartType
  <2>3. ASSUME NEW e \in Side
        PROVE  /\ baseX'[e] \in Int
               /\ baseX'[e] = Edge(tri, e, x + Sub, StartY(tri))
    <3>1. baseX[e] = Edge(tri, e, x, StartY(tri))
      BY <1>3 DEF EdgesExact, NextColumn
    <3>2. Edge(tri, e, x + Sub, StartY(tri)) = Edge(tri, e, x, StartY(tri)) + AddX(tri, e) * Sub
      BY <2>1, <2>2, EdgeSteps
    <3>3. Edge(tri, e, x + Sub, StartY(tri)) \in Int
      BY <2>1, <2>2, EdgeSteps
    <3> QED
      BY <2>1, <3>1, <3>2, <3>3
  <2>4. RasterType'
    BY <2>1, <2>2, <2>3 DEF RasterType
  <2>5. EdgesExact'
    BY <2>1, <2>3 DEF EdgesExact
  <2> QED
    BY <2>4, <2>5
<1>4. CASE Finish
  BY <1>4 DEF Finish, RasterType, EdgesExact
<1>5. CASE UNCHANGED rasterVars
  BY <1>5 DEF rasterVars, RasterType, EdgesExact
<1>6. Demo => RasterStep
  BY DEF Demo
<1>7. Boot \/ GpuClock \/ UNCHANGED vars => UNCHANGED rasterVars
  BY DEF Boot, GpuClock, vars
<1> QED
  BY <1>1, <1>2, <1>3, <1>4, <1>5, <1>6, <1>7 DEF Next, RasterStep

\* Wherever the loops are, the three sums of a sample are the edge functions of the
\* triangle's sides at that sample (demo.c:214-286).
THEOREM EdgesAlwaysExact == Spec => []EdgesExact
<1>1. RasterInv => EdgesExact
  BY DEF RasterInv
<1> QED
  BY <1>1, RasterInitial, RasterKeeps, PTL DEF Spec

-----------------------------------------------------------------------------
(***************************************************************************)
(* The finished picture, for any picture on any screen: PictureRight.      *)
(*                                                                         *)
(* The areas that a point makes with the corners of a triangle, L1 to L3,  *)
(* add up to the triangle's, and weighted by them the corners have their   *)
(* centre at the point.  From the first follows that the loop's test is    *)
(* Within, and that neither depth nor colour depend on the order of the    *)
(* corners; from the second, that no sample of the triangle is outside the *)
(* bounds of the loops.  The invariant PaintInv then says that each pixel  *)
(* shows the deepest of the triangles drawn there so far.                  *)
(***************************************************************************)
Point == [x : Int, y : Int]

\* The areas in front of the corners.
L1(t, p) == Area2(p, t[2], t[3])
L2(t, p) == Area2(t[1], p, t[3])
L3(t, p) == Area2(t[1], t[2], p)

\* Twice the area of three points, by their coordinates.
Cross(ax, ay, bx, by, cx, cy) == ax * (by - cy) + bx * (cy - ay) + cx * (ay - by)

LEMMA CrossCentreX ==
  ASSUME NEW ax \in Int, NEW ay \in Int, NEW bx \in Int, NEW by \in Int, NEW cx \in Int, NEW cy \in Int,
         NEW px \in Int, NEW py \in Int
  PROVE  Cross(px, py, bx, by, cx, cy) * (ax - px) + Cross(ax, ay, px, py, cx, cy) * (bx - px)
           + Cross(ax, ay, bx, by, px, py) * (cx - px) = 0
BY DEF Cross

LEMMA CrossCentreY ==
  ASSUME NEW ax \in Int, NEW ay \in Int, NEW bx \in Int, NEW by \in Int, NEW cx \in Int, NEW cy \in Int,
         NEW px \in Int, NEW py \in Int
  PROVE  Cross(px, py, bx, by, cx, cy) * (ay - py) + Cross(ax, ay, px, py, cx, cy) * (by - py)
           + Cross(ax, ay, bx, by, px, py) * (cy - py) = 0
BY DEF Cross

\* Areas that are not all 0 around a point that all corners are on one side of.
LEMMA NotAround ==
  ASSUME NEW a \in Int, NEW b \in Int, NEW c \in Int, NEW l \in Int, NEW m \in Int, NEW n \in Int,
         l >= 0, m >= 0, n >= 0, l * a + m * b + n * c = 0,
         (a > 0 /\ b > 0 /\ c > 0) \/ (a < 0 /\ b < 0 /\ c < 0)
  PROVE  l = 0 /\ m = 0 /\ n = 0
<1>1. CASE a > 0 /\ b > 0 /\ c > 0
  <2>1. l * a >= 0 /\ m * b >= 0 /\ n * c >= 0
    BY <1>1
  <2>2. l * a \in Int /\ m * b \in Int /\ n * c \in Int
    OBVIOUS
  <2>3. l * a = 0 /\ m * b = 0 /\ n * c = 0
    BY ONLY <2>1, <2>2, l * a + m * b + n * c = 0
  <2> QED BY <1>1, <2>3
<1>2. CASE a < 0 /\ b < 0 /\ c < 0
  <2>1. l * a <= 0 /\ m * b <= 0 /\ n * c <= 0
    BY <1>2
  <2>2. l * a \in Int /\ m * b \in Int /\ n * c \in Int
    OBVIOUS
  <2>3. l * a = 0 /\ m * b = 0 /\ n * c = 0
    BY ONLY <2>1, <2>2, l * a + m * b + n * c = 0
  <2> QED BY <1>2, <2>3
<1> QED BY <1>1, <1>2

\* Rounding to the grid towards zero goes over no point of it.
LEMMA RoundsInside ==
  ASSUME NEW s \in Nat \ {0}, NEW a \in Int, NEW m \in Int, a <= m * s
  PROVE  Quotient(a, s) \in Int /\ Quotient(a, s) * s <= m * s
<1>1. CASE a >= 0
  <2>1. PICK q \in Int, r \in Int : a = q * s + r /\ 0 <= r /\ r < s /\ a \div s = q
    <3>1. a = (a \div s) * s + (a % s) /\ 0 <= a % s /\ a % s < s /\ a \div s \in Int /\ a % s \in Int
      OBVIOUS
    <3> QED BY <3>1
  <2>2. q * s <= m * s
    BY <2>1
  <2> QED BY <1>1, <2>1, <2>2 DEF Quotient
<1>2. CASE a < 0
  <2> DEFINE e == -a
  <2>1. PICK q \in Int, r \in Int : e = q * s + r /\ 0 <= r /\ r < s /\ e \div s = q
    <3> e \in Int
      OBVIOUS
    <3> HIDE DEF e
    <3>1. e = (e \div s) * s + (e % s) /\ 0 <= e % s /\ e % s < s /\ e \div s \in Int /\ e % s \in Int
      OBVIOUS
    <3> QED BY <3>1
  <2>2. (-q) * s - s < m * s
    BY <2>1
  <2>3. (-q) - 1 < m
    BY <2>2
  <2>4. -q <= m
    BY <2>1, <2>3
  <2>5. (-q) * s <= m * s
    BY <2>4
  <2> QED BY <1>2, <2>1, <2>5 DEF Quotient
<1> QED BY <1>1, <1>2

-----------------------------------------------------------------------------
LEMMA CornerType ==
  ASSUME NEW t \in Triangle, NEW i \in Side
  PROVE  t[i] \in Vertex /\ t[i].x \in Int /\ t[i].y \in Int /\ t[i].z \in Int /\ t[i].w \in Int
<1>1. t[i] \in Vertex
  BY DEF Triangle
<1> QED BY <1>1 DEF Vertex

LEMMA CornerPoints ==
  ASSUME NEW t \in Triangle
  PROVE  /\ t[1].x \in Int /\ t[1].y \in Int
         /\ t[2].x \in Int /\ t[2].y \in Int
         /\ t[3].x \in Int /\ t[3].y \in Int
<1>1. 1 \in Side /\ 2 \in Side /\ 3 \in Side
  BY DEF Side
<1> QED BY <1>1, CornerType

LEMMA AreasAreCross ==
  ASSUME NEW t, NEW p
  PROVE  /\ L1(t, p) = Cross(p.x, p.y, t[2].x, t[2].y, t[3].x, t[3].y)
         /\ L2(t, p) = Cross(t[1].x, t[1].y, p.x, p.y, t[3].x, t[3].y)
         /\ L3(t, p) = Cross(t[1].x, t[1].y, t[2].x, t[2].y, p.x, p.y)
         /\ Area2(t[1], t[2], t[3]) = Cross(t[1].x, t[1].y, t[2].x, t[2].y, t[3].x, t[3].y)
BY Zenon DEF L1, L2, L3, Area2, Cross

LEMMA EdgesAreCross ==
  ASSUME NEW t \in Triangle, NEW p \in Point
  PROVE  /\ Edge(t, 1, p.x, p.y) = Cross(t[1].x, t[1].y, t[2].x, t[2].y, p.x, p.y)
         /\ Edge(t, 2, p.x, p.y) = Cross(t[2].x, t[2].y, t[3].x, t[3].y, p.x, p.y)
         /\ Edge(t, 3, p.x, p.y) = Cross(t[3].x, t[3].y, t[1].x, t[1].y, p.x, p.y)
<1>1. /\ Edge(t, 1, p.x, p.y) = (p.x - t[2].x) * (t[1].y - t[2].y) + (p.y - t[2].y) * (-(t[1].x - t[2].x))
      /\ Edge(t, 2, p.x, p.y) = (p.x - t[3].x) * (t[2].y - t[3].y) + (p.y - t[3].y) * (-(t[2].x - t[3].x))
      /\ Edge(t, 3, p.x, p.y) = (p.x - t[1].x) * (t[3].y - t[1].y) + (p.y - t[1].y) * (-(t[3].x - t[1].x))
  BY DEF Edge, From, To, AddX, AddY
<1>2. p.x \in Int /\ p.y \in Int
  BY DEF Point
<1>0. /\ t[1].x \in Int /\ t[1].y \in Int
      /\ t[2].x \in Int /\ t[2].y \in Int
      /\ t[3].x \in Int /\ t[3].y \in Int
  BY CornerPoints, Zenon
<1>4. (p.x - t[2].x) * (t[1].y - t[2].y) + (p.y - t[2].y) * (-(t[1].x - t[2].x))
        = Cross(t[1].x, t[1].y, t[2].x, t[2].y, p.x, p.y)
  BY ONLY <1>0, <1>2 DEF Cross
<1>5. (p.x - t[3].x) * (t[2].y - t[3].y) + (p.y - t[3].y) * (-(t[2].x - t[3].x))
        = Cross(t[2].x, t[2].y, t[3].x, t[3].y, p.x, p.y)
  BY ONLY <1>0, <1>2 DEF Cross
<1>6. (p.x - t[1].x) * (t[3].y - t[1].y) + (p.y - t[1].y) * (-(t[3].x - t[1].x))
        = Cross(t[3].x, t[3].y, t[1].x, t[1].y, p.x, p.y)
  BY ONLY <1>0, <1>2 DEF Cross
<1> QED BY ONLY <1>1, <1>4, <1>5, <1>6, Zenon

LEMMA Areas ==
  ASSUME NEW t \in Triangle, NEW p \in Point
  PROVE  /\ L1(t, p) \in Int /\ L2(t, p) \in Int /\ L3(t, p) \in Int
         /\ Area2(t[1], t[2], t[3]) = L1(t, p) + L2(t, p) + L3(t, p)
         /\ Edge(t, 1, p.x, p.y) = L3(t, p)
         /\ Edge(t, 2, p.x, p.y) = L1(t, p)
         /\ Edge(t, 3, p.x, p.y) = L2(t, p)
         /\ L1(t, p) * (t[1].x - p.x) + L2(t, p) * (t[2].x - p.x) + L3(t, p) * (t[3].x - p.x) = 0
         /\ L1(t, p) * (t[1].y - p.y) + L2(t, p) * (t[2].y - p.y) + L3(t, p) * (t[3].y - p.y) = 0
<1> DEFINE ax == t[1].x
           ay == t[1].y
           bx == t[2].x
           by == t[2].y
           cx == t[3].x
           cy == t[3].y
           px == p.x
           py == p.y
<1>1. /\ ax \in Int /\ ay \in Int /\ bx \in Int /\ by \in Int /\ cx \in Int /\ cy \in Int
  BY CornerPoints, Zenon
<1>0. px \in Int /\ py \in Int
  BY DEF Point
<1>2. /\ L1(t, p) = Cross(px, py, bx, by, cx, cy)
      /\ L2(t, p) = Cross(ax, ay, px, py, cx, cy)
      /\ L3(t, p) = Cross(ax, ay, bx, by, px, py)
      /\ Area2(t[1], t[2], t[3]) = Cross(ax, ay, bx, by, cx, cy)
  BY AreasAreCross, Zenon
<1>4. /\ Edge(t, 1, px, py) = Cross(ax, ay, bx, by, px, py)
      /\ Edge(t, 2, px, py) = Cross(bx, by, cx, cy, px, py)
      /\ Edge(t, 3, px, py) = Cross(cx, cy, ax, ay, px, py)
  BY EdgesAreCross, Zenon
<1> HIDE DEF ax, ay, bx, by, cx, cy, px, py
<1>5. /\ Cross(bx, by, cx, cy, px, py) = Cross(px, py, bx, by, cx, cy)
      /\ Cross(cx, cy, ax, ay, px, py) = Cross(ax, ay, px, py, cx, cy)
  BY ONLY <1>0, <1>1 DEF Cross
<1>6. /\ Cross(px, py, bx, by, cx, cy) \in Int /\ Cross(ax, ay, px, py, cx, cy) \in Int
      /\ Cross(ax, ay, bx, by, px, py) \in Int
  BY ONLY <1>0, <1>1 DEF Cross
<1>7. Cross(px, py, bx, by, cx, cy) + Cross(ax, ay, px, py, cx, cy) + Cross(ax, ay, bx, by, px, py)
           = Cross(ax, ay, bx, by, cx, cy)
  BY ONLY <1>0, <1>1 DEF Cross
<1>8. Cross(px, py, bx, by, cx, cy) * (ax - px) + Cross(ax, ay, px, py, cx, cy) * (bx - px)
           + Cross(ax, ay, bx, by, px, py) * (cx - px) = 0
  BY ONLY <1>0, <1>1, CrossCentreX
<1>9. Cross(px, py, bx, by, cx, cy) * (ay - py) + Cross(ax, ay, px, py, cx, cy) * (by - py)
           + Cross(ax, ay, bx, by, px, py) * (cy - py) = 0
  BY ONLY <1>0, <1>1, CrossCentreY
<1>10. /\ L1(t, p) \in Int /\ L2(t, p) \in Int /\ L3(t, p) \in Int
       /\ Area2(t[1], t[2], t[3]) = L1(t, p) + L2(t, p) + L3(t, p)
       /\ Edge(t, 1, px, py) = L3(t, p)
       /\ Edge(t, 2, px, py) = L1(t, p)
       /\ Edge(t, 3, px, py) = L2(t, p)
       /\ L1(t, p) * (ax - px) + L2(t, p) * (bx - px) + L3(t, p) * (cx - px) = 0
       /\ L1(t, p) * (ay - py) + L2(t, p) * (by - py) + L3(t, p) * (cy - py) = 0
  BY ONLY <1>2, <1>4, <1>5, <1>6, <1>7, <1>8, <1>9, Zenon
<1> QED BY <1>10, Zenon DEF ax, ay, bx, by, cx, cy, px, py

\* Two corners that change places turn all areas round.
LEMMA SwappedAreas ==
  ASSUME NEW t \in Triangle, NEW p \in Point, NEW o, o = <<t[1], t[3], t[2]>>
  PROVE  /\ L1(o, p) = -L1(t, p) /\ L2(o, p) = -L3(t, p) /\ L3(o, p) = -L2(t, p)
<1>1. p.x \in Int /\ p.y \in Int
  BY DEF Point
<1>2. /\ L1(t, p) = Cross(p.x, p.y, t[2].x, t[2].y, t[3].x, t[3].y)
      /\ L2(t, p) = Cross(t[1].x, t[1].y, p.x, p.y, t[3].x, t[3].y)
      /\ L3(t, p) = Cross(t[1].x, t[1].y, t[2].x, t[2].y, p.x, p.y)
  BY AreasAreCross, Zenon
<1>3. o[1] = t[1] /\ o[2] = t[3] /\ o[3] = t[2]
  OBVIOUS
<1>4. /\ L1(o, p) = Cross(p.x, p.y, t[3].x, t[3].y, t[2].x, t[2].y)
      /\ L2(o, p) = Cross(t[1].x, t[1].y, p.x, p.y, t[2].x, t[2].y)
      /\ L3(o, p) = Cross(t[1].x, t[1].y, t[3].x, t[3].y, p.x, p.y)
  BY <1>3, AreasAreCross, Zenon
<1>5. /\ t[1].x \in Int /\ t[1].y \in Int
      /\ t[2].x \in Int /\ t[2].y \in Int
      /\ t[3].x \in Int /\ t[3].y \in Int
  BY CornerPoints, Zenon
<1>7. Cross(p.x, p.y, t[3].x, t[3].y, t[2].x, t[2].y) = -Cross(p.x, p.y, t[2].x, t[2].y, t[3].x, t[3].y)
  BY ONLY <1>1, <1>5 DEF Cross
<1>8. Cross(t[1].x, t[1].y, p.x, p.y, t[2].x, t[2].y) = -Cross(t[1].x, t[1].y, t[2].x, t[2].y, p.x, p.y)
  BY ONLY <1>1, <1>5 DEF Cross
<1>9. Cross(t[1].x, t[1].y, t[3].x, t[3].y, p.x, p.y) = -Cross(t[1].x, t[1].y, p.x, p.y, t[3].x, t[3].y)
  BY ONLY <1>1, <1>5 DEF Cross
<1> QED BY ONLY <1>2, <1>4, <1>7, <1>8, <1>9, Zenon

\* raster() has the corners in the order that makes the area positive.
OrderIs(t, o) ==
  \/ o = <<t[1], t[2], t[3]>> /\ Area2(t[1], t[2], t[3]) >= 0
  \/ o = <<t[1], t[3], t[2]>> /\ Area2(t[1], t[2], t[3]) < 0

LEMMA OrderedIs ==
  ASSUME NEW t \in Triangle
  PROVE  OrderIs(t, Ordered(t[1], t[2], t[3])) /\ Ordered(t[1], t[2], t[3]) \in Triangle
<1> DEFINE ax == t[1].x
           ay == t[1].y
           bx == t[2].x
           by == t[2].y
           cx == t[3].x
           cy == t[3].y
           A == bx * ay + cx * by + ax * cy
           B == ax * by + bx * cy + cx * ay
<1>1. ax \in Int /\ ay \in Int /\ bx \in Int /\ by \in Int /\ cx \in Int /\ cy \in Int
  BY CornerPoints, Zenon
<1>3. Ordered(t[1], t[2], t[3]) = IF A > B THEN <<t[1], t[3], t[2]>> ELSE <<t[1], t[2], t[3]>>
  BY Zenon DEF Ordered
<1>4. Area2(t[1], t[2], t[3]) = Cross(ax, ay, bx, by, cx, cy)
  BY AreasAreCross, Zenon
<1> HIDE DEF ax, ay, bx, by, cx, cy
<1>2. A \in Int /\ B \in Int /\ Cross(ax, ay, bx, by, cx, cy) = B - A
  BY ONLY <1>1 DEF Cross
<1> HIDE DEF A, B
<1>5. OrderIs(t, Ordered(t[1], t[2], t[3]))
  BY <1>2, <1>3, <1>4 DEF OrderIs
<1>6. t[1] \in Vertex /\ t[2] \in Vertex /\ t[3] \in Vertex
  BY DEF Triangle, Side
<1>7. \A u, v, w \in Vertex : <<u, v, w>> \in Triangle
  BY DEF Triangle, Side
<1> QED BY <1>3, <1>5, <1>6, <1>7

LEMMA OrderedAreas ==
  ASSUME NEW t \in Triangle, NEW p \in Point, NEW o, OrderIs(t, o)
  PROVE  /\ o[1] = t[1] /\ {o[1], o[2], o[3]} = {t[1], t[2], t[3]}
         /\ L1(o, p) + L2(o, p) + L3(o, p) >= 0
         /\ \/ o[2] = t[2] /\ o[3] = t[3] /\ L1(o, p) = L1(t, p) /\ L2(o, p) = L2(t, p) /\ L3(o, p) = L3(t, p)
            \/ o[2] = t[3] /\ o[3] = t[2] /\ L1(o, p) = -L1(t, p) /\ L2(o, p) = -L3(t, p) /\ L3(o, p) = -L2(t, p)
<1>0. /\ Area2(t[1], t[2], t[3]) = L1(t, p) + L2(t, p) + L3(t, p)
      /\ L1(t, p) \in Int /\ L2(t, p) \in Int /\ L3(t, p) \in Int
  BY Areas
<1>1. CASE o = <<t[1], t[2], t[3]>> /\ Area2(t[1], t[2], t[3]) >= 0
  <2>1. o[1] = t[1] /\ o[2] = t[2] /\ o[3] = t[3]
    BY <1>1
  <2>2. L1(o, p) = L1(t, p) /\ L2(o, p) = L2(t, p) /\ L3(o, p) = L3(t, p)
    BY <2>1 DEF L1, L2, L3
  <2> QED BY <1>0, <1>1, <2>1, <2>2
<1>2. CASE o = <<t[1], t[3], t[2]>> /\ Area2(t[1], t[2], t[3]) < 0
  <2>1. o[1] = t[1] /\ o[2] = t[3] /\ o[3] = t[2]
    BY <1>2
  <2>2. L1(o, p) = -L1(t, p) /\ L2(o, p) = -L3(t, p) /\ L3(o, p) = -L2(t, p)
    BY <1>2, SwappedAreas
  <2> QED BY <1>0, <1>2, <2>1, <2>2
<1> QED BY <1>1, <1>2 DEF OrderIs

\* The loop's test.
LEMMA InsideIsWithin ==
  ASSUME NEW t \in Triangle, NEW p \in Point, NEW o \in Triangle, OrderIs(t, o)
  PROVE  Within(t, p) <=> \A e \in Side : Edge(o, e, p.x, p.y) >= 0
<1>1. /\ L1(t, p) \in Int /\ L2(t, p) \in Int /\ L3(t, p) \in Int
      /\ Edge(t, 1, p.x, p.y) = L3(t, p) /\ Edge(t, 2, p.x, p.y) = L1(t, p) /\ Edge(t, 3, p.x, p.y) = L2(t, p)
  BY Areas
<1>2. /\ L1(o, p) \in Int /\ L2(o, p) \in Int /\ L3(o, p) \in Int
      /\ Edge(o, 1, p.x, p.y) = L3(o, p) /\ Edge(o, 2, p.x, p.y) = L1(o, p) /\ Edge(o, 3, p.x, p.y) = L2(o, p)
  BY Areas
<1>3. Within(t, p) <=> (\/ L1(t, p) >= 0 /\ L2(t, p) >= 0 /\ L3(t, p) >= 0
                        \/ L1(t, p) <= 0 /\ L2(t, p) <= 0 /\ L3(t, p) <= 0)
  <2>1. \A e : e \in Side <=> e = 1 \/ e = 2 \/ e = 3
    BY DEF Side
  <2> QED BY <1>1, <2>1 DEF Within
<1>4. (\A e \in Side : Edge(o, e, p.x, p.y) >= 0) <=> L1(o, p) >= 0 /\ L2(o, p) >= 0 /\ L3(o, p) >= 0
  <2>1. \A e : e \in Side <=> e = 1 \/ e = 2 \/ e = 3
    BY DEF Side
  <2> QED BY <1>2, <2>1
<1>5. /\ L1(o, p) + L2(o, p) + L3(o, p) >= 0
      /\ \/ L1(o, p) = L1(t, p) /\ L2(o, p) = L2(t, p) /\ L3(o, p) = L3(t, p)
         \/ L1(o, p) = -L1(t, p) /\ L2(o, p) = -L3(t, p) /\ L3(o, p) = -L2(t, p)
  BY OrderedAreas
<1> QED BY ONLY <1>1, <1>2, <1>3, <1>4, <1>5

\* The areas, each with what the corner in front of it has.
Sum3(t, p, a, b, c) == L1(t, p) * a + L2(t, p) * b + L3(t, p) * c
ZSum(t, p) == Sum3(t, p, t[1].z, t[2].z, t[3].z)
WSum(t, p) == Sum3(t, p, t[1].w, t[2].w, t[3].w)

LEMMA CornerDepths ==
  ASSUME NEW t \in Triangle
  PROVE  /\ t[1].z \in Int /\ t[1].w \in Int
         /\ t[2].z \in Int /\ t[2].w \in Int
         /\ t[3].z \in Int /\ t[3].w \in Int
<1>1. 1 \in Side /\ 2 \in Side /\ 3 \in Side
  BY DEF Side
<1> QED BY <1>1, CornerType

LEMMA DepthIs ==
  ASSUME NEW t \in Triangle, NEW p \in Point
  PROVE  /\ ZSum(t, p) \in Int /\ WSum(t, p) \in Int
         /\ Weights(t, p) = <<L1(t, p) * t[1].w, L2(t, p) * t[2].w, L3(t, p) * t[3].w>>
         /\ Depth(t, p) = <<ZSum(t, p) * Sign(WSum(t, p)), WSum(t, p) * Sign(WSum(t, p))>>
<1>1. L1(t, p) \in Int /\ L2(t, p) \in Int /\ L3(t, p) \in Int
  BY Areas
<1>2. ZSum(t, p) \in Int /\ WSum(t, p) \in Int
  BY ONLY <1>1, CornerDepths, t \in Triangle DEF ZSum, WSum, Sum3
<1>3. Weights(t, p) = <<L1(t, p) * t[1].w, L2(t, p) * t[2].w, L3(t, p) * t[3].w>>
  BY DEF Weights, L1, L2, L3
<1>4. Weights(t, p)[1] + Weights(t, p)[2] + Weights(t, p)[3] = WSum(t, p)
  BY <1>3 DEF WSum, Sum3
<1>5. Area2(p, t[2], t[3]) * t[1].z + Area2(t[1], p, t[3]) * t[2].z + Area2(t[1], t[2], p) * t[3].z = ZSum(t, p)
  BY DEF ZSum, Sum3, L1, L2, L3
<1>6. Depth(t, p) = <<ZSum(t, p) * Sign(WSum(t, p)), WSum(t, p) * Sign(WSum(t, p))>>
  BY ONLY <1>4, <1>5, Zenon DEF Depth
<1> QED BY <1>2, <1>3, <1>6

LEMMA DepthType ==
  ASSUME NEW t \in Triangle, NEW p \in Point
  PROVE  /\ Depth(t, p)[1] \in Int /\ Depth(t, p)[2] \in Nat
         /\ Depth(t, p)[2] = 0 <=> WSum(t, p) = 0
<1>1. /\ ZSum(t, p) \in Int /\ WSum(t, p) \in Int
      /\ Depth(t, p) = <<ZSum(t, p) * Sign(WSum(t, p)), WSum(t, p) * Sign(WSum(t, p))>>
  BY DepthIs
<1>2. CASE WSum(t, p) < 0
  <2>1. Sign(WSum(t, p)) = -1
    BY <1>2 DEF Sign
  <2> QED BY <1>1, <1>2, <2>1
<1>3. CASE WSum(t, p) >= 0
  <2>1. Sign(WSum(t, p)) = 1
    BY <1>1, <1>3 DEF Sign
  <2> QED BY <1>1, <1>3, <2>1
<1> QED BY <1>1, <1>2, <1>3

\* The two sums turn round with the areas.
LEMMA OrderSums ==
  ASSUME NEW t \in Triangle, NEW p \in Point, NEW o \in Triangle, OrderIs(t, o)
  PROVE  \/ /\ ZSum(o, p) = ZSum(t, p) /\ WSum(o, p) = WSum(t, p)
            /\ Weights(o, p) = Weights(t, p) /\ o[2] = t[2] /\ o[3] = t[3]
         \/ /\ ZSum(o, p) = -ZSum(t, p) /\ WSum(o, p) = -WSum(t, p)
            /\ Weights(o, p)[1] = -Weights(t, p)[1] /\ Weights(t, p)[1] \in Int
            /\ Weights(o, p)[2] = -Weights(t, p)[3] /\ Weights(t, p)[3] \in Int
            /\ Weights(o, p)[3] = -Weights(t, p)[2] /\ Weights(t, p)[2] \in Int
            /\ o[2] = t[3] /\ o[3] = t[2]
<1>1. o[1] = t[1]
  BY OrderedAreas
<1>2. CASE o[2] = t[2] /\ o[3] = t[3] /\ L1(o, p) = L1(t, p) /\ L2(o, p) = L2(t, p) /\ L3(o, p) = L3(t, p)
  <2>1. Weights(o, p) = Weights(t, p)
    BY ONLY <1>1, <1>2, DepthIs, t \in Triangle, o \in Triangle, p \in Point, Zenon
  <2> QED BY <1>1, <1>2, <2>1 DEF ZSum, WSum, Sum3
<1>3. CASE o[2] = t[3] /\ o[3] = t[2] /\ L1(o, p) = -L1(t, p) /\ L2(o, p) = -L3(t, p) /\ L3(o, p) = -L2(t, p)
  <2> DEFINE l == L1(t, p)
             m == L2(t, p)
             n == L3(t, p)
             za == t[1].z
             zb == t[2].z
             zc == t[3].z
             wa == t[1].w
             wb == t[2].w
             wc == t[3].w
  <2>1. l \in Int /\ m \in Int /\ n \in Int
    BY Areas, Zenon
  <2>2. za \in Int /\ zb \in Int /\ zc \in Int /\ wa \in Int /\ wb \in Int /\ wc \in Int
    BY CornerDepths, Zenon
  <2>3. /\ ZSum(t, p) = l * za + m * zb + n * zc
        /\ WSum(t, p) = l * wa + m * wb + n * wc
        /\ ZSum(o, p) = (-l) * za + (-n) * zc + (-m) * zb
        /\ WSum(o, p) = (-l) * wa + (-n) * wc + (-m) * wb
    BY <1>1, <1>3, Zenon DEF ZSum, WSum, Sum3
  <2>4. /\ Weights(t, p) = <<l * wa, m * wb, n * wc>>
        /\ Weights(o, p) = <<(-l) * wa, (-n) * wc, (-m) * wb>>
    BY <1>1, <1>3, DepthIs, Zenon
  <2> HIDE DEF l, m, n, za, zb, zc, wa, wb, wc
  <2>5. /\ (-l) * za + (-n) * zc + (-m) * zb = -(l * za + m * zb + n * zc)
        /\ (-l) * wa + (-n) * wc + (-m) * wb = -(l * wa + m * wb + n * wc)
    BY ONLY <2>1, <2>2
  <2>6. /\ (-l) * wa = -(l * wa) /\ (-n) * wc = -(n * wc) /\ (-m) * wb = -(m * wb)
        /\ l * wa \in Int /\ m * wb \in Int /\ n * wc \in Int
    BY ONLY <2>1, <2>2
  <2>7. ZSum(o, p) = -ZSum(t, p) /\ WSum(o, p) = -WSum(t, p)
    BY ONLY <2>3, <2>5, Zenon
  <2>8. /\ Weights(t, p)[1] = l * wa /\ Weights(t, p)[2] = m * wb /\ Weights(t, p)[3] = n * wc
        /\ Weights(o, p)[1] = (-l) * wa /\ Weights(o, p)[2] = (-n) * wc /\ Weights(o, p)[3] = (-m) * wb
    BY ONLY <2>4
  <2> QED BY ONLY <1>3, <2>6, <2>7, <2>8, Zenon
<1> QED BY <1>2, <1>3, OrderedAreas

LEMMA SignTurns ==
  ASSUME NEW d \in Int, d # 0
  PROVE  Sign(-d) = -Sign(d) /\ Sign(d) \in Int
BY DEF Sign

LEMMA SignedTurns ==
  ASSUME NEW d \in Int, NEW n \in Int, d # 0
  PROVE  (-n) * Sign(-d) = n * Sign(d)
<1>1. Sign(-d) = -Sign(d) /\ Sign(d) \in Int
  BY SignTurns
<1> QED BY ONLY <1>1, n \in Int

\* The order of the corners makes no difference to the depth.
LEMMA OrderDepth ==
  ASSUME NEW t \in Triangle, NEW p \in Point, NEW o \in Triangle, OrderIs(t, o)
  PROVE  /\ WSum(o, p) = 0 <=> WSum(t, p) = 0
         /\ WSum(t, p) # 0 => Depth(o, p) = Depth(t, p)
<1>1. ZSum(t, p) \in Int /\ WSum(t, p) \in Int
  BY DepthIs
<1>2. /\ Depth(t, p) = <<ZSum(t, p) * Sign(WSum(t, p)), WSum(t, p) * Sign(WSum(t, p))>>
      /\ Depth(o, p) = <<ZSum(o, p) * Sign(WSum(o, p)), WSum(o, p) * Sign(WSum(o, p))>>
  BY DepthIs
<1>3. CASE ZSum(o, p) = ZSum(t, p) /\ WSum(o, p) = WSum(t, p)
  BY <1>2, <1>3, Zenon
<1>4. CASE ZSum(o, p) = -ZSum(t, p) /\ WSum(o, p) = -WSum(t, p)
  <2>1. WSum(o, p) = 0 <=> WSum(t, p) = 0
    BY ONLY <1>1, <1>4
  <2>2. ASSUME WSum(t, p) # 0 PROVE Depth(o, p) = Depth(t, p)
    <3>1. /\ (-ZSum(t, p)) * Sign(-WSum(t, p)) = ZSum(t, p) * Sign(WSum(t, p))
          /\ (-WSum(t, p)) * Sign(-WSum(t, p)) = WSum(t, p) * Sign(WSum(t, p))
      BY ONLY <1>1, <2>2, SignedTurns
    <3> QED BY ONLY <1>2, <1>4, <3>1, Zenon
  <2> QED BY <2>1, <2>2
<1> QED BY <1>3, <1>4, OrderSums

Coloured(t) == \A c \in Side : t[c].color = c

\* Nor to the colour.
LEMMA OrderColor ==
  ASSUME NEW t \in Triangle, NEW p \in Point, NEW o \in Triangle, OrderIs(t, o), Coloured(t), WSum(t, p) # 0
  PROVE  Color(o, p) = Color(t, p)
<1> DEFINE b == Weights(t, p)
           e == Weights(o, p)
           d == WSum(t, p)
           f == WSum(o, p)
           kt(c) == CHOOSE k \in Side : t[k].color = c
           ko(c) == CHOOSE k \in Side : o[k].color = c
<1>1. b[1] + b[2] + b[3] = d /\ e[1] + e[2] + e[3] = f
  BY DepthIs DEF WSum, Sum3
<1>2. /\ Color(t, p) = [c \in Side |-> ClampColor(b[kt(c)] * Sign(d), d * Sign(d))]
      /\ Color(o, p) = [c \in Side |-> ClampColor(e[ko(c)] * Sign(f), f * Sign(f))]
  <2>1. Color(t, p) = [c \in Side |-> ClampColor(b[kt(c)] * Sign(b[1] + b[2] + b[3]),
                                                (b[1] + b[2] + b[3]) * Sign(b[1] + b[2] + b[3]))]
    BY Zenon DEF Color
  <2>2. Color(o, p) = [c \in Side |-> ClampColor(e[ko(c)] * Sign(e[1] + e[2] + e[3]),
                                                (e[1] + e[2] + e[3]) * Sign(e[1] + e[2] + e[3]))]
    BY Zenon DEF Color
  <2> HIDE DEF b, e, d, f, kt, ko
  <2> QED BY ONLY <1>1, <2>1, <2>2, Zenon
<1>3. \A c \in Side : kt(c) \in Side /\ t[kt(c)].color = c
  BY DEF Coloured
<1>4. \A c \in Side : kt(c) = c
  BY <1>3 DEF Coloured
<1>5. o[1] = t[1]
  BY OrderedAreas
<1>6. t[1].color = 1 /\ t[2].color = 2 /\ t[3].color = 3
  BY DEF Coloured, Side
<1>7. CASE e = b /\ f = d /\ o[2] = t[2] /\ o[3] = t[3]
  <2>1. \A k \in Side : o[k].color = k
    BY <1>5, <1>6, <1>7 DEF Side
  <2>2. \A c \in Side : ko(c) \in Side /\ o[ko(c)].color = c
    BY <2>1
  <2>3. \A c \in Side : ko(c) = c
    BY <2>1, <2>2
  <2> HIDE DEF b, e, d, f, ko, kt
  <2> QED BY <1>2, <1>4, <1>7, <2>3
<1>8. CASE /\ f = -d /\ o[2] = t[3] /\ o[3] = t[2]
           /\ e[1] = -b[1] /\ e[2] = -b[3] /\ e[3] = -b[2]
           /\ b[1] \in Int /\ b[2] \in Int /\ b[3] \in Int
  <2>1. o[1].color = 1 /\ o[2].color = 3 /\ o[3].color = 2
    BY <1>5, <1>6, <1>8
  <2>2. \A c \in Side : \E k \in Side : o[k].color = c
    BY <2>1 DEF Side
  <2>3. \A c \in Side : ko(c) \in Side /\ o[ko(c)].color = c
    BY <2>2
  <2> d \in Int /\ d # 0
    BY DepthIs
  <2> HIDE DEF b, e, d, f, ko, kt
  <2>4. ASSUME NEW c \in Side PROVE e[ko(c)] = -b[c] /\ b[c] \in Int
    <3>1. ko(c) \in Side /\ o[ko(c)].color = c
      BY <2>3
    <3> QED BY ONLY <3>1, c \in Side, <2>1, <1>8 DEF Side
  <2>5. f * Sign(f) = d * Sign(d)
    BY <1>8, SignedTurns
  <2>6. \A c \in Side : e[ko(c)] * Sign(f) = b[kt(c)] * Sign(d)
    BY <1>4, <1>8, <2>4, SignedTurns
  <2> QED BY ONLY <1>2, <2>5, <2>6, Zenon
<1> QED BY <1>7, <1>8, OrderSums, Zenon

\* Half of the screen, and the points of the grid.
LEMMA Halves ==
  /\ W \div 2 \in Nat /\ W = (W \div 2) + (W \div 2)
  /\ H \div 2 \in Nat /\ H = (H \div 2) + (H \div 2)
BY RasterAssumption

\* No corner is where all of them are on one side of a point within.
LEMMA WithinAround ==
  ASSUME NEW o \in Triangle, NEW p \in Point,
         \A e \in Side : Edge(o, e, p.x, p.y) >= 0, WSum(o, p) # 0
  PROVE  /\ ~(o[1].x - p.x > 0 /\ o[2].x - p.x > 0 /\ o[3].x - p.x > 0)
         /\ ~(o[1].x - p.x < 0 /\ o[2].x - p.x < 0 /\ o[3].x - p.x < 0)
         /\ ~(o[1].y - p.y > 0 /\ o[2].y - p.y > 0 /\ o[3].y - p.y > 0)
         /\ ~(o[1].y - p.y < 0 /\ o[2].y - p.y < 0 /\ o[3].y - p.y < 0)
<1> DEFINE l == L1(o, p)
           m == L2(o, p)
           n == L3(o, p)
           ax == o[1].x - p.x
           bx == o[2].x - p.x
           cx == o[3].x - p.x
           ay == o[1].y - p.y
           by == o[2].y - p.y
           cy == o[3].y - p.y
<1>1. /\ l \in Int /\ m \in Int /\ n \in Int
      /\ l * ax + m * bx + n * cx = 0
      /\ l * ay + m * by + n * cy = 0
  BY Areas, Zenon
<1>2. l >= 0 /\ m >= 0 /\ n >= 0
  <2>1. 1 \in Side /\ 2 \in Side /\ 3 \in Side
    BY DEF Side
  <2>2. Edge(o, 1, p.x, p.y) >= 0 /\ Edge(o, 2, p.x, p.y) >= 0 /\ Edge(o, 3, p.x, p.y) >= 0
    BY <2>1
  <2> QED BY <2>2, Areas, Zenon
<1>3. ~(l = 0 /\ m = 0 /\ n = 0)
  <2> SUFFICES ASSUME l = 0, m = 0, n = 0 PROVE FALSE
    OBVIOUS
  <2>1. WSum(o, p) = 0 * o[1].w + 0 * o[2].w + 0 * o[3].w
    BY Zenon DEF WSum, Sum3
  <2> QED BY ONLY <2>1, CornerDepths, o \in Triangle, WSum(o, p) # 0
<1>4. /\ ax \in Int /\ bx \in Int /\ cx \in Int
      /\ ay \in Int /\ by \in Int /\ cy \in Int
  <2>1. p.x \in Int /\ p.y \in Int
    BY DEF Point
  <2>2. /\ o[1].x \in Int /\ o[1].y \in Int
        /\ o[2].x \in Int /\ o[2].y \in Int
        /\ o[3].x \in Int /\ o[3].y \in Int
    BY CornerPoints, Zenon
  <2> QED BY ONLY <2>1, <2>2
<1> HIDE DEF l, m, n, ax, bx, cx, ay, by, cy
<1>5. ~(ax > 0 /\ bx > 0 /\ cx > 0) /\ ~(ax < 0 /\ bx < 0 /\ cx < 0)
  BY ONLY <1>1, <1>2, <1>3, <1>4, NotAround
<1>6. ~(ay > 0 /\ by > 0 /\ cy > 0) /\ ~(ay < 0 /\ by < 0 /\ cy < 0)
  BY ONLY <1>1, <1>2, <1>3, <1>4, NotAround
<1> QED BY ONLY <1>5, <1>6, Zenon DEF ax, bx, cx, ay, by, cy

LEMMA AtIs ==
  ASSUME NEW pixel \in Screen
  PROVE  /\ At(pixel) \in Point
         /\ \E m \in Int : At(pixel).x = m * Sub /\ -(W \div 2) <= m /\ m < W \div 2
         /\ \E r \in Int : At(pixel).y = r * Sub /\ -(H \div 2) <= r /\ r < H \div 2
<1>1. pixel[1] \in 0 .. W - 1 /\ pixel[2] \in 0 .. H - 1
  BY DEF Screen
<1>2. At(pixel).x = (pixel[1] - W \div 2) * Sub /\ At(pixel).y = (H \div 2 - 1 - pixel[2]) * Sub
  BY Zenon DEF At
<1>3. At(pixel) \in Point
  BY <1>1, Halves, RasterAssumption DEF At, Point
<1>4. /\ pixel[1] - W \div 2 \in Int /\ -(W \div 2) <= pixel[1] - W \div 2 /\ pixel[1] - W \div 2 < W \div 2
      /\ H \div 2 - 1 - pixel[2] \in Int /\ -(H \div 2) <= H \div 2 - 1 - pixel[2] /\ H \div 2 - 1 - pixel[2] < H \div 2
  BY ONLY <1>1, Halves, RasterAssumption
<1> QED BY ONLY <1>2, <1>3, <1>4, Zenon

\* The loops leave out no sample of the triangle, whatever was cut and rounded.
LEMMA LoopsCover ==
  ASSUME NEW o \in Triangle, NEW pixel \in Screen,
         \A e \in Side : Edge(o, e, At(pixel).x, At(pixel).y) >= 0, WSum(o, At(pixel)) # 0
  PROVE  /\ StartX(o) <= At(pixel).x /\ At(pixel).x < MaxX(o) + Sub /\ MaxX(o) \in Int
         /\ StartY(o) <= At(pixel).y /\ At(pixel).y < MaxY(o) + Sub /\ MaxY(o) \in Int
<1> DEFINE p == At(pixel)
           hw == W \div 2
           hh == H \div 2
<1>1. p \in Point /\ p.x \in Int /\ p.y \in Int
  BY AtIs DEF Point
<1>2. /\ ~(o[1].x - p.x > 0 /\ o[2].x - p.x > 0 /\ o[3].x - p.x > 0)
      /\ ~(o[1].x - p.x < 0 /\ o[2].x - p.x < 0 /\ o[3].x - p.x < 0)
      /\ ~(o[1].y - p.y > 0 /\ o[2].y - p.y > 0 /\ o[3].y - p.y > 0)
      /\ ~(o[1].y - p.y < 0 /\ o[2].y - p.y < 0 /\ o[3].y - p.y < 0)
  BY <1>1, WithinAround
<1>3. PICK m \in Int, r \in Int : /\ p.x = m * Sub /\ -hw <= m /\ m < hw
                                  /\ p.y = r * Sub /\ -hh <= r /\ r < hh
  BY AtIs
<1>4. hw \in Nat /\ hh \in Nat /\ Sub \in Nat \ {0}
  BY Halves, RasterAssumption
<1>5. /\ o[1].x \in Int /\ o[1].y \in Int
      /\ o[2].x \in Int /\ o[2].y \in Int
      /\ o[3].x \in Int /\ o[3].y \in Int
  BY CornerPoints, Zenon
<1> HIDE DEF p, hw, hh
<1>6. /\ (-hw) * Sub \in Int /\ hw * Sub \in Int /\ (-hh) * Sub \in Int /\ hh * Sub \in Int
      /\ (-hw) * Sub <= m * Sub /\ m * Sub <= hw * Sub
      /\ (-hh) * Sub <= r * Sub /\ r * Sub <= hh * Sub
  <2>1. \A a, b \in Int : a <= b => a * Sub <= b * Sub
    BY <1>4
  <2>2. -hw \in Int /\ -hh \in Int /\ hw \in Int /\ hh \in Int /\ m <= hw /\ r <= hh
    BY ONLY <1>3, <1>4
  <2> QED BY ONLY <1>3, <1>4, <2>1, <2>2
<1>14. p.x = m * Sub /\ p.y = r * Sub
  BY <1>3
<1>7. MinX(o) \in Int /\ MinX(o) <= m * Sub
  <2>1. MinX(o) = Max2(Min2(o[1].x, Min2(o[2].x, o[3].x)), (-hw) * Sub)
    BY Zenon DEF MinX, hw
  <2> QED BY ONLY <1>1, <1>2, <1>5, <1>6, <1>14, <2>1 DEF Min2, Max2
<1>8. MinY(o) \in Int /\ MinY(o) <= r * Sub
  <2>1. MinY(o) = Max2(Min2(o[1].y, Min2(o[2].y, o[3].y)), (-hh) * Sub)
    BY Zenon DEF MinY, hh
  <2> QED BY ONLY <1>1, <1>2, <1>5, <1>6, <1>14, <2>1 DEF Min2, Max2
<1>9. MaxX(o) \in Int /\ m * Sub <= MaxX(o)
  <2>1. MaxX(o) = Min2(Max2(o[1].x, Max2(o[2].x, o[3].x)), hw * Sub)
    BY Zenon DEF MaxX, hw
  <2> QED BY ONLY <1>1, <1>2, <1>5, <1>6, <1>14, <2>1 DEF Min2, Max2
<1>10. MaxY(o) \in Int /\ r * Sub <= MaxY(o)
  <2>1. MaxY(o) = Min2(Max2(o[1].y, Max2(o[2].y, o[3].y)), hh * Sub)
    BY Zenon DEF MaxY, hh
  <2> QED BY ONLY <1>1, <1>2, <1>5, <1>6, <1>14, <2>1 DEF Min2, Max2
<1>11. StartX(o) <= m * Sub
  BY ONLY <1>3, <1>4, <1>7, RoundsInside DEF StartX
<1>12. StartY(o) <= r * Sub
  BY ONLY <1>3, <1>4, <1>8, RoundsInside DEF StartY
<1>13. /\ StartX(o) <= p.x /\ p.x < MaxX(o) + Sub
       /\ StartY(o) <= p.y /\ p.y < MaxY(o) + Sub
  BY ONLY <1>1, <1>3, <1>4, <1>9, <1>10, <1>11, <1>12
<1> QED BY ONLY <1>9, <1>10, <1>13, Zenon DEF p

OnGrid(a) == \E m \in Int : a = m * Sub

LEMMA OfGrid ==
  ASSUME NEW m \in Int
  PROVE  (m * Sub) \div Sub = m
<1>1. Sub \in Nat \ {0}
  BY RasterAssumption
<1> DEFINE a == m * Sub
           q == a \div Sub
           r == a % Sub
<1>2. a \in Int
  BY <1>1
<1>3. a = q * Sub + r /\ 0 <= r /\ r < Sub /\ q \in Int /\ r \in Int
  <2> HIDE DEF a
  <2> QED BY <1>1, <1>2
<1> HIDE DEF q, r
<1>4. (m - q) * Sub = r
  BY <1>1, <1>3
<1>5. m - q = 0
  <2>1. CASE m - q >= 1
    <3>1. (m - q) * Sub >= Sub
      BY <1>1, <1>3, <2>1
    <3> QED BY <1>1, <1>3, <1>4, <3>1
  <2>2. CASE m - q <= -1
    <3>1. (m - q) * Sub <= -Sub
      BY <1>1, <1>3, <2>2
    <3> QED BY <1>1, <1>3, <1>4, <3>1
  <2> QED BY <1>3, <2>1, <2>2
<1>6. q = m
  BY <1>3, <1>5
<1> QED BY <1>6 DEF q

\* A sample is that of its pixel, and of no other.
LEMMA PixelIs ==
  ASSUME NEW sx, NEW sy, OnGrid(sx), OnGrid(sy)
  PROVE  /\ OnScreen(sx, sy) => At(Pixel(sx, sy)) = [x |-> sx, y |-> sy]
         /\ \A pixel \in Screen : At(pixel) = [x |-> sx, y |-> sy] => Pixel(sx, sy) = pixel
<1>1. PICK m \in Int, r \in Int : sx = m * Sub /\ sy = r * Sub
  BY DEF OnGrid
<1>2. sx \div Sub = m /\ sy \div Sub = r
  BY <1>1, OfGrid
<1> DEFINE hw == W \div 2
           hh == H \div 2
<1>3. hw \in Nat /\ hh \in Nat /\ Sub \in Nat \ {0}
  BY Halves, RasterAssumption
<1>4. Pixel(sx, sy) = <<m + hw, hh - r - 1>>
  BY <1>2, Zenon DEF Pixel
<1>5. \A pixel : At(pixel) = [x |-> (pixel[1] - hw) * Sub, y |-> (hh - 1 - pixel[2]) * Sub]
  BY Zenon DEF At
<1> HIDE DEF hw, hh
<1>6. At(Pixel(sx, sy)) = [x |-> sx, y |-> sy]
  <2>1. Pixel(sx, sy)[1] - hw = m /\ hh - 1 - Pixel(sx, sy)[2] = r
    BY ONLY <1>1, <1>3, <1>4
  <2> QED BY ONLY <1>1, <1>5, <2>1
<1>7. ASSUME NEW pixel \in Screen, At(pixel) = [x |-> sx, y |-> sy]
      PROVE  Pixel(sx, sy) = pixel
  <2>1. PICK c \in Int, d \in Int : pixel = <<c, d>>
    BY DEF Screen
  <2>2. (c - hw) * Sub = m * Sub /\ (hh - 1 - d) * Sub = r * Sub
    BY ONLY <1>1, <1>5, <1>7, <2>1
  <2>3. ((c - hw) * Sub) \div Sub = c - hw /\ ((hh - 1 - d) * Sub) \div Sub = hh - 1 - d
    <3>1. c - hw \in Int /\ hh - 1 - d \in Int
      BY <1>3
    <3> QED BY ONLY <3>1, OfGrid
  <2>4. c - hw = m /\ hh - 1 - d = r
    BY ONLY <1>1, <1>2, <2>2, <2>3, Zenon
  <2> QED BY ONLY <1>1, <1>3, <1>4, <2>1, <2>4
<1> QED BY <1>6, <1>7

\* The triangles of a picture over a point, and those drawn there so far.
Over(s, p) == {k \in DOMAIN s : Within(s[k], p) /\ InDepth(Depth(s[k], p))}
DepthsAt(s, p) == \A k \in DOMAIN s : Within(s[k], p) => Depth(s[k], p)[2] # 0
Passed(sx, sy, p) == p.x < sx \/ (p.x = sx /\ p.y < sy)
DrawnAt(s, n, t, sx, sy, p) ==
  {k \in Over(s, p) : k < n \/ (k = n /\ (t = Blank \/ Passed(sx, sy, p)))}

ZAt(s, p, k) == ZInt(Depth(s[k], p))
Deepest(s, p, over, k) ==
  k \in over /\ \A j \in over : ZAt(s, p, j) < ZAt(s, p, k) \/ (ZAt(s, p, j) = ZAt(s, p, k) /\ j <= k)
Shows(s, p, over, z, c) ==
  IF over = {}
    THEN z = 0 /\ c = Blank
    ELSE \E k \in over : Deepest(s, p, over, k) /\ z = ZAt(s, p, k) /\ c = Color(s[k], p)

Painted(s, n, t, sx, sy, zs, cs) ==
  \A pixel \in Screen :
    DepthsAt(s, At(pixel)) =>
      Shows(s, At(pixel), DrawnAt(s, n, t, sx, sy, At(pixel)), zs[pixel], cs[pixel])

LEMMA PictureType ==
  ASSUME NEW s \in Scene
  PROVE  /\ Len(s) \in Nat /\ DOMAIN s = 1 .. Len(s)
         /\ \A k \in DOMAIN s : s[k] \in Triangle /\ Coloured(s[k])
<1>1. s \in Seq(Triangle) /\ \A k \in 1 .. Len(s) : \A c \in Side : s[k][c].color = c
  BY SceneAssumption
<1>2. Len(s) \in Nat /\ DOMAIN s = 1 .. Len(s) /\ \A k \in 1 .. Len(s) : s[k] \in Triangle
  BY <1>1
<1> QED BY <1>1, <1>2 DEF Coloured

LEMMA DepthUnits ==
  ASSUME NEW n \in Int, NEW d \in Nat, d # 0
  PROVE  /\ ZInt(<<n, d>>) \in Int
         /\ InDepth(<<n, d>>) => ZInt(<<n, d>>) >= 0
<1>1. ZOne \in Nat
  BY RasterAssumption
<1> DEFINE a == (n + d) * ZOne
<1>2. a \in Int
  BY <1>1
<1>3. ZInt(<<n, d>>) = a \div d
  BY DEF ZInt
<1>4. InDepth(<<n, d>>) => a >= 0
  <2> SUFFICES ASSUME InDepth(<<n, d>>) PROVE a >= 0
    OBVIOUS
  <2>1. n + d >= 0
    BY DEF InDepth
  <2> QED BY <1>1, <2>1
<1> HIDE DEF a
<1>5. a \div d \in Int /\ (a >= 0 => a \div d >= 0)
  BY <1>2
<1> QED BY <1>3, <1>4, <1>5

LEMMA ZAtType ==
  ASSUME NEW s \in Scene, NEW p \in Point, NEW k \in DOMAIN s, Depth(s[k], p)[2] # 0
  PROVE  ZAt(s, p, k) \in Int /\ (InDepth(Depth(s[k], p)) => ZAt(s, p, k) >= 0)
<1>1. s[k] \in Triangle
  BY PictureType
<1>2. PICK n, d : Depth(s[k], p) = <<n, d>>
  BY <1>1, DepthIs
<1>3. n \in Int /\ d \in Nat /\ d # 0
  BY <1>1, <1>2, DepthType
<1> QED BY ONLY <1>2, <1>3, DepthUnits, Zenon DEF ZAt

\* One more triangle over the point.
LEMMA NextShows ==
  ASSUME NEW s, NEW p, NEW over \in SUBSET Nat, NEW z \in Int, NEW c, NEW k \in Nat,
         \A j \in over : j < k /\ ZAt(s, p, j) \in Int,
         ZAt(s, p, k) \in Int, ZAt(s, p, k) >= 0,
         Shows(s, p, over, z, c)
  PROVE  /\ z > ZAt(s, p, k) => Shows(s, p, over \union {k}, z, c)
         /\ ~(z > ZAt(s, p, k)) => Shows(s, p, over \union {k}, ZAt(s, p, k), Color(s[k], p))
<1>1. over \union {k} # {} /\ k \in over \union {k}
  OBVIOUS
<1>2. CASE over = {}
  <2>1. z = 0
    BY <1>2 DEF Shows
  <2>2. Deepest(s, p, over \union {k}, k)
    BY <1>2 DEF Deepest
  <2> QED BY <1>1, <2>1, <2>2 DEF Shows
<1>3. CASE over # {}
  <2>1. PICK b \in over : Deepest(s, p, over, b) /\ z = ZAt(s, p, b) /\ c = Color(s[b], p)
    BY <1>3 DEF Shows
  <2>2. ASSUME z > ZAt(s, p, k) PROVE Shows(s, p, over \union {k}, z, c)
    <3>1. Deepest(s, p, over \union {k}, b)
      BY <2>1, <2>2 DEF Deepest
    <3> QED BY <1>1, <2>1, <3>1 DEF Shows
  <2>3. ASSUME ~(z > ZAt(s, p, k)) PROVE Shows(s, p, over \union {k}, ZAt(s, p, k), Color(s[k], p))
    <3>1. \A j \in over : ZAt(s, p, j) <= z
      BY <2>1 DEF Deepest
    <3>2. \A j \in over : ZAt(s, p, j) <= ZAt(s, p, k) /\ j <= k
      BY <2>3, <3>1
    <3>3. Deepest(s, p, over \union {k}, k)
      BY <3>2 DEF Deepest
    <3> QED BY <1>1, <3>3 DEF Shows
  <2> QED BY <2>2, <2>3
<1> QED BY <1>2, <1>3

\* What the loops go over, of a triangle that is over the point.
LEMMA OverLoops ==
  ASSUME NEW s \in Scene, NEW n \in DOMAIN s, NEW o \in Triangle, OrderIs(s[n], o),
         NEW pixel \in Screen, DepthsAt(s, At(pixel)), n \in Over(s, At(pixel))
  PROVE  /\ StartX(o) <= At(pixel).x /\ At(pixel).x < MaxX(o) + Sub /\ MaxX(o) \in Int
         /\ StartY(o) <= At(pixel).y /\ At(pixel).y < MaxY(o) + Sub /\ MaxY(o) \in Int
<1>1. s[n] \in Triangle /\ At(pixel) \in Point
  BY PictureType, AtIs
<1>2. Within(s[n], At(pixel)) /\ Depth(s[n], At(pixel))[2] # 0
  BY DEF Over, DepthsAt
<1>3. \A e \in Side : Edge(o, e, At(pixel).x, At(pixel).y) >= 0
  BY <1>1, <1>2, InsideIsWithin
<1>4. WSum(o, At(pixel)) # 0
  BY <1>1, <1>2, DepthType, OrderDepth
<1> QED BY <1>3, <1>4, LoopsCover

LEMMA NotBlank == ASSUME NEW o \in Triangle PROVE o # Blank
  BY SceneAssumption

LEMMA AtGrid ==
  ASSUME NEW pixel \in Screen
  PROVE  At(pixel).x \in Int /\ At(pixel).y \in Int /\ OnGrid(At(pixel).x) /\ OnGrid(At(pixel).y)
BY AtIs DEF OnGrid, Point

LEMMA GridStep ==
  ASSUME NEW a, NEW b, OnGrid(a), OnGrid(b)
  PROVE  a \in Int /\ b \in Int /\ (a < b + Sub <=> a <= b)
<1>1. Sub \in Nat \ {0}
  BY RasterAssumption
<1>2. PICK m \in Int, r \in Int : a = m * Sub /\ b = r * Sub
  BY DEF OnGrid
<1>3. CASE m <= r
  <2>1. m * Sub <= r * Sub
    BY <1>1, <1>3
  <2> QED BY <1>1, <1>2, <2>1
<1>4. CASE m >= r + 1
  <2>1. m * Sub >= r * Sub + Sub
    BY <1>1, <1>4
  <2> QED BY <1>1, <1>2, <2>1
<1> QED BY <1>3, <1>4

LEMMA BeginPaints ==
  ASSUME NEW s \in Scene, NEW n \in Nat, n + 1 \in DOMAIN s, NEW o \in Triangle, OrderIs(s[n + 1], o),
         NEW sx, NEW sy, NEW zs, NEW cs, Painted(s, n, Blank, sx, sy, zs, cs)
  PROVE  Painted(s, n + 1, o, StartX(o), StartY(o), zs, cs)
<1> SUFFICES ASSUME NEW pixel \in Screen, DepthsAt(s, At(pixel))
             PROVE  Shows(s, At(pixel), DrawnAt(s, n + 1, o, StartX(o), StartY(o), At(pixel)), zs[pixel], cs[pixel])
  BY DEF Painted
<1> DEFINE p == At(pixel)
<1>1. Shows(s, p, DrawnAt(s, n, Blank, sx, sy, p), zs[pixel], cs[pixel])
  BY DEF Painted
<1>2. o # Blank /\ StartX(o) \in Int /\ StartY(o) \in Int
  BY NotBlank, StartType
<1>3. p.x \in Int /\ p.y \in Int
  BY AtGrid
<1>4. n + 1 \in Over(s, p) => ~Passed(StartX(o), StartY(o), p)
  BY <1>2, <1>3, OverLoops DEF Passed
<1>5. \A k \in Over(s, p) : k \in Nat
  BY PictureType DEF Over
<1> HIDE DEF p
<1>6. DrawnAt(s, n + 1, o, StartX(o), StartY(o), p) = DrawnAt(s, n, Blank, sx, sy, p)
  BY <1>2, <1>4, <1>5 DEF DrawnAt
<1> QED BY <1>1, <1>6 DEF p

LEMMA FinishPaints ==
  ASSUME NEW s \in Scene, NEW n \in DOMAIN s, NEW o \in Triangle, OrderIs(s[n], o),
         NEW sx \in Int, NEW sy \in Int, sx >= MaxX(o) + Sub,
         NEW zs, NEW cs, Painted(s, n, o, sx, sy, zs, cs)
  PROVE  Painted(s, n, Blank, sx, sy, zs, cs)
<1> SUFFICES ASSUME NEW pixel \in Screen, DepthsAt(s, At(pixel))
             PROVE  Shows(s, At(pixel), DrawnAt(s, n, Blank, sx, sy, At(pixel)), zs[pixel], cs[pixel])
  BY DEF Painted
<1> DEFINE p == At(pixel)
<1>1. Shows(s, p, DrawnAt(s, n, o, sx, sy, p), zs[pixel], cs[pixel])
  BY DEF Painted
<1>2. p.x \in Int /\ p.y \in Int /\ Sub \in Int
  BY AtGrid, RasterAssumption
<1>3. n \in Over(s, p) => Passed(sx, sy, p)
  BY <1>2, OverLoops DEF Passed
<1> HIDE DEF p
<1>4. DrawnAt(s, n, o, sx, sy, p) = DrawnAt(s, n, Blank, sx, sy, p)
  BY <1>3 DEF DrawnAt
<1> QED BY <1>1, <1>4 DEF p

LEMMA ColumnPaints ==
  ASSUME NEW s \in Scene, NEW n \in DOMAIN s, NEW o \in Triangle, OrderIs(s[n], o),
         NEW sx, NEW sy, OnGrid(sx), OnGrid(sy), sy >= MaxY(o) + Sub,
         NEW zs, NEW cs, Painted(s, n, o, sx, sy, zs, cs)
  PROVE  Painted(s, n, o, sx + Sub, StartY(o), zs, cs)
<1> SUFFICES ASSUME NEW pixel \in Screen, DepthsAt(s, At(pixel))
             PROVE  Shows(s, At(pixel), DrawnAt(s, n, o, sx + Sub, StartY(o), At(pixel)), zs[pixel], cs[pixel])
  BY DEF Painted
<1> DEFINE p == At(pixel)
<1>1. Shows(s, p, DrawnAt(s, n, o, sx, sy, p), zs[pixel], cs[pixel])
  BY DEF Painted
<1>2. p.x \in Int /\ p.y \in Int /\ Sub \in Int /\ StartY(o) \in Int
  BY AtGrid, RasterAssumption, StartType
<1>3. sx \in Int /\ sy \in Int /\ (p.x < sx + Sub <=> p.x <= sx)
  BY AtGrid, GridStep
<1>4. n \in Over(s, p) => (Passed(sx, sy, p) <=> Passed(sx + Sub, StartY(o), p))
  BY <1>2, <1>3, OverLoops DEF Passed
<1> HIDE DEF p
<1>5. DrawnAt(s, n, o, sx, sy, p) = DrawnAt(s, n, o, sx + Sub, StartY(o), p)
  BY <1>4 DEF DrawnAt
<1> QED BY <1>1, <1>5 DEF p

\* A sample that is not drawn, seen from all pixels that it is not the sample of, or
\* that the triangle is not over.
LEMMA SampleLeaves ==
  ASSUME NEW s \in Scene, NEW n \in DOMAIN s, NEW o \in Triangle,
         NEW sx, NEW sy, OnGrid(sx), OnGrid(sy), NEW pixel \in Screen,
         At(pixel) # [x |-> sx, y |-> sy] \/ n \notin Over(s, At(pixel))
  PROVE  DrawnAt(s, n, o, sx, sy + Sub, At(pixel)) = DrawnAt(s, n, o, sx, sy, At(pixel))
<1> DEFINE p == At(pixel)
<1>1. p.x \in Int /\ p.y \in Int /\ sx \in Int /\ sy \in Int /\ (p.y < sy + Sub <=> p.y <= sy)
  BY AtGrid, GridStep
<1>2. p = [x |-> p.x, y |-> p.y]
  BY AtIs DEF Point
<1> HIDE DEF p
<1>3. n \in Over(s, p) => (Passed(sx, sy, p) <=> Passed(sx, sy + Sub, p))
  BY <1>1, <1>2 DEF Passed, p
<1>4. DrawnAt(s, n, o, sx, sy + Sub, p) = DrawnAt(s, n, o, sx, sy, p)
  BY <1>3 DEF DrawnAt
<1> QED BY <1>4 DEF p

LEMMA SampleAdds ==
  ASSUME NEW s \in Scene, NEW n \in DOMAIN s, NEW o \in Triangle,
         NEW sx, NEW sy, OnGrid(sx), OnGrid(sy), NEW pixel \in Screen,
         At(pixel) = [x |-> sx, y |-> sy], n \in Over(s, At(pixel))
  PROVE  /\ DrawnAt(s, n, o, sx, sy + Sub, At(pixel)) = DrawnAt(s, n, o, sx, sy, At(pixel)) \union {n}
         /\ \A j \in DrawnAt(s, n, o, sx, sy, At(pixel)) : j \in DOMAIN s /\ j < n
<1> DEFINE p == At(pixel)
<1>1. p.x = sx /\ p.y = sy
  OBVIOUS
<1>2. sx \in Int /\ sy \in Int /\ Sub \in Nat \ {0}
  BY GridStep, RasterAssumption
<1>3. o # Blank
  BY NotBlank
<1>4. n \in Over(s, p)
  OBVIOUS
<1> HIDE DEF p
<1>5. ~Passed(sx, sy, p) /\ Passed(sx, sy + Sub, p)
  BY <1>1, <1>2 DEF Passed
<1>6. DrawnAt(s, n, o, sx, sy + Sub, p) = DrawnAt(s, n, o, sx, sy, p) \union {n}
  BY <1>3, <1>4, <1>5 DEF DrawnAt
<1>7. \A j \in DrawnAt(s, n, o, sx, sy, p) : j \in DOMAIN s /\ j < n
  BY <1>3, <1>5 DEF DrawnAt, Over
<1> QED BY <1>6, <1>7 DEF p

LEMMA SamplePaints ==
  ASSUME NEW s \in Scene, NEW n \in DOMAIN s, NEW o \in Triangle,
         NEW sx, NEW sy, OnGrid(sx), OnGrid(sy),
         NEW zs \in [Screen -> Int], NEW cs, Painted(s, n, o, sx, sy, zs, cs), NEW zn, NEW cn,
         \A pixel \in Screen :
           DepthsAt(s, At(pixel)) =>
             IF At(pixel) = [x |-> sx, y |-> sy] /\ n \in Over(s, At(pixel)) /\ ~(zs[pixel] > ZAt(s, At(pixel), n))
               THEN zn[pixel] = ZAt(s, At(pixel), n) /\ cn[pixel] = Color(s[n], At(pixel))
               ELSE zn[pixel] = zs[pixel] /\ cn[pixel] = cs[pixel]
  PROVE  Painted(s, n, o, sx, sy + Sub, zn, cn)
<1> SUFFICES ASSUME NEW pixel \in Screen, DepthsAt(s, At(pixel))
             PROVE  Shows(s, At(pixel), DrawnAt(s, n, o, sx, sy + Sub, At(pixel)), zn[pixel], cn[pixel])
  BY DEF Painted
<1> DEFINE p == At(pixel)
<1>1. Shows(s, p, DrawnAt(s, n, o, sx, sy, p), zs[pixel], cs[pixel])
  BY DEF Painted
<1>2. CASE p # [x |-> sx, y |-> sy] \/ n \notin Over(s, p)
  <2>1. DrawnAt(s, n, o, sx, sy + Sub, p) = DrawnAt(s, n, o, sx, sy, p)
    BY <1>2, SampleLeaves
  <2>2. zn[pixel] = zs[pixel] /\ cn[pixel] = cs[pixel]
    BY <1>2
  <2> QED BY ONLY <1>1, <2>1, <2>2, Zenon
<1>3. CASE p = [x |-> sx, y |-> sy] /\ n \in Over(s, p)
  <2> DEFINE over == DrawnAt(s, n, o, sx, sy, p)
  <2>1. /\ DrawnAt(s, n, o, sx, sy + Sub, p) = over \union {n}
        /\ \A j \in over : j \in DOMAIN s /\ j < n
    BY <1>3, SampleAdds
  <2>2. p \in Point
    BY AtIs
  <2>3. \A k \in DOMAIN s : k \in Nat
    BY PictureType
  <2>4. over \subseteq Over(s, p)
    BY DEF DrawnAt
  <2>5. \A k \in Over(s, p) : ZAt(s, p, k) \in Int /\ ZAt(s, p, k) >= 0
    <3> SUFFICES ASSUME NEW k \in Over(s, p) PROVE ZAt(s, p, k) \in Int /\ ZAt(s, p, k) >= 0
      OBVIOUS
    <3>1. k \in DOMAIN s /\ InDepth(Depth(s[k], p)) /\ Depth(s[k], p)[2] # 0
      BY DEF Over, DepthsAt
    <3> HIDE DEF p
    <3> QED BY ONLY <2>2, <3>1, s \in Scene, ZAtType
  <2>6. zs[pixel] \in Int
    OBVIOUS
  <2>7. IF zs[pixel] > ZAt(s, p, n)
          THEN zn[pixel] = zs[pixel] /\ cn[pixel] = cs[pixel]
          ELSE zn[pixel] = ZAt(s, p, n) /\ cn[pixel] = Color(s[n], p)
    BY <1>3
  <2>8. Shows(s, p, over, zs[pixel], cs[pixel])
    BY <1>1
  <2> HIDE DEF p, over
  <2>9. /\ over \in SUBSET Nat /\ n \in Nat
        /\ \A j \in over : j < n /\ ZAt(s, p, j) \in Int
        /\ ZAt(s, p, n) \in Int /\ ZAt(s, p, n) >= 0
    BY <1>3, <2>1, <2>3, <2>4, <2>5
  <2>10. /\ zs[pixel] > ZAt(s, p, n) => Shows(s, p, over \union {n}, zs[pixel], cs[pixel])
         /\ ~(zs[pixel] > ZAt(s, p, n)) => Shows(s, p, over \union {n}, ZAt(s, p, n), Color(s[n], p))
    BY ONLY <2>6, <2>8, <2>9, NextShows
  <2>11. Shows(s, p, over \union {n}, zn[pixel], cn[pixel])
    BY ONLY <2>7, <2>10, Zenon
  <2> QED BY ONLY <2>1, <2>11, Zenon DEF p, over
<1> QED BY <1>2, <1>3

Buffers == zBuff \in [Screen -> Int] /\ DOMAIN fb = Screen

\* A pixel is plotted, and no other.
LEMMA PlotOne ==
  ASSUME Buffers, NEW pix \in Screen, NEW z \in Int, NEW c, Plot(pix, z, c)
  PROVE  /\ Buffers'
         /\ \A pixel \in Screen \ {pix} : zBuff'[pixel] = zBuff[pixel] /\ fb'[pixel] = fb[pixel]
         /\ IF zBuff[pix] > z
              THEN zBuff'[pix] = zBuff[pix] /\ fb'[pix] = fb[pix]
              ELSE zBuff'[pix] = z /\ fb'[pix] = c
BY DEF Plot, Buffers

LEMMA PlotSampleOne ==
  ASSUME Buffers, RasterType, tri \in Triangle, OnScreen(x, y), PlotSample
  PROVE  /\ Buffers'
         /\ \A pixel \in Screen \ {Pixel(x, y)} : zBuff'[pixel] = zBuff[pixel] /\ fb'[pixel] = fb[pixel]
<1> DEFINE p == [x |-> x, y |-> y]
           z == Depth(tri, p)
           pix == Pixel(x, y)
<1>1. p \in Point /\ pix \in Screen
  BY DEF RasterType, Point, OnScreen
<1>2. CASE z[2] = 0
  <2>1. PICK any \in {0, 2 * ZOne - 1}, c \in {0, ColorOne - 1} : Plot(pix, any, [k \in Side |-> c])
    BY <1>2 DEF PlotSample
  <2>2. any \in Int
    BY RasterAssumption
  <2> HIDE DEF pix
  <2> QED BY <1>1, <2>1, <2>2, PlotOne DEF pix
<1>3. CASE z[2] # 0 /\ InDepth(z)
  <2>1. Plot(pix, ZInt(z), Color(tri, p))
    BY <1>3 DEF PlotSample
  <2>2. ZInt(z) \in Int
    <3>1. PICK n, d : z = <<n, d>>
      BY <1>1, DepthIs
    <3>2. n \in Int /\ d \in Nat /\ d # 0
      <4>1. z[1] \in Int /\ z[2] \in Nat
        BY <1>1, DepthType
      <4> HIDE DEF z
      <4> QED BY <1>3, <3>1, <4>1
    <3> HIDE DEF z
    <3> QED BY <3>1, <3>2, DepthUnits
  <2> HIDE DEF pix, z
  <2> QED BY <1>1, <2>1, <2>2, PlotOne DEF pix
<1>4. CASE ~(z[2] = 0) /\ ~(z[2] # 0 /\ InDepth(z))
  <2>1. UNCHANGED <<zBuff, fb>>
    BY <1>4 DEF PlotSample
  <2> QED BY <2>1 DEF Buffers
<1> QED BY <1>2, <1>3, <1>4

\* How far the renderer is in the picture, after n of its triangles or in the nth, and
\* what the screen shows of it.
PaintAt(n) ==
  /\ n <= Len(drawn) /\ Len(calls) = Len(drawn) - n
  /\ \A i \in 1 .. Len(drawn) - n : calls[i] = drawn[n + i]
  /\ tri # Blank => n >= 1 /\ OrderIs(drawn[n], tri) /\ OnGrid(x) /\ OnGrid(y)
  /\ Painted(drawn, n, tri, x, y, zBuff, fb)

PaintInv ==
  /\ drawn \in Scene
  /\ Buffers
  /\ \E n \in Nat : PaintAt(n)

LEMMA StartGrid ==
  ASSUME NEW t \in Triangle
  PROVE  OnGrid(StartX(t)) /\ OnGrid(StartY(t))
<1>1. \A a, b \in Int : Min2(a, b) \in Int /\ Max2(a, b) \in Int
  BY DEF Min2, Max2
<1>2. \A a \in Int : Quotient(a, Sub) \in Int
  BY RasterAssumption DEF Quotient
<1>3. (-(W \div 2)) * Sub \in Int /\ (-(H \div 2)) * Sub \in Int
  BY Halves, RasterAssumption
<1>4. MinX(t) \in Int /\ MinY(t) \in Int
  BY <1>1, <1>3, CornerPoints DEF MinX, MinY
<1> QED BY <1>2, <1>4 DEF StartX, StartY, OnGrid

LEMMA GridNext ==
  ASSUME NEW a, OnGrid(a)
  PROVE  OnGrid(a + Sub)
<1>1. PICK m \in Int : a = m * Sub
  BY DEF OnGrid
<1>2. a + Sub = (m + 1) * Sub /\ m + 1 \in Int
  BY <1>1, RasterAssumption
<1> QED BY <1>2 DEF OnGrid

LEMMA PaintStarts == Init => PaintInv
<1> SUFFICES ASSUME Init PROVE PaintInv
  OBVIOUS
<1>1. /\ drawn \in Scene /\ calls = drawn /\ tri = Blank
      /\ zBuff = [p \in Screen |-> 0] /\ fb = [p \in Screen |-> Blank]
  BY DEF Init, RasterInit
<1>2. Len(drawn) \in Nat /\ DOMAIN drawn = 1 .. Len(drawn)
  BY <1>1, PictureType
<1>3. ASSUME NEW p PROVE DrawnAt(drawn, 0, tri, x, y, p) = {}
  BY <1>2 DEF DrawnAt, Over
<1>4. Painted(drawn, 0, tri, x, y, zBuff, fb)
  BY <1>1, <1>3 DEF Painted, Shows
<1>5. \A i \in 1 .. Len(drawn) - 0 : calls[i] = drawn[0 + i]
  BY <1>1, <1>2
<1>6. Buffers
  BY <1>1 DEF Buffers
<1>7. 0 \in Nat /\ 0 <= Len(drawn) /\ Len(calls) = Len(drawn) - 0
  BY <1>1, <1>2
<1> QED BY ONLY <1>1, <1>4, <1>5, <1>6, <1>7, Zenon DEF PaintInv, PaintAt

LEMMA BeginKeeps ==
  ASSUME PaintInv, RasterType, Begin, UNCHANGED drawn
  PROVE  PaintInv'
<1> DEFINE o == Ordered(calls[1][1], calls[1][2], calls[1][3])
<1>1. PICK n \in Nat : PaintAt(n)
  BY DEF PaintInv
<1>2. PICK s \in Scene : drawn = s
  BY DEF PaintInv
<1>3. /\ Len(s) \in Nat /\ DOMAIN s = 1 .. Len(s)
      /\ \A k \in DOMAIN s : s[k] \in Triangle /\ Coloured(s[k])
  BY PictureType
<1>4. /\ calls \in Seq(Triangle) /\ calls # <<>> /\ tri = Blank
      /\ calls' = Tail(calls) /\ tri' = o /\ x' = StartX(o) /\ y' = StartY(o)
      /\ UNCHANGED <<zBuff, fb>> /\ drawn' = s
  BY <1>2 DEF Begin, RasterType
<1>5. /\ n <= Len(s) /\ Len(calls) = Len(s) - n
      /\ \A i \in 1 .. Len(s) - n : calls[i] = s[n + i]
      /\ Painted(s, n, Blank, x, y, zBuff, fb)
  BY <1>1, <1>2, <1>4 DEF PaintAt
<1>6. Len(calls) \in Nat \ {0}
  BY <1>4
<1>7. PICK l \in Nat : l = Len(s) /\ Len(calls) = l - n
  BY <1>3, <1>5
<1>8. n + 1 <= l /\ n + 1 \in DOMAIN s /\ calls[1] = s[n + 1]
  <2>1. n + 1 <= l /\ n + 1 \in 1 .. l /\ 1 \in 1 .. l - n
    BY ONLY <1>6, <1>7, n \in Nat
  <2>2. \A i \in 1 .. l - n : calls[i] = s[n + i]
    BY ONLY <1>5, <1>7, Zenon
  <2>3. DOMAIN s = 1 .. l
    BY ONLY <1>3, <1>7, Zenon
  <2> QED BY ONLY <2>1, <2>2, <2>3
<1>9. o = Ordered(s[n + 1][1], s[n + 1][2], s[n + 1][3]) /\ s[n + 1] \in Triangle
  BY <1>3, <1>8
<1> HIDE DEF o
<1>10. OrderIs(s[n + 1], o) /\ o \in Triangle
  BY <1>9, OrderedIs
<1>11. Painted(s, n + 1, o, StartX(o), StartY(o), zBuff, fb)
  BY <1>5, <1>8, <1>10, BeginPaints
<1>12. Len(calls') = l - (n + 1) /\ \A i \in 1 .. l - (n + 1) : calls'[i] = s[n + 1 + i]
  <2>1. /\ Len(Tail(calls)) = Len(calls) - 1
        /\ \A i \in 1 .. Len(calls) - 1 : Tail(calls)[i] = calls[i + 1]
    BY <1>4, <1>6
  <2>2. Len(calls') = l - (n + 1)
    BY <1>4, <1>7, <2>1
  <2>3. ASSUME NEW i \in 1 .. l - (n + 1) PROVE calls'[i] = s[n + 1 + i]
    <3>1. i \in 1 .. Len(calls) - 1 /\ i + 1 \in 1 .. l - n /\ n + (i + 1) = n + 1 + i
      BY <1>7
    <3>2. calls'[i] = calls[i + 1]
      BY <1>4, <2>1, <3>1
    <3>3. calls[i + 1] = s[n + (i + 1)]
      BY <1>5, <1>7, <3>1
    <3> QED BY <3>1, <3>2, <3>3
  <2> QED BY <2>2, <2>3
<1>13. OnGrid(StartX(o)) /\ OnGrid(StartY(o))
  BY <1>10, StartGrid
<1>14. n + 1 \in Nat /\ n + 1 <= l /\ n + 1 >= 1
  BY <1>8
<1>15. PaintAt(n + 1)'
  BY ONLY <1>4, <1>7, <1>10, <1>11, <1>12, <1>13, <1>14 DEF PaintAt
<1>16. Buffers' /\ (drawn \in Scene)'
  BY <1>2, <1>4 DEF PaintInv, Buffers
<1> QED BY ONLY <1>14, <1>15, <1>16, Zenon DEF PaintInv

LEMMA FinishKeeps ==
  ASSUME PaintInv, RasterType, Finish, UNCHANGED drawn
  PROVE  PaintInv'
<1>1. PICK n \in Nat : PaintAt(n)
  BY DEF PaintInv
<1>2. PICK s \in Scene : drawn = s
  BY DEF PaintInv
<1>3. PICK o : tri = o
  OBVIOUS
<1>4. /\ o # Blank /\ o \in Triangle /\ x \in Int /\ y \in Int /\ x >= MaxX(o) + Sub
      /\ tri' = Blank
      /\ UNCHANGED <<calls, x, y, zBuff, fb>> /\ drawn' = s
  BY <1>2, <1>3 DEF Finish, RasterType
<1>5. /\ n <= Len(s) /\ Len(calls) = Len(s) - n
      /\ \A i \in 1 .. Len(s) - n : calls[i] = s[n + i]
      /\ n >= 1 /\ OrderIs(s[n], o)
      /\ Painted(s, n, o, x, y, zBuff, fb)
  BY <1>1, <1>2, <1>3, <1>4 DEF PaintAt
<1>6. n \in DOMAIN s
  BY <1>5, PictureType
<1>7. Painted(s, n, Blank, x, y, zBuff, fb)
  BY <1>4, <1>5, <1>6, FinishPaints
<1>8. PaintAt(n)'
  BY ONLY <1>4, <1>5, <1>7 DEF PaintAt
<1>9. Buffers' /\ (drawn \in Scene)'
  BY <1>2, <1>4 DEF PaintInv, Buffers
<1> QED BY ONLY n \in Nat, <1>8, <1>9, Zenon DEF PaintInv

LEMMA ColumnKeeps ==
  ASSUME PaintInv, RasterType, NextColumn, UNCHANGED drawn
  PROVE  PaintInv'
<1>1. PICK n \in Nat : PaintAt(n)
  BY DEF PaintInv
<1>2. PICK s \in Scene : drawn = s
  BY DEF PaintInv
<1>3. PICK o : tri = o
  OBVIOUS
<1>4. /\ o # Blank /\ o \in Triangle /\ y >= MaxY(o) + Sub
      /\ x' = x + Sub /\ y' = StartY(o) /\ tri' = o
      /\ UNCHANGED <<calls, zBuff, fb>> /\ drawn' = s
  BY <1>2, <1>3 DEF NextColumn, RasterType
<1>5. /\ n <= Len(s) /\ Len(calls) = Len(s) - n
      /\ \A i \in 1 .. Len(s) - n : calls[i] = s[n + i]
      /\ n >= 1 /\ OrderIs(s[n], o) /\ OnGrid(x) /\ OnGrid(y)
      /\ Painted(s, n, o, x, y, zBuff, fb)
  BY <1>1, <1>2, <1>3, <1>4 DEF PaintAt
<1>6. n \in DOMAIN s
  BY <1>5, PictureType
<1>7. Painted(s, n, o, x + Sub, StartY(o), zBuff, fb)
  BY <1>4, <1>5, <1>6, ColumnPaints
<1>8. OnGrid(x + Sub) /\ OnGrid(StartY(o))
  BY <1>4, <1>5, GridNext, StartGrid
<1>9. PaintAt(n)'
  BY ONLY <1>4, <1>5, <1>7, <1>8 DEF PaintAt
<1>10. Buffers' /\ (drawn \in Scene)'
  BY <1>2, <1>4 DEF PaintInv, Buffers
<1> QED BY ONLY n \in Nat, <1>9, <1>10, Zenon DEF PaintInv

\* What a sample does to the pixels, by the triangle as it was given.
LEMMA SampleDraws ==
  ASSUME Buffers, RasterInv, NEW s \in Scene, NEW n \in DOMAIN s, tri # Blank,
         OrderIs(s[n], tri), OnGrid(x), OnGrid(y), Sample
  PROVE  /\ Buffers'
         /\ \A pixel \in Screen :
              DepthsAt(s, At(pixel)) =>
                IF At(pixel) = [x |-> x, y |-> y] /\ n \in Over(s, At(pixel)) /\ ~(zBuff[pixel] > ZAt(s, At(pixel), n))
                  THEN zBuff'[pixel] = ZAt(s, At(pixel), n) /\ fb'[pixel] = Color(s[n], At(pixel))
                  ELSE zBuff'[pixel] = zBuff[pixel] /\ fb'[pixel] = fb[pixel]
<1> DEFINE p == [x |-> x, y |-> y]
           pix == Pixel(x, y)
           inside == \A e \in Side : baseY[e] >= 0
<1>1. tri \in Triangle /\ p \in Point /\ s[n] \in Triangle /\ Coloured(s[n])
  BY PictureType DEF RasterInv, RasterType, Point
<1>2. IF inside /\ OnScreen(x, y) THEN PlotSample ELSE UNCHANGED <<zBuff, fb>>
  BY DEF Sample
<1>3. inside <=> Within(s[n], p)
  <2>1. \A e \in Side : baseY[e] = Edge(tri, e, p.x, p.y)
    BY DEF RasterInv, EdgesExact
  <2>2. Within(s[n], p) <=> \A e \in Side : Edge(tri, e, p.x, p.y) >= 0
    BY ONLY <1>1, OrderIs(s[n], tri), InsideIsWithin
  <2> QED BY ONLY <2>1, <2>2
<1>4. CASE ~(inside /\ OnScreen(x, y))
  <2>1. Buffers' /\ UNCHANGED <<zBuff, fb>>
    BY <1>2, <1>4 DEF Buffers
  <2>2. ASSUME NEW pixel \in Screen, At(pixel) = p, n \in Over(s, At(pixel))
        PROVE  FALSE
    <3>1. Pixel(x, y) = pixel
      BY <2>2, PixelIs
    <3>2. OnScreen(x, y)
      BY <3>1 DEF OnScreen
    <3>3. Within(s[n], p)
      BY <2>2 DEF Over
    <3> QED BY <1>3, <1>4, <3>2, <3>3
  <2> QED BY <2>1, <2>2
<1>5. CASE inside /\ OnScreen(x, y)
  <2>1. PlotSample
    BY <1>2, <1>5
  <2>2. /\ Buffers'
        /\ \A pixel \in Screen \ {pix} : zBuff'[pixel] = zBuff[pixel] /\ fb'[pixel] = fb[pixel]
    BY <1>1, <1>5, <2>1, PlotSampleOne DEF RasterInv
  <2>3. At(pix) = p /\ pix \in Screen
    BY <1>5, PixelIs DEF OnScreen
  <2>4. \A pixel \in Screen : At(pixel) = p => pixel = pix
    BY PixelIs
  <2>5. ASSUME DepthsAt(s, p)
        PROVE  IF n \in Over(s, p) /\ ~(zBuff[pix] > ZAt(s, p, n))
                 THEN zBuff'[pix] = ZAt(s, p, n) /\ fb'[pix] = Color(s[n], p)
                 ELSE zBuff'[pix] = zBuff[pix] /\ fb'[pix] = fb[pix]
    <3>1. Within(s[n], p) /\ Depth(s[n], p)[2] # 0
      BY <1>3, <1>5, <2>5 DEF DepthsAt
    <3>2. WSum(s[n], p) # 0
      BY <1>1, <3>1, DepthType
    <3>3. Depth(tri, p) = Depth(s[n], p) /\ Color(tri, p) = Color(s[n], p)
      BY ONLY <1>1, <3>2, OrderIs(s[n], tri), OrderDepth, OrderColor
    <3>4. n \in Over(s, p) <=> InDepth(Depth(tri, p))
      BY <3>1, <3>3 DEF Over
    <3>5. CASE InDepth(Depth(tri, p))
      <4>1. Plot(pix, ZAt(s, p, n), Color(s[n], p))
        BY <2>1, <3>1, <3>3, <3>5 DEF PlotSample, ZAt
      <4>2. ZAt(s, p, n) \in Int
        BY ONLY <1>1, <3>1, s \in Scene, n \in DOMAIN s, ZAtType
      <4> HIDE DEF p, pix
      <4>3. IF zBuff[pix] > ZAt(s, p, n)
              THEN zBuff'[pix] = zBuff[pix] /\ fb'[pix] = fb[pix]
              ELSE zBuff'[pix] = ZAt(s, p, n) /\ fb'[pix] = Color(s[n], p)
        BY ONLY Buffers, <2>3, <4>1, <4>2, PlotOne
      <4> QED BY ONLY <3>4, <3>5, <4>3, Zenon
    <3>6. CASE ~InDepth(Depth(tri, p))
      <4>1. UNCHANGED <<zBuff, fb>>
        BY <2>1, <3>1, <3>3, <3>6 DEF PlotSample
      <4> QED BY <3>4, <3>6, <4>1
    <3> QED BY <3>5, <3>6
  <2> HIDE DEF p, pix, inside
  <2>6. ASSUME NEW pixel \in Screen, DepthsAt(s, At(pixel))
        PROVE  IF At(pixel) = p /\ n \in Over(s, At(pixel)) /\ ~(zBuff[pixel] > ZAt(s, At(pixel), n))
                 THEN zBuff'[pixel] = ZAt(s, At(pixel), n) /\ fb'[pixel] = Color(s[n], At(pixel))
                 ELSE zBuff'[pixel] = zBuff[pixel] /\ fb'[pixel] = fb[pixel]
    <3>1. CASE At(pixel) = p
      <4>1. pixel = pix
        BY <2>4, <3>1
      <4>2. DepthsAt(s, p)
        BY <2>6, <3>1, Zenon
      <4>3. IF n \in Over(s, p) /\ ~(zBuff[pixel] > ZAt(s, p, n))
                 THEN zBuff'[pixel] = ZAt(s, p, n) /\ fb'[pixel] = Color(s[n], p)
                 ELSE zBuff'[pixel] = zBuff[pixel] /\ fb'[pixel] = fb[pixel]
        BY ONLY <2>5, <4>1, <4>2, Zenon
      <4> QED BY ONLY <3>1, <4>3, Zenon
    <3>2. CASE At(pixel) # p
      <4>1. pixel \in Screen \ {pix}
        BY <2>3, <3>2, Zenon
      <4>2. zBuff'[pixel] = zBuff[pixel] /\ fb'[pixel] = fb[pixel]
        BY <2>2, <4>1
      <4> QED BY ONLY <3>2, <4>2, Zenon
    <3> QED BY <3>1, <3>2, Zenon
  <2> QED BY ONLY <2>2, <2>6, Zenon DEF p
<1> QED BY <1>4, <1>5, Zenon

LEMMA SampleKeeps ==
  ASSUME PaintInv, RasterInv, Sample, UNCHANGED drawn
  PROVE  PaintInv'
<1>1. PICK n \in Nat : PaintAt(n)
  BY DEF PaintInv
<1>2. PICK s \in Scene : drawn = s
  BY DEF PaintInv
<1>3. PICK o, sx, sy, zs, cs : tri = o /\ x = sx /\ y = sy /\ zBuff = zs /\ fb = cs
  OBVIOUS
<1>4. PICK zn, cn : zBuff' = zn /\ fb' = cn
  OBVIOUS
<1>5. /\ o # Blank /\ o \in Triangle
      /\ y' = sy + Sub /\ x' = sx /\ tri' = o /\ calls' = calls /\ drawn' = s
  BY <1>2, <1>3 DEF Sample, RasterInv, RasterType
<1>6. /\ n <= Len(s) /\ Len(calls) = Len(s) - n
      /\ \A i \in 1 .. Len(s) - n : calls[i] = s[n + i]
      /\ n >= 1 /\ OrderIs(s[n], o) /\ OnGrid(sx) /\ OnGrid(sy)
      /\ Painted(s, n, o, sx, sy, zs, cs)
  BY <1>1, <1>2, <1>3, <1>5 DEF PaintAt
<1>7. n \in DOMAIN s
  BY <1>6, PictureType
<1>8. Buffers
  BY DEF PaintInv
<1>9. zs \in [Screen -> Int]
  BY <1>3, <1>8 DEF Buffers
<1>10. /\ Buffers'
       /\ \A pixel \in Screen :
            DepthsAt(s, At(pixel)) =>
              IF At(pixel) = [x |-> x, y |-> y] /\ n \in Over(s, At(pixel)) /\ ~(zBuff[pixel] > ZAt(s, At(pixel), n))
                THEN zBuff'[pixel] = ZAt(s, At(pixel), n) /\ fb'[pixel] = Color(s[n], At(pixel))
                ELSE zBuff'[pixel] = zBuff[pixel] /\ fb'[pixel] = fb[pixel]
  BY <1>3, <1>5, <1>6, <1>7, <1>8, SampleDraws
<1>11. \A pixel \in Screen :
         DepthsAt(s, At(pixel)) =>
           IF At(pixel) = [x |-> sx, y |-> sy] /\ n \in Over(s, At(pixel)) /\ ~(zs[pixel] > ZAt(s, At(pixel), n))
             THEN zn[pixel] = ZAt(s, At(pixel), n) /\ cn[pixel] = Color(s[n], At(pixel))
             ELSE zn[pixel] = zs[pixel] /\ cn[pixel] = cs[pixel]
  BY ONLY <1>3, <1>4, <1>10, Zenon
<1>12. Painted(s, n, o, sx, sy + Sub, zn, cn)
  BY ONLY <1>5, <1>6, <1>7, <1>9, <1>11, s \in Scene, SamplePaints
<1>13. OnGrid(sy + Sub)
  BY <1>6, GridNext
<1>14. PaintAt(n)'
  BY ONLY <1>4, <1>5, <1>6, <1>12, <1>13, Zenon DEF PaintAt
<1>15. Buffers' /\ (drawn \in Scene)'
  BY <1>2, <1>5, <1>10
<1> QED BY ONLY n \in Nat, <1>14, <1>15, Zenon DEF PaintInv

LEMMA PaintKeeps == PaintInv /\ RasterInv /\ [Next]_vars => PaintInv'
<1> SUFFICES ASSUME PaintInv, RasterInv, [Next]_vars PROVE PaintInv'
  OBVIOUS
<1>1. CASE Demo
  BY <1>1, BeginKeeps, SampleKeeps, ColumnKeeps, FinishKeeps, Zenon DEF Demo, RasterStep, RasterInv
<1>2. CASE UNCHANGED <<rasterVars, drawn>>
  <2>1. UNCHANGED <<calls, tri, x, y, zBuff, fb, drawn>>
    BY <1>2 DEF rasterVars
  <2> QED BY <2>1 DEF PaintInv, PaintAt, Buffers
<1> QED BY <1>1, <1>2 DEF Next, Boot, GpuClock, vars

LEMMA PaintedIsRight == PaintInv => PictureRight
<1> SUFFICES ASSUME PaintInv, RasterDone, NEW pixel \in Screen, HaveDepth(At(pixel))
             PROVE  LET p == At(pixel)
                        over == Covering(p)
                        z(k) == ZInt(Depth(drawn[k], p))
                    IN IF over = {}
                         THEN zBuff[pixel] = 0 /\ fb[pixel] = Blank
                         ELSE LET seenAt == CHOOSE k \in over : \A j \in over : z(j) < z(k) \/ (z(j) = z(k) /\ j <= k)
                              IN zBuff[pixel] = z(seenAt) /\ fb[pixel] = Color(drawn[seenAt], p)
  BY DEF PictureRight
<1> DEFINE p == At(pixel)
           over == Covering(p)
           z(k) == ZInt(Depth(drawn[k], p))
           best(k) == \A j \in over : z(j) < z(k) \/ (z(j) = z(k) /\ j <= k)
<1>1. PICK n \in Nat : PaintAt(n)
  BY DEF PaintInv
<1>2. drawn \in Scene /\ calls = <<>> /\ tri = Blank
  BY DEF PaintInv, RasterDone
<1>3. Len(drawn) \in Nat /\ DOMAIN drawn = 1 .. Len(drawn)
  BY <1>2, PictureType
<1>4. n = Len(drawn)
  BY <1>1, <1>2, <1>3 DEF PaintAt
<1>5. over = Over(drawn, p)
  BY DEF Covering, Over
<1>6. DrawnAt(drawn, n, tri, x, y, p) = over
  BY <1>2, <1>3, <1>4, <1>5 DEF DrawnAt, Over
<1>7. Shows(drawn, p, over, zBuff[pixel], fb[pixel])
  BY <1>1, <1>6 DEF PaintAt, Painted, HaveDepth, DepthsAt
<1>8. CASE over = {}
  BY <1>7, <1>8 DEF Shows
<1>9. CASE over # {}
  <2>1. PICK k \in over : Deepest(drawn, p, over, k) /\ zBuff[pixel] = ZAt(drawn, p, k) /\ fb[pixel] = Color(drawn[k], p)
    BY <1>7, <1>9 DEF Shows
  <2>2. best(k)
    BY <2>1 DEF Deepest, ZAt
  <2>3. ASSUME NEW j \in over, best(j) PROVE j = k
    <3>1. z(k) < z(j) \/ (z(k) = z(j) /\ k <= j)
      BY <2>3
    <3>2. z(j) < z(k) \/ (z(j) = z(k) /\ j <= k)
      BY <2>2
    <3>3. z(j) \in Int /\ z(k) \in Int /\ j \in Nat /\ k \in Nat
      <4>1. \A i \in over : i \in DOMAIN drawn /\ Within(drawn[i], p)
        BY DEF Covering
      <4>2. \A i \in over : i \in Nat /\ Depth(drawn[i], p)[2] # 0
        BY <1>3, <4>1 DEF HaveDepth
      <4>3. p \in Point
        BY AtIs
      <4> HIDE DEF p, over
      <4>4. \A i \in over : z(i) \in Int
        BY <1>2, <4>1, <4>2, <4>3, ZAtType DEF ZAt
      <4> QED BY <2>3, <4>2, <4>4
    <3> HIDE DEF z
    <3> QED BY ONLY <3>1, <3>2, <3>3
  <2>4. (CHOOSE i \in over : best(i)) = k
    <3> HIDE DEF over, best
    <3> QED BY <2>2, <2>3
  <2>5. zBuff[pixel] = z(k) /\ fb[pixel] = Color(drawn[k], p)
    BY <2>1 DEF ZAt
  <2> QED BY ONLY <1>9, <2>4, <2>5, Zenon
<1> QED BY <1>8, <1>9

\* When all has been drawn, each pixel under triangles that have a depth there shows
\* the one of the greatest depth, and the others are as they were (demo.c:181-287).
THEOREM PictureAlwaysRight == Spec => []PictureRight
<1>1. Init => RasterInv /\ PaintInv
  BY RasterInitial, PaintStarts
<1>2. (RasterInv /\ PaintInv) /\ [Next]_vars => (RasterInv /\ PaintInv)'
  BY RasterKeeps, PaintKeeps
<1>3. RasterInv /\ PaintInv => PictureRight
  BY PaintedIsRight
<1> QED BY <1>1, <1>2, <1>3, PTL DEF Spec

-----------------------------------------------------------------------------
(***************************************************************************)
(* What is seen of a picture is what is deepest, and that is farthest.     *)
(***************************************************************************)
\* The two quotients of mat_frustum, of which the second is positive.
LEMMA FrustumDepth ==
  ASSUME NEW n \in Nat \ {0}, NEW f \in Nat, n < f
  PROVE  /\ (f + n) \div (f - n) \in Int
         /\ (2 * f * n) \div (f - n) \in Nat \ {0}
<1>1. PICK a, b : a = 2 * f * n /\ b = f - n
  OBVIOUS
<1>2. b \in Nat \ {0} /\ b <= f
  BY <1>1
<1>3. 2 * f * n - 2 * f >= 0
  <2>1. f * (n - 1) >= 0
    BY ONLY n \in Nat \ {0}, f \in Nat
  <2> QED BY <2>1
<1>4. a \in Int /\ a >= b
  BY <1>1, <1>2, <1>3
<1>5. PICK q : q = a \div b
  OBVIOUS
<1>6. q \in Int /\ a < b * q + b
  BY ONLY <1>2, <1>4, <1>5
<1>7. q > 0
  <2> SUFFICES ASSUME q <= 0 PROVE FALSE
    BY <1>6
  <2>1. b * q <= 0
    BY ONLY <1>2, <1>6, q <= 0
  <2> QED BY ONLY <1>2, <1>4, <1>6, <2>1
<1>8. (f + n) \div b \in Int
  BY <1>2
<1> QED BY <1>1, <1>5, <1>6, <1>7, <1>8

\* A corner at some distance in front of the eye.
LEMMA FrustumCorner ==
  ASSUME NEW l, NEW r, NEW b, NEW t, NEW n \in Nat \ {0}, NEW f \in Nat, n < f,
         NEW px \in Int, NEW py \in Int, NEW dist \in Int, NEW color,
         NEW i, NEW j, i = (f + n) \div (f - n), j = (2 * f * n) \div (f - n)
  PROVE  LET c == Corner(Frustum(l, r, b, t, n, f), <<px, py, -dist>>, color)
         IN c.z = i * dist - j /\ c.w = dist
<1> DEFINE m == Frustum(l, r, b, t, n, f)
           p == <<px, py, -dist, 1>>
           c == Corner(m, <<px, py, -dist>>, color)
<1>2. i \in Int /\ j \in Int
  BY FrustumDepth
<1>3. m[3] = <<0, 0, -i, -j>> /\ m[4] = <<0, 0, -1, 0>>
  BY DEF Frustum
<1> HIDE DEF m
<1>4. c.z = MatVec(m, p)[3] /\ c.w = MatVec(m, p)[4]
  BY DEF Corner
<1>5. \A k \in Four : MatVec(m, p)[k] = m[k][1] * p[1] + m[k][2] * p[2] + m[k][3] * p[3] + m[k][4] * p[4]
  BY DEF MatVec, Sum4, Four
<1>6. MatVec(m, p)[3] = 0 * px + 0 * py + (-i) * (-dist) + (-j) * 1
  BY <1>3, <1>5 DEF Four
<1>7. MatVec(m, p)[4] = 0 * px + 0 * py + (-1) * (-dist) + 0 * 1
  BY <1>3, <1>5 DEF Four
<1>8. 0 * px + 0 * py + (-i) * (-dist) + (-j) * 1 = i * dist - j
  BY ONLY <1>2, px \in Int, py \in Int, dist \in Int
<1>9. 0 * px + 0 * py + (-1) * (-dist) + 0 * 1 = dist
  BY ONLY px \in Int, py \in Int, dist \in Int
<1>10. c.z = i * dist - j /\ c.w = dist
  BY <1>4, <1>6, <1>7, <1>8, <1>9, Zenon
<1> QED BY <1>10, Zenon DEF m

\* With the matrix of mat_frustum (demo.c:114-129) what is farther from the eye has the
\* greater depth, z/w, anywhere on the screen.  So the triangle that PictureRight says is
\* seen is the farthest one: the depth test of demo.c:260, which keeps the greatest, is
\* the wrong way round for this matrix.
THEOREM DepthIsDistance ==
  ASSUME NEW l, NEW r, NEW b, NEW t, NEW n \in Nat \ {0}, NEW f \in Nat, n < f,
         NEW px \in Int, NEW py \in Int, NEW qx \in Int, NEW qy \in Int,
         NEW front \in Nat \ {0}, NEW back \in Nat, front < back, NEW color
  PROVE  LET m == Frustum(l, r, b, t, n, f)
             p == Corner(m, <<px, py, -front>>, color)
             q == Corner(m, <<qx, qy, -back>>, color)
         IN p.w > 0 /\ q.w > 0 /\ p.z * q.w < q.z * p.w
<1>1. PICK i, j : i = (f + n) \div (f - n) /\ j = (2 * f * n) \div (f - n)
  OBVIOUS
<1>2. i \in Int /\ j \in Nat \ {0}
  BY <1>1, FrustumDepth
<1>3. PICK p, q : /\ p = Corner(Frustum(l, r, b, t, n, f), <<px, py, -front>>, color)
                  /\ q = Corner(Frustum(l, r, b, t, n, f), <<qx, qy, -back>>, color)
  OBVIOUS
<1>4. p.z = i * front - j /\ p.w = front
  <2>1. front \in Int
    OBVIOUS
  <2> QED BY ONLY <1>1, <1>3, <2>1, FrustumCorner, n \in Nat \ {0}, f \in Nat, n < f, px \in Int, py \in Int
<1>5. q.z = i * back - j /\ q.w = back
  <2>1. back \in Int
    OBVIOUS
  <2> QED BY ONLY <1>1, <1>3, <2>1, FrustumCorner, n \in Nat \ {0}, f \in Nat, n < f, qx \in Int, qy \in Int
<1>6. (i * back - j) * front - (i * front - j) * back = j * (back - front)
  BY ONLY <1>2, front \in Nat \ {0}, back \in Nat
<1>7. j * (back - front) > 0
  BY ONLY <1>2, front \in Nat \ {0}, back \in Nat, front < back
<1>8. (i * front - j) * back < (i * back - j) * front
  BY ONLY <1>2, <1>6, <1>7, front \in Nat \ {0}, back \in Nat
<1> QED BY <1>3, <1>4, <1>5, <1>8

-----------------------------------------------------------------------------
(***************************************************************************)
(* The start of the platform, for firmware of any length: FirmwareWhole.   *)
(*                                                                         *)
(* The host's program is one list until it knows the boot ROM, and another *)
(* after that.  The invariant says how far the host and how far the        *)
(* devices are in it (HostInv, Stage), and where a load and the store to   *)
(* the GPU are on their way through its registers (ReadInv, WriteInv).     *)
(***************************************************************************)
First == VdcInit \o GfxProbe
Second == GfxFwLoad \o GfxProbe

Item == {Store("front"), Store("stream"), Store("geometry"), Store("dacen"), Store("entry"),
         Store("tbllo"), Store("tblhi"), Store("start"), Store("frame"), Store("handover"),
         Load(Magic), Load(HwId), Load(FwId), Load(HostifRev), Poll, Switch}

\* What is left of a list after k items, and its stores from the one after i to k.
Rest(plan, k) == SubSeq(plan, k + 1, Len(plan))
Between(plan, i, k) == [j \in 1 .. k - i |-> plan[i + j].arg]

\* The host has done k items, and i of them have had their effect.
Place(plan, k, i) ==
  /\ host = "running" /\ k \in 0 .. Len(plan) - 1 /\ i \in 0 .. k
  /\ program = Rest(plan, k) /\ posted = Between(plan, i, k)
  /\ \A j \in i + 1 .. k : plan[j].op = "store"
  /\ reading => i = k /\ plan[k + 1].op = "load"

\* The store to the GPU is next, and it has been done.
AtGpu == posted # <<>> /\ Head(posted) = "handover"
HandedOver == bootrom /\ posted = <<>> /\ Len(program) <= 5

-----------------------------------------------------------------------------
(***************************************************************************)
(* The invariant.                                                          *)
(***************************************************************************)
GpuAt == {"enable", "sleep", "look", "ar", "r", "rdone", "aw", "w", "b", "bdone", "disable", "copy"}
ImageWord == {Image[w] : w \in Words}

BootType ==
  /\ gpu \in [code : {"bootrom", "firmware"}, at : GpuAt, offset : {gpu.offset}, data : {gpu.data}]
  /\ wdata \in {None, "vram"} /\ offered \subseteq {"aw", "w"}
  /\ bootrom \in BOOLEAN /\ reading \in BOOLEAN
  /\ dma \in [busy : BOOLEAN, at : 1 .. Len(Image) + 1, entry : {"none", "entry", "other"}]
  /\ vram \in [Words -> ImageWord \cup {None}]
  /\ ram \in Seq(ImageWord)

\* What the DMA has copied, from the right descriptor.
Idle == [busy |-> FALSE, at |-> 1, entry |-> "none"]
Copied == \A w \in Words : w < dma.at => vram[w] = Image[w]
Copying ==
  /\ Copied
  /\ IF dma.entry = "none" THEN dma.busy /\ dma.at = 1 ELSE dma.entry = "entry"
  /\ dma.busy \/ dma.at = Len(Image) + 1

\* The devices before the second list, and after i items of it.
Fresh == entry = "other" /\ table = {} /\ dma = Idle
Stage(i) ==
  /\ entry = IF i \in 1 .. 5 THEN "entry" ELSE "other"
  /\ table = (IF i >= 2 THEN {"tbllo"} ELSE {}) \cup (IF i >= 3 THEN {"tblhi"} ELSE {})
  /\ i <= 3 => dma = Idle
  /\ i = 4 => Copying
  /\ i >= 5 => ~dma.busy /\ dma.entry = "entry" /\ vram = Image

\* Where the host and the devices are.
Running ==
  \/ ~bootrom /\ Fresh /\ \E k, i \in 0 .. 8 : Place(First, k, i)
  \/ bootrom /\ \E k, i \in 0 .. 12 : Place(Second, k, i) /\ Stage(i)
Stopped ==
  /\ host # "running" /\ program = <<>> /\ posted = <<>> /\ ~reading
  /\ IF bootrom THEN Stage(12) ELSE Fresh
HostInv == Running \/ Stopped

\* The firmware runs when the store to the GPU has been done, and not before it has
\* all been copied twice: into the GPU's memory, and by itself from there.
Taken == {"w", "b", "bdone", "disable", "copy"}
GpuInv ==
  /\ gpu.at \in Taken => gpu.code = "bootrom"
  /\ gpu.at \in Taken \ {"w"} => gpu.data = "vram"
  /\ gpu.at \in {"disable", "copy"} => HandedOver
  /\ gpu.code = "firmware" => HandedOver /\ ram = Image
  /\ gpu.code = "bootrom" /\ gpu.at # "copy" => ram = <<>>
  /\ \A n \in 1 .. Len(ram) : ram[n] = Image[n]
  /\ Len(ram) <= Len(Image)

\* A load: offered, taken, answered, and the answer is taken.
ReadInv ==
  /\ araddr # None => reading
  /\ arAsked => araddr # None /\ ~arready
  /\ arready => araddr # None /\ gpu.at = "r"
  /\ gpu.at = "ar" => arAsked
  /\ gpu.at = "r" => reading /\ ~arAsked /\ ~rvalid /\ (araddr # None => arready)
  /\ rvalid => gpu.at = "rdone" /\ reading /\ araddr = None /\ ~arAsked /\ ~rdone
  /\ rdone => gpu.at = "rdone"
  /\ ctrl.ar => arAsked \/ gpu.at = "r" \/ rvalid

\* The store to the GPU: offered on both channels, taken from them, answered.
WriteInv ==
  /\ offered # {} => AtGpu
  /\ "aw" \notin offered => awaddr = None /\ ~awAsked /\ ~ctrl.aw
  /\ "w" \notin offered => wdata = None /\ ~ctrl.w
  /\ gpu.at \notin Taken =>
       ~awready /\ ~wready /\ ~bvalid /\ ~bdone
  /\ gpu.at \notin Taken /\ gpu.code = "bootrom" =>
       /\ ctrl.aw => awAsked
       /\ ctrl.w => wdata = "vram"
       /\ (gpu.at = "aw" => awAsked /\ wdata = "vram" /\ offered = {"aw", "w"})
  /\ gpu.at = "w" => /\ offered = {"aw", "w"} /\ ~awAsked /\ (awaddr # None => awready)
                     /\ wdata = "vram" /\ ~wready /\ ~bvalid /\ ~bdone
  /\ gpu.at = "b" => /\ offered = {"aw", "w"} /\ ~awAsked /\ awaddr = None /\ ~awready
                     /\ (wdata # None => wready) /\ ~bvalid /\ ~bdone
  /\ gpu.at = "bdone" => /\ ~awAsked /\ awaddr = None /\ wdata = None /\ ~awready /\ ~wready
                         /\ IF bvalid THEN offered = {"aw", "w"} /\ ~bdone
                                      ELSE offered = {} /\ HandedOver
  /\ gpu.at \in {"disable", "copy"} \/ gpu.code = "firmware" =>
       offered = {} /\ ~bvalid /\ ~bdone /\ ~awready /\ ~wready

BootInv == BootType /\ HostInv /\ GpuInv /\ ReadInv /\ WriteInv

\* What the lists are, item by item.
LEMMA ProbeIs ==
  /\ GfxProbe \in Seq(Item) /\ Len(GfxProbe) = 5
  /\ GfxProbe[1] = Load(Magic) /\ GfxProbe[2] = Load(HwId) /\ GfxProbe[3] = Load(FwId)
  /\ GfxProbe[4] = Load(HostifRev) /\ GfxProbe[5] = Switch
<1>1. /\ Load(Magic) \in Item /\ Load(HwId) \in Item /\ Load(FwId) \in Item
      /\ Load(HostifRev) \in Item /\ Switch \in Item
  BY Zenon DEF Item
<1>2. PICK a, b, c, d, e : a = Load(Magic) /\ b = Load(HwId) /\ c = Load(FwId)
                           /\ d = Load(HostifRev) /\ e = Switch
  OBVIOUS
<1>3. GfxProbe = <<a, b, c, d, e>>
  BY <1>2, Zenon DEF GfxProbe
<1>4. a \in Item /\ b \in Item /\ c \in Item /\ d \in Item /\ e \in Item
  BY <1>1, <1>2, Zenon
<1> HIDE DEF Item
<1>5. /\ <<a, b, c, d, e>> \in Seq(Item) /\ Len(<<a, b, c, d, e>>) = 5
      /\ GfxProbe[1] = a /\ GfxProbe[2] = b /\ GfxProbe[3] = c /\ GfxProbe[4] = d /\ GfxProbe[5] = e
  BY <1>3, <1>4
<1> QED BY <1>2, <1>3, <1>5, Zenon

LEMMA FirstIs ==
  /\ First \in Seq(Item) /\ Len(First) = 9
  /\ First[1] = Store("front") /\ First[2] = Store("stream")
  /\ First[3] = Store("geometry") /\ First[4] = Store("dacen")
  /\ First[5] = Load(Magic) /\ First[6] = Load(HwId) /\ First[7] = Load(FwId)
  /\ First[8] = Load(HostifRev) /\ First[9] = Switch
<1>1. /\ Store("front") \in Item /\ Store("stream") \in Item
      /\ Store("geometry") \in Item /\ Store("dacen") \in Item
  BY Zenon DEF Item
<1>2. PICK a, b, c, d : a = Store("front") /\ b = Store("stream") /\ c = Store("geometry")
                        /\ d = Store("dacen")
  OBVIOUS
<1>3. VdcInit = <<a, b, c, d>>
  BY <1>2, Zenon DEF VdcInit
<1>4. a \in Item /\ b \in Item /\ c \in Item /\ d \in Item
  BY <1>1, <1>2, Zenon
<1> HIDE DEF Item
<1>5. /\ VdcInit \in Seq(Item) /\ Len(VdcInit) = 4
      /\ VdcInit[1] = a /\ VdcInit[2] = b /\ VdcInit[3] = c /\ VdcInit[4] = d
  BY <1>3, <1>4
<1>6. PICK v, p : v = VdcInit /\ p = GfxProbe
  OBVIOUS
<1>7. /\ First \in Seq(Item) /\ Len(First) = 9
      /\ \A k \in 1 .. 9 : First[k] = IF k <= 4 THEN v[k] ELSE p[k - 4]
  <2>1. v \in Seq(Item) /\ p \in Seq(Item) /\ Len(v) = 4 /\ Len(p) = 5 /\ First = v \o p
    BY <1>5, <1>6, ProbeIs, Zenon DEF First
  <2>2. v \in Seq(Item) /\ p \in Seq(Item)
    BY <2>1
  <2>3. /\ v \o p \in Seq(Item) /\ Len(v \o p) = Len(v) + Len(p)
        /\ \A k \in 1 .. Len(v) + Len(p) :
             (v \o p)[k] = IF k <= Len(v) THEN v[k] ELSE p[k - Len(v)]
    BY <2>2, ConcatProperties, Zenon
  <2>4. Len(v) = 4 /\ Len(p) = 5 /\ Len(v) + Len(p) = 9
    BY <2>1
  <2> QED BY <2>1, <2>3, <2>4, Zenon
<1>8. /\ First[1] = v[1] /\ First[2] = v[2] /\ First[3] = v[3] /\ First[4] = v[4]
      /\ First[5] = p[1] /\ First[6] = p[2] /\ First[7] = p[3] /\ First[8] = p[4] /\ First[9] = p[5]
  BY <1>7
<1> QED BY <1>2, <1>5, <1>6, <1>7, <1>8, ProbeIs, Zenon

LEMMA SecondIs ==
  /\ Second \in Seq(Item) /\ Len(Second) = 13
  /\ Second[1] = Store("entry") /\ Second[2] = Store("tbllo") /\ Second[3] = Store("tblhi")
  /\ Second[4] = Store("start") /\ Second[5] = Poll /\ Second[6] = Store("frame")
  /\ Second[7] = Poll /\ Second[8] = Store("handover")
  /\ Second[9] = Load(Magic) /\ Second[10] = Load(HwId) /\ Second[11] = Load(FwId)
  /\ Second[12] = Load(HostifRev) /\ Second[13] = Switch
<1>1. /\ Store("entry") \in Item /\ Store("tbllo") \in Item /\ Store("tblhi") \in Item
      /\ Store("start") \in Item /\ Store("frame") \in Item /\ Store("handover") \in Item
      /\ Poll \in Item
  BY Zenon DEF Item
<1>2. PICK a, b, c, d, e, f, g :
        a = Store("entry") /\ b = Store("tbllo") /\ c = Store("tblhi") /\ d = Store("start")
        /\ e = Poll /\ f = Store("frame") /\ g = Store("handover")
  OBVIOUS
<1>3. SgdmaMemcpy = <<a, b, c, d, e, f>> /\ GfxFwLoad = SgdmaMemcpy \o <<e, g>>
  BY <1>2, Zenon DEF SgdmaMemcpy, GfxFwLoad
<1>4. /\ a \in Item /\ b \in Item /\ c \in Item /\ d \in Item /\ e \in Item /\ f \in Item
      /\ g \in Item
  BY <1>1, <1>2, Zenon
<1> HIDE DEF Item
<1>5. PICK s, t : s = <<a, b, c, d, e, f>> /\ t = <<e, g>>
  OBVIOUS
<1>6. /\ s \in Seq(Item) /\ Len(s) = 6 /\ t \in Seq(Item) /\ Len(t) = 2
      /\ s[1] = a /\ s[2] = b /\ s[3] = c /\ s[4] = d /\ s[5] = e /\ s[6] = f
      /\ t[1] = e /\ t[2] = g
  BY <1>4, <1>5
<1>7. PICK l, p : l = GfxFwLoad /\ p = GfxProbe
  OBVIOUS
<1>8. /\ l \in Seq(Item) /\ Len(l) = 8
      /\ \A k \in 1 .. 8 : l[k] = IF k <= 6 THEN s[k] ELSE t[k - 6]
  <2>1. l = s \o t
    BY <1>3, <1>5, <1>7, Zenon
  <2>2. s \in Seq(Item) /\ t \in Seq(Item)
    BY <1>6, <2>1
  <2>3. /\ s \o t \in Seq(Item) /\ Len(s \o t) = Len(s) + Len(t)
        /\ \A k \in 1 .. Len(s) + Len(t) :
             (s \o t)[k] = IF k <= Len(s) THEN s[k] ELSE t[k - Len(s)]
    BY <2>2, ConcatProperties, Zenon
  <2>4. Len(s) = 6 /\ Len(t) = 2 /\ Len(s) + Len(t) = 8
    BY <1>6, <2>1
  <2> QED BY <2>1, <2>3, <2>4, Zenon
<1>9. /\ Second \in Seq(Item) /\ Len(Second) = 13
      /\ \A k \in 1 .. 13 : Second[k] = IF k <= 8 THEN l[k] ELSE p[k - 8]
  <2>1. Second = l \o p /\ p \in Seq(Item) /\ Len(p) = 5
    BY <1>7, ProbeIs, Zenon DEF Second
  <2>2. l \in Seq(Item) /\ p \in Seq(Item)
    BY <1>8, <2>1
  <2>3. /\ l \o p \in Seq(Item) /\ Len(l \o p) = Len(l) + Len(p)
        /\ \A k \in 1 .. Len(l) + Len(p) :
             (l \o p)[k] = IF k <= Len(l) THEN l[k] ELSE p[k - Len(l)]
    BY <2>2, ConcatProperties, Zenon
  <2>4. Len(l) = 8 /\ Len(p) = 5 /\ Len(l) + Len(p) = 13
    BY <1>8, <2>1
  <2> QED BY <2>1, <2>3, <2>4, Zenon
<1>10. /\ Second[1] = s[1] /\ Second[2] = s[2] /\ Second[3] = s[3] /\ Second[4] = s[4]
       /\ Second[5] = s[5] /\ Second[6] = s[6] /\ Second[7] = t[1] /\ Second[8] = t[2]
       /\ Second[9] = p[1] /\ Second[10] = p[2] /\ Second[11] = p[3] /\ Second[12] = p[4]
       /\ Second[13] = p[5]
  BY <1>8, <1>9
<1> QED BY <1>2, <1>6, <1>7, <1>9, <1>10, ProbeIs, Zenon

\* A list that is not at its end.
LEMMA RestIs ==
  ASSUME NEW S, NEW plan \in Seq(S), NEW k \in 0 .. Len(plan)
  PROVE  /\ Len(Rest(plan, k)) = Len(plan) - k
         /\ k < Len(plan) => /\ Rest(plan, k) # <<>> /\ Head(Rest(plan, k)) = plan[k + 1]
                             /\ Tail(Rest(plan, k)) = Rest(plan, k + 1)
         /\ k = Len(plan) => Rest(plan, k) = <<>>
<1>1. Len(plan) \in Nat /\ k \in Nat /\ k <= Len(plan)
  OBVIOUS
<1>2. \A j \in k + 1 .. Len(plan) : plan[j] \in S
  BY <1>1, ElementOfSeq
<1>3. Len(Rest(plan, k)) = Len(plan) - k /\ Rest(plan, k) \in Seq(S)
  BY <1>1, <1>2, SubSeqProperties DEF Rest
<1>4. CASE k < Len(plan)
  <2>1. Head(Rest(plan, k)) = plan[k + 1] /\ Tail(Rest(plan, k)) = Rest(plan, k + 1)
    BY <1>1, <1>4, HeadTailOfSubSeq DEF Rest
  <2> QED BY <1>3, <1>4, <2>1
<1>5. CASE k = Len(plan)
  BY <1>1, <1>5, SubSeqEmpty DEF Rest
<1> QED BY <1>1, <1>3, <1>4, <1>5

\* The stores that are under way are a queue.
LEMMA BetweenIs ==
  ASSUME NEW S, NEW plan \in Seq(S), NEW k \in 0 .. Len(plan), NEW i \in 0 .. k
  PROVE  /\ Between(plan, i, k) = <<>> <=> i = k
         /\ i < k => /\ Head(Between(plan, i, k)) = plan[i + 1].arg
                     /\ Tail(Between(plan, i, k)) = Between(plan, i + 1, k)
         /\ k < Len(plan) => Append(Between(plan, i, k), plan[k + 1].arg) = Between(plan, i, k + 1)
  BY SMTT(60) DEF Between
-----------------------------------------------------------------------------
(***************************************************************************)
(* The host and the devices.                                               *)
(***************************************************************************)
\* The operations of the lists.
LEMMA Ops ==
  /\ \A reg : Store(reg).op = "store" /\ Store(reg).arg = reg
  /\ \A reg : Load(reg).op = "load"
  /\ Poll.op = "poll" /\ Switch.op = "switch"
BY DEF Store, Load, Poll, Switch

LEMMA FirstOps ==
  /\ \A k \in 1 .. 4 : First[k].op = "store" /\ First[k].arg \in {"front", "stream", "geometry", "dacen"}
  /\ \A k \in 5 .. 8 : First[k].op = "load"
  /\ First[9].op = "switch"
<1>1. /\ First[1].op = "store" /\ First[2].op = "store" /\ First[3].op = "store" /\ First[4].op = "store"
      /\ First[1].arg = "front" /\ First[2].arg = "stream" /\ First[3].arg = "geometry"
      /\ First[4].arg = "dacen"
  BY FirstIs, Ops, Zenon
<1>2. First[5].op = "load" /\ First[6].op = "load" /\ First[7].op = "load" /\ First[8].op = "load"
  BY FirstIs, Ops, Zenon
<1>3. First[9].op = "switch"
  BY FirstIs, Ops, Zenon
<1>4. ASSUME NEW k \in 1 .. 4
      PROVE  First[k].op = "store" /\ First[k].arg \in {"front", "stream", "geometry", "dacen"}
  <2>1. k = 1 \/ k = 2 \/ k = 3 \/ k = 4
    BY <1>4
  <2> QED BY <1>1, <2>1
<1>5. ASSUME NEW k \in 5 .. 8 PROVE First[k].op = "load"
  <2>1. k = 5 \/ k = 6 \/ k = 7 \/ k = 8
    BY <1>5
  <2> QED BY <1>2, <2>1
<1> QED BY <1>3, <1>4, <1>5

LEMMA SecondOps ==
  /\ \A k \in {1, 2, 3, 4, 6, 8} : Second[k].op = "store"
  /\ Second[1].arg = "entry" /\ Second[2].arg = "tbllo" /\ Second[3].arg = "tblhi"
  /\ Second[4].arg = "start" /\ Second[6].arg = "frame" /\ Second[8].arg = "handover"
  /\ \A k \in {5, 7} : Second[k].op = "poll"
  /\ \A k \in 9 .. 12 : Second[k].op = "load"
  /\ Second[13].op = "switch"
<1>1. /\ Second[1].op = "store" /\ Second[2].op = "store" /\ Second[3].op = "store"
      /\ Second[4].op = "store" /\ Second[6].op = "store" /\ Second[8].op = "store"
      /\ Second[1].arg = "entry" /\ Second[2].arg = "tbllo" /\ Second[3].arg = "tblhi"
      /\ Second[4].arg = "start" /\ Second[6].arg = "frame" /\ Second[8].arg = "handover"
  BY SecondIs, Ops, ZenonT(60)
<1>2. Second[5].op = "poll" /\ Second[7].op = "poll" /\ Second[13].op = "switch"
  BY SecondIs, Ops, Zenon
<1>3. /\ Second[9].op = "load" /\ Second[10].op = "load"
      /\ Second[11].op = "load" /\ Second[12].op = "load"
  BY SecondIs, Ops, Zenon
<1>4. ASSUME NEW k \in 9 .. 12 PROVE Second[k].op = "load"
  <2>1. k = 9 \/ k = 10 \/ k = 11 \/ k = 12
    BY <1>4
  <2> QED BY <1>3, <2>1
<1> QED BY <1>1, <1>2, <1>4, Zenon

\* What the host sees of its list.
LEMMA PlaceIs ==
  ASSUME NEW S, NEW plan \in Seq(S), NEW k, NEW i, Place(plan, k, i)
  PROVE  /\ k \in Nat /\ i \in Nat /\ i <= k /\ k < Len(plan)
         /\ program # <<>> /\ Step = plan[k + 1] /\ Tail(program) = Rest(plan, k + 1)
         /\ Len(program) = Len(plan) - k
         /\ posted = <<>> <=> i = k
         /\ i < k => /\ plan[i + 1].op = "store" /\ Head(posted) = plan[i + 1].arg
                     /\ Tail(posted) = Between(plan, i + 1, k)
         /\ Append(posted, Step.arg) = Between(plan, i, k + 1)
<1>1. /\ k \in Nat /\ i \in Nat /\ i <= k /\ k < Len(plan) /\ Len(plan) \in Nat
      /\ program = Rest(plan, k) /\ posted = Between(plan, i, k)
      /\ \A j \in i + 1 .. k : plan[j].op = "store"
  BY DEF Place
<1>2. /\ program # <<>> /\ Step = plan[k + 1] /\ Tail(program) = Rest(plan, k + 1)
      /\ Len(program) = Len(plan) - k
  <2>1. k \in 0 .. Len(plan)
    BY <1>1
  <2> QED BY <1>1, <2>1, RestIs DEF Step
<1>3. /\ posted = <<>> <=> i = k
      /\ i < k => Head(posted) = plan[i + 1].arg /\ Tail(posted) = Between(plan, i + 1, k)
      /\ Append(posted, plan[k + 1].arg) = Between(plan, i, k + 1)
  <2>1. k \in 0 .. Len(plan) /\ i \in 0 .. k
    BY <1>1
  <2> QED BY <1>1, <2>1, BetweenIs, ZenonT(60)
<1>4. i < k => plan[i + 1].op = "store"
  BY <1>1
<1> QED BY <1>1, <1>2, <1>3, <1>4

\* The next place in a list, when the host is not at its end.
LEMMA PlaceNext ==
  ASSUME NEW S, NEW plan \in Seq(S), NEW k, NEW i, Place(plan, k, i), k + 1 < Len(plan),
         UNCHANGED host, ~reading', program' = Tail(program)
  PROVE  /\ posted' = Append(posted, Step.arg) /\ Step.op = "store" =>
              /\ Place(plan, k + 1, i)'
              /\ posted # <<>> => posted' # <<>> /\ Head(posted') = Head(posted)
         /\ UNCHANGED posted /\ i = k => Place(plan, k + 1, k + 1)'
<1>1. /\ k \in Nat /\ i \in Nat /\ i <= k /\ Step = plan[k + 1] /\ program' = Rest(plan, k + 1)
      /\ Append(posted, Step.arg) = Between(plan, i, k + 1) /\ (posted = <<>> <=> i = k)
  BY PlaceIs
<1>2. host' = "running" /\ ~reading' /\ \A j \in i + 1 .. k : plan[j].op = "store"
  BY DEF Place
<1>3. Len(plan) \in Nat /\ k + 1 \in 0 .. Len(plan) - 1 /\ i \in 0 .. k + 1 /\ k + 1 \in 0 .. k + 1
  BY <1>1
<1>4. ASSUME posted' = Append(posted, Step.arg), Step.op = "store"
      PROVE  /\ Place(plan, k + 1, i)'
             /\ posted # <<>> => posted' # <<>> /\ Head(posted') = Head(posted)
  <2>1. \A j \in i + 1 .. k + 1 : plan[j].op = "store"
    BY <1>1, <1>2, <1>4
  <2>2. posted' = Between(plan, i, k + 1)
    BY <1>1, <1>4, Zenon
  <2>3. program' = Rest(plan, k + 1)
    BY <1>1, Zenon
  <2>4. Place(plan, k + 1, i)'
    BY <1>2, <1>3, <2>1, <2>2, <2>3, Zenon DEF Place
  <2>5. CASE posted # <<>>
    <3>1. i < k /\ Head(posted) = plan[i + 1].arg
      BY <1>1, <2>5, PlaceIs, SMTT(60)
    <3>2. k + 1 \in 0 .. Len(plan) /\ i < k + 1
      BY <1>1, <1>3, <3>1
    <3> QED BY <1>3, <2>2, <2>4, <3>1, <3>2, BetweenIs
  <2> QED BY <2>4, <2>5
<1>5. ASSUME UNCHANGED posted, i = k PROVE Place(plan, k + 1, k + 1)'
  <2>1. posted' = Between(plan, k + 1, k + 1)
    <3>1. k + 1 \in 0 .. Len(plan) /\ k + 1 \in 0 .. k + 1
      BY <1>3
    <3> QED BY <1>1, <1>5, <3>1, BetweenIs
  <2>2. \A j \in (k + 1) + 1 .. k + 1 : plan[j].op = "store"
    BY <1>1
  <2> QED BY <1>1, <1>2, <1>3, <2>1, <2>2 DEF Place
<1> QED BY <1>4, <1>5

LEMMA WordsAre ==
  Words = 1 .. Len(Image) /\ Len(Image) \in Nat /\ Image \in [Words -> ImageWord]
BY ImageAssumption DEF Words, ImageWord

\* The devices stay as they are while the host does what is not for them.
LEMMA Stages ==
  ASSUME BootType
  PROVE  /\ Fresh => Stage(0)
         /\ Stage(4) /\ ~dma.busy => Stage(5)
         /\ Stage(6) => Stage(7)
         /\ \A i \in 7 .. 12 : Stage(i) <=> Stage(12)
         /\ Stage(12) => ~dma.busy /\ vram = Image
<1>1. Fresh => Stage(0)
  BY DEF Fresh, Stage
<1>2. ASSUME Stage(4), ~dma.busy PROVE Stage(5)
  <2>1. Copying /\ entry = "entry" /\ table = {"tbllo"} \cup {"tblhi"}
    BY <1>2 DEF Stage
  <2>2. dma.entry = "entry" /\ dma.at = Len(Image) + 1
    BY <1>2, <2>1 DEF Copying
  <2>3. \A w \in Words : vram[w] = Image[w]
    BY <2>1, <2>2, WordsAre DEF Copying, Copied
  <2>4. vram = Image
    BY <2>3, WordsAre DEF BootType
  <2> QED BY <1>2, <2>1, <2>2, <2>4 DEF Stage
<1>3. Stage(6) => Stage(7)
  BY DEF Stage
<1>4. \A i \in 7 .. 12 : Stage(i) <=> Stage(12)
  BY DEF Stage
<1>5. Stage(12) => ~dma.busy /\ vram = Image
  BY DEF Stage
<1> QED BY <1>1, <1>2, <1>3, <1>4, <1>5

LEMMA DevicesRest ==
  ASSUME UNCHANGED deviceVars
  PROVE  (Fresh' <=> Fresh) /\ \A i : Stage(i)' <=> Stage(i)
<1>1. UNCHANGED <<entry, table, dma, vram>>
  BY DEF deviceVars
<1>2. Copying' <=> Copying
  BY <1>1 DEF Copying, Copied
<1> QED BY <1>1, <1>2 DEF Fresh, Stage

\* A step of the host's program.
LEMMA HostStepIs ==
  ASSUME HostStep
  PROVE  /\ host = "running" /\ program # <<>> /\ ~reading
         /\ Step.op = "store" => /\ posted' = Append(posted, Step.arg) /\ program' = Tail(program)
                                 /\ UNCHANGED <<bootrom, reading, host, araddr>>
         /\ Step.op = "load" => /\ posted = <<>> /\ reading' = TRUE
                                /\ UNCHANGED <<program, bootrom, posted, host>>
         /\ Step.op = "poll" => /\ posted = <<>>
                                /\ program' = IF dma.busy THEN program ELSE Tail(program)
                                /\ UNCHANGED <<bootrom, posted, reading, host, araddr>>
         /\ Step.op = "switch" => InitGfxStep /\ UNCHANGED <<posted, reading, araddr>>
         /\ UNCHANGED deviceVars /\ UNCHANGED gpuVars
         /\ UNCHANGED <<offered, awaddr, wdata, arready, awready, wready, rvalid, ctrl, rdone, bdone,
                        arAsked, awAsked, bvalid>>
BY DEF HostStep, MayLoad

LEMMA InitGfxIs ==
  ASSUME InitGfxStep
  PROVE  \/ host' # "running" /\ program' = <<>> /\ UNCHANGED bootrom
         \/ ~bootrom /\ bootrom' = TRUE /\ program' = Second /\ UNCHANGED host
BY DEF InitGfxStep, Second

\* Where a list ends.
LEMMA PlanLens ==
  /\ First \in Seq(Item) /\ Len(First) = 9
  /\ Second \in Seq(Item) /\ Len(Second) = 13
BY FirstIs, SecondIs

\* How the host's steps leave what the GPU's invariants look at.
HostKeeps ==
  /\ HostInv'
  /\ HandedOver => HandedOver'
  /\ AtGpu => AtGpu'

LEMMA HostStepFirst ==
  ASSUME BootType, HostStep, ~bootrom, Fresh, NEW k \in 0 .. 8, NEW i \in 0 .. 8, Place(First, k, i)
  PROVE  HostKeeps
<1>1. /\ k \in Nat /\ i \in Nat /\ i <= k /\ Step = First[k + 1] /\ (posted = <<>> <=> i = k)
      /\ i < k => First[i + 1].op = "store" /\ Head(posted) = First[i + 1].arg
  BY PlanLens, PlaceIs, SMTT(60)
<1>2. ~HandedOver
  BY DEF HandedOver
<1>3. (Fresh' <=> Fresh) /\ \A j : Stage(j)' <=> Stage(j)
  BY HostStepIs, DevicesRest
<1>4. CASE k <= 3
  <2>1. Step.op = "store"
    BY <1>1, <1>4, FirstOps
  <2>2. /\ posted' = Append(posted, Step.arg) /\ program' = Tail(program)
        /\ UNCHANGED <<bootrom, reading, host>> /\ ~reading
    BY <2>1, HostStepIs
  <2>3. k + 1 < Len(First)
    BY <1>1, <1>4, PlanLens
  <2>4. /\ Place(First, k + 1, i)'
        /\ posted # <<>> => posted' # <<>> /\ Head(posted') = Head(posted)
    BY <2>1, <2>2, <2>3, PlanLens, PlaceNext
  <2>5. k + 1 \in 0 .. 8
    BY <1>1, <1>4
  <2>6. HostInv'
    BY <1>3, <2>2, <2>4, <2>5 DEF HostInv, Running
  <2> QED BY <1>2, <2>4, <2>6 DEF HostKeeps, AtGpu
<1>5. CASE k \in 4 .. 7
  <2>1. Step.op = "load"
    BY <1>1, <1>5, FirstOps
  <2>2. posted = <<>> /\ reading' = TRUE /\ UNCHANGED <<program, bootrom, posted, host>>
    BY <2>1, HostStepIs
  <2>3. Place(First, k, i)'
    BY <1>1, <2>1, <2>2 DEF Place
  <2>4. HostInv'
    BY <1>3, <2>2, <2>3 DEF HostInv, Running
  <2> QED BY <1>2, <2>2, <2>4 DEF HostKeeps, AtGpu
<1>6. CASE k = 8
  <2>1. Step.op = "switch"
    BY <1>1, <1>6, FirstOps
  <2>2. i = k
    BY <1>1, <1>6, FirstOps DEF Place
  <2>3. posted = <<>> /\ InitGfxStep /\ UNCHANGED <<posted, reading>> /\ ~reading
    BY <1>1, <2>1, <2>2, HostStepIs
  <2>4. CASE host' # "running" /\ program' = <<>> /\ UNCHANGED bootrom
    BY <1>2, <1>3, <2>3, <2>4 DEF HostKeeps, HostInv, Stopped, AtGpu
  <2>5. CASE bootrom' = TRUE /\ program' = Second /\ UNCHANGED host
    <3>1. Place(Second, 0, 0)'
      <4>1. Second = Rest(Second, 0)
        BY PlanLens, SubSeqFull DEF Rest
      <4>2. posted' = Between(Second, 0, 0)
        <5>1. 0 \in 0 .. Len(Second) /\ 0 \in 0 .. 0
          BY PlanLens
        <5> QED BY <2>3, <5>1, PlanLens, BetweenIs
      <4> QED BY <2>3, <2>5, <4>1, <4>2, PlanLens DEF Place
    <3>2. Stage(0)'
      BY <1>3, Stages
    <3>3. HostInv'
      BY <2>5, <3>1, <3>2 DEF HostInv, Running
    <3> QED BY <1>2, <2>3, <3>3 DEF HostKeeps, AtGpu
  <2> QED BY <2>3, <2>4, <2>5, InitGfxIs
<1> QED BY <1>1, <1>4, <1>5, <1>6

LEMMA HostStepSecond ==
  ASSUME BootType, HostStep, bootrom, NEW k \in 0 .. 12, NEW i \in 0 .. 12, Place(Second, k, i),
         Stage(i)
  PROVE  HostKeeps
<1>1. /\ k \in Nat /\ i \in Nat /\ i <= k /\ Step = Second[k + 1] /\ (posted = <<>> <=> i = k)
      /\ i < k => Second[i + 1].op = "store" /\ Head(posted) = Second[i + 1].arg
      /\ Len(program) = 13 - k
  <2>1. Second \in Seq(Item)
    BY PlanLens
  <2>2. /\ k \in Nat /\ i \in Nat /\ i <= k /\ Step = Second[k + 1] /\ (posted = <<>> <=> i = k)
        /\ i < k => Second[i + 1].op = "store" /\ Head(posted) = Second[i + 1].arg
        /\ Len(program) = Len(Second) - k
    BY <2>1, PlaceIs
  <2> QED BY <2>2, PlanLens
<1>2. (Fresh' <=> Fresh) /\ \A j : Stage(j)' <=> Stage(j)
  BY HostStepIs, DevicesRest
<1>3. HandedOver => k >= 8
  BY <1>1 DEF HandedOver
<1>4. CASE k \in {0, 1, 2, 3, 5, 7}
  <2>1. Step.op = "store"
    BY <1>1, <1>4, SecondOps
  <2>2. /\ posted' = Append(posted, Step.arg) /\ program' = Tail(program)
        /\ UNCHANGED <<bootrom, reading, host>> /\ ~reading
    BY <2>1, HostStepIs
  <2>3. k + 1 < Len(Second)
    BY <1>1, <1>4, PlanLens
  <2>4. /\ Place(Second, k + 1, i)'
        /\ posted # <<>> => posted' # <<>> /\ Head(posted') = Head(posted)
    BY <2>1, <2>2, <2>3, PlanLens, PlaceNext
  <2>5. k + 1 \in 0 .. 12
    BY <1>1, <1>4
  <2>6. HostInv'
    BY <1>2, <2>2, <2>4, <2>5 DEF HostInv, Running
  <2>7. ~HandedOver
    BY <1>1, <1>3, <1>4
  <2> QED BY <2>4, <2>6, <2>7 DEF HostKeeps, AtGpu
<1>5. CASE k \in {4, 6}
  <2>1. Step.op = "poll"
    BY <1>1, <1>5, SecondOps
  <2>2. /\ posted = <<>> /\ program' = IF dma.busy THEN program ELSE Tail(program)
        /\ UNCHANGED <<bootrom, posted, reading, host>> /\ ~reading
    BY <2>1, HostStepIs
  <2>3. i = k
    BY <1>1, <2>2
  <2>4. ~HandedOver
    BY <1>1, <1>3, <1>5
  <2>5. CASE dma.busy
    <3>1. Place(Second, k, i)'
      BY <2>2, <2>5 DEF Place
    <3>2. HostInv'
      BY <1>2, <2>2, <3>1 DEF HostInv, Running
    <3> QED BY <2>2, <2>4, <3>2 DEF HostKeeps, AtGpu
  <2>6. CASE ~dma.busy
    <3>1. k + 1 < Len(Second) /\ k + 1 \in 0 .. 12
      BY <1>5, PlanLens
    <3>2. Place(Second, k + 1, k + 1)'
      BY <2>2, <2>3, <2>6, <3>1, PlanLens, PlaceNext
    <3>3. Stage(k + 1)
      BY <1>5, <2>3, <2>6, Stages
    <3>4. HostInv'
      BY <1>2, <2>2, <3>1, <3>2, <3>3 DEF HostInv, Running
    <3> QED BY <2>2, <2>4, <3>4 DEF HostKeeps, AtGpu
  <2> QED BY <2>5, <2>6
<1>6. CASE k \in 8 .. 11
  <2>1. Step.op = "load"
    BY <1>1, <1>6, SecondOps
  <2>2. posted = <<>> /\ reading' = TRUE /\ UNCHANGED <<program, bootrom, posted, host>>
    BY <2>1, HostStepIs
  <2>3. Place(Second, k, i)'
    BY <1>1, <2>1, <2>2 DEF Place
  <2>4. HostInv'
    BY <1>2, <2>2, <2>3 DEF HostInv, Running
  <2> QED BY <2>2, <2>4 DEF HostKeeps, AtGpu, HandedOver
<1>7. CASE k = 12
  <2>1. Step.op = "switch"
    BY <1>1, <1>7, SecondOps
  <2>2. i = k
    BY <1>1, <1>7, SecondOps DEF Place
  <2>3. posted = <<>> /\ InitGfxStep /\ UNCHANGED <<posted, reading>> /\ ~reading
    BY <1>1, <2>1, <2>2, HostStepIs
  <2>4. host' # "running" /\ program' = <<>> /\ UNCHANGED bootrom
    BY <2>3, InitGfxIs
  <2>5. HostInv'
    BY <1>2, <1>7, <2>2, <2>3, <2>4 DEF HostInv, Stopped
  <2> QED BY <2>3, <2>4, <2>5 DEF HostKeeps, AtGpu, HandedOver
<1> QED BY <1>1, <1>4, <1>5, <1>6, <1>7

LEMMA HostStepKeeps ==
  ASSUME BootType, HostInv, HostStep
  PROVE  HostKeeps
<1>1. ~Stopped
  BY HostStepIs DEF Stopped
<1> QED BY <1>1, HostStepFirst, HostStepSecond DEF HostInv, Running

\* A posted store that reaches its device.
LEMMA LandKeeps ==
  ASSUME BootType, HostInv, Land
  PROVE  /\ HostInv' /\ ~AtGpu /\ ~HandedOver
         /\ UNCHANGED <<emuVars, program, bootrom, offered, reading, gpuVars>>
<1> DEFINE reg == Head(posted)
<1>1. /\ posted # <<>> /\ reg # "handover" /\ posted' = Tail(posted)
      /\ entry' = (CASE reg = "entry" -> "entry" [] reg = "frame" -> "other" [] OTHER -> entry)
      /\ table' = IF reg \in {"tbllo", "tblhi"} THEN table \cup {reg} ELSE table
      /\ dma' = IF reg = "start" THEN [busy |-> TRUE, at |-> 1, entry |-> "none"] ELSE dma
      /\ UNCHANGED <<emuVars, program, bootrom, offered, reading, host, vram, gpuVars>>
  BY DEF Land
<1> HIDE DEF reg
<1>2. ~AtGpu /\ ~HandedOver
  BY <1>1 DEF AtGpu, HandedOver, reg
<1>3. ASSUME NEW S, NEW plan \in Seq(S), NEW k, NEW i, Place(plan, k, i)
      PROVE  /\ i < k /\ k \in Nat /\ i \in Nat /\ k < Len(plan)
             /\ plan[i + 1].op = "store" /\ reg = plan[i + 1].arg /\ Place(plan, k, i + 1)'
  <2>1. /\ k \in Nat /\ i \in Nat /\ i < k /\ k < Len(plan)
        /\ plan[i + 1].op = "store" /\ reg = plan[i + 1].arg
        /\ posted' = Between(plan, i + 1, k)
    BY <1>1, <1>3, PlaceIs DEF reg
  <2>2. /\ host' = "running" /\ k \in 0 .. Len(plan) - 1 /\ i + 1 \in 0 .. k
        /\ program' = Rest(plan, k) /\ \A j \in (i + 1) + 1 .. k : plan[j].op = "store"
        /\ ~reading'
    BY <1>1, <1>3, <2>1 DEF Place
  <2> QED BY <2>1, <2>2 DEF Place
<1>4. ASSUME ~bootrom, Fresh, NEW k \in 0 .. 8, NEW i \in 0 .. 8, Place(First, k, i)
      PROVE  HostInv'
  <2>1. /\ i < k /\ First[i + 1].op = "store" /\ reg = First[i + 1].arg
        /\ Place(First, k, i + 1)' /\ i + 1 \in 0 .. 8
    BY <1>3, <1>4, PlanLens
  <2>2. i + 1 \in 1 .. 4
    BY <1>4, <2>1, FirstOps
  <2>3. reg \in {"front", "stream", "geometry", "dacen"}
    BY <2>1, <2>2, FirstOps
  <2>4. Fresh'
    BY <1>1, <1>4, <2>3 DEF Fresh
  <2> QED BY <1>1, <1>4, <2>1, <2>4 DEF HostInv, Running
<1>5. ASSUME bootrom, NEW k \in 0 .. 12, NEW i \in 0 .. 12, Place(Second, k, i), Stage(i)
      PROVE  HostInv'
  <2>1. /\ i < k /\ Second[i + 1].op = "store" /\ reg = Second[i + 1].arg
        /\ Place(Second, k, i + 1)' /\ i + 1 \in 0 .. 12
    BY <1>3, <1>5, PlanLens
  <2>2. i \in {0, 1, 2, 3, 5}
    BY <1>1, <1>5, <2>1, SecondOps
  <2>3. Stage(i + 1)'
    <3>1. CASE i = 0
      BY <1>1, <1>5, <2>1, <3>1, SecondOps DEF Stage
    <3>2. CASE i = 1
      BY <1>1, <1>5, <2>1, <3>2, SecondOps DEF Stage
    <3>3. CASE i = 2
      BY <1>1, <1>5, <2>1, <3>3, SecondOps DEF Stage
    <3>4. CASE i = 3
      <4>1. reg = "start" /\ dma' = [busy |-> TRUE, at |-> 1, entry |-> "none"]
        BY <1>1, <2>1, <3>4, SecondOps
      <4>2. Copying'
        BY <4>1, WordsAre DEF Copying, Copied
      <4>3. entry' = entry /\ table' = table
        BY <1>1, <4>1
      <4> QED BY <1>5, <3>4, <4>2, <4>3 DEF Stage
    <3>5. CASE i = 5
      BY <1>1, <1>5, <2>1, <3>5, SecondOps DEF Stage
    <3> QED BY <2>2, <3>1, <3>2, <3>3, <3>4, <3>5
  <2> QED BY <1>1, <1>5, <2>1, <2>3 DEF HostInv, Running
<1>6. ~Stopped
  BY <1>1 DEF Stopped
<1> QED BY <1>1, <1>2, <1>4, <1>5, <1>6 DEF HostInv, Running

\* A step of the DMA.
LEMMA DmaKeeps ==
  ASSUME BootType, HostInv, DmaStep
  PROVE  /\ HostInv' /\ BootType'
         /\ UNCHANGED <<emuVars, program, bootrom, posted, offered, reading, gpuVars>>
<1>1. /\ dma.busy
      /\ UNCHANGED <<emuVars, program, bootrom, posted, reading, host, offered, entry, table, gpuVars>>
  BY DEF DmaStep, hostVars
<1>2. ~Fresh /\ ~Stopped
  BY <1>1, Stages DEF Fresh, Idle, Stopped
<1>3. PICK k \in 0 .. 12, i \in 0 .. 12 : bootrom /\ Place(Second, k, i) /\ Stage(i)
  BY <1>2 DEF HostInv, Running
<1>4. i = 4 /\ Copying /\ entry = "entry" /\ table = {"tbllo", "tblhi"}
  BY <1>1, <1>3 DEF Stage, Idle
<1>5. Copying' /\ BootType'
  <2>1. CASE dma.entry = "none"
    <3>1. dma' = [dma EXCEPT !.entry = "entry"] /\ UNCHANGED vram
      BY <1>4, <2>1 DEF DmaStep
    <3>2. /\ dma'.busy /\ dma'.at = 1 /\ dma'.entry = "entry"
          /\ dma' \in [busy : BOOLEAN, at : 1 .. Len(Image) + 1, entry : {"none", "entry", "other"}]
      BY <1>1, <1>4, <2>1, <3>1 DEF Copying, BootType
    <3> QED BY <1>1, <1>4, <3>1, <3>2, WordsAre DEF BootType, Copying, Copied, gpuVars, emuVars
  <2>2. CASE dma.entry # "none" /\ dma.at \in Words
    <3>1. dma' = [dma EXCEPT !.at = @ + 1] /\ vram' = [vram EXCEPT ![dma.at] = Image[dma.at]]
      BY <1>4, <2>2 DEF DmaStep, Copying
    <3>2. /\ dma'.busy /\ dma'.at = dma.at + 1 /\ dma'.entry = "entry" /\ dma.at \in Nat
          /\ dma' \in [busy : BOOLEAN, at : 1 .. Len(Image) + 1, entry : {"none", "entry", "other"}]
      <4>1. dma \in [busy : BOOLEAN, at : 1 .. Len(Image) + 1, entry : {"none", "entry", "other"}]
        BY DEF BootType
      <4>2. dma.at + 1 \in 1 .. Len(Image) + 1 /\ dma.at \in Nat
        BY <2>2, WordsAre
      <4>3. dma.entry = "entry"
        BY <1>4, <2>2 DEF Copying
      <4> QED BY <1>1, <3>1, <4>1, <4>2, <4>3
    <3>3. /\ vram' \in [Words -> ImageWord \cup {None}]
          /\ \A w \in Words : vram'[w] = IF w = dma.at THEN Image[w] ELSE vram[w]
      BY <2>2, <3>1, WordsAre DEF BootType
    <3>4. Copied'
      BY <1>4, <3>2, <3>3, WordsAre DEF Copying, Copied
    <3> QED BY <1>1, <1>4, <3>2, <3>3, <3>4 DEF BootType, Copying, gpuVars, emuVars
  <2>3. CASE dma.entry # "none" /\ dma.at \notin Words
    <3>1. dma' = [dma EXCEPT !.busy = FALSE] /\ UNCHANGED vram
      BY <2>3 DEF DmaStep
    <3>2. dma.at = Len(Image) + 1
      BY <2>3, WordsAre DEF BootType
    <3>3. /\ ~dma'.busy /\ dma'.at = dma.at /\ dma'.entry = "entry"
          /\ dma' \in [busy : BOOLEAN, at : 1 .. Len(Image) + 1, entry : {"none", "entry", "other"}]
      BY <1>4, <2>3, <3>1 DEF Copying, BootType
    <3> QED BY <1>1, <1>4, <3>1, <3>2, <3>3 DEF BootType, Copying, Copied, gpuVars, emuVars
  <2> QED BY <2>1, <2>2, <2>3
<1>6. Stage(i)'
  BY <1>1, <1>3, <1>4, <1>5 DEF Stage
<1>7. Place(Second, k, i)'
  BY <1>1, <1>3 DEF Place
<1> QED BY <1>1, <1>3, <1>5, <1>6, <1>7 DEF HostInv, Running

-----------------------------------------------------------------------------
(***************************************************************************)
(* What is not the GPU's clock keeps the rest of the invariant.            *)
(***************************************************************************)
LEMMA HostStepRest ==
  ASSUME BootInv, HostStep
  PROVE  BootInv'
<1>1. HostInv' /\ (HandedOver => HandedOver') /\ (AtGpu => AtGpu')
  BY HostStepKeeps DEF BootInv, HostKeeps
<1>2. ~reading /\ UNCHANGED deviceVars /\ UNCHANGED gpuVars
      /\ UNCHANGED <<offered, awaddr, wdata, arready, awready, wready, rvalid, ctrl, rdone, bdone,
                     arAsked, awAsked, bvalid>>
  BY HostStepIs
<1>3. UNCHANGED <<dma, vram, gpu, ram>>
  BY <1>2 DEF deviceVars, gpuVars
<1>4. UNCHANGED <<araddr, reading>> \/ reading' = TRUE
  BY DEF HostStep
<1>5. bootrom' = bootrom \/ bootrom' = TRUE
  BY DEF HostStep, InitGfxStep
<1>6. BootType'
  BY <1>2, <1>3, <1>4, <1>5 DEF BootInv, BootType
<1>7. GpuInv'
  BY <1>1, <1>3 DEF BootInv, GpuInv
<1>8. ReadInv'
  BY <1>2, <1>3, <1>4 DEF BootInv, ReadInv
<1>9. WriteInv'
  BY <1>1, <1>2, <1>3 DEF BootInv, WriteInv
<1> QED BY <1>1, <1>6, <1>7, <1>8, <1>9 DEF BootInv

LEMMA LandRest ==
  ASSUME BootInv, Land
  PROVE  BootInv'
<1>1. /\ HostInv' /\ ~AtGpu /\ ~HandedOver
      /\ UNCHANGED <<emuVars, program, bootrom, offered, reading, gpuVars>>
  BY LandKeeps DEF BootInv
<1>2. UNCHANGED <<araddr, awaddr, wdata, arready, awready, wready, rvalid, ctrl, rdone, bdone, arAsked,
                  awAsked, bvalid, gpu, ram, bootrom, offered, reading, vram>>
  BY <1>1 DEF emuVars, gpuVars, Land
<1>3. dma' = dma \/ dma' = [busy |-> TRUE, at |-> 1, entry |-> "none"]
  BY DEF Land
<1>4. dma' \in [busy : BOOLEAN, at : 1 .. Len(Image) + 1, entry : {"none", "entry", "other"}]
  <2>1. 1 \in 1 .. Len(Image) + 1
    BY WordsAre
  <2>2. PICK place : place = 1 .. Len(Image) + 1
    OBVIOUS
  <2>3. [busy |-> TRUE, at |-> 1, entry |-> "none"]
          \in [busy : BOOLEAN, at : place, entry : {"none", "entry", "other"}]
    BY <2>1, <2>2
  <2> QED BY <1>3, <2>2, <2>3 DEF BootInv, BootType
<1>5. BootType'
  BY <1>2, <1>4 DEF BootInv, BootType
<1>6. GpuInv'
  BY <1>1, <1>2 DEF BootInv, GpuInv
<1>7. ReadInv'
  BY <1>2 DEF BootInv, ReadInv
<1>8. WriteInv'
  BY <1>1, <1>2 DEF BootInv, WriteInv
<1> QED BY <1>1, <1>5, <1>6, <1>7, <1>8 DEF BootInv

LEMMA DmaRest ==
  ASSUME BootInv, DmaStep
  PROVE  BootInv'
<1>1. /\ HostInv' /\ BootType'
      /\ UNCHANGED <<emuVars, program, bootrom, posted, offered, reading, gpuVars>>
  BY DmaKeeps DEF BootInv
<1>2. UNCHANGED <<araddr, awaddr, wdata, arready, awready, wready, rvalid, ctrl, rdone, bdone, arAsked,
                  awAsked, bvalid, gpu, ram, bootrom, offered, reading, posted, program>>
  BY <1>1 DEF emuVars, gpuVars
<1>3. (HandedOver' <=> HandedOver) /\ (AtGpu' <=> AtGpu)
  BY <1>2 DEF HandedOver, AtGpu
<1>4. GpuInv'
  BY <1>2, <1>3 DEF BootInv, GpuInv
<1>5. ReadInv'
  BY <1>2 DEF BootInv, ReadInv
<1>6. WriteInv'
  BY <1>2, <1>3 DEF BootInv, WriteInv
<1> QED BY <1>1, <1>4, <1>5, <1>6 DEF BootInv

LEMMA OfferRest ==
  ASSUME BootInv, NEW channel \in {"aw", "w"}, Offer(channel)
  PROVE  BootInv'
<1>1. /\ AtGpu /\ channel \notin offered /\ offered' = offered \cup {channel}
      /\ awaddr' = IF channel = "aw" THEN FwId ELSE awaddr
      /\ wdata' = IF channel = "w" THEN "vram" ELSE wdata
      /\ UNCHANGED <<hostVars, deviceVars, gpuVars, araddr, arready, awready, wready, rvalid, arint,
                     awint, ctrl, rdone, bdone, arAsked, awAsked, rData, bvalid, irq>>
  BY DEF Offer, AtGpu
<1>2. UNCHANGED <<program, bootrom, posted, reading, host, entry, table, dma, vram, gpu, ram, araddr,
                  arready, awready, wready, rvalid, ctrl, rdone, bdone, arAsked, awAsked, bvalid>>
  BY <1>1 DEF hostVars, deviceVars, gpuVars
<1>3. (HandedOver' <=> HandedOver) /\ (AtGpu' <=> AtGpu) /\ ~HandedOver
  BY <1>1, <1>2 DEF HandedOver, AtGpu
<1>4. HostInv'
  <2>1. (Fresh' <=> Fresh) /\ \A j : Stage(j)' <=> Stage(j)
    BY <1>1, DevicesRest
  <2>2. \A plan, k, i : Place(plan, k, i)' <=> Place(plan, k, i)
    BY <1>2 DEF Place
  <2>3. Stopped' <=> Stopped
    BY <1>2, <2>1 DEF Stopped
  <2>4. Running' <=> Running
    BY <1>2, <2>1, <2>2 DEF Running
  <2> QED BY <2>3, <2>4 DEF BootInv, HostInv
<1>5. BootType'
  BY <1>1, <1>2 DEF BootInv, BootType
<1>6. GpuInv'
  BY <1>2, <1>3 DEF BootInv, GpuInv
<1>7. ReadInv'
  BY <1>2 DEF BootInv, ReadInv
<1>8. gpu.at \notin Taken /\ gpu.code = "bootrom" /\ gpu.at # "aw"
  <2>1. gpu.code = "bootrom" /\ gpu.at \notin {"disable", "copy"}
    BY <1>3 DEF BootInv, GpuInv, BootType
  <2>2. offered # {"aw", "w"} /\ gpu.at # "bdone"
    BY <1>1, <1>3 DEF BootInv, WriteInv
  <2>3. gpu.at \notin {"w", "b"}
    BY <2>2 DEF BootInv, WriteInv
  <2>4. gpu.at \notin Taken
    BY <2>1, <2>2, <2>3 DEF Taken
  <2> QED BY <2>1, <2>2, <2>4 DEF BootInv, WriteInv
<1>9. WriteInv'
  <2>1. /\ ~awready /\ ~wready /\ ~bvalid /\ ~bdone
        /\ ctrl.aw => awAsked
        /\ ctrl.w => wdata = "vram"
        /\ "aw" \notin offered => awaddr = None /\ ~awAsked /\ ~ctrl.aw
        /\ "w" \notin offered => wdata = None /\ ~ctrl.w
    BY <1>8 DEF BootInv, WriteInv
  <2>2. CASE channel = "aw"
    BY <1>1, <1>2, <1>3, <1>8, <2>1, <2>2 DEF WriteInv, Taken
  <2>3. CASE channel = "w"
    BY <1>1, <1>2, <1>3, <1>8, <2>1, <2>3 DEF WriteInv, Taken
  <2> QED BY <2>2, <2>3
<1> QED BY <1>4, <1>5, <1>6, <1>7, <1>9 DEF BootInv

-----------------------------------------------------------------------------
(***************************************************************************)
(* The GPU's clock.                                                        *)
(***************************************************************************)
Access(go) == IF go THEN GpuAccess ELSE NoAccess
Uses(go, at) == go /\ gpu.at = at

\* The registers that its program uses.
LEMMA Accesses ==
  ASSUME NEW go \in BOOLEAN
  PROVE  /\ Reads(Access(go), "AR") <=> Uses(go, "ar")
         /\ Reads(Access(go), "AW") <=> Uses(go, "aw")
         /\ Reads(Access(go), "W") <=> Uses(go, "w")
         /\ Writes(Access(go), "R") <=> Uses(go, "r")
         /\ Writes(Access(go), "B") <=> Uses(go, "b")
         /\ Reads(Access(go), "CTRL") <=> go /\ gpu.at \in {"look", "rdone", "bdone"}
<1>1. \A reg : Get(reg).reg = reg /\ ~Get(reg).write
  BY DEF Get, NoAccess
<1>2. \A reg, value : Set(reg, value).reg = reg /\ Set(reg, value).write
  BY DEF Set
<1>3. NoAccess.reg = "none"
  BY DEF NoAccess
<1>4. CASE ~go
  BY <1>3, <1>4 DEF Access, Uses, Reads, Writes
<1>5. CASE go
  <2>1. Access(go) = GpuAccess /\ \A at : Uses(go, at) <=> gpu.at = at
    BY <1>5 DEF Access, Uses
  <2>2. PICK a : a = GpuAccess
    OBVIOUS
  <2>3. /\ gpu.at = "enable" => a = Set("CTRL", 3)
        /\ gpu.at \in {"look", "rdone", "bdone"} => a = Get("CTRL")
        /\ gpu.at = "ar" => a = Get("AR")
        /\ gpu.at = "aw" => a = Get("AW")
        /\ gpu.at = "w" => a = Get("W")
        /\ gpu.at = "r" => a = Set("R", ReadData)
        /\ gpu.at = "b" => a = Set("B", 1)
        /\ gpu.at = "disable" => a = Set("CTRL", 0)
        /\ gpu.at \notin {"enable", "look", "rdone", "bdone", "ar", "aw", "w", "r", "b", "disable"}
             => a = NoAccess
    BY <2>2 DEF GpuAccess
  <2>4. /\ gpu.at \in {"enable", "disable"} => a.reg = "CTRL" /\ a.write
        /\ gpu.at \in {"look", "rdone", "bdone"} => a.reg = "CTRL" /\ ~a.write
        /\ gpu.at = "ar" => a.reg = "AR" /\ ~a.write
        /\ gpu.at = "aw" => a.reg = "AW" /\ ~a.write
        /\ gpu.at = "w" => a.reg = "W" /\ ~a.write
        /\ gpu.at = "r" => a.reg = "R" /\ a.write
        /\ gpu.at = "b" => a.reg = "B" /\ a.write
        /\ gpu.at \notin {"enable", "look", "rdone", "bdone", "ar", "aw", "w", "r", "b", "disable"}
             => a.reg = "none"
    BY <1>1, <1>2, <1>3, <2>3
  <2> QED BY <1>5, <2>1, <2>2, <2>4 DEF Reads, Writes
<1> QED BY <1>4, <1>5

\* What is in the registers after a cycle.
ReadRegs(go, takes) ==
  /\ rvalid' <=> Uses(go, "r") \/ (rvalid /\ ~takes)
  /\ arready' <=> araddr # None /\ Uses(go, "ar")
  /\ ctrl'.ar <=> araddr # None
  /\ rdone' <=> (rvalid /\ takes) \/ (rdone /\ ~(go /\ gpu.at \in {"look", "rdone", "bdone"}))
  /\ arAsked' <=> (araddr # None /\ ~arready /\ ~arAsked) \/ (arAsked /\ ~Uses(go, "ar"))
  /\ araddr' = IF arready THEN None ELSE araddr
WriteRegs(go, takes) ==
  /\ bvalid' <=> (bvalid \/ Uses(go, "b")) /\ ~(bvalid /\ takes)
  /\ wready' <=> wdata # None /\ Uses(go, "w")
  /\ awready' <=> awaddr # None /\ Uses(go, "aw")
  /\ ctrl'.aw <=> awaddr # None
  /\ ctrl'.w <=> wdata # None
  /\ bdone' <=> (bvalid /\ takes) \/ (bdone /\ ~(go /\ gpu.at \in {"look", "rdone", "bdone"}))
  /\ awAsked' <=> (awaddr # None /\ ~awready /\ ~awAsked) \/ (awAsked /\ ~Uses(go, "aw"))
  /\ awaddr' = IF awready THEN None ELSE awaddr
  /\ wdata' = IF wready THEN None ELSE wdata
  /\ offered' = IF bvalid /\ takes THEN {} ELSE offered
  /\ posted' = IF bvalid /\ takes THEN Tail(posted) ELSE posted

LEMMA Regs ==
  ASSUME NEW go \in BOOLEAN, NEW takes \in BOOLEAN, Clock(go, takes)
  PROVE  ReadRegs(go, takes) /\ WriteRegs(go, takes)
<1>1. /\ EmuEdge(Access(go), takes, takes)
      /\ araddr' = IF arready THEN None ELSE araddr
      /\ awaddr' = IF awready THEN None ELSE awaddr
      /\ wdata' = IF wready THEN None ELSE wdata
      /\ posted' = IF TakesDone(takes) THEN Tail(posted) ELSE posted
      /\ offered' = IF TakesDone(takes) THEN {} ELSE offered
  BY Zenon DEF Clock, Access
<1>2. PICK a : a = Access(go)
  OBVIOUS
<1>3. EmuEdge(a, takes, takes)
  BY <1>1, <1>2
<1>4. /\ rvalid' = (Writes(a, "R") \/ (rvalid /\ ~takes))
      /\ wready' = (wdata # None /\ Reads(a, "W"))
      /\ arready' = (araddr # None /\ Reads(a, "AR"))
      /\ awready' = (awaddr # None /\ Reads(a, "AW"))
      /\ ctrl' = [ar |-> araddr # None, aw |-> awaddr # None, w |-> wdata # None]
      /\ rdone' = (TakesRead(takes) \/ (rdone /\ ~Reads(a, "CTRL")))
      /\ bdone' = (TakesDone(takes) \/ (bdone /\ ~Reads(a, "CTRL")))
      /\ arAsked' = ((araddr # None /\ ~arready /\ ~arAsked) \/ (arAsked /\ ~Reads(a, "AR")))
      /\ awAsked' = ((awaddr # None /\ ~awready /\ ~awAsked) \/ (awAsked /\ ~Reads(a, "AW")))
      /\ bvalid' = ((bvalid \/ Writes(a, "B")) /\ ~TakesDone(takes))
  BY <1>3, Zenon DEF EmuEdge, Rdone, Bdone
<1>5. /\ Reads(a, "AR") <=> Uses(go, "ar")
      /\ Reads(a, "AW") <=> Uses(go, "aw")
      /\ Reads(a, "W") <=> Uses(go, "w")
      /\ Writes(a, "R") <=> Uses(go, "r")
      /\ Writes(a, "B") <=> Uses(go, "b")
      /\ Reads(a, "CTRL") <=> go /\ gpu.at \in {"look", "rdone", "bdone"}
  BY <1>2, Accesses, Zenon
<1>6. ctrl'.ar = (araddr # None) /\ ctrl'.aw = (awaddr # None) /\ ctrl'.w = (wdata # None)
  BY <1>4
<1>7. (TakesRead(takes) <=> rvalid /\ takes) /\ (TakesDone(takes) <=> bvalid /\ takes)
  BY DEF TakesRead, TakesDone
<1>8. ReadRegs(go, takes)
  BY <1>1, <1>4, <1>5, <1>6, <1>7, Zenon DEF ReadRegs
<1>9. WriteRegs(go, takes)
  BY <1>1, <1>4, <1>5, <1>6, <1>7, Zenon DEF WriteRegs
<1> QED BY <1>8, <1>9

\* Where its program goes.
GpuMoves ==
  /\ gpu'.code # gpu.code => gpu.at = "copy" /\ gpu'.code = "firmware"
  /\ gpu'.data # gpu.data => gpu.at = "w" /\ gpu'.data = wdata
  /\ gpu.at = "enable" => gpu'.at = "sleep"
  /\ gpu.at = "sleep" => gpu'.at \in {"sleep", "look"}
  /\ gpu.at = "look" => \/ gpu'.at \in {"sleep", "look"}
                        \/ ctrl.ar /\ gpu'.at = "ar"
                        \/ ctrl.aw /\ ctrl.w /\ gpu'.at = "aw"
  /\ gpu.at = "ar" => \/ arAsked /\ gpu'.at = "r"
                      \/ ~arAsked /\ gpu'.at \in {"sleep", "look", "aw"}
  /\ gpu.at = "r" => gpu'.at = "rdone"
  /\ gpu.at = "rdone" => \/ rdone /\ gpu'.at \in {"sleep", "look"}
                         \/ rdone /\ gpu.code = "firmware" /\ gpu'.at = "aw"
                         \/ ~rdone /\ gpu'.at = "rdone"
  /\ gpu.at = "aw" => \/ awAsked /\ gpu'.at = "w"
                      \/ ~awAsked /\ gpu'.at \in {"sleep", "look"}
  /\ gpu.at = "w" => gpu'.at = "b" /\ gpu'.data = wdata
  /\ gpu.at = "b" => gpu'.at = "bdone"
  /\ gpu.at = "bdone" => \/ bdone /\ gpu'.at \in {"sleep", "look", "disable"}
                         \/ ~bdone /\ gpu'.at = "bdone"
  /\ gpu.at = "disable" => gpu'.at = "copy"
  /\ gpu.at = "copy" => \/ Len(ram) < Len(Image) /\ UNCHANGED gpu
                        \/ ~(Len(ram) < Len(Image)) /\ gpu'.code = "firmware" /\ gpu'.at = "look"

LEMMA GpuStepIs ==
  ASSUME BootType, GpuStep
  PROVE  /\ GpuMoves
         /\ gpu' \in [code : {"bootrom", "firmware"}, at : GpuAt, offset : {gpu'.offset}, data : {gpu'.data}]
<1>0. PICK g : g = gpu
  OBVIOUS
<1>1. /\ g = [code |-> g.code, at |-> g.at, offset |-> g.offset, data |-> g.data]
      /\ g.code \in {"bootrom", "firmware"} /\ g.at \in GpuAt
  BY <1>0 DEF BootType
<1> DEFINE Moved(c, a, o, d) == gpu' = [code |-> c, at |-> a, offset |-> o, data |-> d]
<1>2. \A a : Go(a) => Moved(g.code, a, g.offset, g.data)
  BY <1>0, <1>1 DEF Go
<1>3. NextCommand \in {"sleep", "look"} /\ NextRead \in {"sleep", "look", "aw"}
  BY DEF NextCommand, NextRead
<1>4. \A c, a, o, d : Moved(c, a, o, d) => gpu'.code = c /\ gpu'.at = a /\ gpu'.data = d /\ gpu'.offset = o
  OBVIOUS
<1>5. UNCHANGED gpu => Moved(g.code, g.at, g.offset, g.data)
  BY <1>0, <1>1
<1> HIDE DEF Moved
<1>6. CASE gpu.at \in {"enable", "sleep", "r", "b", "disable"}
  <2>1. \/ gpu.at = "enable" /\ Go("sleep")
        \/ gpu.at = "sleep" /\ (Go("look") \/ UNCHANGED gpu)
        \/ gpu.at = "r" /\ Go("rdone")
        \/ gpu.at = "b" /\ Go("bdone")
        \/ gpu.at = "disable" /\ Go("copy")
    BY <1>6 DEF GpuStep
  <2>2. gpu'.code = g.code /\ gpu'.data = g.data
    BY <1>2, <1>4, <1>5, <2>1
  <2> QED BY <1>0, <1>1, <1>2, <1>4, <1>5, <2>1, <2>2 DEF GpuMoves, GpuAt, Moved
<1>7. CASE gpu.at = "look"
  <2>1. \/ ctrl.ar /\ Go("ar")
        \/ ctrl.aw /\ ctrl.w /\ Go("aw")
        \/ Go(NextCommand)
    BY <1>7 DEF GpuStep, Look
  <2>2. gpu'.code = g.code /\ gpu'.data = g.data
    BY <1>2, <1>4, <2>1
  <2> QED BY <1>0, <1>1, <1>2, <1>3, <1>4, <1>7, <2>1, <2>2 DEF GpuMoves, GpuAt, Moved
<1>8. CASE gpu.at = "ar"
  <2>1. \/ arAsked /\ gpu' = [gpu EXCEPT !.at = "r", !.offset = araddr]
        \/ ~arAsked /\ Go(NextRead)
    BY <1>8 DEF GpuStep
  <2>2. gpu' = [gpu EXCEPT !.at = "r", !.offset = araddr] => Moved(g.code, "r", araddr, g.data)
    BY <1>0, <1>1 DEF Moved
  <2>3. gpu'.code = g.code /\ gpu'.data = g.data
    BY <1>2, <1>4, <2>1, <2>2
  <2> QED BY <1>0, <1>1, <1>2, <1>3, <1>4, <1>8, <2>1, <2>2, <2>3 DEF GpuMoves, GpuAt, Moved
<1>9. CASE gpu.at = "rdone"
  <2>1. \/ rdone /\ gpu.code = "firmware" /\ Go("aw")
        \/ rdone /\ Go(NextCommand)
        \/ ~rdone /\ UNCHANGED gpu
    BY <1>9 DEF GpuStep
  <2>2. gpu'.code = g.code /\ gpu'.data = g.data
    BY <1>2, <1>4, <1>5, <2>1
  <2> QED BY <1>0, <1>1, <1>2, <1>3, <1>4, <1>5, <1>9, <2>1, <2>2 DEF GpuMoves, GpuAt, Moved
<1>10. CASE gpu.at = "aw"
  <2>1. \/ awAsked /\ gpu' = [gpu EXCEPT !.at = "w", !.offset = awaddr]
        \/ ~awAsked /\ Go(NextCommand)
    BY <1>10 DEF GpuStep
  <2>2. gpu' = [gpu EXCEPT !.at = "w", !.offset = awaddr] => Moved(g.code, "w", awaddr, g.data)
    BY <1>0, <1>1 DEF Moved
  <2>3. gpu'.code = g.code /\ gpu'.data = g.data
    BY <1>2, <1>4, <2>1, <2>2
  <2>4. \/ awAsked /\ Moved(g.code, "w", awaddr, g.data)
        \/ ~awAsked /\ \E a \in {"sleep", "look"} : Moved(g.code, a, g.offset, g.data)
    BY <1>2, <1>3, <2>1, <2>2, Zenon
  <2>5. PICK a, o : /\ Moved(g.code, a, o, g.data) /\ a \in {"sleep", "look", "w"}
                    /\ a = "w" => awAsked
                    /\ a # "w" => ~awAsked
    BY <2>4
  <2>6. gpu'.at = a /\ gpu'.offset = o
    BY <1>4, <2>5
  <2>7. gpu' \in [code : {"bootrom", "firmware"}, at : GpuAt, offset : {gpu'.offset}, data : {gpu'.data}]
    BY <1>1, <2>3, <2>5, <2>6 DEF Moved, GpuAt
  <2>8. GpuMoves
    BY <1>0, <1>10, <2>3, <2>5, <2>6 DEF GpuMoves
  <2> QED BY <2>7, <2>8
<1>11. CASE gpu.at = "w"
  <2>1. gpu' = [gpu EXCEPT !.at = "b", !.data = wdata]
    BY <1>11 DEF GpuStep
  <2>2. Moved(g.code, "b", g.offset, wdata)
    BY <1>0, <1>1, <2>1 DEF Moved
  <2>3. gpu'.code = g.code /\ gpu'.data = wdata /\ gpu'.at = "b"
    BY <1>4, <2>2
  <2> QED BY <1>0, <1>1, <1>11, <2>2, <2>3 DEF GpuMoves, GpuAt, Moved
<1>12. CASE gpu.at = "bdone"
  <2>1. \/ bdone /\ Go("disable")
        \/ bdone /\ Go(NextCommand)
        \/ ~bdone /\ UNCHANGED gpu
    BY <1>12 DEF GpuStep, AfterWrite
  <2>2. gpu'.code = g.code /\ gpu'.data = g.data
    BY <1>2, <1>4, <1>5, <2>1
  <2> QED BY <1>0, <1>1, <1>2, <1>3, <1>4, <1>5, <1>12, <2>1, <2>2 DEF GpuMoves, GpuAt, Moved
<1>13. CASE gpu.at = "copy"
  <2>1. \/ Len(ram) < Len(Image) /\ UNCHANGED gpu
        \/ ~(Len(ram) < Len(Image)) /\ gpu' = [gpu EXCEPT !.code = "firmware", !.at = "look"]
    BY <1>13 DEF GpuStep
  <2>2. gpu' = [gpu EXCEPT !.code = "firmware", !.at = "look"]
          => Moved("firmware", "look", g.offset, g.data)
    BY <1>0, <1>1 DEF Moved
  <2>3. gpu'.data = g.data
    BY <1>4, <1>5, <2>1, <2>2
  <2> QED BY <1>0, <1>1, <1>4, <1>5, <1>13, <2>1, <2>2, <2>3 DEF GpuMoves, GpuAt, Moved
<1> QED BY <1>0, <1>1, <1>6, <1>7, <1>8, <1>9, <1>10, <1>11, <1>12, <1>13 DEF GpuAt

\* The host's side of a cycle.
ClockHost(takes) ==
  /\ IF rvalid /\ takes THEN Answered ELSE UNCHANGED <<program, reading, host>>
  /\ posted' = IF bvalid /\ takes THEN Tail(posted) ELSE posted
  /\ UNCHANGED bootrom /\ UNCHANGED deviceVars

LEMMA ClockIs ==
  ASSUME NEW go, NEW takes, Clock(go, takes)
  PROVE  /\ ClockHost(takes)
         /\ IF go THEN GpuStep ELSE UNCHANGED gpuVars
<1>1. (TakesRead(takes) <=> rvalid /\ takes) /\ (TakesDone(takes) <=> bvalid /\ takes)
  BY DEF TakesRead, TakesDone
<1> QED BY <1>1 DEF Clock, ClockHost

\* The store that is answered is the handover's.
LEMMA DoneAtGpu ==
  ASSUME BootInv, bvalid
  PROVE  AtGpu /\ gpu.at = "bdone" /\ ~rvalid
<1>1. gpu.at = "bdone"
  <2>1. gpu.at \in Taken
    BY DEF BootInv, WriteInv
  <2> QED BY <2>1 DEF BootInv, WriteInv, Taken
<1>2. offered = {"aw", "w"}
  BY <1>1 DEF BootInv, WriteInv
<1>3. AtGpu
  BY <1>2 DEF BootInv, WriteInv
<1>4. ~rvalid
  BY <1>1 DEF BootInv, ReadInv
<1> QED BY <1>1, <1>3, <1>4

LEMMA AnswerKeeps ==
  ASSUME BootInv, Answered, rvalid, UNCHANGED posted, UNCHANGED bootrom, UNCHANGED deviceVars
  PROVE  HostInv' /\ (HandedOver => HandedOver')
<1>1. reading /\ (Fresh' <=> Fresh) /\ \A j : Stage(j)' <=> Stage(j)
  BY DevicesRest DEF BootInv, ReadInv
<1>2. ~reading' /\ \/ host' = "failed" /\ program' = <<>>
                   \/ program' = Tail(program) /\ UNCHANGED host
  BY DEF Answered
<1>3. ASSUME NEW S, NEW plan \in Seq(S), NEW k, NEW i, Place(plan, k, i)
      PROVE  /\ k \in Nat /\ i = k /\ plan[k + 1].op = "load" /\ posted = <<>>
             /\ Len(program) = Len(plan) - k /\ Tail(program) = Rest(plan, k + 1)
  <2>1. /\ k \in Nat /\ (posted = <<>> <=> i = k) /\ Len(program) = Len(plan) - k
        /\ Tail(program) = Rest(plan, k + 1)
    BY <1>3, PlaceIs
  <2>2. i = k /\ plan[k + 1].op = "load"
    BY <1>1, <1>3 DEF Place
  <2> QED BY <2>1, <2>2
<1>4. ASSUME ~bootrom, Fresh, NEW k \in 0 .. 8, NEW i \in 0 .. 8, Place(First, k, i)
      PROVE  HostInv'
  <2>1. i = k /\ First[k + 1].op = "load" /\ posted = <<>>
    BY <1>3, <1>4, PlanLens
  <2>2. k + 1 \in 0 .. 8 /\ k + 1 < Len(First)
    <3>1. k # 8
      BY <2>1, FirstOps
    <3> QED BY <3>1, PlanLens
  <2>3. CASE host' = "failed" /\ program' = <<>>
    BY <1>1, <1>2, <1>4, <2>1, <2>3 DEF HostInv, Stopped
  <2>4. CASE program' = Tail(program) /\ UNCHANGED host
    <3>1. Place(First, k + 1, k + 1)'
      BY <1>2, <1>4, <2>1, <2>2, <2>4, PlanLens, PlaceNext
    <3> QED BY <1>1, <1>4, <2>2, <3>1 DEF HostInv, Running
  <2> QED BY <1>2, <2>3, <2>4
<1>5. ASSUME bootrom, NEW k \in 0 .. 12, NEW i \in 0 .. 12, Place(Second, k, i), Stage(i)
      PROVE  HostInv' /\ HandedOver'
  <2>0. Second \in Seq(Item)
    BY PlanLens
  <2>1. i = k /\ Second[k + 1].op = "load" /\ posted = <<>> /\ Tail(program) = Rest(Second, k + 1)
    BY <1>3, <1>5, <2>0
  <2>2. k \in 8 .. 11
    BY <2>1, SecondOps
  <2>3. k + 1 \in 0 .. 12 /\ k + 1 < Len(Second)
    BY <2>2, PlanLens
  <2>4. Stage(12)
    BY <1>5, <2>1, <2>2, Stages DEF BootInv
  <2>5. CASE host' = "failed" /\ program' = <<>>
    <3>1. HostInv'
      BY <1>1, <1>2, <1>5, <2>1, <2>4, <2>5 DEF HostInv, Stopped
    <3> QED BY <1>5, <2>1, <2>5, <3>1 DEF HandedOver
  <2>6. CASE program' = Tail(program) /\ UNCHANGED host
    <3>1. Place(Second, k + 1, k + 1)'
      BY <1>2, <1>5, <2>1, <2>3, <2>6, PlanLens, PlaceNext
    <3>2. Stage(k + 1)
      BY <2>2, <2>4, Stages DEF BootInv
    <3>3. HostInv'
      BY <1>1, <1>5, <2>3, <3>1, <3>2 DEF HostInv, Running
    <3>4. Len(program') <= 5
      <4>1. k + 1 \in 0 .. Len(Second)
        BY <2>2, PlanLens
      <4>2. Len(Rest(Second, k + 1)) = Len(Second) - (k + 1)
        BY <2>0, <4>1, RestIs
      <4>3. Len(Rest(Second, k + 1)) <= 5
        BY <2>2, <4>2, PlanLens
      <4> QED BY <2>1, <2>6, <4>3
    <3> QED BY <1>5, <2>1, <3>3, <3>4 DEF HandedOver
  <2> QED BY <1>2, <2>5, <2>6
<1>6. ~Stopped
  BY <1>1 DEF Stopped
<1>7. bootrom \/ ~HandedOver
  BY DEF HandedOver
<1> QED BY <1>4, <1>5, <1>6, <1>7 DEF BootInv, HostInv, Running

LEMMA DoneKeeps ==
  ASSUME BootInv, bvalid, posted' = Tail(posted), UNCHANGED <<program, reading, host, bootrom>>,
         UNCHANGED deviceVars
  PROVE  HostInv' /\ HandedOver'
<1>1. posted # <<>> /\ Head(posted) = "handover"
  BY DoneAtGpu DEF AtGpu
<1>2. (Fresh' <=> Fresh) /\ \A j : Stage(j)' <=> Stage(j)
  BY DevicesRest
<1>3. ASSUME NEW S, NEW plan \in Seq(S), NEW k, NEW i, Place(plan, k, i)
      PROVE  /\ k \in Nat /\ i \in Nat /\ i < k /\ plan[i + 1].op = "store"
             /\ plan[i + 1].arg = "handover" /\ posted' = Between(plan, i + 1, k)
             /\ k < Len(plan) /\ Len(program) = Len(plan) - k
             /\ \A j \in i + 1 .. k : plan[j].op = "store"
             /\ ~reading /\ host = "running" /\ program = Rest(plan, k)
  <2>1. /\ k \in Nat /\ i \in Nat /\ i <= k /\ (posted = <<>> <=> i = k) /\ k < Len(plan)
        /\ Len(program) = Len(plan) - k
        /\ i < k => /\ plan[i + 1].op = "store" /\ Head(posted) = plan[i + 1].arg
                    /\ Tail(posted) = Between(plan, i + 1, k)
    BY <1>3, PlaceIs
  <2>2. /\ \A j \in i + 1 .. k : plan[j].op = "store"
        /\ reading => i = k
        /\ host = "running" /\ program = Rest(plan, k)
    BY <1>3 DEF Place
  <2> QED BY <1>1, <2>1, <2>2
<1>4. ASSUME NEW k \in 0 .. 8, NEW i \in 0 .. 8, Place(First, k, i)
      PROVE  FALSE
  <2>1. i < k /\ First[i + 1].op = "store" /\ First[i + 1].arg = "handover"
    BY <1>3, <1>4, PlanLens
  <2>2. i + 1 \in 1 .. 4
    BY <2>1, FirstOps
  <2> QED BY <2>1, <2>2, FirstOps
<1>5. ASSUME bootrom, NEW k \in 0 .. 12, NEW i \in 0 .. 12, Place(Second, k, i), Stage(i)
      PROVE  HostInv' /\ HandedOver'
  <2>0. Second \in Seq(Item)
    BY PlanLens
  <2>1. /\ i < k /\ Second[i + 1].op = "store" /\ Second[i + 1].arg = "handover"
        /\ posted' = Between(Second, i + 1, k) /\ Len(program) = Len(Second) - k
        /\ \A j \in i + 1 .. k : Second[j].op = "store"
        /\ ~reading /\ host = "running" /\ program = Rest(Second, k)
    BY <1>3, <1>5, <2>0
  <2>2. i = 7
    BY <2>1, SecondOps, SMTT(60)
  <2>3. k = 8
    <3>1. k > 8 => 9 \in i + 1 .. k
      BY <2>2
    <3> QED BY <2>1, <2>2, <3>1, SecondOps
  <2>4. posted' = Between(Second, 8, 8) /\ Len(program) = 5 /\ program = Rest(Second, 8)
    BY <2>1, <2>2, <2>3, PlanLens
  <2>5. posted' = <<>>
    <3>1. 8 \in 0 .. Len(Second) /\ 8 \in 0 .. 8
      BY PlanLens
    <3> QED BY <2>0, <2>4, <3>1, BetweenIs
  <2>6. Place(Second, 8, 8)'
    BY <2>1, <2>4, PlanLens DEF Place
  <2>7. Stage(8)
    BY <1>5, <2>2, Stages DEF BootInv
  <2> QED BY <1>2, <1>5, <2>4, <2>5, <2>6, <2>7 DEF HostInv, Running, HandedOver
<1>6. ~Stopped
  BY <1>1 DEF Stopped
<1> QED BY <1>4, <1>5, <1>6 DEF BootInv, HostInv, Running

LEMMA ClockKeeps ==
  ASSUME BootInv, NEW go \in BOOLEAN, NEW takes \in BOOLEAN, Clock(go, takes)
  PROVE  /\ HostInv' /\ (HandedOver => HandedOver')
         /\ bvalid /\ takes => HandedOver'
         /\ ~(bvalid /\ takes) => (AtGpu' <=> AtGpu)
         /\ reading' <=> reading /\ ~(rvalid /\ takes)
         /\ bootrom' = bootrom
<1>1. ClockHost(takes)
  BY ClockIs
<1>2. bootrom' = bootrom
  BY <1>1 DEF ClockHost
<1>3. CASE rvalid /\ takes
  <2>1. ~bvalid
    BY <1>3, DoneAtGpu
  <2>2. Answered /\ UNCHANGED posted /\ UNCHANGED bootrom /\ UNCHANGED deviceVars
    BY <1>1, <1>3, <2>1 DEF ClockHost
  <2>3. ~reading'
    BY <2>2 DEF Answered
  <2> QED BY <1>2, <1>3, <2>1, <2>2, <2>3, AnswerKeeps DEF AtGpu
<1>4. CASE bvalid /\ takes
  <2>1. ~rvalid
    BY <1>4, DoneAtGpu
  <2>2. /\ posted' = Tail(posted) /\ UNCHANGED <<program, reading, host, bootrom>>
        /\ UNCHANGED deviceVars
    BY <1>1, <1>4, <2>1 DEF ClockHost
  <2> QED BY <1>2, <1>4, <2>1, <2>2, DoneKeeps
<1>5. CASE ~(rvalid /\ takes) /\ ~(bvalid /\ takes)
  <2>1. UNCHANGED <<program, reading, host, posted, bootrom>> /\ UNCHANGED deviceVars
    BY <1>1, <1>5 DEF ClockHost
  <2>2. (Fresh' <=> Fresh) /\ \A j : Stage(j)' <=> Stage(j)
    BY <2>1, DevicesRest
  <2>3. \A plan, k, i : Place(plan, k, i)' <=> Place(plan, k, i)
    BY <2>1 DEF Place
  <2>4. Stopped' <=> Stopped
    BY <2>1, <2>2 DEF Stopped
  <2>5. Running' <=> Running
    BY <2>1, <2>2, <2>3 DEF Running
  <2> QED BY <1>5, <2>1, <2>4, <2>5 DEF BootInv, HostInv, HandedOver, AtGpu
<1> QED BY <1>3, <1>4, <1>5

\* After the handover the GPU's memory is the firmware, and it stays so.
LEMMA HandedOverWhole ==
  ASSUME BootType, HostInv, HandedOver
  PROVE  vram = Image /\ ~dma.busy
<1>1. ASSUME Running PROVE Stage(12)
  <2>1. PICK k \in 0 .. 12, i \in 0 .. 12 : Place(Second, k, i) /\ Stage(i)
    BY <1>1 DEF Running, HandedOver
  <2>2. Second \in Seq(Item)
    BY PlanLens
  <2>3. i = k /\ Len(program) = Len(Second) - k
    BY <2>1, <2>2, PlaceIs DEF HandedOver
  <2>4. i \in 8 .. 12
    BY <2>3, PlanLens DEF HandedOver
  <2> QED BY <2>1, <2>4, Stages
<1> QED BY <1>1, Stages DEF HostInv, Stopped, HandedOver

\* A cycle keeps the types; the firmware copies itself from what is there.
LEMMA ClockType ==
  ASSUME BootInv, NEW go \in BOOLEAN, NEW takes \in BOOLEAN, Clock(go, takes)
  PROVE  /\ BootType'
         /\ ram' = IF go /\ gpu.at = "copy" /\ Len(ram) < Len(Image)
                     THEN Append(ram, Image[Len(ram) + 1]) ELSE ram
         /\ IF go THEN GpuMoves ELSE UNCHANGED gpu
<1>1. /\ IF go THEN GpuStep ELSE UNCHANGED gpuVars
      /\ UNCHANGED <<bootrom, dma, vram>>
  BY ClockIs DEF ClockHost, deviceVars
<1>2. IF go THEN GpuMoves ELSE UNCHANGED gpu
  BY <1>1, GpuStepIs DEF BootInv, gpuVars
<1>3. gpu' \in [code : {"bootrom", "firmware"}, at : GpuAt, offset : {gpu'.offset}, data : {gpu'.data}]
  BY <1>1, GpuStepIs DEF BootInv, BootType, gpuVars
<1>4. gpu.at = "copy" => vram = Image
  BY HandedOverWhole DEF BootInv, GpuInv
<1>5. ram' = IF go /\ gpu.at = "copy" /\ Len(ram) < Len(Image)
               THEN Append(ram, Image[Len(ram) + 1]) ELSE ram
  <2>1. CASE go
    <3>1. ram' = IF gpu.at = "copy" /\ Len(ram) < Len(Image) THEN Append(ram, vram[Len(ram) + 1])
                 ELSE ram
      BY <1>1, <2>1, Zenon DEF GpuStep
    <3> QED BY <1>4, <2>1, <3>1
  <2>2. CASE ~go
    BY <1>1, <2>2 DEF gpuVars
  <2> QED BY <2>1, <2>2
<1>6. ram' \in Seq(ImageWord)
  <2>1. ram \in Seq(ImageWord)
    BY DEF BootInv, BootType
  <2>2. CASE Len(ram) < Len(Image)
    <3>1. Image[Len(ram) + 1] \in ImageWord
      BY <2>1, <2>2, WordsAre
    <3> QED BY <1>5, <2>1, <3>1
  <2>3. CASE ~(Len(ram) < Len(Image))
    BY <1>5, <2>1, <2>3
  <2> QED BY <2>2, <2>3
<1>7. /\ wdata' \in {None, "vram"} /\ offered' \subseteq {"aw", "w"}
  BY Regs DEF WriteRegs, BootInv, BootType
<1>8. reading' \in BOOLEAN
  BY ClockIs DEF ClockHost, Answered, BootInv, BootType
<1>9. BootType'
  BY <1>1, <1>3, <1>6, <1>7, <1>8 DEF BootInv, BootType
<1> QED BY <1>2, <1>5, <1>9

\* The firmware gets control after the handover only, and has copied itself by then.
LEMMA ClockGpu ==
  ASSUME BootInv, NEW go \in BOOLEAN, NEW takes \in BOOLEAN, Clock(go, takes)
  PROVE  GpuInv'
<1>1. /\ HandedOver => HandedOver'
      /\ ram' = IF go /\ gpu.at = "copy" /\ Len(ram) < Len(Image)
                  THEN Append(ram, Image[Len(ram) + 1]) ELSE ram
      /\ IF go THEN GpuMoves ELSE UNCHANGED gpu
  BY ClockKeeps, ClockType
<1>2. GpuInv /\ gpu.at \in GpuAt /\ gpu.code \in {"bootrom", "firmware"} /\ ram \in Seq(ImageWord)
  BY DEF BootInv, BootType
<1>3. CASE ~go
  BY <1>1, <1>2, <1>3 DEF GpuInv
<1>4. CASE go
  <2>1. GpuMoves
    BY <1>1, <1>4
  <2>2. gpu.code = "firmware" => ~awAsked
    BY DEF BootInv, WriteInv
  <2>3. gpu'.at \in Taken => gpu'.code = "bootrom"
    BY <1>2, <2>1, <2>2 DEF GpuMoves, GpuInv, Taken, GpuAt
  <2>4. gpu'.at \in Taken \ {"w"} => gpu'.data = "vram"
    <3>1. gpu.at = "w" => wdata = "vram"
      BY DEF BootInv, WriteInv
    <3> QED BY <1>2, <2>1, <3>1 DEF GpuMoves, GpuInv, Taken, GpuAt
  <2>5. gpu'.at \in {"disable", "copy"} => HandedOver'
    <3>1. gpu.at = "bdone" /\ bdone => HandedOver
      BY DEF BootInv, WriteInv
    <3> QED BY <1>1, <1>2, <2>1, <3>1 DEF GpuMoves, GpuInv, GpuAt
  <2>6. gpu'.code = "firmware" => HandedOver' /\ ram' = Image
    <3>1. CASE gpu.at = "copy" /\ ~(Len(ram) < Len(Image))
      <4>1. Len(ram) = Len(Image) /\ \A n \in 1 .. Len(ram) : ram[n] = Image[n]
        BY <1>2, <3>1, WordsAre DEF GpuInv
      <4>2. ram = Image
        BY <1>2, <4>1, ImageAssumption, SeqEqual DEF ImageWord
      <4> QED BY <1>1, <1>2, <3>1, <4>2 DEF GpuInv
    <3>2. CASE gpu.at = "copy" /\ Len(ram) < Len(Image)
      BY <1>2, <2>1, <3>2 DEF GpuMoves, GpuInv, Taken
    <3>3. CASE gpu.at # "copy"
      BY <1>1, <1>2, <2>1, <3>3 DEF GpuMoves, GpuInv
    <3> QED BY <3>1, <3>2, <3>3
  <2>7. gpu'.code = "bootrom" /\ gpu'.at # "copy" => ram' = <<>>
    BY <1>1, <1>2, <2>1 DEF GpuMoves, GpuInv
  <2>8. (\A n \in 1 .. Len(ram') : ram'[n] = Image[n]) /\ Len(ram') <= Len(Image)
    <3>1. CASE gpu.at = "copy" /\ Len(ram) < Len(Image)
      <4>1. ram' = Append(ram, Image[Len(ram) + 1])
        BY <1>1, <1>4, <3>1
      <4>2. Len(ram) \in Nat /\ Len(Image) \in Nat /\ \A n \in 1 .. Len(ram) : ram[n] = Image[n]
        BY <1>2, WordsAre DEF GpuInv
      <4>3. Len(ram') = Len(ram) + 1
        BY <1>2, <4>1
      <4>4. \A n \in 1 .. Len(ram') : ram'[n] = IF n = Len(ram) + 1 THEN Image[n] ELSE ram[n]
        BY <1>2, <4>1, <4>3
      <4> QED BY <3>1, <4>2, <4>3, <4>4
    <3>2. CASE ~(gpu.at = "copy" /\ Len(ram) < Len(Image))
      BY <1>1, <1>2, <3>2 DEF GpuInv
    <3> QED BY <3>1, <3>2
  <2> QED BY <2>3, <2>4, <2>5, <2>6, <2>7, <2>8 DEF GpuInv
<1> QED BY <1>3, <1>4

\* A load goes through the registers once.
LEMMA ClockRead ==
  ASSUME BootInv, NEW go \in BOOLEAN, NEW takes \in BOOLEAN, Clock(go, takes)
  PROVE  ReadInv'
<1>1. /\ ReadRegs(go, takes)
      /\ reading' <=> reading /\ ~(rvalid /\ takes)
      /\ IF go THEN GpuMoves ELSE UNCHANGED gpu
  BY Regs, ClockKeeps, ClockType
<1>2. ReadInv /\ gpu.at \in GpuAt
  BY DEF BootInv, BootType
<1>3. CASE ~go
  BY <1>1, <1>2, <1>3 DEF ReadRegs, ReadInv, Uses
<1>4. CASE go
  <2>1. GpuMoves /\ \A at : Uses(go, at) <=> gpu.at = at
    BY <1>1, <1>4 DEF Uses
  <2> QED BY <1>1, <1>2, <1>4, <2>1 DEF ReadRegs, ReadInv, GpuMoves, GpuAt
<1> QED BY <1>3, <1>4

\* So does the store.
LEMMA ClockWrite ==
  ASSUME BootInv, NEW go \in BOOLEAN, NEW takes \in BOOLEAN, Clock(go, takes)
  PROVE  WriteInv'
<1>1. /\ WriteRegs(go, takes)
      /\ bvalid /\ takes => HandedOver'
      /\ HandedOver => HandedOver'
      /\ ~(bvalid /\ takes) => (AtGpu' <=> AtGpu)
      /\ IF go THEN GpuMoves ELSE UNCHANGED gpu
  BY Regs, ClockKeeps, ClockType
<1>2. /\ WriteInv /\ GpuInv /\ gpu.at \in GpuAt /\ gpu.code \in {"bootrom", "firmware"}
      /\ wdata \in {None, "vram"} /\ offered \subseteq {"aw", "w"}
  BY DEF BootInv, BootType
<1>3. CASE ~go
  BY <1>1, <1>2, <1>3 DEF WriteRegs, WriteInv, Uses, Taken
<1>4. CASE go
  <2>1. GpuMoves /\ \A at : Uses(go, at) <=> gpu.at = at
    BY <1>1, <1>4 DEF Uses
  <2>2. CASE gpu.at \in {"enable", "sleep", "r", "rdone"}
    BY <1>1, <1>2, <1>4, <2>1, <2>2 DEF WriteRegs, WriteInv, GpuMoves, Taken
  <2>3. CASE gpu.at = "ar"
    <3>1. arAsked
      BY <2>3 DEF BootInv, ReadInv
    <3> QED BY <1>1, <1>2, <1>4, <2>1, <2>3, <3>1 DEF WriteRegs, WriteInv, GpuMoves, Taken
  <2>4. CASE gpu.at = "look"
    <3>1. ctrl.aw /\ ctrl.w => offered = {"aw", "w"}
      BY <1>2 DEF WriteInv
    <3> QED BY <1>1, <1>2, <1>4, <2>1, <2>4, <3>1 DEF WriteRegs, WriteInv, GpuMoves, Taken
  <2>5. CASE gpu.at = "aw"
    BY <1>1, <1>2, <1>4, <2>1, <2>5 DEF WriteRegs, WriteInv, GpuMoves, Taken
  <2>6. CASE gpu.at = "w"
    BY <1>1, <1>2, <1>4, <2>1, <2>6 DEF WriteRegs, WriteInv, GpuMoves, GpuInv, Taken
  <2>7. CASE gpu.at = "b"
    BY <1>1, <1>2, <1>4, <2>1, <2>7 DEF WriteRegs, WriteInv, GpuMoves, GpuInv, Taken
  <2>8. CASE gpu.at = "bdone"
    BY <1>1, <1>2, <1>4, <2>1, <2>8 DEF WriteRegs, WriteInv, GpuMoves, GpuInv, Taken
  <2>9. CASE gpu.at \in {"disable", "copy"}
    BY <1>1, <1>2, <1>4, <2>1, <2>9 DEF WriteRegs, WriteInv, GpuMoves, GpuInv, Taken
  <2> QED BY <1>2, <2>2, <2>3, <2>4, <2>5, <2>6, <2>7, <2>8, <2>9 DEF GpuAt
<1> QED BY <1>3, <1>4

\* The invariant holds at the start, and every step keeps it.
LEMMA BootStarts == Init => BootInv
<1> SUFFICES ASSUME Init PROVE BootInv
  OBVIOUS
<1>1. BootType
  <2>1. /\ gpu = [code |-> "bootrom", at |-> "enable", offset |-> None, data |-> None]
        /\ dma = [busy |-> FALSE, at |-> 1, entry |-> "none"]
        /\ vram = [k \in Words |-> None] /\ ram = <<>> /\ wdata = None /\ offered = {}
        /\ bootrom = FALSE /\ reading = FALSE
    BY DEF Init, BootInit, EmuInit
  <2>2. gpu \in [code : {"bootrom", "firmware"}, at : GpuAt, offset : {gpu.offset}, data : {gpu.data}]
    BY <2>1 DEF GpuAt
  <2>3. dma \in [busy : BOOLEAN, at : 1 .. Len(Image) + 1, entry : {"none", "entry", "other"}]
    <3>1. PICK place : place = 1 .. Len(Image) + 1
      OBVIOUS
    <3>2. 1 \in place
      BY <3>1, WordsAre
    <3>3. dma \in [busy : BOOLEAN, at : place, entry : {"none", "entry", "other"}]
      BY <2>1, <3>2
    <3> QED BY <3>1, <3>3
  <2>4. vram \in [Words -> ImageWord \cup {None}]
    BY <2>1
  <2>5. ram \in Seq(ImageWord)
    BY <2>1
  <2> QED BY <2>1, <2>2, <2>3, <2>4, <2>5, Zenon DEF BootType
<1>2. HostInv
  <2>1. First = Rest(First, 0)
    BY PlanLens, SubSeqFull DEF Rest
  <2>2. posted = Between(First, 0, 0)
    <3>1. 0 \in 0 .. Len(First) /\ 0 \in 0 .. 0 /\ posted = <<>>
      BY PlanLens DEF Init, BootInit
    <3> QED BY <3>1, PlanLens, BetweenIs
  <2>3. Place(First, 0, 0)
    BY <2>1, <2>2, PlanLens DEF Place, Init, BootInit, First
  <2> QED BY <2>3 DEF HostInv, Running, Fresh, Idle, Init, BootInit
<1>3. GpuInv
  BY WordsAre DEF Init, BootInit, GpuInv, Taken
<1>4. ReadInv /\ WriteInv
  BY DEF Init, BootInit, EmuInit, ReadInv, WriteInv, Taken
<1> QED BY <1>1, <1>2, <1>3, <1>4 DEF BootInv

LEMMA BootKeeps == BootInv /\ [Next]_vars => BootInv'
<1> SUFFICES ASSUME BootInv, [Next]_vars PROVE BootInv'
  OBVIOUS
<1>1. CASE HostStep
  BY <1>1, HostStepRest
<1>2. CASE Land
  BY <1>2, LandRest
<1>3. CASE DmaStep
  BY <1>3, DmaRest
<1>4. CASE \E channel \in {"aw", "w"} : Offer(channel)
  BY <1>4, OfferRest
<1>5. CASE \E go, takes \in BOOLEAN : Clock(go, takes)
  BY <1>5, ClockKeeps, ClockType, ClockGpu, ClockRead, ClockWrite DEF BootInv
<1>6. CASE UNCHANGED bootVars
  <2>1. UNCHANGED <<araddr, awaddr, wdata, arready, awready, wready, rvalid, ctrl, rdone, bdone, arAsked,
                    awAsked, bvalid, program, bootrom, posted, offered, reading, host, entry, table,
                    dma, vram, gpu, ram>>
    BY <1>6 DEF bootVars, emuVars
  <2>2. (Fresh' <=> Fresh) /\ \A j : Stage(j)' <=> Stage(j)
    BY <1>6, DevicesRest DEF bootVars, deviceVars
  <2>3. \A plan, k, i : Place(plan, k, i)' <=> Place(plan, k, i)
    BY <2>1 DEF Place
  <2>4. (Stopped' <=> Stopped) /\ (Running' <=> Running)
    BY <2>1, <2>2, <2>3 DEF Stopped, Running
  <2>5. (HandedOver' <=> HandedOver) /\ (AtGpu' <=> AtGpu)
    BY <2>1 DEF HandedOver, AtGpu
  <2>6. BootType' /\ GpuInv' /\ ReadInv' /\ WriteInv'
    BY <2>1, <2>5 DEF BootInv, BootType, GpuInv, ReadInv, WriteInv
  <2> QED BY <2>4, <2>6 DEF BootInv, HostInv
<1>7. Demo => UNCHANGED bootVars
  BY DEF Demo
<1>8. UNCHANGED vars => UNCHANGED bootVars
  BY DEF vars
<1> QED BY <1>1, <1>2, <1>3, <1>4, <1>5, <1>6, <1>7, <1>8 DEF Next, Boot, GpuClock

\* The DMA works with the descriptor that was written, and the GPU is given to a
\* firmware that is in its memory as a whole (sgdma.c:81, gfx_boot.c:59-62,
\* bootrom.S:55-61, start.S:16-44).
THEOREM FirmwareStarts == Spec => []FirmwareWhole
<1>1. BootInv => FirmwareWhole
  <2> SUFFICES ASSUME BootInv PROVE FirmwareWhole
    OBVIOUS
  <2>1. dma.entry # "none" => dma.entry = "entry" /\ table = {"tbllo", "tblhi"}
    <3>1. Fresh => dma.entry = "none"
      BY DEF Fresh, Idle
    <3>2. ASSUME NEW i \in Int, Stage(i)
          PROVE  dma.entry # "none" => dma.entry = "entry" /\ table = {"tbllo", "tblhi"}
      <4>1. i <= 3 => dma.entry = "none"
        BY <3>2 DEF Stage, Idle
      <4>2. i = 4 => Copying
        BY <3>2 DEF Stage
      <4>3. i >= 4 => table = {"tbllo"} \cup {"tblhi"}
        BY <3>2 DEF Stage
      <4>4. i >= 5 => dma.entry = "entry"
        BY <3>2 DEF Stage
      <4> QED BY <4>1, <4>2, <4>3, <4>4 DEF Copying
    <3> QED BY <3>1, <3>2 DEF BootInv, HostInv, Running, Stopped
  <2>2. HandedOver => vram = Image /\ ~dma.busy
    BY HandedOverWhole DEF BootInv
  <2>3. gpu.at \in {"disable", "copy"} => HandedOver /\ gpu.data = "vram"
    BY DEF BootInv, GpuInv, Taken
  <2>4. gpu.code = "firmware" => ram = Image
    BY DEF BootInv, GpuInv
  <2> QED BY <2>1, <2>2, <2>3, <2>4 DEF FirmwareWhole
<1> QED BY <1>1, BootStarts, BootKeeps, PTL DEF Spec
=============================================================================
