------------------------------ MODULE W3dHost -------------------------------
(***************************************************************************)
(* The program of the wavelet3d host (platform/wavelet3d/host_sw/main.c):  *)
(* demo() draws, vdc_init() turns the screen on, init() starts the GPU.    *)
(* The GPU's clock runs all the time.                                      *)
(***************************************************************************)
EXTENDS Raster, W3dBoot

CONSTANT Scene   \* the pictures to draw: sequences of triangles

Vertex == [x : Int, y : Int, z : Int, w : Int, color : Side]
Triangle == [Side -> Vertex]

\* tri() gives the corners their colours in order.
ASSUME SceneAssumption ==
  /\ Scene \subseteq Seq(Triangle) /\ Blank \notin Triangle
  /\ \A s \in Scene : \A k \in 1 .. Len(s) : \A c \in Side : s[k][c].color = c

VARIABLE drawn   \* history: the picture

vars == <<rasterVars, bootVars, drawn>>

Demo == RasterStep /\ UNCHANGED <<bootVars, drawn>>

Boot ==
  /\ HostStep \/ Land \/ DmaStep \/ \E channel \in {"aw", "w"} : Offer(channel)
  /\ UNCHANGED <<rasterVars, drawn>>

GpuClock ==
  /\ \E go, takes \in BOOLEAN : Clock(go, takes)
  /\ UNCHANGED <<rasterVars, drawn>>

Next == Demo \/ (RasterDone /\ (Boot \/ GpuClock))

Init == RasterInit /\ BootInit /\ drawn \in Scene /\ calls = drawn

(***************************************************************************)
(* The processors and the DMA run.  The GPU's program has its turn again   *)
(* and again, and the host's bus takes an answer in the end.               *)
(***************************************************************************)
Fairness ==
  /\ WF_rasterVars(RasterStep)
  /\ WF_bootVars(RasterDone /\ HostStep)
  /\ WF_bootVars(RasterDone /\ Land)
  /\ WF_bootVars(RasterDone /\ DmaStep)
  /\ \A channel \in {"aw", "w"} : WF_bootVars(RasterDone /\ Offer(channel))
  /\ WF_bootVars(RasterDone /\ Clock(TRUE, TRUE))

Spec == Init /\ [][Next]_vars
FairSpec == Spec /\ Fairness

-----------------------------------------------------------------------------
(***************************************************************************)
(* The picture.                                                            *)
(***************************************************************************)
\* The sums of demo.c:228-285 are the edge functions at the sample, whatever path
\* led to it: each `continue' comes after the additions, and a new column starts
\* from the sums of the column.
EdgesExact ==
  tri # Blank =>
    \A e \in Side : /\ baseX[e] = Edge(tri, e, x, StartY(tri))
                    /\ baseY[e] = Edge(tri, e, x, y)

\* The sample of a pixel, and the triangles of the picture that it is in, however
\* their corners go round.
At(pixel) == [x |-> (pixel[1] - W \div 2) * Sub, y |-> (H \div 2 - 1 - pixel[2]) * Sub]
Within(t, p) ==
  \/ \A e \in Side : Edge(t, e, p.x, p.y) >= 0
  \/ \A e \in Side : Edge(t, e, p.x, p.y) <= 0
Covering(p) == {k \in DOMAIN drawn : Within(drawn[k], p) /\ InDepth(Depth(drawn[k], p))}

\* The exception: where a triangle has no depth (0/0, since its corners are on one line
\* or its plane goes through the eye), anything may be drawn.
HaveDepth(p) == \A k \in DOMAIN drawn : Within(drawn[k], p) => Depth(drawn[k], p)[2] # 0

\* When all has been drawn each pixel has the depth and colour of the triangle with the
\* greatest depth over its sample, the last one of those at the same depth, and the
\* pixels under no triangle are as they were: no sample is skipped by the bounds that
\* are cut and rounded towards zero (demo.c:151-154, 203-222), and neither the order of
\* the corners nor that of the triangles matters.  The greatest depth is the farthest
\* triangle with mat_frustum (near is -1 and far is 1, demo.c:114-129), so the test of
\* demo.c:260 hides what is near behind what is far; this says what the code draws.
PictureRight ==
  RasterDone =>
    \A pixel \in {pixel \in Screen : HaveDepth(At(pixel))} :
      LET p == At(pixel)
          over == Covering(p)
          z(k) == ZInt(Depth(drawn[k], p))
      IN IF over = {}
           THEN zBuff[pixel] = 0 /\ fb[pixel] = Blank
           ELSE LET seenAt == CHOOSE k \in over : \A j \in over : z(j) < z(k) \/ (z(j) = z(k) /\ j <= k)
                IN zBuff[pixel] = z(seenAt) /\ fb[pixel] = Color(drawn[seenAt], p)

\* The two triangles of a quad leave no hole along the diagonal (demo.c:324, "v2-v3
\* debe ser una diagonal, sino no sirve"): every sample inside the outline of a quad
\* that is in the depth range has been drawn.  A quad is triangles 2k - 1 and 2k,
\* and its outline goes p2, p1, p3, p4.
QuadWhole ==
  RasterDone =>
    \A k \in {k \in DOMAIN drawn : k % 2 = 1} :
      LET p2 == drawn[k][1]
          outline == <<p2, drawn[k][2], drawn[k][3], drawn[k + 1][2]>>
          follows(e) == outline[(e % 4) + 1]
          turn(e, p) == Area2(outline[e], follows(e), p)
      IN \A pixel \in Screen :
           /\ \/ \A e \in 1 .. 4 : turn(e, At(pixel)) > 0
              \/ \A e \in 1 .. 4 : turn(e, At(pixel)) < 0
           /\ InDepth(Depth(drawn[k], At(pixel)))
           => fb[pixel] # Blank

-----------------------------------------------------------------------------
(***************************************************************************)
(* The start of the platform.                                              *)
(***************************************************************************)
\* The DMA works with the descriptor that sgdma_memcpy wrote, and not with what the
\* stack has there before or after (sgdma.c:81, "sin esto sgdma lee entry corrupto").
\* The boot ROM gives control to the firmware when all of it is in the GPU's memory
\* and nothing writes there, and what start.S copies from there is the firmware
\* (gfx_boot.c:59-62, bootrom.S:55-61, start.S:16-44).
FirmwareWhole ==
  /\ dma.entry # "none" => dma.entry = "entry" /\ table = {"tbllo", "tblhi"}
  /\ gpu.at \in {"disable", "copy"} => vram = Image /\ ~dma.busy /\ gpu.data = "vram"
  /\ gpu.code = "firmware" => ram = Image

\* The host's program ends with the firmware running: each load is answered, by the
\* program that has the GPU at that time, the probe fails at no time, and the second
\* one does not find the boot ROM again (init.c:19-40, gfx_boot.c:10-53).
Boots == <>(host = "ok" /\ gpu.code = "firmware" /\ {"front", "stream", "geometry", "dacen"} = vdc)
=============================================================================
