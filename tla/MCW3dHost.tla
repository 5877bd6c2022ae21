----------------------------- MODULE MCW3dHost ------------------------------
EXTENDS W3dHost

MCImage == <<"first", "second">>

\* The demo's matrix, but with a view that has integer entries, and others that
\* turn, mirror and move the picture.
View == MatMat(Frustum(-1, 1, -1, 1, 1, 3), Translate(0, 0, -2))
Turned == MatMat(Rotate(0, 0, 1, 0, 1), Translate(1, -2, 0))
Mirrored == Resize(-1, 1, 1)

\* Quads on a screen of 16 by 16 units: inside of it, across its border, in front of
\* and behind each other, slanted, and one seen from its edge.
Quads ==
  {<<<<-5, -3, 0>>, <<-5, 6, 0>>, <<7, -3, 0>>, <<7, 6, 0>>>>,
   <<<<-3, -9, 1>>, <<-6, 1, 0>>, <<11, -1, 0>>, <<5, 9, 0>>>>,
   <<<<-4, -4, 1>>, <<-4, 4, 0>>, <<4, -4, 1>>, <<4, 4, 0>>>>,
   <<<<1, -8, 0>>, <<1, 8, 0>>, <<1, -8, 1>>, <<1, 8, 1>>>>}

Drawn(m, q) == Quad(m, q[1], q[2], q[3], q[4])

MCScene ==
  {Drawn(m, q) \o Drawn(m, r) : m \in {View, Turned, Mirrored}, q \in Quads, r \in Quads}
=============================================================================
