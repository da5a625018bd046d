------------------------------ MODULE Scene_proofs -----------------------------
(***************************************************************************)
(* Proofs about Scene, for every size of the chunk and every range of        *)
(* layers, any positions, rotations, projection and images:                  *)
(*   - each cell has a place of its own in the array of blocks, and whatever *)
(*     happens between two frames changes one cell at most;                  *)
(*   - a frame shows the camera, the blocks and the objects as they are,     *)
(*     because what is not flagged for an update is current;                 *)
(*   - the program is ended for blocks that cannot be drawn, and no others;  *)
(*   - of every opaque block just the squares are drawn where it meets the   *)
(*     outside or a transparent block, and nothing is drawn twice;           *)
(*   - the images lie in the atlas beside one another.                       *)
(***************************************************************************)
EXTENDS Scene, SequenceLemmas, TLAPS

\* A larger factor makes a product larger by the other at least.
LEMMA ProductGrows ==
    ASSUME NEW n \in Nat, NEW a \in Nat, NEW c \in Nat, a < c
    PROVE  a * n \in Nat /\ c * n \in Nat /\ a * n + n <= c * n
<1>1. PICK k \in Nat : c = a + 1 + k
  <2>1. c - a - 1 \in Nat /\ c = a + 1 + (c - a - 1)
    OBVIOUS
  <2> QED
    BY <2>1
<1>2. c * n = a * n + n + k * n
  BY <1>1
<1>3. a * n \in Nat /\ k * n \in Nat
  OBVIOUS
<1> QED
  BY <1>2, <1>3

\* Two digits of a number tell what they are.
LEMMA Digits ==
    ASSUME NEW n \in Nat, NEW a \in Nat, NEW b \in 0 .. n - 1, NEW c \in Nat,
           NEW d \in 0 .. n - 1, b + a * n = d + c * n
    PROVE  a = c /\ b = d
<1>1. a * n \in Nat /\ c * n \in Nat
  OBVIOUS
<1>2. ~(a < c)
  BY <1>1, ProductGrows
<1>3. ~(c < a)
  BY <1>1, ProductGrows
<1> QED
  BY <1>1, <1>2, <1>3

\* A number of two digits is below the product of their bases.
LEMMA DigitsBound ==
    ASSUME NEW n \in Nat, NEW l \in Nat, NEW a \in 0 .. l - 1, NEW b \in 0 .. n - 1
    PROVE  b + a * n \in 0 .. l * n - 1
<1>1. a * n \in Nat /\ l * n \in Nat /\ a * n + n <= l * n
  BY ProductGrows
<1> QED
  BY <1>1

\* The layer and the row of a cell, as the digits of its offset.
LEMMA OffsetDigits ==
    ASSUME NEW c \in Cells
    PROVE  /\ c[1] \in 0 .. SizeX - 1 /\ c[2] \in 0 .. SizeZ - 1
           /\ c[3] - OffY \in 0 .. SizeY - 1
           /\ c[2] + (c[3] - OffY) * SizeZ \in 0 .. SizeY * SizeZ - 1
           /\ BlockOffset(c) = c[1] + (c[2] + (c[3] - OffY) * SizeZ) * SizeX
<1>1. SizeX \in Nat /\ SizeZ \in Nat /\ SizeY \in Nat /\ OffY \in Int
  BY ChunkAssumption
<1>2. /\ c[1] \in 0 .. SizeX - 1 /\ c[2] \in 0 .. SizeZ - 1
      /\ c[3] \in Int /\ c[3] - OffY \in 0 .. SizeY - 1
  BY <1>1 DEF Cells
<1>3. c[2] + (c[3] - OffY) * SizeZ \in 0 .. SizeY * SizeZ - 1
  BY <1>1, <1>2, DigitsBound
<1>4. \A x, z, y, sx, sz \in Int : x + z * sx + y * sz * sx = x + (z + y * sz) * sx
  OBVIOUS
<1>5. BlockOffset(c) = c[1] + (c[2] + (c[3] - OffY) * SizeZ) * SizeX
  <2>1. c[1] \in Int /\ c[2] \in Int /\ c[3] - OffY \in Int
    BY <1>1, <1>2
  <2> QED
    BY <1>1, <1>4, <2>1 DEF BlockOffset
<1> QED
  BY <1>2, <1>3, <1>5

\* BlockOffset (chunk.cpp): every cell lies inside the array of blocks, and no two at
\* the same place, for all sizes of a chunk and wherever its layers begin.
THEOREM OffsetsSound ==
    /\ \A c \in Cells : BlockOffset(c) \in Offsets
    /\ \A c, d \in Cells : BlockOffset(c) = BlockOffset(d) => c = d
<1>1. SizeX \in Nat /\ SizeZ \in Nat /\ SizeY \in Nat /\ OffY \in Int
  BY ChunkAssumption
<1>2. ASSUME NEW c \in Cells PROVE BlockOffset(c) \in Offsets
  <2>1. BlockOffset(c) \in 0 .. (SizeY * SizeZ) * SizeX - 1
    BY <1>1, OffsetDigits, DigitsBound
  <2>2. \A x, z, y \in Nat : (y * z) * x = x * z * y
    OBVIOUS
  <2>3. (SizeY * SizeZ) * SizeX = SizeX * SizeZ * SizeY
    BY <1>1, <2>2
  <2> QED
    BY <2>1, <2>3 DEF Offsets
<1>3. ASSUME NEW c \in Cells, NEW d \in Cells, BlockOffset(c) = BlockOffset(d)
      PROVE  c = d
  <2> DEFINE rowC == c[2] + (c[3] - OffY) * SizeZ
             rowD == d[2] + (d[3] - OffY) * SizeZ
  <2>0. /\ c[1] \in 0 .. SizeX - 1 /\ c[2] \in 0 .. SizeZ - 1 /\ c[3] - OffY \in Nat
        /\ d[1] \in 0 .. SizeX - 1 /\ d[2] \in 0 .. SizeZ - 1 /\ d[3] - OffY \in Nat
        /\ rowC \in Nat /\ rowD \in Nat
        /\ c[1] + rowC * SizeX = d[1] + rowD * SizeX
    <3>1. rowC \in 0 .. SizeY * SizeZ - 1 /\ rowD \in 0 .. SizeY * SizeZ - 1
      BY OffsetDigits
    <3> QED
      BY <1>3, <3>1, OffsetDigits
  <2>1. c[1] = d[1] /\ rowC = rowD
    <3> HIDE DEF rowC, rowD
    <3>1. \A b, d1 \in 0 .. SizeX - 1 :
             b + rowC * SizeX = d1 + rowD * SizeX => rowC = rowD /\ b = d1
      BY <1>1, <2>0, Digits
    <3> QED
      BY <2>0, <3>1
  <2>2. c[2] = d[2] /\ c[3] - OffY = d[3] - OffY
    <3> DEFINE layerC == c[3] - OffY
               layerD == d[3] - OffY
    <3>1. c[2] + layerC * SizeZ = d[2] + layerD * SizeZ
      BY <2>1
    <3>2. layerC \in Nat /\ layerD \in Nat
      BY <2>0
    <3> HIDE DEF layerC, layerD
    <3>3. \A b, d1 \in 0 .. SizeZ - 1 :
             b + layerC * SizeZ = d1 + layerD * SizeZ => layerC = layerD /\ b = d1
      BY <1>1, <3>2, Digits
    <3>4. c[2] = d[2] /\ layerC = layerD
      BY <2>0, <3>1, <3>3
    <3> QED
      BY <3>4 DEF layerC, layerD
  <2>3. c[3] \in Int /\ d[3] \in Int /\ c = <<c[1], c[2], c[3]>> /\ d = <<d[1], d[2], d[3]>>
    BY <1>1 DEF Cells
  <2> QED
    BY <1>1, <2>1, <2>2, <2>3
<1> QED
  BY <1>2, <1>3

--------------------------------------------------------------------------------
(* The blocks of a chunk.                                                   *)

BlocksOK == blocks \in [Offsets -> BlockTypes]

\* Only PutBlock changes the blocks.
LEMMA OnlyPutBlock ==
    ASSUME [SceneNext]_sceneVars
    PROVE  \/ UNCHANGED blocks
           \/ \E c \in Places, type \in Types :
                 blocks' = [blocks EXCEPT ![BlockOffset(c)] = type]
<1>1. CASE BuildTextureAtlas
  BY <1>1 DEF BuildTextureAtlas
<1>2. CASE CameraUpdate \/ ChunkUpdate \/ Render \/ GuiRender \/ SwapBuffers
  BY <1>2 DEF CameraUpdate, ChunkUpdate, Render, GuiRender, SwapBuffers
<1>3. CASE \E c \in Places, type \in Types : PutBlock(c, type)
  BY <1>3 DEF PutBlock
<1>4. CASE \/ \E p \in Positions : MoveObjects(p)
           \/ \E rot \in Rotations : RotateObjects(rot)
           \/ \E step \in Steps, n \in {1, -1} : Walk(Times(n, step))
  BY <1>4 DEF MoveObjects, RotateObjects, Walk
<1>5. CASE \/ \E n \in Faces \cap DOMAIN object.mesh.faces, show \in BOOLEAN : ShowFace(n, show)
           \/ \E n \in Faces, name \in Names : SetTextureFromAtlas({n}, Whole, name)
           \/ \E name \in Names :
                 SetTextureFromAtlas(DOMAIN object.mesh.faces, Turned, name)
  BY <1>5 DEF ShowFace, SetTextureFromAtlas
<1>6. CASE Clone \/ Close \/ \E dx \in {-1, 0, 1}, dy \in {-1, 0, 1} : MouseMove(dx, dy)
  BY <1>6 DEF Clone, Close, MouseMove
<1>7. CASE UNCHANGED sceneVars
  BY <1>7 DEF sceneVars
<1> QED
  BY <1>1, <1>2, <1>3, <1>4, <1>5, <1>6, <1>7 DEF SceneNext

\* Every step leaves blocks of the types there are.
LEMMA BlocksStep == BlocksOK /\ [SceneNext]_sceneVars => BlocksOK'
  BY OnlyPutBlock, SceneAssumption DEF BlocksOK

\* A step of the program changes one cell of the chunk at most, for all sizes of the
\* chunk and whatever is put where.
THEOREM OneBlock == SceneSpec => OneBlockChanges
<1>1. SceneInit => BlocksOK
  BY DEF SceneInit, BlocksOK, BlockTypes, Transparent
<1> DEFINE OneChange ==
        \A c, d \in Cells : BlockAt(blocks', c) # BlockAt(blocks, c)
                            /\ BlockAt(blocks', d) # BlockAt(blocks, d) => c = d
<1>2. BlocksOK /\ [SceneNext]_sceneVars => [OneChange]_sceneVars
  <2> SUFFICES ASSUME BlocksOK, [SceneNext]_sceneVars,
                      NEW c \in Cells, NEW d \in Cells,
                      BlockAt(blocks', c) # BlockAt(blocks, c),
                      BlockAt(blocks', d) # BlockAt(blocks, d)
               PROVE  c = d
    OBVIOUS
  <2>1. PICK p \in Places, type \in Types : blocks' = [blocks EXCEPT ![BlockOffset(p)] = type]
    BY OnlyPutBlock DEF BlockAt
  <2>2. \A n \in Offsets : blocks'[n] # blocks[n] => n = BlockOffset(p)
    BY <2>1 DEF BlocksOK
  <2>3. BlockOffset(c) = BlockOffset(p) /\ BlockOffset(d) = BlockOffset(p)
    BY <2>2, OffsetsSound DEF BlockAt
  <2> QED
    BY <2>3, OffsetsSound
<1> QED
  BY <1>1, <1>2, BlocksStep, PTL DEF SceneSpec, OneBlockChanges

--------------------------------------------------------------------------------
(* Matrices of four columns: what a product applies, and what the matrices of *)
(* object.cpp, camera.cpp and matrix.cpp do to a point.                     *)

Vector == Int \X Int \X Int
Matrix(m) == \A c, r \in 1 .. 4 : m[c][r] \in Int

\* A coordinate of what a matrix makes of a vector.
LEMMA Row ==
    \A a1, a2, a3, a4, b11, b12, b13, b14, b21, b22, b23, b24, b31, b32, b33, b34,
       b41, b42, b43, b44, p1, p2, p3 \in Int :
       (a1 * b11 + a2 * b12 + a3 * b13 + a4 * b14) * p1
       + (a1 * b21 + a2 * b22 + a3 * b23 + a4 * b24) * p2
       + (a1 * b31 + a2 * b32 + a3 * b33 + a4 * b34) * p3
       + (a1 * b41 + a2 * b42 + a3 * b43 + a4 * b44)
       = a1 * (b11 * p1 + b21 * p2 + b31 * p3 + b41) + a2 * (b12 * p1 + b22 * p2 + b32 * p3 + b42)
         + a3 * (b13 * p1 + b23 * p2 + b33 * p3 + b43) + a4 * (b14 * p1 + b24 * p2 + b34 * p3 + b44)
  OBVIOUS

Applied(m, v) ==
    [r \in 1 .. 4 |-> m[1][r] * v[1] + m[2][r] * v[2] + m[3][r] * v[3] + m[4][r] * v[4]]

\* A product applies its second factor, then its first.
LEMMA Composition ==
    ASSUME NEW a, NEW b, Matrix(a), Matrix(b), NEW p \in Vector
    PROVE  Transformed(Product(a, b), p) = Applied(a, Transformed(b, p))
<1>1. \A c, r \in 1 .. 4 :
         /\ a[c][r] \in Int /\ b[c][r] \in Int
         /\ Product(a, b)[c][r] = a[1][r] * b[c][1] + a[2][r] * b[c][2] + a[3][r] * b[c][3]
                                  + a[4][r] * b[c][4]
  BY DEF Matrix, Product
<1>2. p[1] \in Int /\ p[2] \in Int /\ p[3] \in Int
  BY DEF Vector
<1>3. ASSUME NEW r \in 1 .. 4
      PROVE  Transformed(Product(a, b), p)[r] = Applied(a, Transformed(b, p))[r]
  <2> DEFINE t == Transformed(b, p)
             ab == Product(a, b)
  <2>1. \A k \in 1 .. 4 : t[k] = b[1][k] * p[1] + b[2][k] * p[2] + b[3][k] * p[3] + b[4][k]
    BY DEF Transformed
  <2>2. Applied(a, t)[r] = a[1][r] * t[1] + a[2][r] * t[2] + a[3][r] * t[3] + a[4][r] * t[4]
    BY DEF Applied
  <2>3. Transformed(ab, p)[r] = ab[1][r] * p[1] + ab[2][r] * p[2] + ab[3][r] * p[3] + ab[4][r]
    BY DEF Transformed
  <2> HIDE DEF t, ab
  <2>4. /\ t[1] = b[1][1] * p[1] + b[2][1] * p[2] + b[3][1] * p[3] + b[4][1]
        /\ t[2] = b[1][2] * p[1] + b[2][2] * p[2] + b[3][2] * p[3] + b[4][2]
        /\ t[3] = b[1][3] * p[1] + b[2][3] * p[2] + b[3][3] * p[3] + b[4][3]
        /\ t[4] = b[1][4] * p[1] + b[2][4] * p[2] + b[3][4] * p[3] + b[4][4]
    BY <2>1
  <2>5. /\ ab[1][r] = a[1][r] * b[1][1] + a[2][r] * b[1][2] + a[3][r] * b[1][3] + a[4][r] * b[1][4]
        /\ ab[2][r] = a[1][r] * b[2][1] + a[2][r] * b[2][2] + a[3][r] * b[2][3] + a[4][r] * b[2][4]
        /\ ab[3][r] = a[1][r] * b[3][1] + a[2][r] * b[3][2] + a[3][r] * b[3][3] + a[4][r] * b[3][4]
        /\ ab[4][r] = a[1][r] * b[4][1] + a[2][r] * b[4][2] + a[3][r] * b[4][3] + a[4][r] * b[4][4]
    BY <1>1 DEF ab
  <2>6. /\ a[1][r] \in Int /\ a[2][r] \in Int /\ a[3][r] \in Int /\ a[4][r] \in Int
        /\ b[1][1] \in Int /\ b[1][2] \in Int /\ b[1][3] \in Int /\ b[1][4] \in Int
        /\ b[2][1] \in Int /\ b[2][2] \in Int /\ b[2][3] \in Int /\ b[2][4] \in Int
        /\ b[3][1] \in Int /\ b[3][2] \in Int /\ b[3][3] \in Int /\ b[3][4] \in Int
        /\ b[4][1] \in Int /\ b[4][2] \in Int /\ b[4][3] \in Int /\ b[4][4] \in Int
    BY <1>1
  <2>7. Transformed(ab, p)[r] = Applied(a, t)[r]
    BY ONLY <1>2, <2>2, <2>3, <2>4, <2>5, <2>6, Row
  <2> QED
    BY <2>7 DEF t, ab
<1> QED
  BY <1>3 DEF Transformed, Applied

\* A product of matrices of integers is one.
LEMMA ProductMatrix ==
    ASSUME NEW a, NEW b, Matrix(a), Matrix(b)
    PROVE  Matrix(Product(a, b))
  BY DEF Matrix, Product

\* Cosines and sines of quarters.
LEMMA Angles ==
    ASSUME NEW q \in Int
    PROVE  /\ Cosine(q) \in Int /\ Sine(q) \in Int
           /\ Cosine(q + 1) = -Sine(q) /\ Sine(q + 1) = Cosine(q)
           /\ Cosine(q) * Cosine(q) + Sine(q) * Sine(q) = 1
<1>1. q % 4 \in 0 .. 3 /\ (q + 1) % 4 = IF q % 4 = 3 THEN 0 ELSE (q % 4) + 1
  OBVIOUS
<1>2. CASE q % 4 = 0
  BY <1>1, <1>2 DEF Cosine, Sine
<1>3. CASE q % 4 = 1
  BY <1>1, <1>3 DEF Cosine, Sine
<1>4. CASE q % 4 = 2
  BY <1>1, <1>4 DEF Cosine, Sine
<1>5. CASE q % 4 = 3
  BY <1>1, <1>5 DEF Cosine, Sine
<1> QED
  BY <1>1, <1>2, <1>3, <1>4, <1>5

\* The turns are of integers.
LEMMA Rotations3 ==
    ASSUME NEW q \in Int
    PROVE  Matrix(RotationX(q)) /\ Matrix(RotationY(q)) /\ Matrix(RotationZ(q))
  BY Angles DEF Matrix, RotationX, RotationY, RotationZ
\* A rotation matrix turns a point about its axis.
LEMMA TurnX ==
    ASSUME NEW a, Matrix(a), NEW q \in Int, NEW p \in Vector
    PROVE  /\ Turn(1, q, p) \in Vector
           /\ Transformed(Product(a, RotationX(q)), p) = Transformed(a, Turn(1, q, p))
<1> DEFINE t == Turn(1, q, p)
           c == Cosine(q)
           s == Sine(q)
<1>0. c \in Int /\ s \in Int /\ p[1] \in Int /\ p[2] \in Int /\ p[3] \in Int
  BY Angles DEF Vector
<1>1. t \in Vector /\ t[1] = p[1] /\ t[2] = c * p[2] - s * p[3] /\ t[3] = s * p[2] + c * p[3]
  BY <1>0 DEF Turn, Vector
<1>2. Transformed(RotationX(q), p) = <<t[1], t[2], t[3], 1>>
  BY <1>0, <1>1 DEF Transformed, RotationX
<1>3. Transformed(Product(a, RotationX(q)), p) = Applied(a, <<t[1], t[2], t[3], 1>>)
  BY <1>2, Rotations3, Composition
<1> QED
  BY <1>1, <1>3 DEF Applied, Transformed, Matrix

\* The turn about y.
LEMMA TurnY ==
    ASSUME NEW a, Matrix(a), NEW q \in Int, NEW p \in Vector
    PROVE  /\ Turn(2, q, p) \in Vector
           /\ Transformed(Product(a, RotationY(q)), p) = Transformed(a, Turn(2, q, p))
<1> DEFINE t == Turn(2, q, p)
           c == Cosine(q)
           s == Sine(q)
<1>0. c \in Int /\ s \in Int /\ p[1] \in Int /\ p[2] \in Int /\ p[3] \in Int
  BY Angles DEF Vector
<1>1. t \in Vector /\ t[2] = p[2] /\ t[3] = c * p[3] - s * p[1] /\ t[1] = s * p[3] + c * p[1]
  BY <1>0 DEF Turn, Vector
<1>2. Transformed(RotationY(q), p) = <<t[1], t[2], t[3], 1>>
  BY <1>0, <1>1 DEF Transformed, RotationY
<1>3. Transformed(Product(a, RotationY(q)), p) = Applied(a, <<t[1], t[2], t[3], 1>>)
  BY <1>2, Rotations3, Composition
<1> QED
  BY <1>1, <1>3 DEF Applied, Transformed, Matrix

\* The turn about z.
LEMMA TurnZ ==
    ASSUME NEW a, Matrix(a), NEW q \in Int, NEW p \in Vector
    PROVE  /\ Turn(3, q, p) \in Vector
           /\ Transformed(Product(a, RotationZ(q)), p) = Transformed(a, Turn(3, q, p))
<1> DEFINE t == Turn(3, q, p)
           c == Cosine(q)
           s == Sine(q)
<1>0. c \in Int /\ s \in Int /\ p[1] \in Int /\ p[2] \in Int /\ p[3] \in Int
  BY Angles DEF Vector
<1>1. t \in Vector /\ t[3] = p[3] /\ t[1] = c * p[1] - s * p[2] /\ t[2] = s * p[1] + c * p[2]
  BY <1>0 DEF Turn, Vector
<1>2. Transformed(RotationZ(q), p) = <<t[1], t[2], t[3], 1>>
  BY <1>0, <1>1 DEF Transformed, RotationZ
<1>3. Transformed(Product(a, RotationZ(q)), p) = Applied(a, <<t[1], t[2], t[3], 1>>)
  BY <1>2, Rotations3, Composition
<1> QED
  BY <1>1, <1>3 DEF Applied, Transformed, Matrix

\* Object::Update makes the matrix that turns a point and moves it.
LEMMA PlacementPlaces ==
    ASSUME NEW o, o.pos \in Vector, o.rot \in Vector, NEW p \in Vector
    PROVE  /\ Matrix(Placement(o)) /\ Placed(o, p) \in Vector
           /\ Transformed(Placement(o), p) = <<Placed(o, p)[1], Placed(o, p)[2], Placed(o, p)[3], 1>>
<1> DEFINE moved == Translation(o.pos, 1)
           x == Product(moved, RotationX(o.rot[1]))
           y == Product(x, RotationY(o.rot[2]))
           t3 == Turn(3, o.rot[3], p)
           t2 == Turn(2, o.rot[2], t3)
           t1 == Turn(1, o.rot[1], t2)
<1>1. /\ o.rot[1] \in Int /\ o.rot[2] \in Int /\ o.rot[3] \in Int
      /\ o.pos[1] \in Int /\ o.pos[2] \in Int /\ o.pos[3] \in Int
  BY DEF Vector
<1>2. Matrix(moved)
  BY <1>1 DEF Matrix, Translation
<1>3. Matrix(x) /\ Matrix(y) /\ Matrix(Placement(o))
  BY <1>1, <1>2, Rotations3, ProductMatrix DEF Placement
<1>4. Placement(o) = Product(y, RotationZ(o.rot[3])) /\ Placed(o, p) = Plus(o.pos, t1)
  BY DEF Placement, Placed
<1> HIDE DEF y
<1>5. t3 \in Vector /\ Transformed(Placement(o), p) = Transformed(y, t3)
  BY <1>1, <1>3, <1>4, TurnZ
<1> HIDE DEF t3, x
<1>6. t2 \in Vector /\ Transformed(y, t3) = Transformed(x, t2)
  BY <1>1, <1>3, <1>5, TurnY DEF y
<1> HIDE DEF t2, moved
<1>7. t1 \in Vector /\ Transformed(x, t2) = Transformed(moved, t1)
  BY <1>1, <1>2, <1>6, TurnX DEF x
<1> HIDE DEF t1
<1>8. t1[1] \in Int /\ t1[2] \in Int /\ t1[3] \in Int
  BY <1>7 DEF Vector
<1>9. Placed(o, p) \in Vector
  BY <1>1, <1>4, <1>8 DEF Plus, Vector
<1>10. Transformed(moved, t1) = <<Placed(o, p)[1], Placed(o, p)[2], Placed(o, p)[3], 1>>
  BY <1>1, <1>4, <1>8 DEF moved, Plus, Transformed, Translation
<1> QED
  BY <1>3, <1>5, <1>6, <1>7, <1>9, <1>10

\* LookAt: the point at the distance d from the camera, in the directions of the camera.
LEMMA LookAtSees ==
    ASSUME NEW eye \in Vector, NEW f \in Vector, NEW p \in Vector
    PROVE  LET d == Minus(Times(5, p), eye)
               s == CrossProduct(f, Up)
           IN  /\ Matrix(LookAt(eye, f, 5))
               /\ Transformed(LookAt(eye, f, 5), p)
                    = <<5 * Dot(s, d), Dot(CrossProduct(s, f), d), -5 * Dot(f, d), 125>>
<1> DEFINE d == Minus(Times(5, p), eye)
           s == CrossProduct(f, Up)
           t == CrossProduct(s, f)
           view == [c \in 1 .. 4 |-> IF c = 4 THEN <<0, 0, 0, 25>>
                                     ELSE <<5 * s[c], t[c], -5 * f[c], 0>>]
           away == Translation(Times(-1, eye), 5)
<1>1. LookAt(eye, f, 5) = Product(view, away)
  BY DEF LookAt
<1>2. /\ eye[1] \in Int /\ eye[2] \in Int /\ eye[3] \in Int
      /\ f[1] \in Int /\ f[2] \in Int /\ f[3] \in Int
      /\ p[1] \in Int /\ p[2] \in Int /\ p[3] \in Int
  BY DEF Vector
<1>3. d[1] = 5 * p[1] - eye[1] /\ d[2] = 5 * p[2] - eye[2] /\ d[3] = 5 * p[3] - eye[3]
  BY <1>2 DEF Minus, Times
<1>4. d[1] \in Int /\ d[2] \in Int /\ d[3] \in Int
  BY <1>2, <1>3
<1>5. Matrix(away) /\ Transformed(away, p) = <<d[1], d[2], d[3], 5>>
  BY <1>2, <1>3 DEF Matrix, Translation, Times, Transformed
<1>6. s[1] \in Int /\ s[2] \in Int /\ s[3] \in Int
  BY <1>2 DEF CrossProduct, Up
<1> HIDE DEF s, d
<1>7. t[1] \in Int /\ t[2] \in Int /\ t[3] \in Int
  BY <1>2, <1>6 DEF CrossProduct
<1> HIDE DEF t
<1>8. Matrix(view)
  BY <1>2, <1>6, <1>7 DEF Matrix
<1>9. Transformed(Product(view, away), p) = Applied(view, <<d[1], d[2], d[3], 5>>)
  BY <1>5, <1>8, Composition
<1>10. Applied(view, <<d[1], d[2], d[3], 5>>) = <<5 * Dot(s, d), Dot(t, d), -5 * Dot(f, d), 125>>
  <2> DEFINE v == <<d[1], d[2], d[3], 5>>
  <2>1. /\ view[1] = <<5 * s[1], t[1], -5 * f[1], 0>> /\ view[2] = <<5 * s[2], t[2], -5 * f[2], 0>>
        /\ view[3] = <<5 * s[3], t[3], -5 * f[3], 0>> /\ view[4] = <<0, 0, 0, 25>>
    OBVIOUS
  <2> HIDE DEF view
  <2>2. Applied(view, v) = <<Applied(view, v)[1], Applied(view, v)[2], Applied(view, v)[3], Applied(view, v)[4]>>
    BY DEF Applied
  <2>3. Applied(view, v)[1] = 5 * Dot(s, d)
    BY <1>4, <1>6, <2>1 DEF Applied, Dot
  <2>4. Applied(view, v)[2] = Dot(t, d)
    BY <1>4, <1>7, <2>1 DEF Applied, Dot
  <2>5. Applied(view, v)[3] = -5 * Dot(f, d)
    BY <1>2, <1>4, <2>1 DEF Applied, Dot
  <2>6. Applied(view, v)[4] = 125
    BY <1>4, <2>1 DEF Applied
  <2> QED
    BY <2>2, <2>3, <2>4, <2>5, <2>6
<1>11. Matrix(LookAt(eye, f, 5))
  BY <1>1, <1>5, <1>8, ProductMatrix
<1> QED
  BY <1>1, <1>9, <1>10, <1>11 DEF s, t, d

\* A product by a positive number keeps the sign.
LEMMA ProductSign ==
    ASSUME NEW k \in Nat \ {0}, NEW n \in Int
    PROVE  k * n \in Int /\ Sign(k * n) = Sign(n)
<1>1. CASE n > 0
  <2>1. k * n > 0
    BY <1>1
  <2> QED
    BY <1>1, <2>1 DEF Sign
<1>2. CASE n = 0
  BY <1>2 DEF Sign
<1>3. CASE n < 0
  <2>1. k * n < 0
    BY <1>3
  <2> QED
    BY <1>3, <2>1 DEF Sign
<1> QED
  BY <1>1, <1>2, <1>3

\* The pitches the camera has, in fifths.
LEMMA Pitches ==
    ASSUME NEW pitch \in -2 .. 2
    PROVE  /\ CosPitch(pitch) \in Nat \ {0} /\ SinPitch(pitch) \in Int
           /\ pitch = 0 => CosPitch(pitch) = 5
<1>1. pitch = -2 \/ pitch = -1 \/ pitch = 0 \/ pitch = 1 \/ pitch = 2
  OBVIOUS
<1> QED
  BY <1>1 DEF CosPitch, SinPitch

\* The side and the top of what the camera sees are where Right and Above point.
LEMMA CameraDirections ==
    ASSUME NEW c, c.pitch \in -2 .. 2, c.yaw \in Int,
           NEW d, d[1] \in Int, d[2] \in Int, d[3] \in Int
    PROVE  LET f == CamFront(c.pitch, c.yaw)
               s == CrossProduct(f, Up)
           IN  /\ f \in Vector
               /\ Dot(f, d) \in Int /\ Dot(Right(c), d) \in Int /\ Dot(Above(c), d) \in Int
               /\ Dot(s, d) = CosPitch(c.pitch) * Dot(Right(c), d)
               /\ Dot(CrossProduct(s, f), d) = CosPitch(c.pitch) * Dot(Above(c), d)
<1> DEFINE f == CamFront(c.pitch, c.yaw)
           s == CrossProduct(f, Up)
           t == CrossProduct(s, f)
           x == Cosine(c.yaw)
           z == Sine(c.yaw)
           level == CosPitch(c.pitch)
           up == SinPitch(c.pitch)
<1>1. level \in Int /\ up \in Int /\ x \in Int /\ z \in Int /\ x * x + z * z = 1
  <2>1. CosPitch(c.pitch) \in Int /\ SinPitch(c.pitch) \in Int
    BY Pitches
  <2>2. x \in Int /\ z \in Int /\ x * x + z * z = 1
    BY Angles, Zenon
  <2> QED
    BY <2>1, <2>2
<1>2. f = <<x * level, up, z * level>>
  BY DEF CamFront
<1>3. Right(c) = <<-z, 0, x>> /\ Above(c) = <<-x * up, level, -z * up>>
  BY Angles DEF Right, Above
<1> HIDE DEF x, z, level, up, f
<1>4. f \in Vector
  BY <1>1, <1>2 DEF Vector
<1>5. s = <<-z * level, 0, x * level>>
  BY <1>1, <1>2 DEF CrossProduct, Up
<1> HIDE DEF s
<1>6. /\ t[1] = level * (-x * up) /\ t[3] = level * (-z * up)
      /\ t[2] = level * level * (x * x + z * z)
  BY <1>1, <1>2, <1>5 DEF CrossProduct
<1>7. t[2] = level * level
  BY <1>1, <1>6
<1> HIDE DEF t
<1>8. Dot(f, d) \in Int /\ Dot(Right(c), d) \in Int /\ Dot(Above(c), d) \in Int
  BY <1>1, <1>2, <1>3 DEF Dot
<1>9. Dot(s, d) = level * Dot(Right(c), d)
  BY <1>1, <1>3, <1>5 DEF Dot
<1>10. Dot(t, d) = level * Dot(Above(c), d)
  BY <1>1, <1>3, <1>6, <1>7 DEF Dot
<1> QED
  BY <1>4, <1>8, <1>9, <1>10 DEF f, s, t, level

\* The projection, entry by entry.
LEMMA ProjectionIs ==
    ASSUME NEW x \in Int, NEW y \in Int, NEW z \in Int
    PROVE  /\ Matrix(Projection)
           /\ Applied(Projection, <<x, y, z, 125>>)
                = <<(Far - Near) * x, (Aspect * (Far - Near)) * y,
                    -Aspect * ((Far + Near) * z) - 250 * (Aspect * (Far * Near)), 
                    -Aspect * ((Far - Near) * z)>>
<1>1. Aspect \in Int /\ Near \in Int /\ Far \in Int
  BY SceneAssumption
<1> DEFINE m == Projection
<1>2. /\ m[1] = <<Far - Near, 0, 0, 0>> /\ m[2] = <<0, Aspect * (Far - Near), 0, 0>>
      /\ m[3] = <<0, 0, -Aspect * (Far + Near), -Aspect * (Far - Near)>>
      /\ m[4] = <<0, 0, -2 * Aspect * Far * Near, 0>>
  BY <1>1 DEF Projection, Perspective
<1> HIDE DEF m
<1>3. Matrix(m)
  BY <1>1, <1>2 DEF Matrix
<1> DEFINE v == Applied(m, <<x, y, z, 125>>)
<1>4. v = <<v[1], v[2], v[3], v[4]>>
  BY DEF Applied
<1>5. v[1] = (Far - Near) * x
  BY <1>1, <1>2 DEF Applied
<1>6. v[2] = (Aspect * (Far - Near)) * y
  BY <1>1, <1>2 DEF Applied
<1>7. v[3] = -Aspect * ((Far + Near) * z) - 250 * (Aspect * (Far * Near))
  BY <1>1, <1>2 DEF Applied
<1>8. v[4] = -Aspect * ((Far - Near) * z)
  BY <1>1, <1>2 DEF Applied
<1> QED
  BY <1>3, <1>4, <1>5, <1>6, <1>7, <1>8 DEF m

\* Between the near plane and the far one.
LEMMA Depths ==
    ASSUME NEW a \in Nat \ {0}, NEW n \in Nat \ {0}, NEW f \in Nat, n < f, NEW d \in Int
    PROVE  LET z == 5 * (a * ((f + n) * d)) - 250 * (a * (f * n))
               w == 5 * (a * ((f - n) * d))
           IN  (-w <= z /\ z <= w) <=> (25 * n <= d /\ d <= 25 * f)
<1> DEFINE z == 5 * (a * ((f + n) * d)) - 250 * (a * (f * n))
           w == 5 * (a * ((f - n) * d))
<1>1. z + w = (10 * a * f) * (d - 25 * n) /\ w - z = (10 * a * n) * (25 * f - d)
  OBVIOUS
<1>2. z \in Int /\ w \in Int /\ 10 * a * f \in Int /\ 10 * a * n \in Int
  OBVIOUS
<1> HIDE DEF z, w
<1>3. 10 * a * f > 0 /\ 10 * a * n > 0
  <2>1. a * f > 0 /\ a * n > 0 /\ a * f \in Int /\ a * n \in Int
    OBVIOUS
  <2>2. 10 * a * f = 10 * (a * f) /\ 10 * a * n = 10 * (a * n)
    OBVIOUS
  <2> QED
    BY <2>1, <2>2
<1>4. \A k, x \in Int : k > 0 => (0 <= k * x <=> 0 <= x)
  OBVIOUS
<1>5. -w <= z <=> 0 <= d - 25 * n
  <2>1. -w <= z <=> 0 <= z + w
    BY <1>2
  <2> QED
    BY <1>1, <1>2, <1>3, <1>4, <2>1
<1>6. z <= w <=> 0 <= 25 * f - d
  <2>1. z <= w <=> 0 <= w - z
    BY <1>2
  <2> QED
    BY <1>1, <1>2, <1>3, <1>4, <2>1
<1>7. (0 <= d - 25 * n <=> 25 * n <= d) /\ (0 <= 25 * f - d <=> d <= 25 * f)
  OBVIOUS
<1> QED
  BY <1>5, <1>6, <1>7 DEF z, w

\* A frame drawn with the matrices of now shows each point where it is.
LEMMA PointIsShown ==
    ASSUME NEW c, c.pos \in Vector, c.pitch \in -2 .. 2, c.yaw \in Int,
           NEW o, o.pos \in Vector, o.rot \in Vector, NEW p \in Vector
    PROVE  LET view == Product(Projection, LookAt(c.pos, CamFront(c.pitch, c.yaw), 5))
               clip == Transformed(Product(view, Placement(o)), p)
               d == Minus(Times(5, Placed(o, p)), c.pos)
           IN  Shows(clip, c, d) /\ (c.pitch = 0 => KeepsAngles(clip, c, d))
<1> DEFINE f == CamFront(c.pitch, c.yaw)
           eye == LookAt(c.pos, f, 5)
           view == Product(Projection, eye)
           clip == Transformed(Product(view, Placement(o)), p)
           place == Placed(o, p)
           d == Minus(Times(5, place), c.pos)
           depth == Dot(f, d)
           side == Dot(Right(c), d)
           top == Dot(Above(c), d)
           level == CosPitch(c.pitch)
           far == Far - Near
<1>1. /\ place \in Vector /\ Matrix(Placement(o))
      /\ Transformed(Placement(o), p) = <<place[1], place[2], place[3], 1>>
  BY PlacementPlaces
<1>2. d[1] \in Int /\ d[2] \in Int /\ d[3] \in Int
  BY <1>1 DEF Minus, Times, Vector
<1>3. /\ f \in Vector /\ depth \in Int /\ side \in Int /\ top \in Int
      /\ Dot(CrossProduct(f, Up), d) = level * side
      /\ Dot(CrossProduct(CrossProduct(f, Up), f), d) = level * top
  BY <1>2, CameraDirections
<1>4. level \in Nat \ {0} /\ (c.pitch = 0 => level = 5)
  BY Pitches
<1>5. /\ Matrix(eye)
      /\ Transformed(eye, place) = <<5 * (level * side), level * top, -5 * depth, 125>>
  BY <1>1, <1>3, LookAtSees
<1>6. Matrix(Projection) /\ Matrix(view)
  BY <1>5, ProjectionIs, ProductMatrix
<1>7. clip = Transformed(view, place)
  <2>1. clip = Applied(view, <<place[1], place[2], place[3], 1>>)
    BY <1>1, <1>6, Composition
  <2>2. place[1] \in Int /\ place[2] \in Int /\ place[3] \in Int
    BY <1>1 DEF Vector
  <2> HIDE DEF view, place, clip
  <2> QED
    BY <1>6, <2>1, <2>2 DEF Applied, Transformed, Matrix
<1>8. clip = Applied(Projection, <<5 * (level * side), level * top, -5 * depth, 125>>)
  <2>1. Transformed(view, place) = Applied(Projection, Transformed(eye, place))
    BY <1>1, <1>5, <1>6, Composition
  <2> QED
    BY <1>5, <1>7, <2>1
<1>9. Aspect \in Nat \ {0} /\ Near \in Nat \ {0} /\ Far \in Nat /\ Near < Far /\ far \in Nat \ {0}
  BY SceneAssumption
<1> HIDE DEF f, eye, view, clip, place, d, depth, side, top, level
<1>10. clip = <<far * (5 * (level * side)), (Aspect * far) * (level * top),
                -Aspect * ((Far + Near) * (-5 * depth)) - 250 * (Aspect * (Far * Near)),
                -Aspect * (far * (-5 * depth))>>
  BY <1>3, <1>4, <1>8, ProjectionIs
<1> HIDE DEF far
<1>11. /\ clip[1] = (5 * far * level) * side /\ clip[2] = (Aspect * far * level) * top
       /\ clip[4] = (5 * Aspect * far) * depth
  BY <1>3, <1>4, <1>9, <1>10
<1>12. /\ clip[3] = 5 * (Aspect * ((Far + Near) * depth)) - 250 * (Aspect * (Far * Near))
       /\ clip[4] = 5 * (Aspect * ((Far - Near) * depth))
  BY <1>3, <1>9, <1>10 DEF far
<1>13. /\ 5 * far * level \in Nat \ {0} /\ Aspect * far * level \in Nat \ {0}
       /\ 5 * Aspect * far \in Nat \ {0}
  <2>1. \A k, n \in Nat \ {0} : k * n \in Nat \ {0}
    OBVIOUS
  <2>2. 5 * far \in Nat \ {0} /\ Aspect * far \in Nat \ {0} /\ 5 * Aspect \in Nat \ {0}
    BY <1>9, <2>1
  <2> QED
    BY <1>4, <1>9, <2>1, <2>2
<1>14. Sign(clip[1]) = Sign(side) /\ Sign(clip[2]) = Sign(top) /\ Sign(clip[4]) = Sign(depth)
  BY <1>3, <1>11, <1>13, ProductSign
<1>15. (-clip[4] <= clip[3] /\ clip[3] <= clip[4]) <=> (25 * Near <= depth /\ depth <= 25 * Far)
  BY <1>3, <1>9, <1>12, Depths
<1>16. Shows(clip, c, d)
  BY <1>14, <1>15 DEF Shows, f, depth, side, top
<1>17. ASSUME c.pitch = 0 PROVE KeepsAngles(clip, c, d)
  <2>1. clip[1] = (25 * far) * side /\ clip[2] = (5 * Aspect * far) * top
    BY <1>3, <1>4, <1>9, <1>11, <1>17
  <2>2. clip[1] * Aspect * depth = clip[4] * 5 * side
    BY <1>3, <1>9, <1>11, <2>1
  <2>3. clip[2] * depth = clip[4] * top
    BY <1>3, <1>9, <1>11, <2>1
  <2> QED
    BY <2>2, <2>3 DEF KeepsAngles, f, depth, side, top
<1> QED
  BY <1>16, <1>17 DEF f, eye, view, clip, place, d

--------------------------------------------------------------------------------
(* Objects and their meshes: each operation leaves a matrix that is current or *)
(* flagged, and so the vertices of a mesh.                                  *)

\* Meshes and objects are records of these fields; an object lies among the integers.
IsMesh(mesh) ==
    mesh \in [faces : {mesh.faces}, needsRecompute : BOOLEAN, vertices : {mesh.vertices}]
IsObject(o) ==
    /\ o \in [pos : Vector, rot : Vector, m : {o.m}, needsMatrixUpdate : BOOLEAN, mesh : {o.mesh}]
    /\ IsMesh(o.mesh)

\* A matrix that is not to be recomputed is the one it would be computed to.
ObjectInv(o) == IsObject(o) /\ (~o.needsMatrixUpdate => o.m = Placement(o))

\* What a change of one field of a mesh leaves.
LEMMA MeshFields ==
    ASSUME NEW F, NEW V, NEW mesh \in [faces : F, needsRecompute : BOOLEAN, vertices : V]
    PROVE  IsMesh(mesh)
  BY DEF IsMesh

\* And of an object.
LEMMA ObjectFields ==
    ASSUME NEW M, NEW S, NEW o \in [pos : Vector, rot : Vector, m : M,
                                    needsMatrixUpdate : BOOLEAN, mesh : S],
           IsMesh(o.mesh)
    PROVE  IsObject(o)
  BY DEF IsObject

\* What the operations of Mesh make of one.
LEMMA MeshOperations ==
    ASSUME NEW mesh, IsMesh(mesh)
    PROVE  /\ IsMesh(Invalidate(mesh)) /\ Invalidate(mesh).needsRecompute
           /\ Invalidate(mesh).faces = mesh.faces
           /\ IsMesh(Recompute(mesh)) /\ ~Recompute(mesh).needsRecompute
           /\ Recompute(mesh).faces = mesh.faces
           /\ mesh.needsRecompute => Recompute(mesh).vertices = VerticesOf(mesh.faces)
           /\ ~mesh.needsRecompute => Recompute(mesh).vertices = mesh.vertices
<1>1. mesh \in [faces : {mesh.faces}, needsRecompute : BOOLEAN, vertices : {mesh.vertices}]
  BY DEF IsMesh
<1> DEFINE i == Invalidate(mesh)
           r == Recompute(mesh)
<1>2. /\ i \in [faces : {mesh.faces}, needsRecompute : BOOLEAN, vertices : {mesh.vertices}]
      /\ i.needsRecompute /\ i.faces = mesh.faces
  BY <1>1 DEF Invalidate
<1>3. IsMesh(i)
  BY <1>2, MeshFields
<1>4. CASE mesh.needsRecompute
  <2>1. /\ r \in [faces : {mesh.faces}, needsRecompute : BOOLEAN,
                  vertices : {mesh.vertices, VerticesOf(mesh.faces)}]
        /\ ~r.needsRecompute /\ r.faces = mesh.faces /\ r.vertices = VerticesOf(mesh.faces)
    BY <1>1, <1>4 DEF Recompute
  <2>2. IsMesh(r)
    BY <2>1, MeshFields
  <2> QED
    BY <1>2, <1>3, <1>4, <2>1, <2>2
<1>5. CASE ~mesh.needsRecompute
  <2>1. r = mesh
    BY <1>5 DEF Recompute
  <2> QED
    BY <1>2, <1>3, <1>5, <2>1
<1> QED
  BY <1>4, <1>5

\* A placement is that of the position and the rotation.
LEMMA PlacementAlike ==
    ASSUME NEW o, NEW q, o.pos = q.pos, o.rot = q.rot
    PROVE  Placement(o) = Placement(q)
  BY DEF Placement

\* An object with another mesh, another place, or updated.
LEMMA ObjectMesh ==
    ASSUME NEW o, ObjectInv(o), NEW mesh, IsMesh(mesh)
    PROVE  LET q == [o EXCEPT !.mesh = mesh]
           IN  /\ ObjectInv(q) /\ q.mesh = mesh /\ q.pos = o.pos /\ q.rot = o.rot
               /\ q.m = o.m /\ (q.needsMatrixUpdate <=> o.needsMatrixUpdate)
<1> DEFINE q == [o EXCEPT !.mesh = mesh]
<1>1. o \in [pos : Vector, rot : Vector, m : {o.m}, needsMatrixUpdate : BOOLEAN, mesh : {o.mesh}]
  BY DEF ObjectInv, IsObject
<1>2. /\ q \in [pos : Vector, rot : Vector, m : {o.m}, needsMatrixUpdate : BOOLEAN,
                mesh : {o.mesh, mesh}]
      /\ q.mesh = mesh /\ q.pos = o.pos /\ q.rot = o.rot
      /\ q.m = o.m /\ (q.needsMatrixUpdate <=> o.needsMatrixUpdate)
  BY <1>1
<1> HIDE DEF q
<1>3. IsObject(q)
  BY <1>2, ObjectFields
<1>4. ObjectInv(q)
  BY <1>2, <1>3, PlacementAlike DEF ObjectInv
<1> QED
  BY <1>2, <1>4 DEF q

\* An object that is moved is flagged, and its mesh stays.
LEMMA ObjectMoves ==
    ASSUME NEW o, ObjectInv(o), NEW p \in Vector, NEW rot \in Vector
    PROVE  /\ ObjectInv(Moved(o, p, rot)) /\ Moved(o, p, rot).mesh = o.mesh
           /\ ObjectInv(Assigned(o, p, rot)) /\ Assigned(o, p, rot).mesh = o.mesh
<1>1. /\ o \in [pos : Vector, rot : Vector, m : {o.m}, needsMatrixUpdate : BOOLEAN, mesh : {o.mesh}]
      /\ IsMesh(o.mesh) /\ (~o.needsMatrixUpdate => o.m = Placement(o))
  BY DEF ObjectInv, IsObject
<1> DEFINE n == Moved(o, p, rot)
           q == Assigned(o, p, rot)
<1>2. /\ n \in [pos : Vector, rot : Vector, m : {o.m}, needsMatrixUpdate : BOOLEAN, mesh : {o.mesh}]
      /\ n.needsMatrixUpdate /\ n.mesh = o.mesh
  BY <1>1 DEF Moved
<1>3. IsObject(n)
  BY <1>1, <1>2, ObjectFields
<1>4. /\ q \in [pos : Vector, rot : Vector, m : {o.m}, needsMatrixUpdate : BOOLEAN, mesh : {o.mesh}]
      /\ q.pos = p /\ q.rot = rot /\ q.m = o.m /\ q.mesh = o.mesh
      /\ q.needsMatrixUpdate <=> o.needsMatrixUpdate \/ o.pos # p \/ o.rot # rot
  BY <1>1 DEF Assigned
<1> HIDE DEF n, q
<1>5. IsObject(q)
  BY <1>1, <1>4, ObjectFields
<1>6. ASSUME ~q.needsMatrixUpdate PROVE q.m = Placement(q)
  <2>1. ~o.needsMatrixUpdate /\ q.pos = o.pos /\ q.rot = o.rot
    BY <1>4, <1>6
  <2> QED
    BY <1>1, <1>4, <2>1, PlacementAlike
<1> QED
  BY <1>2, <1>3, <1>4, <1>5, <1>6 DEF ObjectInv, n, q

\* Object::Update leaves the object with the matrix of where it is.
LEMMA ObjectUpdates ==
    ASSUME NEW o, ObjectInv(o)
    PROVE  /\ ObjectInv(Updated(o)) /\ Updated(o).m = Placement(Updated(o))
           /\ Updated(o).mesh = o.mesh
<1>1. /\ o \in [pos : Vector, rot : Vector, m : {o.m}, needsMatrixUpdate : BOOLEAN, mesh : {o.mesh}]
      /\ IsMesh(o.mesh)
  BY DEF ObjectInv, IsObject
<1>2. CASE o.needsMatrixUpdate
  <2> DEFINE q == Updated(o)
             placement == Placement(o)
  <2> HIDE DEF placement
  <2>1. q = [o EXCEPT !.needsMatrixUpdate = FALSE, !.m = placement]
    BY <1>2 DEF Updated, placement
  <2> HIDE DEF q
  <2>2. /\ q \in [pos : Vector, rot : Vector, m : {o.m, placement},
                  needsMatrixUpdate : BOOLEAN, mesh : {o.mesh}]
        /\ q.pos = o.pos /\ q.rot = o.rot /\ q.m = placement /\ q.mesh = o.mesh
    BY <1>1, <2>1
  <2>3. IsObject(q)
    BY <1>1, <2>2, ObjectFields
  <2>4. Placement(q) = placement
    BY <2>2, PlacementAlike DEF placement
  <2> QED
    BY <2>2, <2>3, <2>4 DEF ObjectInv, q
<1>3. CASE ~o.needsMatrixUpdate
  BY <1>3 DEF Updated, ObjectInv
<1> QED
  BY <1>2, <1>3

\* Object::Render leaves nothing to recompute.
LEMMA ObjectRenders ==
    ASSUME NEW o, ObjectInv(o)
    PROVE  /\ ObjectInv(Rendered(o)) /\ Rendered(o).m = Placement(Rendered(o))
           /\ Rendered(o).mesh = Recompute(o.mesh)
<1>1. IsMesh(Recompute(o.mesh))
  BY MeshOperations DEF ObjectInv, IsObject
<1> DEFINE u == Updated(o)
           q == [u EXCEPT !.mesh = Recompute(o.mesh)]
<1>2. ObjectInv(u) /\ u.m = Placement(u)
  BY ObjectUpdates
<1> HIDE DEF u
<1>3. ObjectInv(q) /\ q.mesh = Recompute(o.mesh) /\ q.pos = u.pos /\ q.rot = u.rot /\ q.m = u.m
  BY <1>1, <1>2, ObjectMesh
<1>4. Rendered(o) = q
  BY DEF Rendered, u
<1> HIDE DEF q
<1>5. Placement(q) = Placement(u)
  BY <1>3, PlacementAlike
<1> QED
  BY <1>2, <1>3, <1>4, <1>5

--------------------------------------------------------------------------------
(* The invariant of the frames: what is not flagged is what it would be computed *)
(* to.  Each part of it is kept by every step.                              *)

Cameras == [pos : Vector, pitch : -2 .. 2, yaw : Int, front : Vector, needsMatrixUpdate : BOOLEAN]

\* The front and the matrix of the camera are those of its place and its angles.
CameraShown ==
    /\ camera.front = CamFront(camera.pitch, camera.yaw)
    /\ viewProjection = Product(Projection, LookAt(camera.pos, camera.front, 5))
CameraInv ==
    /\ camera \in Cameras
    /\ ~camera.needsMatrixUpdate \/ phase \in {"chunk", "render", "gui", "swap"} => CameraShown

\* The text of the GUI is that of the camera it saw last.
GuiInv ==
    /\ gui.needUpdate \/ gui.boxes = gui.seen
    /\ phase = "swap" => gui.boxes = Looks(camera)

ObjectsInv == ObjectInv(chunk) /\ ObjectInv(object)

\* A chunk that is not to be updated passed the assertions and has the faces of its blocks,
\* unless it failed them and the program was ended.
ChunkInv ==
    /\ needsUpdate \in BOOLEAN
    /\ chunk.mesh.needsRecompute \/ chunk.mesh.vertices = VerticesOf(chunk.mesh.faces)
    /\ ~needsUpdate /\ phase # "aborted"
          => Asserts(blocks) /\ chunk.mesh.faces = ComputedFaces(blocks)
    /\ phase \in {"render", "gui", "swap"} => ~needsUpdate
    /\ phase = "aborted" => ~Asserts(blocks)

\* The same of the mesh of the object, but for a SetShowFace that changed nothing.
MeshInv ==
    /\ unchanged \in BOOLEAN
    /\ unchanged => DOMAIN object.mesh.faces # {}
    /\ \/ object.mesh.needsRecompute \/ unchanged
       \/ object.mesh.vertices = VerticesOf(object.mesh.faces)

\* What is on the screen was drawn with the matrices and the meshes of now.
ScreenInv ==
    phase \in {"gui", "swap"} =>
       /\ chunk.m = Placement(chunk) /\ object.m = Placement(object)
       /\ ~chunk.mesh.needsRecompute /\ ~object.mesh.needsRecompute
       /\ screen.chunk = Drawn(chunk) /\ screen.object = Drawn(object)

FrameInv == CameraInv /\ GuiInv /\ ObjectsInv /\ ChunkInv /\ MeshInv /\ ScreenInv

\* The calls that come between two frames, the blocks apart.
OtherCall ==
    \/ \E p \in Positions : MoveObjects(p)
    \/ \E rot \in Rotations : RotateObjects(rot)
    \/ \E step \in Steps, n \in {1, -1} : Walk(Times(n, step))
    \/ \E n \in Faces \cap DOMAIN object.mesh.faces, show \in BOOLEAN : ShowFace(n, show)
    \/ \E n \in Faces, name \in Names : SetTextureFromAtlas({n}, Whole, name)
    \/ \E name \in Names : SetTextureFromAtlas(DOMAIN object.mesh.faces, Turned, name)
    \/ Clone \/ Close
    \/ \E dx \in {-1, 0, 1}, dy \in {-1, 0, 1} : MouseMove(dx, dy)

\* Such a call waits for the next frame: nothing that was drawn changes.
LEMMA Calls ==
    ASSUME OtherCall
    PROVE  /\ phase = "poll" /\ phase' \in {"poll", "ended", "no such texture"}
           /\ UNCHANGED <<blocks, needsUpdate, viewProjection, gui, screen>>
  BY DEF OtherCall, MoveObjects, RotateObjects, Walk, ShowFace, SetTextureFromAtlas, Clone, Close,
         MouseMove, Call

\* So does a block that is put, and it asks for an update of the chunk.
LEMMA Puts ==
    ASSUME \E c \in Places, type \in Types : PutBlock(c, type)
    PROVE  /\ phase = "poll" /\ phase' = "poll" /\ needsUpdate' = TRUE
           /\ UNCHANGED <<chunk, object, camera, viewProjection, gui, screen, unchanged>>
  BY DEF PutBlock, Call

\* A pitch that is cut is in the table of pitches.
LEMMA ClampIs ==
    ASSUME NEW limit \in 0 .. 2, NEW n \in Int
    PROVE  Clamp(n, limit) \in -2 .. 2
<1>1. CASE n > limit
  BY <1>1 DEF Clamp
<1>2. CASE n < -limit
  <2>1. ~(n > limit)
    BY <1>2
  <2> QED
    BY <1>2, <2>1 DEF Clamp
<1>3. CASE ~(n > limit) /\ ~(n < -limit)
  <2>1. Clamp(n, limit) = n
    BY <1>3 DEF Clamp
  <2> QED
    BY <1>3, <2>1
<1> QED
  BY <1>1, <1>2, <1>3

\* What a step that leaves the camera keeps of its part.
LEMMA CameraKept ==
    ASSUME CameraInv, UNCHANGED <<camera, viewProjection>>,
           phase' \in {"chunk", "render", "gui", "swap"} => phase \in {"chunk", "render", "gui", "swap"}
    PROVE  CameraInv'
<1>1. CameraShown' <=> CameraShown
  BY DEF CameraShown
<1> QED
  BY <1>1 DEF CameraInv

\* Every step keeps the invariant of the camera.
LEMMA CameraStep == CameraInv /\ [SceneNext]_sceneVars => CameraInv'
<1> SUFFICES ASSUME CameraInv, [SceneNext]_sceneVars PROVE CameraInv'
  OBVIOUS
<1>0. camera \in Cameras /\ MouseClamp \in 0 .. 2 /\ CameraClamp \in 0 .. 2
  BY SceneAssumption DEF CameraInv
<1>1. CASE BuildTextureAtlas \/ ChunkUpdate \/ Render \/ GuiRender \/ SwapBuffers
  <2>1. UNCHANGED <<camera, viewProjection>>
    BY <1>1 DEF BuildTextureAtlas, ChunkUpdate, Render, GuiRender, SwapBuffers
  <2>2. phase' \in {"chunk", "render", "gui", "swap"} => phase \in {"chunk", "render", "gui", "swap"}
    BY <1>1 DEF BuildTextureAtlas, ChunkUpdate, Render, GuiRender, SwapBuffers
  <2> QED
    BY <2>1, <2>2, CameraKept
<1>2. CASE CameraUpdate
  <2>1. CASE camera.needsMatrixUpdate
    <3> DEFINE pitch == Clamp(camera.pitch, CameraClamp)
               front == CamFront(pitch, camera.yaw)
    <3>1. pitch \in -2 .. 2
      <4>1. camera.pitch \in Int
        BY <1>0 DEF Cameras
      <4> QED
        BY <1>0, <4>1, ClampIs
    <3>2. front \in Vector
      <4>1. camera.yaw \in Int
        BY <1>0 DEF Cameras
      <4> HIDE DEF pitch
      <4>2. CosPitch(pitch) \in Int /\ SinPitch(pitch) \in Int
        BY <3>1, Pitches
      <4>3. Cosine(camera.yaw) \in Int /\ Sine(camera.yaw) \in Int
        BY <4>1, Angles, Zenon
      <4> QED
        BY <4>2, <4>3 DEF CamFront, Vector
    <3>3. /\ camera' = [camera EXCEPT !.pitch = pitch, !.front = front,
                                      !.needsMatrixUpdate = pitch # camera.pitch]
          /\ viewProjection' = Product(Projection, LookAt(camera.pos, front, 5))
      BY <1>2, <2>1 DEF CameraUpdate
    <3>4. front = CamFront(pitch, camera.yaw)
      OBVIOUS
    <3> HIDE DEF pitch, front
    <3>5. /\ camera' \in Cameras /\ camera'.pitch = pitch /\ camera'.front = front
          /\ camera'.pos = camera.pos /\ camera'.yaw = camera.yaw
      BY <1>0, <3>1, <3>2, <3>3 DEF Cameras
    <3>6. CameraShown'
      BY <3>3, <3>4, <3>5 DEF CameraShown
    <3> QED
      BY <3>5, <3>6 DEF CameraInv
  <2>2. CASE ~camera.needsMatrixUpdate
    <3>1. UNCHANGED <<camera, viewProjection>>
      BY <1>2, <2>2 DEF CameraUpdate
    <3>2. CameraShown'
      BY <2>2, <3>1 DEF CameraInv, CameraShown
    <3> QED
      BY <1>0, <3>1, <3>2 DEF CameraInv
  <2> QED
    BY <2>1, <2>2
<1>3. CASE \E c \in Places, type \in Types : PutBlock(c, type)
  BY <1>3, Puts, CameraKept
<1>4. CASE OtherCall
  <2>1. phase' \notin {"chunk", "render", "gui", "swap"} /\ UNCHANGED viewProjection
    BY <1>4, Calls
  <2>2. CASE UNCHANGED camera
    BY <2>1, <2>2, CameraKept
  <2>3. CASE \E dx \in {-1, 0, 1}, dy \in {-1, 0, 1} : MouseMove(dx, dy)
    <3>1. PICK dx \in {-1, 0, 1}, dy \in {-1, 0, 1} : MouseMove(dx, dy)
      BY <2>3
    <3> DEFINE yaw == IF firstMouse THEN camera.yaw ELSE camera.yaw + dx
               aim == IF firstMouse THEN camera.pitch ELSE camera.pitch + dy
               pitch == Clamp(aim, MouseClamp)
    <3>2. yaw \in Int /\ aim \in Int
      BY <1>0 DEF Cameras
    <3>3. camera' = [camera EXCEPT !.yaw = yaw, !.pitch = pitch, !.needsMatrixUpdate = TRUE]
      BY <3>1 DEF MouseMove
    <3> HIDE DEF aim, yaw
    <3>4. pitch \in -2 .. 2
      BY <1>0, <3>2, ClampIs
    <3> HIDE DEF pitch
    <3>5. camera' \in Cameras /\ camera'.needsMatrixUpdate
      BY <1>0, <3>2, <3>3, <3>4 DEF Cameras
    <3> QED
      BY <2>1, <3>5 DEF CameraInv
  <2>4. CASE \E step \in Steps, n \in {1, -1} : Walk(Times(n, step))
    <3>1. PICK step \in Steps, n \in {1, -1} : Walk(Times(n, step))
      BY <2>4
    <3>2. camera.front \in Vector /\ camera.pos \in Vector
      BY <1>0 DEF Cameras
    <3>3. step \in Vector
      BY <3>2 DEF Steps, Vector, CrossProduct, Times, Up
    <3> DEFINE pos == Plus(camera.pos, Times(n, step))
    <3>4. pos \in Vector
      BY <3>2, <3>3 DEF Plus, Times, Vector
    <3>5. camera' = [camera EXCEPT !.pos = pos, !.needsMatrixUpdate = TRUE]
      BY <3>1 DEF Walk
    <3> HIDE DEF pos
    <3>6. camera' \in Cameras /\ camera'.needsMatrixUpdate
      BY <1>0, <3>4, <3>5 DEF Cameras
    <3> QED
      BY <2>1, <3>6 DEF CameraInv
  <2> QED
    BY <1>4, <2>2, <2>3, <2>4
       DEF OtherCall, MoveObjects, RotateObjects, ShowFace, SetTextureFromAtlas, Clone, Close
<1>5. CASE UNCHANGED sceneVars
  BY <1>5, CameraKept DEF sceneVars
<1> QED
  BY <1>1, <1>2, <1>3, <1>4, <1>5 DEF SceneNext, OtherCall

\* Every step keeps the invariant of the text.
LEMMA GuiStep == GuiInv /\ [SceneNext]_sceneVars => GuiInv'
<1> SUFFICES ASSUME GuiInv, [SceneNext]_sceneVars PROVE GuiInv'
  OBVIOUS
<1>1. CASE GuiRender
  <2> DEFINE sees == gui.needUpdate \/ gui.seen # Looks(camera)
  <2>1. gui' = [seen |-> Looks(camera), needUpdate |-> FALSE,
                boxes |-> IF sees THEN Looks(camera) ELSE gui.boxes]
        /\ UNCHANGED camera
    BY <1>1 DEF GuiRender
  <2>2. gui'.boxes = Looks(camera) /\ gui'.seen = Looks(camera)
    BY <2>1 DEF GuiInv
  <2> QED
    BY <2>1, <2>2 DEF GuiInv, Looks
<1>2. CASE UNCHANGED gui /\ phase' # "swap"
  BY <1>2 DEF GuiInv
<1>3. CASE BuildTextureAtlas \/ CameraUpdate \/ ChunkUpdate \/ Render \/ SwapBuffers
  BY <1>2, <1>3 DEF BuildTextureAtlas, CameraUpdate, ChunkUpdate, Render, SwapBuffers
<1>4. CASE (\E c \in Places, type \in Types : PutBlock(c, type)) \/ OtherCall
  BY <1>2, <1>4, Puts, Calls
<1>5. CASE UNCHANGED sceneVars
  BY <1>5 DEF sceneVars, GuiInv, Looks
<1> QED
  BY <1>1, <1>3, <1>4, <1>5 DEF SceneNext, OtherCall

\* SetShowFace, SetTextureFromAtlas: the object with the mesh they change.
LEMMA MeshChanges ==
    ASSUME NEW mesh, IsMesh(mesh)
    PROVE  /\ \A n \in DOMAIN mesh.faces, show \in BOOLEAN :
                 LET q == SetShowFace(mesh, n, show)
                 IN  /\ IsMesh(q) /\ DOMAIN q.faces = DOMAIN mesh.faces
                     /\ q.needsRecompute <=> mesh.faces[n].render # show
           /\ \A targets, map :
                 LET q == SetFaceMap(mesh, targets, map)
                 IN  /\ IsMesh(q) /\ DOMAIN q.faces = DOMAIN mesh.faces
                     /\ q.needsRecompute <=> mesh.needsRecompute \/ targets # {}
<1>1. mesh \in [faces : {mesh.faces}, needsRecompute : BOOLEAN, vertices : {mesh.vertices}]
  BY DEF IsMesh
<1>2. ASSUME NEW n \in DOMAIN mesh.faces, NEW show \in BOOLEAN
      PROVE  LET q == SetShowFace(mesh, n, show)
             IN  /\ IsMesh(q) /\ DOMAIN q.faces = DOMAIN mesh.faces
                 /\ q.needsRecompute <=> mesh.faces[n].render # show
  <2> DEFINE q == SetShowFace(mesh, n, show)
             faces == [mesh.faces EXCEPT ![n].render = show]
             changes == mesh.faces[n].render # show
  <2>1. q = [mesh EXCEPT !.needsRecompute = changes, !.faces = faces]
    BY <1>1 DEF SetShowFace
  <2>2. DOMAIN faces = DOMAIN mesh.faces /\ changes \in BOOLEAN
    OBVIOUS
  <2> HIDE DEF q, faces
  <2>3. /\ q \in [faces : {faces}, needsRecompute : BOOLEAN, vertices : {mesh.vertices}]
        /\ (q.needsRecompute <=> changes) /\ q.faces = faces
    BY <1>1, <2>1, <2>2
  <2>4. IsMesh(q)
    BY <2>3, MeshFields
  <2> QED
    BY <2>2, <2>3, <2>4 DEF q
<1>3. ASSUME NEW targets, NEW map
      PROVE  LET q == SetFaceMap(mesh, targets, map)
             IN  /\ IsMesh(q) /\ DOMAIN q.faces = DOMAIN mesh.faces
                 /\ q.needsRecompute <=> mesh.needsRecompute \/ targets # {}
  <2> DEFINE q == SetFaceMap(mesh, targets, map)
             faces == [n \in DOMAIN mesh.faces |->
                         IF n \in targets THEN [mesh.faces[n] EXCEPT !.texCoord = map]
                         ELSE mesh.faces[n]]
  <2>1. q = [mesh EXCEPT !.needsRecompute = mesh.needsRecompute \/ targets # {}, !.faces = faces]
    BY <1>1 DEF SetFaceMap
  <2>2. DOMAIN faces = DOMAIN mesh.faces
    OBVIOUS
  <2> HIDE DEF q, faces
  <2>3. /\ q \in [faces : {faces}, needsRecompute : BOOLEAN, vertices : {mesh.vertices}]
        /\ (q.needsRecompute <=> mesh.needsRecompute \/ targets # {}) /\ q.faces = faces
    BY <1>1, <2>1
  <2>4. IsMesh(q)
    BY <2>3, MeshFields
  <2> QED
    BY <2>2, <2>3, <2>4 DEF q
<1> QED
  BY <1>2, <1>3

\* The objects of the start.
LEMMA NewObjects ==
    ASSUME NEW faces
    PROVE  /\ IsMesh(NewMesh(faces)) /\ NewMesh(faces).needsRecompute
           /\ ObjectInv(NewObject(NewMesh(faces)))
           /\ NewObject(NewMesh(faces)).mesh = NewMesh(faces)
           /\ NewObject(NewMesh(faces)).needsMatrixUpdate
<1> DEFINE mesh == NewMesh(faces)
           o == NewObject(mesh)
<1>1. /\ mesh \in [faces : {Copied(faces)}, needsRecompute : BOOLEAN, vertices : {<<>>}]
      /\ mesh.needsRecompute
  BY DEF NewMesh
<1>2. IsMesh(mesh)
  BY <1>1, MeshFields
<1> HIDE DEF mesh
<1>3. /\ o \in [pos : Vector, rot : Vector, m : {NoMatrix}, needsMatrixUpdate : BOOLEAN, mesh : {mesh}]
      /\ o.mesh = mesh /\ o.needsMatrixUpdate
  BY DEF NewObject, Origin, Vector
<1>4. IsObject(o)
  BY <1>2, <1>3, ObjectFields
<1> QED
  BY <1>1, <1>2, <1>3, <1>4 DEF ObjectInv, mesh

\* What CloneWithMesh makes.
LEMMA Clones ==
    ASSUME Clone, ObjectsInv
    PROVE  ObjectInv(object') /\ object'.mesh.needsRecompute
<1> DEFINE mesh == NewMesh(Copied(object.mesh.faces))
           o == NewObject(mesh)
<1>1. ObjectInv(o) /\ o.mesh = mesh /\ mesh.needsRecompute /\ o.needsMatrixUpdate
  BY NewObjects
<1>2. object.pos \in Vector /\ object.rot \in Vector
  BY DEF ObjectsInv, ObjectInv, IsObject
<1>3. object' = [o EXCEPT !.pos = object.pos, !.rot = object.rot]
  BY DEF Clone
<1> HIDE DEF o, mesh
<1>4. o \in [pos : Vector, rot : Vector, m : {o.m}, needsMatrixUpdate : BOOLEAN, mesh : {o.mesh}]
      /\ IsMesh(o.mesh)
  BY <1>1 DEF ObjectInv, IsObject
<1>5. /\ object' \in [pos : Vector, rot : Vector, m : {o.m}, needsMatrixUpdate : BOOLEAN, mesh : {o.mesh}]
      /\ object'.mesh = o.mesh /\ object'.needsMatrixUpdate
  BY <1>1, <1>2, <1>3, <1>4
<1>6. IsObject(object')
  BY <1>4, <1>5, ObjectFields
<1> QED
  BY <1>1, <1>5, <1>6 DEF ObjectInv

\* ChunkObject::Update that passes its assertions.
LEMMA ChunkUpdates ==
    ASSUME ObjectInv(chunk), ChunkUpdate, needsUpdate, Asserts(blocks)
    PROVE  /\ ObjectInv(chunk') /\ ~chunk'.mesh.needsRecompute
           /\ chunk'.mesh.faces = ComputedFaces(blocks)
           /\ chunk'.mesh.vertices = VerticesOf(chunk'.mesh.faces)
<1> DEFINE faces == ComputedFaces(blocks)
           mesh == [chunk.mesh EXCEPT !.faces = faces]
           made == Recompute(Invalidate(mesh))
           o == [chunk EXCEPT !.mesh = made]
<1>1. chunk' = Updated(o)
  BY DEF ChunkUpdate
<1> HIDE DEF faces
<1>2. IsMesh(mesh) /\ mesh.faces = faces
  <2>1. chunk.mesh \in [faces : {chunk.mesh.faces}, needsRecompute : BOOLEAN,
                        vertices : {chunk.mesh.vertices}]
    BY DEF ObjectInv, IsObject, IsMesh
  <2>2. /\ mesh \in [faces : {faces}, needsRecompute : BOOLEAN, vertices : {chunk.mesh.vertices}]
        /\ mesh.faces = faces
    BY <2>1
  <2> QED
    BY <2>2, MeshFields
<1> HIDE DEF mesh
<1>3. IsMesh(made) /\ ~made.needsRecompute /\ made.faces = faces /\ made.vertices = VerticesOf(faces)
  BY <1>2, MeshOperations
<1> HIDE DEF made
<1>4. ObjectInv(o) /\ o.mesh = made
  BY <1>3, ObjectMesh
<1> HIDE DEF o
<1>5. ObjectInv(chunk') /\ chunk'.mesh = made
  BY <1>1, <1>4, ObjectUpdates
<1> QED
  BY <1>3, <1>5 DEF faces

\* The invariant of the objects speaks of nothing else.
LEMMA ObjectsKept == ASSUME ObjectsInv, UNCHANGED <<chunk, object>> PROVE ObjectsInv'
<1>1. ObjectInv(chunk') /\ ObjectInv(object')
  BY DEF ObjectsInv
<1> QED
  BY <1>1 DEF ObjectsInv

\* Every step keeps the invariant of the objects.
LEMMA ObjectsStep == ObjectsInv /\ [SceneNext]_sceneVars => ObjectsInv'
<1> SUFFICES ASSUME ObjectsInv, [SceneNext]_sceneVars PROVE ObjectsInv'
  OBVIOUS
<1>0. ObjectInv(chunk) /\ ObjectInv(object) /\ IsMesh(object.mesh)
  BY DEF ObjectsInv, ObjectInv, IsObject
<1> SUFFICES ObjectInv(chunk') /\ ObjectInv(object')
  BY DEF ObjectsInv
<1>1. CASE UNCHANGED <<chunk, object>>
  BY <1>0, <1>1
<1>2. CASE BuildTextureAtlas \/ CameraUpdate \/ GuiRender \/ SwapBuffers \/ UNCHANGED sceneVars
  BY <1>1, <1>2 DEF BuildTextureAtlas, CameraUpdate, GuiRender, SwapBuffers, sceneVars
<1>3. CASE ChunkUpdate
  <2>1. CASE needsUpdate /\ Asserts(blocks)
    BY <1>0, <1>3, <2>1, ChunkUpdates DEF ChunkUpdate
  <2>2. CASE ~(needsUpdate /\ Asserts(blocks))
    BY <1>0, <1>3, <2>2 DEF ChunkUpdate
  <2> QED
    BY <2>1, <2>2
<1>4. CASE Render
  BY <1>0, <1>4, ObjectRenders DEF Render
<1>5. CASE \E c \in Places, type \in Types : PutBlock(c, type)
  BY <1>1, <1>5, Puts
<1>6. CASE OtherCall
  <2>1. CASE \/ \E step \in Steps, n \in {1, -1} : Walk(Times(n, step))
             \/ \E dx \in {-1, 0, 1}, dy \in {-1, 0, 1} : MouseMove(dx, dy)
             \/ Close
    BY <1>1, <2>1 DEF Walk, MouseMove, Close
  <2>2. Positions \cup Rotations \subseteq Vector
    BY SceneAssumption DEF Vector
  <2>3. chunk.pos \in Vector /\ chunk.rot \in Vector /\ object.pos \in Vector /\ object.rot \in Vector
    BY <1>0 DEF ObjectInv, IsObject
  <2>4. ASSUME NEW p \in Positions, MoveObjects(p) PROVE ObjectInv(chunk') /\ ObjectInv(object')
    BY <1>0, <2>2, <2>3, <2>4, ObjectMoves DEF MoveObjects
  <2>5. ASSUME NEW rot \in Rotations, RotateObjects(rot)
        PROVE  ObjectInv(chunk') /\ ObjectInv(object')
    BY <1>0, <2>2, <2>3, <2>5, ObjectMoves DEF RotateObjects
  <2>6. ASSUME NEW n \in Faces \cap DOMAIN object.mesh.faces, NEW show \in BOOLEAN, ShowFace(n, show)
        PROVE  ObjectInv(chunk') /\ ObjectInv(object')
    <3> DEFINE mesh == SetShowFace(object.mesh, n, show)
    <3>1. IsMesh(mesh)
      BY <1>0, MeshChanges
    <3>2. object' = [object EXCEPT !.mesh = mesh] /\ UNCHANGED chunk
      BY <2>6 DEF ShowFace
    <3> HIDE DEF mesh
    <3> QED
      BY <1>0, <3>1, <3>2, ObjectMesh
  <2>7. ASSUME NEW targets, NEW corners, NEW name, SetTextureFromAtlas(targets, corners, name)
        PROVE  ObjectInv(chunk') /\ ObjectInv(object')
    <3> DEFINE mesh == SetFaceMap(object.mesh, targets, InAtlas(name, corners))
    <3>1. IsMesh(mesh)
      BY <1>0, MeshChanges
    <3>2. (object' = [object EXCEPT !.mesh = mesh] \/ UNCHANGED object) /\ UNCHANGED chunk
      BY <2>7 DEF SetTextureFromAtlas
    <3> HIDE DEF mesh
    <3> QED
      BY <1>0, <3>1, <3>2, ObjectMesh
  <2>8. CASE Clone
    BY <1>0, <2>8, Clones DEF Clone
  <2> QED
    BY <1>6, <2>1, <2>4, <2>5, <2>6, <2>7, <2>8 DEF OtherCall
<1> QED
  BY <1>2, <1>3, <1>4, <1>5, <1>6 DEF SceneNext, OtherCall

\* What a step that leaves the blocks and the mesh of the chunk keeps.
LEMMA ChunkKept ==
    ASSUME ChunkInv, UNCHANGED <<blocks, needsUpdate>>, UNCHANGED chunk.mesh,
           phase' \in {"render", "gui", "swap"} => phase \in {"render", "gui", "swap"},
           phase' = "aborted" <=> phase = "aborted"
    PROVE  ChunkInv'
  BY DEF ChunkInv

\* Every step keeps the invariant of the chunk.
LEMMA ChunkStep == ObjectsInv /\ ChunkInv /\ [SceneNext]_sceneVars => ChunkInv'
<1> SUFFICES ASSUME ObjectsInv, ChunkInv, [SceneNext]_sceneVars PROVE ChunkInv'
  OBVIOUS
<1>0. ObjectInv(chunk) /\ IsMesh(chunk.mesh)
  BY DEF ObjectsInv, ObjectInv, IsObject
<1>1. CASE BuildTextureAtlas
  <2>1. /\ UNCHANGED <<blocks, needsUpdate, chunk>>
        /\ phase = "textures" /\ phase' \in {"ended", "undefined", "poll"}
    BY <1>1 DEF BuildTextureAtlas
  <2> QED
    BY <2>1, ChunkKept
<1>2. CASE CameraUpdate \/ GuiRender \/ SwapBuffers
  BY <1>2, ChunkKept DEF CameraUpdate, GuiRender, SwapBuffers
<1>3. CASE ChunkUpdate
  <2>0. needsUpdate' = FALSE /\ UNCHANGED blocks /\ phase = "chunk"
        /\ phase' = IF needsUpdate /\ ~Asserts(blocks) THEN "aborted" ELSE "render"
    BY <1>3 DEF ChunkUpdate
  <2>1. CASE needsUpdate /\ Asserts(blocks)
    <3>1. /\ ~chunk'.mesh.needsRecompute /\ chunk'.mesh.faces = ComputedFaces(blocks)
          /\ chunk'.mesh.vertices = VerticesOf(chunk'.mesh.faces)
      BY <1>0, <1>3, <2>1, ChunkUpdates
    <3> QED
      BY <2>0, <2>1, <3>1 DEF ChunkInv
  <2>2. CASE needsUpdate /\ ~Asserts(blocks)
    <3>1. UNCHANGED chunk
      BY <1>3, <2>2 DEF ChunkUpdate
    <3> QED
      BY <2>0, <2>2, <3>1 DEF ChunkInv
  <2>3. CASE ~needsUpdate
    <3>1. UNCHANGED chunk
      BY <1>3, <2>3 DEF ChunkUpdate
    <3> QED
      BY <2>0, <2>3, <3>1 DEF ChunkInv
  <2> QED
    BY <2>1, <2>2, <2>3
<1>4. CASE Render
  <2>1. /\ chunk'.mesh = Recompute(chunk.mesh) /\ UNCHANGED <<blocks, needsUpdate>>
        /\ phase = "render" /\ phase' = "gui"
    BY <1>0, <1>4, ObjectRenders DEF Render
  <2>2. /\ ~chunk'.mesh.needsRecompute /\ chunk'.mesh.faces = chunk.mesh.faces
        /\ chunk'.mesh.vertices = VerticesOf(chunk'.mesh.faces)
    BY <1>0, <2>1, MeshOperations DEF ChunkInv
  <2> QED
    BY <2>1, <2>2 DEF ChunkInv
<1>5. CASE \E c \in Places, type \in Types : PutBlock(c, type)
  BY <1>5, Puts DEF ChunkInv
<1>6. CASE OtherCall
  <2>1. chunk'.mesh = chunk.mesh
    <3>1. ASSUME NEW p \in Positions, MoveObjects(p) PROVE chunk'.mesh = chunk.mesh
      <4>1. p \in Vector /\ chunk.rot \in Vector
        BY <1>0, SceneAssumption DEF ObjectInv, IsObject, Vector
      <4> QED
        BY <1>0, <3>1, <4>1, ObjectMoves DEF MoveObjects
    <3>2. ASSUME NEW rot \in Rotations, RotateObjects(rot) PROVE chunk'.mesh = chunk.mesh
      <4>1. rot \in Vector /\ chunk.pos \in Vector
        BY <1>0, SceneAssumption DEF ObjectInv, IsObject, Vector
      <4> QED
        BY <1>0, <3>2, <4>1, ObjectMoves DEF RotateObjects
    <3> QED
      BY <1>6, <3>1, <3>2
         DEF OtherCall, Walk, ShowFace, SetTextureFromAtlas, Clone, Close, MouseMove
  <2>2. /\ UNCHANGED <<blocks, needsUpdate>>
        /\ phase = "poll" /\ phase' \in {"poll", "ended", "no such texture"}
    BY <1>6, Calls
  <2> QED
    BY <2>1, <2>2, ChunkKept
<1>7. CASE UNCHANGED sceneVars
  BY <1>7, ChunkKept DEF sceneVars
<1> QED
  BY <1>1, <1>2, <1>3, <1>4, <1>5, <1>6, <1>7 DEF SceneNext, OtherCall

\* Every step keeps the invariant of the mesh of the object.
LEMMA MeshStep == ObjectsInv /\ MeshInv /\ [SceneNext]_sceneVars => MeshInv'
<1> SUFFICES ASSUME ObjectsInv, MeshInv, [SceneNext]_sceneVars PROVE MeshInv'
  OBVIOUS
<1>0. ObjectInv(object) /\ IsMesh(object.mesh)
  BY DEF ObjectsInv, ObjectInv, IsObject
<1>1. CASE UNCHANGED unchanged /\ object'.mesh = object.mesh
  BY <1>1 DEF MeshInv
<1>2. CASE BuildTextureAtlas \/ CameraUpdate \/ ChunkUpdate \/ GuiRender \/ SwapBuffers
           \/ UNCHANGED sceneVars
  BY <1>1, <1>2
     DEF BuildTextureAtlas, CameraUpdate, ChunkUpdate, GuiRender, SwapBuffers, sceneVars
<1>3. CASE Render
  <2>1. object'.mesh = Recompute(object.mesh) /\ UNCHANGED unchanged
    BY <1>0, <1>3, ObjectRenders DEF Render
  <2>2. /\ object'.mesh.faces = object.mesh.faces
        /\ object.mesh.needsRecompute => object'.mesh.vertices = VerticesOf(object.mesh.faces)
        /\ ~object.mesh.needsRecompute => object'.mesh.vertices = object.mesh.vertices
    BY <1>0, <2>1, MeshOperations
  <2> QED
    BY <2>1, <2>2 DEF MeshInv
<1>4. CASE \E c \in Places, type \in Types : PutBlock(c, type)
  BY <1>1, <1>4, Puts
<1>5. CASE OtherCall
  <2>1. ASSUME NEW p \in Positions, MoveObjects(p) PROVE MeshInv'
    <3>1. p \in Vector /\ object.rot \in Vector
      BY <1>0, SceneAssumption DEF ObjectInv, IsObject, Vector
    <3> QED
      BY <1>0, <1>1, <2>1, <3>1, ObjectMoves DEF MoveObjects
  <2>2. ASSUME NEW rot \in Rotations, RotateObjects(rot) PROVE MeshInv'
    <3>1. rot \in Vector /\ object.pos \in Vector
      BY <1>0, SceneAssumption DEF ObjectInv, IsObject, Vector
    <3> QED
      BY <1>0, <1>1, <2>2, <3>1, ObjectMoves DEF RotateObjects
  <2>3. ASSUME NEW n \in Faces \cap DOMAIN object.mesh.faces, NEW show \in BOOLEAN, ShowFace(n, show)
        PROVE  MeshInv'
    <3> DEFINE mesh == SetShowFace(object.mesh, n, show)
    <3>1. /\ IsMesh(mesh) /\ DOMAIN mesh.faces = DOMAIN object.mesh.faces
          /\ mesh.needsRecompute <=> object.mesh.faces[n].render # show
      BY <1>0, MeshChanges
    <3>2. /\ object' = [object EXCEPT !.mesh = mesh]
          /\ unchanged' = (object.mesh.faces[n].render = show)
      BY <2>3 DEF ShowFace
    <3> HIDE DEF mesh
    <3>3. object'.mesh = mesh
      BY <1>0, <3>1, <3>2, ObjectMesh
    <3>4. DOMAIN object'.mesh.faces # {}
      BY <3>1, <3>3
    <3>5. unchanged' \in BOOLEAN /\ (object'.mesh.needsRecompute \/ unchanged')
      BY <3>1, <3>2, <3>3
    <3> QED
      BY <3>4, <3>5 DEF MeshInv
  <2>4. ASSUME NEW targets, NEW corners, NEW name, SetTextureFromAtlas(targets, corners, name),
               targets # {} \/ targets = DOMAIN object.mesh.faces
        PROVE  MeshInv'
    <3> DEFINE mesh == SetFaceMap(object.mesh, targets, InAtlas(name, corners))
    <3>1. /\ IsMesh(mesh) /\ DOMAIN mesh.faces = DOMAIN object.mesh.faces
          /\ mesh.needsRecompute <=> object.mesh.needsRecompute \/ targets # {}
      BY <1>0, MeshChanges
    <3>2. \/ object' = [object EXCEPT !.mesh = mesh] /\ unchanged' = FALSE
          \/ UNCHANGED <<object, unchanged>>
      BY <2>4 DEF SetTextureFromAtlas
    <3>3. CASE UNCHANGED <<object, unchanged>>
      BY <1>1, <3>3
    <3>4. CASE object' = [object EXCEPT !.mesh = mesh] /\ unchanged' = FALSE /\ targets # {}
      <4> HIDE DEF mesh
      <4>1. object'.mesh = mesh
        BY <1>0, <3>1, <3>4, ObjectMesh
      <4> QED
        BY <3>1, <3>4, <4>1 DEF MeshInv
    <3>5. CASE object' = [object EXCEPT !.mesh = mesh] /\ unchanged' = FALSE /\ targets = {}
      <4>1. ~unchanged
        BY <2>4, <3>5 DEF MeshInv
      <4>2. mesh.vertices = object.mesh.vertices
        <5>1. object.mesh \in [faces : {object.mesh.faces}, needsRecompute : BOOLEAN,
                               vertices : {object.mesh.vertices}]
          BY <1>0 DEF IsMesh
        <5> QED
          BY <5>1 DEF SetFaceMap
      <4>3. VerticesOf(mesh.faces) = VerticesOf(object.mesh.faces)
        <5>1. DOMAIN object.mesh.faces = {} /\ DOMAIN mesh.faces = {}
          BY <2>4, <3>1, <3>5
        <5> QED
          BY <5>1 DEF VerticesOf
      <4> HIDE DEF mesh
      <4>4. object'.mesh = mesh
        BY <1>0, <3>1, <3>5, ObjectMesh
      <4> QED
        BY <3>1, <3>5, <4>1, <4>2, <4>3, <4>4 DEF MeshInv
    <3> QED
      BY <3>2, <3>3, <3>4, <3>5
  <2>5. CASE Clone
    <3>1. object'.mesh.needsRecompute /\ unchanged' = FALSE
      BY <2>5, Clones DEF Clone
    <3> QED
      BY <3>1 DEF MeshInv
  <2>6. CASE \/ \E step \in Steps, n \in {1, -1} : Walk(Times(n, step))
             \/ \E dx \in {-1, 0, 1}, dy \in {-1, 0, 1} : MouseMove(dx, dy)
             \/ Close
    BY <1>1, <2>6 DEF Walk, MouseMove, Close
  <2>7. \A n \in Faces : {n} # {}
    OBVIOUS
  <2>8. ASSUME \/ \E n \in Faces, name \in Names : SetTextureFromAtlas({n}, Whole, name)
               \/ \E name \in Names : SetTextureFromAtlas(DOMAIN object.mesh.faces, Turned, name)
        PROVE  MeshInv'
    BY <2>4, <2>7, <2>8
  <2> QED
    BY <1>5, <2>1, <2>2, <2>3, <2>5, <2>6, <2>8 DEF OtherCall
<1> QED
  BY <1>2, <1>3, <1>4, <1>5 DEF SceneNext, OtherCall

\* Every step keeps the invariant of what is drawn.
LEMMA ScreenStep == ObjectsInv /\ ScreenInv /\ [SceneNext]_sceneVars => ScreenInv'
<1> SUFFICES ASSUME ObjectsInv, ScreenInv, [SceneNext]_sceneVars PROVE ScreenInv'
  OBVIOUS
<1>1. CASE Render
  <2>1. /\ chunk' = Rendered(chunk) /\ object' = Rendered(object) /\ UNCHANGED viewProjection
        /\ screen' = [chunk |-> Drawn(chunk)', object |-> Drawn(object)']
    BY <1>1 DEF Render, Drawn
  <2>2. /\ ObjectInv(chunk) /\ IsMesh(chunk.mesh) /\ ObjectInv(object) /\ IsMesh(object.mesh)
    BY DEF ObjectsInv, ObjectInv, IsObject
  <2>3. /\ chunk'.m = Placement(chunk') /\ object'.m = Placement(object')
        /\ chunk'.mesh = Recompute(chunk.mesh) /\ object'.mesh = Recompute(object.mesh)
    BY <2>1, <2>2, ObjectRenders
  <2>4. ~chunk'.mesh.needsRecompute /\ ~object'.mesh.needsRecompute
    BY <2>2, <2>3, MeshOperations
  <2>5. screen'.chunk = Drawn(chunk)' /\ screen'.object = Drawn(object)'
    BY <2>1
  <2> QED
    BY <2>3, <2>4, <2>5 DEF ScreenInv
<1>2. CASE phase' \notin {"gui", "swap"}
  BY <1>2 DEF ScreenInv
<1>3. CASE BuildTextureAtlas \/ CameraUpdate \/ ChunkUpdate \/ SwapBuffers
  BY <1>2, <1>3 DEF BuildTextureAtlas, CameraUpdate, ChunkUpdate, SwapBuffers
<1>4. CASE (\E c \in Places, type \in Types : PutBlock(c, type)) \/ OtherCall
  BY <1>2, <1>4, Puts, Calls
<1>5. CASE GuiRender \/ UNCHANGED sceneVars
  <2>1. UNCHANGED <<chunk, object, viewProjection, screen>>
        /\ (phase' \in {"gui", "swap"} => phase \in {"gui", "swap"})
    BY <1>5 DEF GuiRender, sceneVars
  <2>2. /\ Drawn(chunk)' = Drawn(chunk) /\ Drawn(object)' = Drawn(object)
        /\ Placement(chunk)' = Placement(chunk) /\ Placement(object)' = Placement(object)
    BY <2>1 DEF Drawn
  <2> QED
    BY <2>1, <2>2 DEF ScreenInv
<1> QED
  BY <1>1, <1>3, <1>4, <1>5 DEF SceneNext, OtherCall

\* The invariant holds at the start.
LEMMA FrameStart == SceneInit => FrameInv
<1> SUFFICES ASSUME SceneInit PROVE FrameInv
  OBVIOUS
<1>1. CameraInv
  <2>1. camera = [pos |-> <<0, 5, 10>>, pitch |-> -1, yaw |-> -1, front |-> Origin,
                  needsMatrixUpdate |-> TRUE] /\ phase = "textures"
    BY DEF SceneInit
  <2>2. camera \in Cameras
    BY <2>1 DEF Cameras, Origin, Vector
  <2> QED
    BY <2>1, <2>2 DEF CameraInv
<1>2. GuiInv
  BY DEF SceneInit, GuiInv
<1>3. ObjectsInv
  BY NewObjects DEF SceneInit, ObjectsInv
<1>4. ChunkInv
  <2>1. chunk.mesh.needsRecompute
    BY NewObjects DEF SceneInit
  <2> QED
    BY <2>1 DEF SceneInit, ChunkInv
<1>5. MeshInv
  <2>1. object.mesh.needsRecompute
    BY NewObjects DEF SceneInit
  <2> QED
    BY <2>1 DEF SceneInit, MeshInv
<1>6. ScreenInv
  BY DEF SceneInit, ScreenInv
<1> QED
  BY <1>1, <1>2, <1>3, <1>4, <1>5, <1>6 DEF FrameInv

\* Whatever was called between the frames, in every state a matrix, a mesh or a text
\* that is not flagged for an update is the one of the camera, the objects and the blocks
\* as they are (the flags of camera.cpp, object.cpp, mesh.cpp, chunk.cpp and gui.cpp).
THEOREM FrameInvariant == SceneSpec => []FrameInv
<1>1. FrameInv /\ [SceneNext]_sceneVars => FrameInv'
  BY CameraStep, GuiStep, ObjectsStep, ChunkStep, MeshStep, ScreenStep DEF FrameInv
<1> QED
  BY <1>1, FrameStart, PTL DEF SceneSpec

\* For every size of the chunk, any positions, rotations and projection: a frame that is
\* shown has the text of the camera, the vertices of the blocks, and every corner of the
\* chunk and of the object on the side of the camera where it is (Camera::update,
\* Object::Update, Object::Render, GUI::Render).
THEOREM FramesAreCurrent == SceneSpec => []FrameIsCurrent
<1>1. FrameInv => FrameIsCurrent
  <2> SUFFICES ASSUME FrameInv, phase = "swap" PROVE
          /\ gui.boxes = Looks(camera)
          /\ screen.chunk.vertices = VerticesOf(ComputedFaces(blocks))
          /\ \A o \in ObjectsDrawn, p \in Corners :
                LET clip == Transformed(o[2].mvp, p)
                    d == FromCamera(o[1], p)
                IN  Shows(clip, camera, d) /\ (camera.pitch = 0 => KeepsAngles(clip, camera, d))
    BY DEF FrameIsCurrent
  <2>1. gui.boxes = Looks(camera)
    BY DEF FrameInv, GuiInv
  <2>2. /\ chunk.m = Placement(chunk) /\ object.m = Placement(object)
        /\ screen.chunk = Drawn(chunk) /\ screen.object = Drawn(object)
        /\ ~chunk.mesh.needsRecompute
    BY DEF FrameInv, ScreenInv
  <2>3. screen.chunk.vertices = VerticesOf(ComputedFaces(blocks))
    BY <2>2 DEF FrameInv, ChunkInv, Drawn
  <2>4. /\ camera.pos \in Vector /\ camera.pitch \in -2 .. 2 /\ camera.yaw \in Int
        /\ viewProjection = Product(Projection, LookAt(camera.pos, CamFront(camera.pitch, camera.yaw), 5))
    BY DEF FrameInv, CameraInv, Cameras, CameraShown
  <2>5. ASSUME NEW o, o.pos \in Vector, o.rot \in Vector, NEW m, m = Product(viewProjection, Placement(o)),
               NEW p \in Corners
        PROVE  LET clip == Transformed(m, p)
                   d == FromCamera(o, p)
               IN  Shows(clip, camera, d) /\ (camera.pitch = 0 => KeepsAngles(clip, camera, d))
    <3>1. p \in Vector
      BY DEF Corners, Vector
    <3> QED
      BY <2>4, <2>5, <3>1, PointIsShown DEF FromCamera
  <2>6. /\ chunk.pos \in Vector /\ chunk.rot \in Vector
        /\ object.pos \in Vector /\ object.rot \in Vector
    BY DEF FrameInv, ObjectsInv, ObjectInv, IsObject
  <2>7. /\ screen.chunk.mvp = Product(viewProjection, Placement(chunk))
        /\ screen.object.mvp = Product(viewProjection, Placement(object))
    BY <2>2 DEF Drawn
  <2>8. ASSUME NEW o \in ObjectsDrawn, NEW p \in Corners
        PROVE  LET clip == Transformed(o[2].mvp, p)
                   d == FromCamera(o[1], p)
               IN  Shows(clip, camera, d) /\ (camera.pitch = 0 => KeepsAngles(clip, camera, d))
    <3>1. CASE o = <<chunk, screen.chunk>>
      <4>1. o[1] = chunk /\ o[2] = screen.chunk
        BY <3>1
      <4> QED
        BY <2>5, <2>6, <2>7, <4>1
    <3>2. CASE o = <<object, screen.object>>
      <4>1. o[1] = object /\ o[2] = screen.object
        BY <3>2
      <4> QED
        BY <2>5, <2>6, <2>7, <4>1
    <3> QED
      BY <3>1, <3>2 DEF ObjectsDrawn
  <2> QED
    BY <2>1, <2>3, <2>8
<1> QED
  BY <1>1, FrameInvariant, PTL

\* A frame shows the object with the faces it was given, unless the last call on its mesh
\* was a SetShowFace that changed nothing (mesh.cpp, Object::Render).
THEOREM ObjectsAsSet == SceneSpec => []ObjectAsSet
<1>1. FrameInv => ObjectAsSet
  BY DEF FrameInv, ScreenInv, MeshInv, Drawn, ObjectAsSet
<1> QED
  BY <1>1, FrameInvariant, PTL

--------------------------------------------------------------------------------
(* Which blocks end the program.                                            *)

\* The types that have no textures, or no geometry, though they can be put.
Unfinished == {"Glass", "Buttercup", "Copper", "Shrub", "PineLog", "PineLeaves"}

\* How many textures and faces there are of a type.
LEMMA Lengths ==
    /\ \A a, b, c : Len(Sides(a, b, c)) = 6
    /\ \A a : Len(Alone(a)) = 6
    /\ \A corner, width, height, tex : Len(Box(corner, width, height, tex)) = 6
    /\ Len(GenerateXSprite) = 2
  BY DEF Sides, Alone, Box, GenerateXSprite

\* The tables of blocks.cpp and blockgeom.cpp agree for all types but these.
LEMMA TablesAgree ==
    ASSUME NEW type \in BlockTypes, type # "Air"
    PROVE  Len(TextureNames(type)) \in {1, Len(Geometry(type))} <=> type \notin Unfinished
<1>1. CASE type \in {"Rose", "TallGrass"}
  <2>1. Len(TextureNames(type)) = 1
    BY <1>1 DEF TextureNames
  <2> QED
    BY <1>1, <2>1 DEF Unfinished
<1>2. CASE type \in {"Buttercup", "Copper", "Shrub", "PineLog", "PineLeaves"}
  <2>1. TextureNames(type) = <<>>
    BY <1>2 DEF TextureNames
  <2>2. Len(Geometry(type)) = 6
    BY <1>2, Lengths DEF Geometry, GenerateCubeFaces
  <2> QED
    BY <1>2, <2>1, <2>2 DEF Unfinished
<1>3. CASE type = "Glass"
  <2>1. Len(TextureNames(type)) = 6 /\ Geometry(type) = <<>>
    BY <1>3, Lengths DEF TextureNames, Geometry
  <2> QED
    BY <1>3, <2>1 DEF Unfinished
<1>4. CASE type \in {"Water", "Lava", "Torch"}
  <2>1. Len(TextureNames(type)) = 6
    BY <1>4, Lengths DEF TextureNames
  <2>2. Len(Geometry(type)) = 6
    BY <1>4, Lengths DEF Geometry, GenerateLiquidCubeFaces, GenerateTorchFaces
  <2> QED
    BY <1>4, <2>1, <2>2 DEF Unfinished
<1>5. CASE type \in {"Leaves", "Grass", "Dirt", "Stone", "Sand", "Log", "Coal", "Clay", "Gravel",
                     "Planks", "Cobblestone", "Snow", "Podzol", "Brick", "Cactus"}
  <2>1. CASE type \in {"Grass", "Log", "Podzol", "Cactus"}
    <3>1. Len(TextureNames(type)) = 6
      BY <2>1, Lengths DEF TextureNames
    <3>2. Geometry(type) = GenerateCubeFaces
      BY <2>1 DEF Geometry
    <3> QED
      BY <2>1, <3>1, <3>2, Lengths DEF Unfinished, GenerateCubeFaces
  <2>2. CASE type \in {"Leaves", "Dirt", "Stone", "Sand", "Coal", "Clay", "Gravel",
                       "Planks", "Cobblestone", "Snow", "Brick"}
    <3>1. Len(TextureNames(type)) = 6
      BY <2>2, Lengths DEF TextureNames
    <3>2. Geometry(type) = GenerateCubeFaces
      BY <2>2 DEF Geometry
    <3> QED
      BY <2>2, <3>1, <3>2, Lengths DEF Unfinished, GenerateCubeFaces
  <2> QED
    BY <1>5, <2>1, <2>2
<1> QED
  BY <1>1, <1>2, <1>3, <1>4, <1>5 DEF BlockTypes, Transparent, Opaque

\* The blocks are of the types there are, and lie where they were put.
PlacesInv == BlocksOK /\ \A c \in Cells \ Places : BlockAt(blocks, c) = "Air"

\* Only a call of the world puts a block, and at one of its places.
LEMMA PlacesStep == PlacesInv /\ [SceneNext]_sceneVars => PlacesInv'
<1> SUFFICES ASSUME PlacesInv, [SceneNext]_sceneVars PROVE PlacesInv'
  OBVIOUS
<1>1. BlocksOK'
  BY BlocksStep DEF PlacesInv
<1>2. ASSUME NEW c \in Cells \ Places PROVE BlockAt(blocks', c) = "Air"
  <2>1. BlockOffset(c) \in Offsets /\ blocks[BlockOffset(c)] = "Air"
    BY <1>2, OffsetsSound DEF PlacesInv, BlockAt
  <2>2. ASSUME NEW p \in Places, NEW type \in Types,
               blocks' = [blocks EXCEPT ![BlockOffset(p)] = type]
        PROVE  BlockAt(blocks', c) = "Air"
    <3>1. BlockOffset(p) # BlockOffset(c)
      BY OffsetsSound, SceneAssumption
    <3> QED
      BY <2>1, <2>2, <3>1 DEF BlockAt, PlacesInv, BlocksOK
  <2> QED
    BY <2>1, <2>2, OnlyPutBlock DEF BlockAt
<1> QED
  BY <1>1, <1>2 DEF PlacesInv

\* The assertions of ChunkObject::Update fail for such a block, and for nothing else.
LEMMA AssertsAtPlaces ==
    ASSUME PlacesInv
    PROVE  Asserts(blocks) <=> \A c \in Places : ~Undrawable(c)
<1>1. SizeY \in Nat \ {0} /\ OffY \in Int /\ OffY <= 0
  BY ChunkAssumption
<1> DEFINE Drawable(c) ==
        LET type == BlockAt(blocks, c) IN
        type # "Air" =>
          /\ Len(TextureNames(type)) \in {1, Len(Geometry(type))}
          /\ type \in Opaque /\ c[3] < SizeY - 1 => c[3] + 1 <= OffY + SizeY - 1
<1>2. ASSUME NEW c \in Cells PROVE Drawable(c) <=> ~Undrawable(c)
  <2> DEFINE type == BlockAt(blocks, c)
  <2>1. type \in BlockTypes
    BY OffsetsSound DEF PlacesInv, BlocksOK, BlockAt
  <2>2. CASE type = "Air"
    BY <2>2 DEF Undrawable, Opaque
  <2>3. CASE type # "Air"
    <3>1. Len(TextureNames(type)) \in {1, Len(Geometry(type))} <=> type \notin Unfinished
      BY <2>1, <2>3, TablesAgree
    <3>2. c[3] \in Int /\ c[3] <= OffY + SizeY - 1
      BY <1>1 DEF Cells
    <3>3. (c[3] < SizeY - 1 => c[3] + 1 <= OffY + SizeY - 1)
             <=> ~(OffY < 0 /\ c[3] = OffY + SizeY - 1)
      BY <1>1, <3>2
    <3> QED
      BY <2>3, <3>1, <3>3 DEF Undrawable, Unfinished
  <2> QED
    BY <2>2, <2>3
<1>3. ASSUME NEW c \in Cells \ Places PROVE Drawable(c)
  BY <1>3 DEF PlacesInv
<1>4. Asserts(blocks) <=> \A c \in Cells : Drawable(c)
  BY DEF Asserts
<1> HIDE DEF Drawable
<1>5. Places \subseteq Cells
  BY SceneAssumption
<1> QED
  BY <1>2, <1>3, <1>4, <1>5

\* The blocks stay as they are put.
LEMMA PlacesInvariant == SceneSpec => []PlacesInv
<1>1. SceneInit => PlacesInv
  <2> SUFFICES ASSUME SceneInit PROVE PlacesInv
    OBVIOUS
  <2>1. BlocksOK
    BY DEF SceneInit, BlocksOK, BlockTypes, Transparent
  <2>2. \A c \in Cells : BlockAt(blocks, c) = "Air"
    BY OffsetsSound DEF SceneInit, BlockAt
  <2> QED
    BY <2>1, <2>2 DEF PlacesInv
<1> QED
  BY <1>1, PlacesStep, PTL DEF SceneSpec

\* Chunks of any size: the assertions of ChunkObject::Update (chunk.cpp) end the program
\* exactly when a block was put that cannot be drawn; and no such block is ever drawn.
THEOREM AbortsAreJustified == SceneSpec => []AbortsForAReason
<1>1. FrameInv /\ PlacesInv => AbortsForAReason
  BY AssertsAtPlaces DEF FrameInv, ChunkInv, AbortsForAReason
<1> QED
  BY <1>1, FrameInvariant, PlacesInvariant, PTL

--------------------------------------------------------------------------------
(* The atlas.                                                               *)

\* The side of the atlas: a square of as many pixels as the images, or more.
LEMMA CeilSqrtIs ==
    ASSUME NEW n \in Nat, n <= 2^24
    PROVE  LET root == CeilSqrt(n)
           IN  root \in Nat /\ root <= 4096 /\ root * root >= n
<1>0. n \in Nat /\ n <= 16777216
  BY SMT
<1> DEFINE T == {r \in Nat : r * r >= n}
           IsRoot(r) == r * r >= n /\ \A q \in 0 .. r - 1 : q * q < n
<1>1. n \in T
  BY <1>0, SMT
<1>2. PICK m \in T : \A k \in T : m <= k
  BY <1>1, LeastElement
<1>3. m \in 0 .. n /\ IsRoot(m)
  <2>1. m \in Nat /\ m * m >= n /\ m <= n
    BY <1>1, <1>2, SMT
  <2>2. ASSUME NEW q \in 0 .. m - 1 PROVE q * q < n
    <3>1. q \notin T /\ q \in Nat
      BY <1>2, <2>1, SMT
    <3> QED
      BY <1>0, <3>1, SMT
  <2> QED
    BY <2>1, <2>2, SMT
<1>4. CeilSqrt(n) = CHOOSE r \in 0 .. n : IsRoot(r)
  BY SMT DEF CeilSqrt
<1> DEFINE root == CeilSqrt(n)
<1> HIDE DEF IsRoot
<1>8. root \in 0 .. n /\ IsRoot(root)
  BY <1>3, <1>4, Zenon
<1> USE DEF IsRoot
<1>5. root \in 0 .. n /\ root * root >= n /\ \A q \in 0 .. root - 1 : q * q < n
  BY <1>8, SMT
<1> HIDE DEF root
<1>6. root <= 4096
  <2> SUFFICES ASSUME root > 4096 PROVE FALSE
    BY <1>0, <1>5, SMT
  <2>1. 4096 * 4096 < n
    BY <1>0, <1>5, SMT
  <2> QED
    BY <1>0, <2>1, SMT
<1> QED
  <2>1. root \in Nat /\ root <= 4096 /\ root * root >= n
    BY <1>0, <1>5, <1>6, SMT
  <2> QED
    BY <2>1, SMT DEF root

\* The choice of NextPow2 is one, if there is a power of two that is large enough.
LEMMA ChosenPower ==
    ASSUME NEW n, \E p \in {2^k : k \in 0 .. 30} : p >= n /\ (p = 1 \/ p \div 2 < n)
    PROVE  NextPow2(n) \in {2^k : k \in 0 .. 30} /\ NextPow2(n) >= n
  BY Zenon DEF NextPow2

\* There is, for what the square root of the pixels may be.
LEMMA NextPow2Is ==
    ASSUME NEW n \in Nat, n <= 4096
    PROVE  NextPow2(n) \in Int /\ NextPow2(n) >= n
<1> DEFINE S == {2^k : k \in 0 .. 30}
           IsNext(p) == p >= n /\ (p = 1 \/ p \div 2 < n)
<1>1. 2^0 = 1 /\ 2^1 = 2 /\ 2^2 = 4 /\ 2^3 = 8 /\ 2^4 = 16 /\ 2^5 = 32 /\ 2^6 = 64 /\ 2^7 = 128
      /\ 2^8 = 256 /\ 2^9 = 512 /\ 2^10 = 1024 /\ 2^11 = 2048 /\ 2^12 = 4096
  BY SMT
<1>2. /\ 2^0 \in S /\ 2^1 \in S /\ 2^2 \in S /\ 2^3 \in S /\ 2^4 \in S /\ 2^5 \in S /\ 2^6 \in S
      /\ 2^7 \in S /\ 2^8 \in S /\ 2^9 \in S /\ 2^10 \in S /\ 2^11 \in S /\ 2^12 \in S
  BY SMT
<1>3. S \subseteq Int
  <2>1. \A k \in Nat : 2^k \in Int
    BY SMT
  <2> QED
    BY <2>1, SMT
<1>4. \E p \in S : IsNext(p)
  <2> HIDE DEF S
  <2>1. {1, 2, 4, 8, 16, 32, 64, 128, 256, 512, 1024, 2048, 4096} \subseteq S
    BY <1>1, <1>2, SMT
  <2>2. n <= 1 \/ (1 < n /\ n <= 2) \/ (2 < n /\ n <= 4) \/ (4 < n /\ n <= 8) \/ (8 < n /\ n <= 16)
        \/ (16 < n /\ n <= 32) \/ (32 < n /\ n <= 64) \/ (64 < n /\ n <= 128)
        \/ (128 < n /\ n <= 256) \/ (256 < n /\ n <= 512) \/ (512 < n /\ n <= 1024)
        \/ (1024 < n /\ n <= 2048) \/ (2048 < n /\ n <= 4096)
    BY SMT
  <2>3. ASSUME NEW p \in {1, 2, 4, 8, 16, 32, 64, 128, 256, 512, 1024, 2048, 4096}, n <= p,
               p = 1 \/ p \div 2 < n
        PROVE  \E q \in S : IsNext(q)
    BY <2>1, <2>3, SMT
  <2>4. 2 \div 2 = 1 /\ 4 \div 2 = 2 /\ 8 \div 2 = 4 /\ 16 \div 2 = 8 /\ 32 \div 2 = 16
        /\ 64 \div 2 = 32 /\ 128 \div 2 = 64 /\ 256 \div 2 = 128 /\ 512 \div 2 = 256
        /\ 1024 \div 2 = 512 /\ 2048 \div 2 = 1024 /\ 4096 \div 2 = 2048
    BY SMT
  <2> QED
    BY <2>2, <2>3, <2>4, SMT
<1> HIDE DEF S
<1>5. NextPow2(n) \in S /\ NextPow2(n) >= n
  BY <1>4, ChosenPower DEF S
<1> DEFINE p == NextPow2(n)
<1> HIDE DEF p
<1>6. p \in S /\ p >= n
  BY <1>5 DEF p
<1>7. p \in Int
  BY <1>3, <1>6
<1> QED
  BY <1>6, <1>7 DEF p

\* A quotient and its remainder.
LEMMA Division ==
    /\ \A a \in Nat, n \in Nat \ {0} : \E q \in Nat, r \in Nat : r < n /\ a = q * n + r
    /\ \A q \in Nat, n \in Nat \ {0}, x \in Nat :
          x < n => (q * n + x) \div n = q /\ (q * n + x) % n = x
<1>1. ASSUME NEW a \in Nat, NEW n \in Nat \ {0}
      PROVE  \E q \in Nat, r \in Nat : r < n /\ a = q * n + r
  <2>1. a \div n \in Nat /\ a % n \in Nat /\ a % n < n /\ a = (a \div n) * n + (a % n)
    OBVIOUS
  <2> QED
    BY <2>1
<1> QED
  BY <1>1

\* A number that another one divides.
LEMMA Quotient ==
    ASSUME NEW n \in Nat \ {0}, NEW s \in Nat \ {0}, s % n = 0
    PROVE  \E q \in Nat \ {0} : s = q * n /\ s \div n = q
<1>1. PICK q \in Nat, r \in Nat : r < n /\ s = q * n + r
  BY Division
<1>2. s % n = r /\ s \div n = q
  BY <1>1, Division
<1>3. s = q * n /\ q # 0
  BY <1>1, <1>2
<1> QED
  BY <1>2, <1>3

\* The row and the column in which an image stands.
Stands(i, w, columns, s, row, column) ==
    /\ column < columns /\ i = row * columns + column
    /\ (i * w) \div s = row /\ (i * w) % s = column * w
    /\ column * w + w <= s

\* The place of an image when the side is so many columns: a row and a column.
LEMMA AtlasPlace ==
    ASSUME NEW w \in Nat \ {0}, NEW columns \in Nat \ {0}, NEW s \in Nat \ {0}, s = columns * w,
           NEW i \in Nat
    PROVE  \E row \in Nat, column \in Nat : Stands(i, w, columns, s, row, column)
<1>1. PICK row \in Nat, column \in Nat : column < columns /\ i = row * columns + column
  BY Division
<1>2. column * w \in Nat /\ column * w + w <= s
  BY <1>1, ProductGrows
<1>3. i * w = row * s + column * w
  <2>1. \A a, b, c, d \in Int : (a * b + c) * d = a * (b * d) + c * d
    OBVIOUS
  <2> QED
    BY <1>1, <2>1
<1>4. (i * w) \div s = row /\ (i * w) % s = column * w
  <2> DEFINE x == column * w
  <2>1. x \in Nat /\ x < s /\ i * w = row * s + x
    BY <1>2, <1>3
  <2> HIDE DEF x
  <2>2. (row * s + x) \div s = row /\ (row * s + x) % s = x
    BY <2>1, Division
  <2> QED
    BY <2>1, <2>2 DEF x
<1> QED
  BY <1>1, <1>2, <1>4 DEF Stands

\* The rows that the images fill are those of the atlas, if it has as many pixels.
LEMMA AtlasRows ==
    ASSUME NEW w \in Nat \ {0}, NEW h \in Nat \ {0}, NEW columns \in Nat \ {0}, NEW rows \in Nat \ {0},
           NEW s \in Nat, s = columns * w, s = rows * h,
           NEW n \in Nat, s * s >= w * h * n, NEW row \in Nat, NEW column \in Nat,
           row * columns + column < n
    PROVE  row < rows /\ row * h + h <= s
<1> DEFINE cells == columns * rows
           size == w * h
<1>1. cells \in Nat /\ size \in Nat \ {0}
  <2>1. \A a, b \in Nat \ {0} : a * b \in Nat \ {0}
    OBVIOUS
  <2> QED
    BY <2>1
<1>2. s * s = cells * size /\ w * h * n = n * size
  <2>1. \A a, b, c, d \in Int : (a * b) * (c * d) = (a * c) * (b * d)
    OBVIOUS
  <2> QED
    BY <2>1
<1> HIDE DEF cells, size
<1>3. ~(cells < n)
  <2> SUFFICES ASSUME cells < n PROVE FALSE
    OBVIOUS
  <2>1. cells * size + size <= n * size /\ cells * size \in Nat /\ n * size \in Nat
    BY <1>1, ProductGrows
  <2> QED
    BY <1>1, <1>2, <2>1
<1>4. row < rows
  <2> SUFFICES ASSUME ~(row < rows) PROVE FALSE
    OBVIOUS
  <2>1. rows * columns <= row * columns /\ rows * columns \in Nat /\ row * columns \in Nat
    <3>1. CASE row = rows
      BY <3>1
    <3>2. CASE rows < row
      BY <3>2, ProductGrows
    <3> QED
      BY <3>1, <3>2
  <2>2. cells = rows * columns
    BY DEF cells
  <2> QED
    BY <1>1, <1>3, <2>1, <2>2
<1>5. row * h + h <= rows * h
  BY <1>4, ProductGrows
<1> QED
  BY <1>4, <1>5

\* The numbers of the types and of their textures.
LEMMA Numbers == IsFiniteSet(1 .. 27) /\ IsFiniteSet(1 .. 6)
<1>1. ASSUME NEW n \in Int PROVE IsFiniteSet(1 .. n)
  BY FS_Interval, 1 \in Int
<1> QED
  BY <1>1, 27 \in Int, 6 \in Int

\* The textures are finitely many: their types are numbered, and have six at most.
LEMMA TexturesFinite == IsFiniteSet(TexturesToLoad)
<1> DEFINE types == <<"Air", "Water", "Glass", "Leaves", "Rose", "Lava", "Torch", "TallGrass",
                      "PineLeaves", "Grass", "Dirt", "Stone", "Sand", "Log", "Buttercup", "Coal",
                      "Copper", "Clay", "Gravel", "Planks", "Cobblestone", "Snow", "Podzol",
                      "Shrub", "PineLog", "Brick", "Cactus">>
<1>1. BlockTypes \subseteq {types[i] : i \in 1 .. 27}
  <2>1. \A i \in 1 .. 27 : types[i] \in {types[j] : j \in 1 .. 27}
    OBVIOUS
  <2>2. BlockTypes \subseteq {types[1], types[2], types[3], types[4], types[5], types[6], types[7],
                              types[8], types[9], types[10], types[11], types[12], types[13],
                              types[14], types[15], types[16], types[17], types[18], types[19],
                              types[20], types[21], types[22], types[23], types[24], types[25],
                              types[26], types[27]}
    BY DEF BlockTypes, Transparent, Opaque
  <2> HIDE DEF types
  <2> QED
    BY <2>1, <2>2
<1>2. ASSUME NEW type \in BlockTypes, NEW k \in DOMAIN TextureNames(type) PROVE k \in 1 .. 6
  <2>1. \/ TextureNames(type) = <<>> \/ Len(TextureNames(type)) \in {1, 6}
    BY Lengths DEF TextureNames
  <2> QED
    BY <2>1
<1> HIDE DEF types
<1> DEFINE P == (1 .. 27) \X (1 .. 6)
           f == [p \in P |-> TextureNames(types[p[1]])[p[2]]]
<1>3. IsFiniteSet(P)
  BY Numbers, FS_Product
<1>4. IsFiniteSet({f[p] : p \in P})
  <2> HIDE DEF P
  <2>1. f \in Surjection(P, {f[p] : p \in P})
    BY DEF Surjection
  <2> HIDE DEF f
  <2> QED
    BY <1>3, <2>1, FS_Surjection
<1>5. TexturesToLoad \subseteq {f[p] : p \in P}
  <2> SUFFICES ASSUME NEW type \in BlockTypes, NEW k \in DOMAIN TextureNames(type)
               PROVE  TextureNames(type)[k] \in {f[p] : p \in P}
    BY DEF TexturesToLoad, ToSet
  <2>1. PICK i \in 1 .. 27 : type = types[i]
    BY <1>1
  <2>2. k \in 1 .. 6
    BY <1>2
  <2>3. <<i, k>> \in P /\ f[<<i, k>>] = TextureNames(type)[k]
    BY <2>1, <2>2
  <2> QED
    BY <2>3
<1> QED
  BY <1>4, <1>5, FS_Subset

--------------------------------------------------------------------------------
\* The side of the atlas of images of some size.
LEMMA Sized ==
    ASSUME NEW size \in Sizes
    PROVE  LET count == Cardinality(TexturesToLoad)
               pixels == size[1] * size[2] * count
               side == AtlasSide(size[1], size[2], count)
           IN  /\ size[1] \in Nat \ {0} /\ size[2] \in Nat \ {0} /\ count \in Nat
               /\ side \in Int /\ side >= 0 /\ side * side >= pixels
<1> DEFINE count == Cardinality(TexturesToLoad)
           pixels == size[1] * size[2] * count
           root == CeilSqrt(pixels)
           side == NextPow2(root)
<1>1. count \in Nat
  BY TexturesFinite, FS_CardinalityType
<1>2. size[1] \in Nat \ {0} /\ size[2] \in Nat \ {0} /\ pixels <= 2^24
  BY SceneAssumption
<1> HIDE DEF count
<1>3. pixels \in Nat
  BY <1>1, <1>2
<1> HIDE DEF pixels
<1>5. root \in Nat /\ root <= 4096 /\ root * root >= pixels
  BY <1>2, <1>3, CeilSqrtIs DEF root
<1> HIDE DEF root
<1>6. side \in Int /\ side >= root
  BY <1>5, NextPow2Is DEF side
<1> HIDE DEF side
<1>7. side >= 0 /\ side * side >= root * root
  BY <1>5, <1>6
<1>8. side * side >= pixels
  BY <1>3, <1>5, <1>6, <1>7
<1> QED
  BY <1>1, <1>2, <1>6, <1>7, <1>8, Zenon DEF AtlasSide, side, root, pixels, count

\* The atlas is none yet, or the one of the images of some size.
AtlasOf(size) ==
    LET count == Cardinality(TexturesToLoad)
    IN  [width |-> size[1], height |-> size[2], count |-> count,
         side |-> AtlasSide(size[1], size[2], count)]
AtlasInv ==
    /\ atlas.side # 0 => \E size \in Sizes : atlas = AtlasOf(size)
    /\ phase = "undefined" => ~Fits(atlas)
    /\ phase = "textures" => atlas.side = 0

\* Only BuildTextureAtlas changes it.
LEMMA AtlasStep == SceneSpec => []AtlasInv
<1>1. SceneInit => AtlasInv
  BY DEF SceneInit, AtlasInv
<1>2. AtlasInv /\ [SceneNext]_sceneVars => AtlasInv'
  <2> SUFFICES ASSUME AtlasInv, [SceneNext]_sceneVars PROVE AtlasInv'
    OBVIOUS
  <2>1. CASE BuildTextureAtlas
    <3>1. PICK size \in Sizes, loaded \in BOOLEAN :
             /\ atlas' = IF loaded THEN AtlasOf(size) ELSE atlas
             /\ phase' = CASE ~loaded -> "ended"
                           [] loaded /\ ~Fits(AtlasOf(size)) -> "undefined"
                           [] OTHER -> "poll"
      BY <2>1 DEF BuildTextureAtlas, AtlasOf
    <3>2. CASE ~loaded
      BY <2>1, <3>1, <3>2 DEF AtlasInv, BuildTextureAtlas
    <3>3. CASE loaded
      BY <3>1, <3>3 DEF AtlasInv
    <3> QED
      BY <3>2, <3>3
  <2>2. ASSUME atlas' = atlas, phase' \notin {"undefined", "textures"} PROVE AtlasInv'
    BY <2>2 DEF AtlasInv
  <2>3. CASE UNCHANGED sceneVars
    BY <2>3 DEF AtlasInv, sceneVars
  <2>4. CASE CameraUpdate \/ ChunkUpdate \/ Render \/ GuiRender \/ SwapBuffers
    <3>1. atlas' = atlas /\ phase' \notin {"undefined", "textures"}
      BY <2>4 DEF CameraUpdate, ChunkUpdate, Render, GuiRender, SwapBuffers
    <3> QED
      BY <2>2, <3>1
  <2>5. CASE \E c \in Places, type \in Types : PutBlock(c, type)
    <3>1. atlas' = atlas
      BY <2>5 DEF PutBlock, Call
    <3>2. phase' = "poll"
      BY <2>5, Puts, Zenon
    <3> QED
      BY <2>2, <3>1, <3>2
  <2>6. CASE OtherCall
    <3>1. atlas' = atlas
      BY <2>6 DEF OtherCall, MoveObjects, RotateObjects, Walk, ShowFace, SetTextureFromAtlas,
                  Clone, Close, MouseMove, Call
    <3> QED
      BY <2>2, <2>6, <3>1, Calls
  <2> QED
    BY <2>1, <2>3, <2>4, <2>5, <2>6, Zenon DEF SceneNext, OtherCall
<1> QED
  BY <1>1, <1>2, PTL DEF SceneSpec

\* It is in that place, and looked up there.
IsAt(i, a, columns, rows, row, column) ==
    /\ i = row * columns + column
    /\ PlacedX(i, a) = column * a.width /\ column * a.width + a.width <= a.side
    /\ PlacedY(i, a) = row * a.height /\ row * a.height + a.height <= a.side
    /\ FoundX(i, a) = <<column * a.width, a.side>> /\ FoundY(i, a) = <<row, rows>>

\* An image has a row and a column of its own in an atlas of so many of them, with as
\* many pixels as all images have.
LEMMA Cell ==
    ASSUME NEW w \in Nat \ {0}, NEW h \in Nat \ {0}, NEW count \in Nat, NEW side \in Nat \ {0},
           NEW columns \in Nat \ {0}, side = columns * w, side \div w = columns,
           NEW rows \in Nat \ {0}, side = rows * h, side \div h = rows,
           side * side >= w * h * count,
           NEW a, a.width = w, a.height = h, a.side = side, NEW i \in Nat, i < count
    PROVE  \E row \in Nat, column \in Nat : IsAt(i, a, columns, rows, row, column)
<1>1. PICK row \in Nat, column \in Nat :
         /\ column < columns /\ i = row * columns + column
         /\ (i * w) \div side = row /\ (i * w) % side = column * w
         /\ column * w + w <= side
  <2>1. PICK row \in Nat, column \in Nat : Stands(i, w, columns, side, row, column)
    BY AtlasPlace
  <2> QED
    BY <2>1 DEF Stands
<1>2. PlacedX(i, a) = column * w /\ PlacedY(i, a) = row * h
  BY <1>1 DEF PlacedX, PlacedY
<1>3. FoundX(i, a) = <<column * w, side>> /\ FoundY(i, a) = <<row, rows>>
  <2>1. FoundX(i, a) = <<(i * w) % side, w * (side \div w)>>
        /\ FoundY(i, a) = <<(i * w) \div side, side \div h>>
    BY DEF FoundX, FoundY
  <2>2. w * columns = side
    OBVIOUS
  <2> QED
    BY <1>1, <2>1, <2>2
<1>4. row * h + h <= side
  BY <1>1, AtlasRows
<1> QED
  BY <1>1, <1>2, <1>3, <1>4 DEF IsAt

\* Two images are in other columns or in other rows.
LEMMA CellsApart ==
    ASSUME NEW w \in Nat \ {0}, NEW h \in Nat \ {0}, NEW columns \in Nat,
           NEW row \in Nat, NEW column \in Nat, NEW row2 \in Nat, NEW column2 \in Nat,
           row * columns + column # row2 * columns + column2
    PROVE  \/ column * w + w <= column2 * w \/ column2 * w + w <= column * w
           \/ row * h + h <= row2 * h \/ row2 * h + h <= row * h
<1>1. row # row2 \/ column # column2
  OBVIOUS
<1>2. CASE row < row2
  BY <1>2, ProductGrows
<1>3. CASE row2 < row
  BY <1>3, ProductGrows
<1>4. CASE column < column2
  BY <1>4, ProductGrows
<1>5. CASE column2 < column
  BY <1>5, ProductGrows
<1> QED
  BY <1>1, <1>2, <1>3, <1>4, <1>5

\* For images of every size in Sizes: when the width and the height of an image divide the
\* side of the atlas, BuildTextureAtlasFromFiles writes all of them inside it, none over
\* another, and operator[] looks each one up where it was written (texture.cpp).
THEOREM AtlasIsSound == SceneSpec => []AtlasSound
<1>1. AtlasInv => AtlasSound
  <2> SUFFICES ASSUME AtlasInv, atlas.side > 2,
                      Divides(atlas.width, atlas.side), Divides(atlas.height, atlas.side)
               PROVE  /\ phase # "undefined"
                      /\ \A i \in 0 .. atlas.count - 1 :
                           /\ FoundX(i, atlas)[1] * atlas.side = PlacedX(i, atlas) * FoundX(i, atlas)[2]
                           /\ FoundY(i, atlas)[1] * atlas.side = PlacedY(i, atlas) * FoundY(i, atlas)[2]
                           /\ \A j \in 0 .. i - 1 : Apart(i, j, atlas)
    BY Zenon DEF AtlasSound
  <2> DEFINE w == atlas.width
             h == atlas.height
             count == atlas.count
             side == atlas.side
  <2>1. atlas.side # 0
    OBVIOUS
  <2>2. PICK size \in Sizes : atlas = AtlasOf(size)
    BY <2>1 DEF AtlasInv
  <2>3. /\ w \in Nat \ {0} /\ h \in Nat \ {0} /\ count \in Nat
        /\ side \in Nat \ {0} /\ side * side >= w * h * count
    <3>1. /\ size[1] \in Nat \ {0} /\ size[2] \in Nat \ {0} /\ Cardinality(TexturesToLoad) \in Nat
          /\ AtlasOf(size).side \in Int /\ AtlasOf(size).side >= 0
          /\ AtlasOf(size).side * AtlasOf(size).side >= size[1] * size[2] * Cardinality(TexturesToLoad)
      BY Sized DEF AtlasOf
    <3>2. /\ atlas.width = size[1] /\ atlas.height = size[2]
          /\ atlas.count = Cardinality(TexturesToLoad) /\ atlas.side = AtlasOf(size).side
      BY <2>2 DEF AtlasOf
    <3> QED
      BY <2>1, <3>1, <3>2
  <2>4. side % w = 0 /\ side % h = 0
    BY DEF Divides
  <2>5. PICK columns \in Nat \ {0} : side = columns * w /\ side \div w = columns
    <3> HIDE DEF w, side
    <3> QED
      BY <2>3, <2>4, Quotient
  <2>6. PICK rows \in Nat \ {0} : side = rows * h /\ side \div h = rows
    <3> HIDE DEF h, side
    <3> QED
      BY <2>3, <2>4, Quotient
  <2>7. ASSUME NEW i \in 0 .. count - 1
        PROVE  \E row \in Nat, column \in Nat :
                  /\ i = row * columns + column
                  /\ PlacedX(i, atlas) = column * w /\ column * w + w <= side
                  /\ PlacedY(i, atlas) = row * h /\ row * h + h <= side
                  /\ FoundX(i, atlas) = <<column * w, side>> /\ FoundY(i, atlas) = <<row, rows>>
    <3>1. i \in Nat /\ i < count
      BY <2>3
    <3>2. atlas.width = w /\ atlas.height = h /\ atlas.side = side
      OBVIOUS
    <3> HIDE DEF w, h, count, side
    <3>3. PICK row \in Nat, column \in Nat : IsAt(i, atlas, columns, rows, row, column)
      BY <2>3, <2>5, <2>6, <3>1, <3>2, Cell
    <3> QED
      BY <3>2, <3>3 DEF IsAt
  <2>8. phase # "undefined"
    <3>1. ASSUME NEW i \in 0 .. atlas.count - 1
          PROVE  PlacedX(i, atlas) + atlas.width <= atlas.side
                 /\ PlacedY(i, atlas) + atlas.height <= atlas.side
      BY <2>7, <3>1
    <3>2. Fits(atlas)
      BY <3>1 DEF Fits
    <3> QED
      BY <3>2 DEF AtlasInv
  <2>9. ASSUME NEW i \in 0 .. count - 1
        PROVE  /\ FoundX(i, atlas)[1] * side = PlacedX(i, atlas) * FoundX(i, atlas)[2]
               /\ FoundY(i, atlas)[1] * side = PlacedY(i, atlas) * FoundY(i, atlas)[2]
    <3>1. PICK row \in Nat, column \in Nat :
             /\ PlacedX(i, atlas) = column * w /\ PlacedY(i, atlas) = row * h
             /\ FoundX(i, atlas) = <<column * w, side>> /\ FoundY(i, atlas) = <<row, rows>>
      BY <2>7
    <3> HIDE DEF w, h, count, side
    <3>2. row * (rows * h) = (row * h) * rows
      <4>1. \A b, c, d \in Int : b * (c * d) = (b * d) * c
        OBVIOUS
      <4> QED
        BY <2>3, <4>1
    <3> QED
      BY <2>6, <3>1, <3>2
  <2>10. ASSUME NEW i \in 0 .. count - 1, NEW j \in 0 .. i - 1 PROVE Apart(i, j, atlas)
    <3>1. j \in 0 .. count - 1 /\ i # j
      BY <2>3
    <3>2. PICK row \in Nat, column \in Nat :
             /\ i = row * columns + column
             /\ PlacedX(i, atlas) = column * w /\ PlacedY(i, atlas) = row * h
      BY <2>7
    <3>3. PICK row2 \in Nat, column2 \in Nat :
             /\ j = row2 * columns + column2
             /\ PlacedX(j, atlas) = column2 * w /\ PlacedY(j, atlas) = row2 * h
      BY <2>7, <3>1
    <3>4. \/ column * w + w <= column2 * w \/ column2 * w + w <= column * w
          \/ row * h + h <= row2 * h \/ row2 * h + h <= row * h
      <4>1. row * columns + column # row2 * columns + column2
        BY <3>1, <3>2, <3>3
      <4> HIDE DEF w, h
      <4> QED
        BY <2>3, <4>1, CellsApart
    <3> QED
      BY <3>2, <3>3, <3>4 DEF Apart
  <2> QED
    BY <2>8, <2>9, <2>10
<1> QED
  BY <1>1, AtlasStep, PTL

--------------------------------------------------------------------------------
(* The mesh of a chunk.                                                   *)

\* The quad of a face.
QuadOf(face) ==
    [corners |-> {face.points[k] : k \in 1 .. 4},
     seenFrom |-> Normal(face.points[1], face.points[2], face.points[4])]

\* A list of faces draws these quads, each of them once.
Draws(X, faces, quads) ==
    /\ faces \in Seq(X)
    /\ \A k \in 1 .. Len(faces) : QuadOf(faces[k]) \in quads
    /\ \A q \in quads : \E k \in 1 .. Len(faces) : QuadOf(faces[k]) = q
    /\ \A k, l \in 1 .. Len(faces) : QuadOf(faces[k]) = QuadOf(faces[l]) => k = l

\* No face draws nothing.
LEMMA DrawsNone == \A X : Draws(X, <<>>, {})
<1> SUFFICES ASSUME NEW X PROVE Draws(X, <<>>, {})
  OBVIOUS
<1>1. <<>> \in Seq(X) /\ Len(<<>>) = 0
  OBVIOUS
<1>2. PICK s : s = <<>>
  OBVIOUS
<1>3. Draws(X, s, {})
  BY <1>1, <1>2 DEF Draws
<1> QED
  BY <1>2, <1>3

\* One face draws its quad.
LEMMA DrawsOne == \A X : \A f \in X : Draws(X, <<f>>, {QuadOf(f)})
<1> SUFFICES ASSUME NEW X, NEW f \in X PROVE Draws(X, <<f>>, {QuadOf(f)})
  OBVIOUS
<1>1. PICK s : s = <<f>>
  OBVIOUS
<1>2. s \in Seq(X) /\ Len(s) = 1 /\ s[1] = f
  BY <1>1
<1>3. \A k \in 1 .. Len(s) : k = 1
  BY <1>2
<1>4. 1 \in 1 .. Len(s)
  BY <1>2
<1>5. Draws(X, s, {QuadOf(f)})
  BY <1>2, <1>3, <1>4, Zenon DEF Draws
<1> QED
  BY <1>1, <1>5

\* Two lists of faces draw the quads of both, if no quad is of both.
LEMMA DrawsBoth ==
    ASSUME NEW X, NEW a, NEW b, NEW S, NEW T, Draws(X, a, S), Draws(X, b, T), S \cap T = {}
    PROVE  Draws(X, a \o b, S \cup T)
<1> DEFINE c == a \o b
<1>1. a \in Seq(X) /\ b \in Seq(X) /\ Len(a) \in Nat /\ Len(b) \in Nat
  BY DEF Draws
<1>2. /\ c \in Seq(X) /\ Len(c) = Len(a) + Len(b)
      /\ \A i \in 1 .. Len(a) : c[i] = a[i]
      /\ \A i \in 1 .. Len(b) : c[Len(a) + i] = b[i]
  BY <1>1, ConcatProperties
<1> HIDE DEF c
<1>3. ASSUME NEW k \in 1 .. Len(c)
      PROVE  \/ k \in 1 .. Len(a) /\ c[k] = a[k]
             \/ \E i \in 1 .. Len(b) : k = Len(a) + i /\ c[k] = b[i]
  <2>1. CASE k <= Len(a)
    BY <1>1, <1>2, <2>1
  <2>2. CASE k > Len(a)
    <3>1. k - Len(a) \in 1 .. Len(b) /\ k = Len(a) + (k - Len(a))
      BY <1>1, <1>2, <2>2
    <3> QED
      BY <1>2, <3>1
  <2> QED
    BY <1>1, <2>1, <2>2
<1>4. /\ \A i \in 1 .. Len(a) : i \in 1 .. Len(c)
      /\ \A i \in 1 .. Len(b) : Len(a) + i \in 1 .. Len(c)
  BY <1>1, <1>2
<1>5. ASSUME NEW k \in 1 .. Len(c) PROVE QuadOf(c[k]) \in S \cup T
  BY <1>3 DEF Draws
<1>6. ASSUME NEW q \in S \cup T PROVE \E k \in 1 .. Len(c) : QuadOf(c[k]) = q
  <2>1. CASE q \in S
    <3>1. PICK i \in 1 .. Len(a) : QuadOf(a[i]) = q
      BY <2>1 DEF Draws
    <3> QED
      BY <1>2, <1>4, <3>1
  <2>2. CASE q \in T
    <3>1. PICK i \in 1 .. Len(b) : QuadOf(b[i]) = q
      BY <2>2 DEF Draws
    <3> QED
      BY <1>2, <1>4, <3>1
  <2> QED
    BY <2>1, <2>2
<1>7. ASSUME NEW k \in 1 .. Len(c), NEW l \in 1 .. Len(c), QuadOf(c[k]) = QuadOf(c[l])
      PROVE  k = l
  <2>1. CASE k \in 1 .. Len(a) /\ c[k] = a[k]
    <3>1. QuadOf(c[k]) \in S
      BY <2>1 DEF Draws
    <3>2. l \in 1 .. Len(a) /\ c[l] = a[l]
      BY <1>3, <1>7, <3>1 DEF Draws
    <3> QED
      BY <1>7, <2>1, <3>2 DEF Draws
  <2>2. CASE \E i \in 1 .. Len(b) : k = Len(a) + i /\ c[k] = b[i]
    <3>1. PICK i \in 1 .. Len(b) : k = Len(a) + i /\ c[k] = b[i]
      BY <2>2
    <3>2. QuadOf(c[k]) \in T
      BY <3>1 DEF Draws
    <3>3. PICK j \in 1 .. Len(b) : l = Len(a) + j /\ c[l] = b[j]
      BY <1>3, <1>7, <3>2 DEF Draws
    <3>4. i = j
      BY <1>7, <3>1, <3>3 DEF Draws
    <3> QED
      BY <3>1, <3>3, <3>4
  <2> QED
    BY <1>3, <2>1, <2>2
<1>8. Draws(X, c, S \cup T)
  BY <1>2, <1>5, <1>6, <1>7 DEF Draws
<1> QED
  BY <1>8 DEF c

\* There are as many quads as faces.
LEMMA DrawsCount ==
    ASSUME NEW X, NEW a, NEW S, Draws(X, a, S)
    PROVE  IsFiniteSet(S) /\ Cardinality(S) = Len(a) /\ Len(a) \in Nat
<1> DEFINE f == [k \in 1 .. Len(a) |-> QuadOf(a[k])]
<1>1. Len(a) \in Nat
  BY DEF Draws
<1>2. f \in Bijection(1 .. Len(a), S)
  <2>1. f \in [1 .. Len(a) -> S] /\ \A k, l \in 1 .. Len(a) : f[k] = f[l] => k = l
    BY DEF Draws
  <2>2. \A q \in S : \E k \in 1 .. Len(a) : f[k] = q
    BY DEF Draws
  <2> HIDE DEF f
  <2> QED
    BY <2>1, <2>2 DEF Bijection, Injection, Surjection, IsInjective
<1>3. ExistsBijection(1 .. Len(a), S)
  BY <1>2 DEF ExistsBijection
<1>4. IsFiniteSet(1 .. Len(a)) /\ Cardinality(1 .. Len(a)) = Len(a)
  <2>1. Cardinality(1 .. Len(a)) = IF 1 > Len(a) THEN 0 ELSE Len(a) - 1 + 1
    BY <1>1, FS_Interval
  <2>2. IsFiniteSet(1 .. Len(a))
    BY <1>1, FS_Interval
  <2>3. Cardinality(1 .. Len(a)) = Len(a)
    BY <1>1, <2>1
  <2> QED
    BY <2>2, <2>3
<1> QED
  BY <1>1, <1>3, <1>4, FS_Bijection

\* What FlattenSeq makes of sequences of six.
LEMMA FlattenSixes ==
    ASSUME NEW X, NEW r \in Seq(Seq(X)), \A i \in 1 .. Len(r) : Len(r[i]) = 6
    PROVE  /\ FlattenSeq(r) \in Seq(X) /\ Len(FlattenSeq(r)) = 6 * Len(r)
           /\ \A i \in 1 .. Len(r) : \A j \in 1 .. 6 : FlattenSeq(r)[6 * (i - 1) + j] = r[i][j]
<1> DEFINE Sixes(s) == \A i \in 1 .. Len(s) : Len(s[i]) = 6
           Flat(s)  == /\ Len(FlattenSeq(s)) = 6 * Len(s)
                       /\ \A i \in 1 .. Len(s) : \A j \in 1 .. 6 :
                             FlattenSeq(s)[6 * (i - 1) + j] = s[i][j]
           T == {s \in Seq(Seq(X)) : Sixes(s) => Flat(s)}
<1>1. <<>> \in T
  <2>1. <<>> \in Seq(Seq(X)) /\ Len(<<>>) = 0
    OBVIOUS
  <2>2. FlattenSeq(<<>>) = <<>>
    BY FlattenEmpty
  <2>3. PICK e : e = <<>>
    OBVIOUS
  <2>4. e \in Seq(Seq(X)) /\ Len(e) = 0 /\ Len(FlattenSeq(e)) = 0
    BY <2>1, <2>2, <2>3
  <2>5. Flat(e)
    BY <2>4
  <2>6. e \in T
    BY <2>4, <2>5
  <2> QED
    BY <2>3, <2>6
<1>2. ASSUME NEW s \in T, NEW x \in Seq(X) PROVE Append(s, x) \in T
  <2> DEFINE t == Append(s, x)
             n == Len(s)
  <2>0. n \in Nat
    OBVIOUS
  <2>1. s \in Seq(Seq(X)) /\ (Sixes(s) => Flat(s)) /\ n \in Nat
    OBVIOUS
  <2>2. t \in Seq(Seq(X)) /\ Len(t) = n + 1 /\ t[n + 1] = x /\ \A i \in 1 .. n : t[i] = s[i]
    BY <2>1, AppendProperties
  <2>3. FlattenSeq(t) = FlattenSeq(s) \o x
    BY <2>1, FlattenAppend
  <2> SUFFICES ASSUME Sixes(t) PROVE Flat(t)
    BY <2>2
  <2>4. Len(x) = 6
    BY <2>1, <2>2
  <2>5. Sixes(s)
    BY <2>1, <2>2
  <2>6. PICK u : u = FlattenSeq(s) /\ u \in Seq(X)
    BY <2>1, FlattenType
  <2>7. Len(u) = 6 * n /\ \A i \in 1 .. n : \A j \in 1 .. 6 : u[6 * (i - 1) + j] = s[i][j]
    BY <2>1, <2>5, <2>6
  <2>a. Len(u) = 6 * n
    BY <2>7
  <2>8. /\ Len(u \o x) = Len(u) + Len(x)
        /\ \A i \in 1 .. Len(u) : (u \o x)[i] = u[i]
        /\ \A i \in 1 .. Len(x) : (u \o x)[Len(u) + i] = x[i]
    BY <2>6, ConcatProperties
  <2> HIDE DEF t, n
  <2>9. Len(u \o x) = 6 * (n + 1)
    BY <2>0, <2>4, <2>a, <2>8
  <2>10. ASSUME NEW i \in 1 .. n + 1, NEW j \in 1 .. 6 PROVE (u \o x)[6 * (i - 1) + j] = t[i][j]
    <3>1. CASE i = n + 1
      <4>1. 6 * (i - 1) + j = Len(u) + j
        BY <2>1, <2>7, <3>1
      <4> QED
        BY <2>2, <2>4, <2>8, <3>1, <4>1
    <3>2. CASE i \in 1 .. n
      <4>0. i \in Int /\ 1 <= i /\ i <= n
        BY <2>0, <3>2
      <4>1. 6 * (i - 1) + j \in 1 .. Len(u)
        BY <2>0, <2>a, <4>0
      <4>2. u[6 * (i - 1) + j] = s[i][j]
        BY <2>7, <3>2
      <4> QED
        BY <2>2, <2>8, <3>2, <4>1, <4>2
    <3>3. i = n + 1 \/ i \in 1 .. n
      BY <2>0
    <3> QED
      BY <3>1, <3>2, <3>3
  <2>11. Len(t) = n + 1 /\ FlattenSeq(t) = u \o x
    BY <2>2, <2>3, <2>6
  <2>12. Len(FlattenSeq(t)) = 6 * Len(t)
    BY <2>9, <2>11
  <2>13. ASSUME NEW i \in 1 .. Len(t), NEW j \in 1 .. 6
         PROVE  FlattenSeq(t)[6 * (i - 1) + j] = t[i][j]
    <3>1. i \in 1 .. n + 1
      BY <2>11
    <3>2. (u \o x)[6 * (i - 1) + j] = t[i][j]
      BY <2>10, <3>1
    <3> QED
      BY <2>11, <3>2, Zenon
  <2> QED
    BY <2>12, <2>13, Zenon
<1> HIDE DEF T
<1>3. T = Seq(Seq(X))
  <2>1. T \in SUBSET Seq(Seq(X))
    BY DEF T
  <2> QED
    BY <1>1, <1>2, <2>1, SequenceInduction
<1>4. Flat(r)
  BY <1>3 DEF T
<1> QED
  BY <1>4, FlattenType

\* The vertices of faces that are all rendered are those of their quads.
LEMMA DrawsVertices ==
    ASSUME NEW X, NEW a, NEW S, Draws(X, a, S), \A k \in 1 .. Len(a) : a[k].render = TRUE
    PROVE  Len(VerticesOf(a)) = 6 * Len(a) /\ Quads(VerticesOf(a)) = S
<1> DEFINE r == [k \in 1 .. Len(a) |-> Triangles(a[k])]
           Y == {r[k][j] : k \in 1 .. Len(a), j \in 1 .. 6}
           v == VerticesOf(a)
<1>1. Len(a) \in Nat /\ DOMAIN a = 1 .. Len(a)
  BY DEF Draws
<1>2. \A k \in 1 .. Len(a) : r[k] = Triangles(a[k])
  OBVIOUS
<1>3. \A k \in 1 .. Len(a) : r[k] \in Seq(Y) /\ Len(r[k]) = 6
  <2>1. ASSUME NEW k \in 1 .. Len(a) PROVE r[k] \in Seq(Y) /\ Len(r[k]) = 6
    <3>1. PICK t : t = Triangles(a[k]) /\ t = r[k]
      BY <1>2
    <3>2. \A j \in 1 .. 6 : t[j] \in Y
      BY <3>1
    <3> HIDE DEF Y, r
    <3>3. t = [j \in 1 .. 6 |-> t[j]]
      <4> DEFINE w(j) == [pos |-> a[k].points[<<1, 2, 4, 2, 3, 4>>[j]],
                          tex |-> a[k].texCoord[<<1, 2, 4, 2, 3, 4>>[j]]]
      <4>1. t = [j \in 1 .. 6 |-> w(j)]
        BY <3>1 DEF Triangles
      <4> HIDE DEF w
      <4> QED
        BY <4>1
    <3> QED
      BY <3>1, <3>2, <3>3
  <2> QED
    BY <2>1
<1>4. r \in Seq(Seq(Y)) /\ Len(r) = Len(a)
  <2> HIDE DEF Y
  <2> QED
    BY <1>1, <1>3
<1>5. v = FlattenSeq(r)
  <2>1. [k \in DOMAIN a |-> IF a[k].render THEN Triangles(a[k]) ELSE <<>>] = r
    BY <1>1
  <2> QED
    BY <2>1, Zenon DEF VerticesOf
<1> HIDE DEF r, Y, v
<1>6. Len(v) = 6 * Len(a) /\ \A k \in 1 .. Len(a) : \A j \in 1 .. 6 : v[6 * (k - 1) + j] = r[k][j]
  <2>1. \A k \in 1 .. Len(r) : Len(r[k]) = 6
    BY <1>3, <1>4
  <2>2. /\ Len(FlattenSeq(r)) = 6 * Len(r)
        /\ \A k \in 1 .. Len(r) : \A j \in 1 .. 6 : FlattenSeq(r)[6 * (k - 1) + j] = r[k][j]
    BY <1>4, <2>1, FlattenSixes
  <2> QED
    BY <1>4, <1>5, <2>2
<1>7. Len(v) \div 6 = Len(a)
  <2>1. \A n \in Nat : (6 * n) \div 6 = n
    OBVIOUS
  <2>2. Len(v) = 6 * Len(a)
    BY <1>6
  <2> QED
    BY <1>1, <2>1, <2>2
<1> DEFINE Quad(m) == [corners |-> {v[6 * m + i].pos : i \in 1 .. 6},
                       seenFrom |-> Normal(v[6 * m + 1].pos, v[6 * m + 2].pos, v[6 * m + 3].pos)]
<1>8. ASSUME NEW k \in 1 .. Len(a) PROVE Quad(k - 1) = QuadOf(a[k])
  <2>1. PICK p : p = a[k].points
    OBVIOUS
  <2>2. /\ v[6 * (k - 1) + 1].pos = p[1] /\ v[6 * (k - 1) + 2].pos = p[2]
        /\ v[6 * (k - 1) + 3].pos = p[4] /\ v[6 * (k - 1) + 4].pos = p[2]
        /\ v[6 * (k - 1) + 5].pos = p[3] /\ v[6 * (k - 1) + 6].pos = p[4]
    <3>1. \A j \in 1 .. 6 : v[6 * (k - 1) + j] = Triangles(a[k])[j]
      BY <1>2, <1>6
    <3>2. /\ Triangles(a[k])[1].pos = p[1] /\ Triangles(a[k])[2].pos = p[2]
          /\ Triangles(a[k])[3].pos = p[4] /\ Triangles(a[k])[4].pos = p[2]
          /\ Triangles(a[k])[5].pos = p[3] /\ Triangles(a[k])[6].pos = p[4]
      BY <2>1 DEF Triangles
    <3>3. 1 \in 1 .. 6 /\ 2 \in 1 .. 6 /\ 3 \in 1 .. 6 /\ 4 \in 1 .. 6 /\ 5 \in 1 .. 6 /\ 6 \in 1 .. 6
      OBVIOUS
    <3> QED
      BY <3>1, <3>2, <3>3, Zenon
  <2>3. {v[6 * (k - 1) + i].pos : i \in 1 .. 6} = {p[i] : i \in 1 .. 4}
    <3>1. \A i \in 1 .. 6 : v[6 * (k - 1) + i].pos \in {p[j] : j \in 1 .. 4}
      <4>1. ASSUME NEW i \in 1 .. 6 PROVE v[6 * (k - 1) + i].pos \in {p[j] : j \in 1 .. 4}
        <5>1. i = 1 \/ i = 2 \/ i = 3 \/ i = 4 \/ i = 5 \/ i = 6
          OBVIOUS
        <5>2. 1 \in 1 .. 4 /\ 2 \in 1 .. 4 /\ 3 \in 1 .. 4 /\ 4 \in 1 .. 4
          OBVIOUS
        <5> QED
          BY <2>2, <5>1, <5>2
      <4> QED
        BY <4>1
    <3>2. \A j \in 1 .. 4 : p[j] \in {v[6 * (k - 1) + i].pos : i \in 1 .. 6}
      <4>1. ASSUME NEW j \in 1 .. 4 PROVE p[j] \in {v[6 * (k - 1) + i].pos : i \in 1 .. 6}
        <5>1. j = 1 \/ j = 2 \/ j = 3 \/ j = 4
          OBVIOUS
        <5>2. 1 \in 1 .. 6 /\ 2 \in 1 .. 6 /\ 5 \in 1 .. 6 /\ 3 \in 1 .. 6
          OBVIOUS
        <5> QED
          BY <2>2, <5>1, <5>2
      <4> QED
        BY <4>1
    <3> QED
      BY <3>1, <3>2
  <2> QED
    BY <2>1, <2>2, <2>3, Zenon DEF QuadOf
<1> HIDE DEF Quad
<1>9. Quads(v) = {Quad(m) : m \in 0 .. Len(a) - 1}
  BY <1>7, Zenon DEF Quads, Quad
<1>10. ASSUME NEW q PROVE q \in Quads(v) <=> q \in S
  <2>1. ASSUME q \in Quads(v) PROVE q \in S
    <3>1. PICK m \in 0 .. Len(a) - 1 : q = Quad(m)
      BY <1>9, <2>1
    <3>2. PICK k \in 1 .. Len(a) : m = k - 1
      <4>1. m + 1 \in 1 .. Len(a) /\ m = (m + 1) - 1
        BY <1>1
      <4> QED
        BY <4>1
    <3> QED
      BY <1>8, <3>1, <3>2 DEF Draws
  <2>2. ASSUME q \in S PROVE q \in Quads(v)
    <3>1. PICK k \in 1 .. Len(a) : QuadOf(a[k]) = q
      BY <2>2 DEF Draws
    <3>2. k - 1 \in 0 .. Len(a) - 1
      BY <1>1
    <3> QED
      BY <1>8, <1>9, <3>1, <3>2
  <2> QED
    BY <2>1, <2>2
<1> QED
  BY <1>6, <1>10 DEF v

\* The four points of a square, the side it is seen from, and where it begins on each axis:
\* on the axis it is turned along, before the middle of its cell or not as it looks.
IsLow(points, a, x) == (\E k \in 1 .. 4 : points[k][a] = x) /\ \A k \in 1 .. 4 : x <= points[k][a]
Lows(n, a) == IF n[a] = 1 /\ n[1] + n[2] + n[3] = 1 THEN {5, 10, 32, 40} ELSE {-40, -5}
IsSquare(points, n, l) ==
    /\ \A k \in 1 .. 4 : points[k] \in Vector
    /\ Normal(points[1], points[2], points[4]) = n
    /\ \A a \in 1 .. 3 : l[a] \in Int /\ IsLow(points, a, l[a]) /\ l[a] \in Lows(n, a)

\* What is to be known of four points: the side they look to, and where they begin.
LooksTo(p, q, s, n) ==
    /\ n = <<n[1], n[2], n[3]>>
    /\ Sign((q[2] - p[2]) * (s[3] - p[3]) - (q[3] - p[3]) * (s[2] - p[2])) = n[1]
    /\ Sign((q[3] - p[3]) * (s[1] - p[1]) - (q[1] - p[1]) * (s[3] - p[3])) = n[2]
    /\ Sign((q[1] - p[1]) * (s[2] - p[2]) - (q[2] - p[2]) * (s[1] - p[1])) = n[3]
Begin(p, q, r, s, n, l) ==
    \A a \in 1 .. 3 : /\ l[a] \in Lows(n, a)
                      /\ l[a] <= p[a] /\ l[a] <= q[a] /\ l[a] <= r[a] /\ l[a] <= s[a]
                      /\ l[a] = p[a] \/ l[a] = q[a] \/ l[a] = r[a] \/ l[a] = s[a]

\* The normal of a square.
LEMMA NormalIs ==
    \A p, q, r \in Vector :
       Normal(p, q, r) =
          <<Sign((q[2] - p[2]) * (r[3] - p[3]) - (q[3] - p[3]) * (r[2] - p[2])),
            Sign((q[3] - p[3]) * (r[1] - p[1]) - (q[1] - p[1]) * (r[3] - p[3])),
            Sign((q[1] - p[1]) * (r[2] - p[2]) - (q[2] - p[2]) * (r[1] - p[1]))>>
  BY DEF Normal, CrossProduct, Minus

\* They are a square.
LEMMA SquareIs ==
    \A p, q, r, s, l \in Vector : \A n :
       LooksTo(p, q, s, n) /\ Begin(p, q, r, s, n, l) => IsSquare(<<p, q, r, s>>, n, l)
<1> SUFFICES ASSUME NEW p \in Vector, NEW q \in Vector, NEW r \in Vector, NEW s \in Vector,
                    NEW l \in Vector, NEW n, LooksTo(p, q, s, n), Begin(p, q, r, s, n, l)
             PROVE  IsSquare(<<p, q, r, s>>, n, l)
  OBVIOUS
<1>1. PICK points : points = <<p, q, r, s>>
  OBVIOUS
<1>2. points[1] = p /\ points[2] = q /\ points[3] = r /\ points[4] = s
  BY <1>1
<1>3. \A k \in 1 .. 4 : k = 1 \/ k = 2 \/ k = 3 \/ k = 4
  OBVIOUS
<1>4. \A k \in 1 .. 4 : points[k] \in Vector
  BY <1>2, <1>3
<1>5. ASSUME NEW a \in 1 .. 3 PROVE l[a] \in Int /\ IsLow(points, a, l[a]) /\ l[a] \in Lows(n, a)
  <2>1. l[a] \in Int
    BY DEF Vector
  <2>2. \A k \in 1 .. 4 : l[a] <= points[k][a]
    BY <1>2, <1>3 DEF Begin
  <2>3. \E k \in 1 .. 4 : points[k][a] = l[a]
    BY <1>2 DEF Begin
  <2>4. l[a] \in Lows(n, a)
    BY DEF Begin
  <2> QED
    BY <2>1, <2>2, <2>3, <2>4 DEF IsLow
<1>6. Normal(p, q, s) = n
  <2>1. Normal(p, q, s) =
             <<Sign((q[2] - p[2]) * (s[3] - p[3]) - (q[3] - p[3]) * (s[2] - p[2])),
               Sign((q[3] - p[3]) * (s[1] - p[1]) - (q[1] - p[1]) * (s[3] - p[3])),
               Sign((q[1] - p[1]) * (s[2] - p[2]) - (q[2] - p[2]) * (s[1] - p[1]))>>
    BY NormalIs
  <2> QED
    BY <2>1 DEF LooksTo
<1> QED
  BY <1>1, <1>2, <1>4, <1>5, <1>6 DEF IsSquare

--------------------------------------------------------------------------------
(* The tables of blockgeom.cpp: each type is made of squares.               *)

\* The corners of the faces of a box over a square that is 2 * e wide.
BoxPoints(e, t) ==
    <<<< <<e, -40, -e>>, <<-e, -40, -e>>, <<-e, t, -e>>, <<e, t, -e>> >>,
      << <<-e, -40, e>>, <<e, -40, e>>, <<e, t, e>>, <<-e, t, e>> >>,
      << <<e, -40, e>>, <<e, -40, -e>>, <<e, t, -e>>, <<e, t, e>> >>,
      << <<-e, -40, -e>>, <<-e, -40, e>>, <<-e, t, e>>, <<-e, t, -e>> >>,
      << <<-e, t, -e>>, <<-e, t, e>>, <<e, t, e>>, <<e, t, -e>> >>,
      << <<e, -40, -e>>, <<e, -40, e>>, <<-e, -40, e>>, <<-e, -40, -e>> >> >>

\* The sides they look to.
SideNormals == <<<<0, 0, -1>>, <<0, 0, 1>>, <<1, 0, 0>>, <<-1, 0, 0>>, <<0, 1, 0>>, <<0, -1, 0>>>>

\* A box has these corners.
LEMMA BoxIs ==
    ASSUME NEW e \in {5, 40}, NEW t \in {10, 32, 40}, NEW corner, NEW width, NEW height, NEW tex,
           corner = <<-e, -40, -e>>, width = 2 * e, height = t + 40
    PROVE  Box(corner, width, height, tex) = [i \in 1 .. 6 |-> Face(BoxPoints(e, t)[i], tex[i])]
<1> DEFINE p(i, j, k) == <<corner[1] + i * width, corner[2] + j * height, corner[3] + k * width>>
<1>1. /\ p(0, 0, 0) = <<-e, -40, -e>> /\ p(0, 0, 1) = <<-e, -40, e>>
      /\ p(0, 1, 0) = <<-e, t, -e>>   /\ p(0, 1, 1) = <<-e, t, e>>
      /\ p(1, 0, 0) = <<e, -40, -e>>  /\ p(1, 0, 1) = <<e, -40, e>>
      /\ p(1, 1, 0) = <<e, t, -e>>    /\ p(1, 1, 1) = <<e, t, e>>
  OBVIOUS
<1>2. Box(corner, width, height, tex) =
        <<Face(<<p(1, 0, 0), p(0, 0, 0), p(0, 1, 0), p(1, 1, 0)>>, tex[1]),
          Face(<<p(0, 0, 1), p(1, 0, 1), p(1, 1, 1), p(0, 1, 1)>>, tex[2]),
          Face(<<p(1, 0, 1), p(1, 0, 0), p(1, 1, 0), p(1, 1, 1)>>, tex[3]),
          Face(<<p(0, 0, 0), p(0, 0, 1), p(0, 1, 1), p(0, 1, 0)>>, tex[4]),
          Face(<<p(0, 1, 0), p(0, 1, 1), p(1, 1, 1), p(1, 1, 0)>>, tex[5]),
          Face(<<p(1, 0, 0), p(1, 0, 1), p(0, 0, 1), p(0, 0, 0)>>, tex[6])>>
  BY Zenon DEF Box
<1> HIDE DEF p
<1>3. PICK b : b = BoxPoints(e, t)
  OBVIOUS
<1>4. /\ b[1] = <<p(1, 0, 0), p(0, 0, 0), p(0, 1, 0), p(1, 1, 0)>>
      /\ b[2] = <<p(0, 0, 1), p(1, 0, 1), p(1, 1, 1), p(0, 1, 1)>>
      /\ b[3] = <<p(1, 0, 1), p(1, 0, 0), p(1, 1, 0), p(1, 1, 1)>>
      /\ b[4] = <<p(0, 0, 0), p(0, 0, 1), p(0, 1, 1), p(0, 1, 0)>>
      /\ b[5] = <<p(0, 1, 0), p(0, 1, 1), p(1, 1, 1), p(1, 1, 0)>>
      /\ b[6] = <<p(1, 0, 0), p(1, 0, 1), p(0, 0, 1), p(0, 0, 0)>>
  BY <1>1, <1>3 DEF BoxPoints
<1>5. PICK r : r = [i \in 1 .. 6 |-> Face(b[i], tex[i])]
  OBVIOUS
<1>6. r = <<r[1], r[2], r[3], r[4], r[5], r[6]>>
  BY <1>5
<1>7. /\ r[1] = Face(b[1], tex[1]) /\ r[2] = Face(b[2], tex[2]) /\ r[3] = Face(b[3], tex[3])
      /\ r[4] = Face(b[4], tex[4]) /\ r[5] = Face(b[5], tex[5]) /\ r[6] = Face(b[6], tex[6])
  BY <1>5
<1>8. r = Box(corner, width, height, tex)
  BY <1>2, <1>4, <1>6, <1>7, Zenon
<1> QED
  BY <1>3, <1>5, <1>8

\* The least coordinates of the corners of a box.
BoxLows(e, t) ==
    << <<-e, -40, -e>>, <<-e, -40, e>>, <<e, -40, -e>>, <<-e, -40, -e>>, <<-e, t, -e>>,
       <<-e, -40, -e>> >>

\* The faces of a box are squares.
LEMMA BoxSquares ==
    ASSUME NEW e \in {5, 40}, NEW t \in {10, 32, 40}, NEW i \in 1 .. 6
    PROVE  IsSquare(BoxPoints(e, t)[i], SideNormals[i], BoxLows(e, t)[i])
<1>0. \A a \in 1 .. 3 : a = 1 \/ a = 2 \/ a = 3
  OBVIOUS
<1>1. CASE i = 1
  <2>1. PICK p, q : p = <<e, -40, -e>> /\ q = <<-e, -40, -e>>
    OBVIOUS
  <2>2. PICK r, s : r = <<-e, t, -e>> /\ s = <<e, t, -e>>
    OBVIOUS
  <2>3. PICK n, l : n = <<0, 0, -1>> /\ l = <<-e, -40, -e>>
    OBVIOUS
  <2>4. p \in Vector /\ q \in Vector /\ r \in Vector /\ s \in Vector /\ l \in Vector
    BY <2>1, <2>2, <2>3 DEF Vector
  <2>5. LooksTo(p, q, s, n)
    BY <2>1, <2>2, <2>3 DEF LooksTo, Sign
  <2>6. Begin(p, q, r, s, n, l)
    BY <1>0, <2>1, <2>2, <2>3 DEF Begin, Lows
  <2>7. IsSquare(<<p, q, r, s>>, n, l)
    BY <2>4, <2>5, <2>6, SquareIs
  <2>8. BoxPoints(e, t)[i] = <<p, q, r, s>> /\ SideNormals[i] = n /\ BoxLows(e, t)[i] = l
    BY <1>1, <2>1, <2>2, <2>3 DEF BoxPoints, SideNormals, BoxLows
  <2> QED
    BY <2>7, <2>8
<1>2. CASE i = 2
  <2>1. PICK p, q : p = <<-e, -40, e>> /\ q = <<e, -40, e>>
    OBVIOUS
  <2>2. PICK r, s : r = <<e, t, e>> /\ s = <<-e, t, e>>
    OBVIOUS
  <2>3. PICK n, l : n = <<0, 0, 1>> /\ l = <<-e, -40, e>>
    OBVIOUS
  <2>4. p \in Vector /\ q \in Vector /\ r \in Vector /\ s \in Vector /\ l \in Vector
    BY <2>1, <2>2, <2>3 DEF Vector
  <2>5. LooksTo(p, q, s, n)
    BY <2>1, <2>2, <2>3 DEF LooksTo, Sign
  <2>6. Begin(p, q, r, s, n, l)
    BY <1>0, <2>1, <2>2, <2>3 DEF Begin, Lows
  <2>7. IsSquare(<<p, q, r, s>>, n, l)
    BY <2>4, <2>5, <2>6, SquareIs
  <2>8. BoxPoints(e, t)[i] = <<p, q, r, s>> /\ SideNormals[i] = n /\ BoxLows(e, t)[i] = l
    BY <1>2, <2>1, <2>2, <2>3 DEF BoxPoints, SideNormals, BoxLows
  <2> QED
    BY <2>7, <2>8
<1>3. CASE i = 3
  <2>1. PICK p, q : p = <<e, -40, e>> /\ q = <<e, -40, -e>>
    OBVIOUS
  <2>2. PICK r, s : r = <<e, t, -e>> /\ s = <<e, t, e>>
    OBVIOUS
  <2>3. PICK n, l : n = <<1, 0, 0>> /\ l = <<e, -40, -e>>
    OBVIOUS
  <2>4. p \in Vector /\ q \in Vector /\ r \in Vector /\ s \in Vector /\ l \in Vector
    BY <2>1, <2>2, <2>3 DEF Vector
  <2>5. LooksTo(p, q, s, n)
    BY <2>1, <2>2, <2>3 DEF LooksTo, Sign
  <2>6. Begin(p, q, r, s, n, l)
    BY <1>0, <2>1, <2>2, <2>3 DEF Begin, Lows
  <2>7. IsSquare(<<p, q, r, s>>, n, l)
    BY <2>4, <2>5, <2>6, SquareIs
  <2>8. BoxPoints(e, t)[i] = <<p, q, r, s>> /\ SideNormals[i] = n /\ BoxLows(e, t)[i] = l
    BY <1>3, <2>1, <2>2, <2>3 DEF BoxPoints, SideNormals, BoxLows
  <2> QED
    BY <2>7, <2>8
<1>4. CASE i = 4
  <2>1. PICK p, q : p = <<-e, -40, -e>> /\ q = <<-e, -40, e>>
    OBVIOUS
  <2>2. PICK r, s : r = <<-e, t, e>> /\ s = <<-e, t, -e>>
    OBVIOUS
  <2>3. PICK n, l : n = <<-1, 0, 0>> /\ l = <<-e, -40, -e>>
    OBVIOUS
  <2>4. p \in Vector /\ q \in Vector /\ r \in Vector /\ s \in Vector /\ l \in Vector
    BY <2>1, <2>2, <2>3 DEF Vector
  <2>5. LooksTo(p, q, s, n)
    BY <2>1, <2>2, <2>3 DEF LooksTo, Sign
  <2>6. Begin(p, q, r, s, n, l)
    BY <1>0, <2>1, <2>2, <2>3 DEF Begin, Lows
  <2>7. IsSquare(<<p, q, r, s>>, n, l)
    BY <2>4, <2>5, <2>6, SquareIs
  <2>8. BoxPoints(e, t)[i] = <<p, q, r, s>> /\ SideNormals[i] = n /\ BoxLows(e, t)[i] = l
    BY <1>4, <2>1, <2>2, <2>3 DEF BoxPoints, SideNormals, BoxLows
  <2> QED
    BY <2>7, <2>8
<1>5. CASE i = 5
  <2>1. PICK p, q : p = <<-e, t, -e>> /\ q = <<-e, t, e>>
    OBVIOUS
  <2>2. PICK r, s : r = <<e, t, e>> /\ s = <<e, t, -e>>
    OBVIOUS
  <2>3. PICK n, l : n = <<0, 1, 0>> /\ l = <<-e, t, -e>>
    OBVIOUS
  <2>4. p \in Vector /\ q \in Vector /\ r \in Vector /\ s \in Vector /\ l \in Vector
    BY <2>1, <2>2, <2>3 DEF Vector
  <2>5. LooksTo(p, q, s, n)
    BY <2>1, <2>2, <2>3 DEF LooksTo, Sign
  <2>6. Begin(p, q, r, s, n, l)
    BY <1>0, <2>1, <2>2, <2>3 DEF Begin, Lows
  <2>7. IsSquare(<<p, q, r, s>>, n, l)
    BY <2>4, <2>5, <2>6, SquareIs
  <2>8. BoxPoints(e, t)[i] = <<p, q, r, s>> /\ SideNormals[i] = n /\ BoxLows(e, t)[i] = l
    BY <1>5, <2>1, <2>2, <2>3 DEF BoxPoints, SideNormals, BoxLows
  <2> QED
    BY <2>7, <2>8
<1>6. CASE i = 6
  <2>1. PICK p, q : p = <<e, -40, -e>> /\ q = <<e, -40, e>>
    OBVIOUS
  <2>2. PICK r, s : r = <<-e, -40, e>> /\ s = <<-e, -40, -e>>
    OBVIOUS
  <2>3. PICK n, l : n = <<0, -1, 0>> /\ l = <<-e, -40, -e>>
    OBVIOUS
  <2>4. p \in Vector /\ q \in Vector /\ r \in Vector /\ s \in Vector /\ l \in Vector
    BY <2>1, <2>2, <2>3 DEF Vector
  <2>5. LooksTo(p, q, s, n)
    BY <2>1, <2>2, <2>3 DEF LooksTo, Sign
  <2>6. Begin(p, q, r, s, n, l)
    BY <1>0, <2>1, <2>2, <2>3 DEF Begin, Lows
  <2>7. IsSquare(<<p, q, r, s>>, n, l)
    BY <2>4, <2>5, <2>6, SquareIs
  <2>8. BoxPoints(e, t)[i] = <<p, q, r, s>> /\ SideNormals[i] = n /\ BoxLows(e, t)[i] = l
    BY <1>6, <2>1, <2>2, <2>3 DEF BoxPoints, SideNormals, BoxLows
  <2> QED
    BY <2>7, <2>8
<1> QED
  BY <1>1, <1>2, <1>3, <1>4, <1>5, <1>6

\* Faces that each are a square, and look to different sides.
IsShape(faces, n, ns) ==
    /\ n \in Nat /\ faces = [i \in 1 .. n |-> faces[i]]
    /\ \A i \in 1 .. n : \E points, tex, l : faces[i] = Face(points, tex) /\ IsSquare(points, ns[i], l)
    /\ \A i, j \in 1 .. n : ns[i] = ns[j] => i = j

\* The six sides of a box differ.
LEMMA SidesDiffer == \A i, j \in 1 .. 6 : SideNormals[i] = SideNormals[j] => i = j
<1>1. PICK m : m = SideNormals
  OBVIOUS
<1>2. /\ m[1][1] = 0 /\ m[1][2] = 0 /\ m[1][3] = -1
      /\ m[2][1] = 0 /\ m[2][2] = 0 /\ m[2][3] = 1
      /\ m[3][1] = 1 /\ m[3][2] = 0 /\ m[3][3] = 0
      /\ m[4][1] = -1 /\ m[4][2] = 0 /\ m[4][3] = 0
      /\ m[5][1] = 0 /\ m[5][2] = 1 /\ m[5][3] = 0
      /\ m[6][1] = 0 /\ m[6][2] = -1 /\ m[6][3] = 0
  BY <1>1 DEF SideNormals
<1>3. \A i \in 1 .. 6 : i = 1 \/ i = 2 \/ i = 3 \/ i = 4 \/ i = 5 \/ i = 6
  OBVIOUS
<1>4. \A i, j \in 1 .. 6 : m[i] = m[j] => i = j
  BY <1>2, <1>3
<1> QED
  BY <1>1, <1>4

\* The box of a cube, of a liquid or of a torch.
LEMMA BoxShape ==
    ASSUME NEW e \in {5, 40}, NEW t \in {10, 32, 40}, NEW corner, NEW width, NEW height, NEW tex,
           corner = <<-e, -40, -e>>, width = 2 * e, height = t + 40
    PROVE  IsShape(Box(corner, width, height, tex), 6, SideNormals)
<1>1. PICK b : b = Box(corner, width, height, tex)
  OBVIOUS
<1>2. b = [i \in 1 .. 6 |-> Face(BoxPoints(e, t)[i], tex[i])]
  BY <1>1, BoxIs
<1>3. b = [i \in 1 .. 6 |-> b[i]] /\ \A i \in 1 .. 6 : b[i] = Face(BoxPoints(e, t)[i], tex[i])
  BY <1>2
<1>4. \A i \in 1 .. 6 : \E points, te, l : b[i] = Face(points, te) /\ IsSquare(points, SideNormals[i], l)
  <2> SUFFICES ASSUME NEW i \in 1 .. 6
               PROVE  \E points, te, l : b[i] = Face(points, te) /\ IsSquare(points, SideNormals[i], l)
    OBVIOUS
  <2>1. b[i] = Face(BoxPoints(e, t)[i], tex[i])
    BY <1>3
  <2>2. IsSquare(BoxPoints(e, t)[i], SideNormals[i], BoxLows(e, t)[i])
    BY BoxSquares
  <2> QED
    BY <2>1, <2>2, Zenon
<1>5. 6 \in Nat
  OBVIOUS
<1>6. IsShape(b, 6, SideNormals)
  BY <1>3, <1>4, <1>5, SidesDiffer, Zenon DEF IsShape
<1> QED
  BY <1>1, <1>6

\* The two faces of a flower.
LEMMA SpriteShape == \E ns : IsShape(GenerateXSprite, 2, ns)
<1> DEFINE p(i, j, k) == <<Corner[1] + i * Unit, Corner[2] + j * Unit, Corner[3] + k * Unit>>
<1>1. /\ p(0, 0, 0) = <<-40, -40, -40>> /\ p(1, 0, 1) = <<40, -40, 40>>
      /\ p(1, 1, 1) = <<40, 40, 40>>    /\ p(0, 1, 0) = <<-40, 40, -40>>
      /\ p(1, 0, 0) = <<40, -40, -40>>  /\ p(0, 0, 1) = <<-40, -40, 40>>
      /\ p(0, 1, 1) = <<-40, 40, 40>>   /\ p(1, 1, 0) = <<40, 40, -40>>
  BY DEF Corner, Half, Unit
<1>2. GenerateXSprite = <<Face(<<p(0, 0, 0), p(1, 0, 1), p(1, 1, 1), p(0, 1, 0)>>, Whole),
                          Face(<<p(1, 0, 0), p(0, 0, 1), p(0, 1, 1), p(1, 1, 0)>>, Whole)>>
  BY Zenon DEF GenerateXSprite
<1> HIDE DEF p
<1>0. \A a \in 1 .. 3 : a = 1 \/ a = 2 \/ a = 3
  OBVIOUS
<1>3. PICK n1, n2 : n1 = << -1, 0, 1 >> /\ n2 = << -1, 0, -1 >>
  OBVIOUS
<1>4. PICK l \in Vector : l = << -40, -40, -40 >>
  <2>1. << -40, -40, -40 >> \in Vector
    BY DEF Vector
  <2> QED
    BY <2>1
<1>5. IsSquare(<<p(0, 0, 0), p(1, 0, 1), p(1, 1, 1), p(0, 1, 0)>>, n1, l)
  <2>1. PICK p1, p2 : p1 = <<-40, -40, -40>> /\ p2 = <<40, -40, 40>>
    OBVIOUS
  <2>2. PICK p3, p4 : p3 = <<40, 40, 40>> /\ p4 = <<-40, 40, -40>>
    OBVIOUS
  <2>3. p1 \in Vector /\ p2 \in Vector /\ p3 \in Vector /\ p4 \in Vector
    BY <2>1, <2>2 DEF Vector
  <2>4. LooksTo(p1, p2, p4, n1)
    BY <1>3, <2>1, <2>2 DEF LooksTo, Sign
  <2>5. Begin(p1, p2, p3, p4, n1, l)
    BY <1>0, <1>3, <1>4, <2>1, <2>2 DEF Begin, Lows
  <2>6. IsSquare(<<p1, p2, p3, p4>>, n1, l)
    BY <1>4, <2>3, <2>4, <2>5, SquareIs
  <2> QED
    BY <1>1, <2>1, <2>2, <2>6
<1>6. IsSquare(<<p(1, 0, 0), p(0, 0, 1), p(0, 1, 1), p(1, 1, 0)>>, n2, l)
  <2>1. PICK p1, p2 : p1 = <<40, -40, -40>> /\ p2 = <<-40, -40, 40>>
    OBVIOUS
  <2>2. PICK p3, p4 : p3 = <<-40, 40, 40>> /\ p4 = <<40, 40, -40>>
    OBVIOUS
  <2>3. p1 \in Vector /\ p2 \in Vector /\ p3 \in Vector /\ p4 \in Vector
    BY <2>1, <2>2 DEF Vector
  <2>4. LooksTo(p1, p2, p4, n2)
    BY <1>3, <2>1, <2>2 DEF LooksTo, Sign
  <2>5. Begin(p1, p2, p3, p4, n2, l)
    BY <1>0, <1>3, <1>4, <2>1, <2>2 DEF Begin, Lows
  <2>6. IsSquare(<<p1, p2, p3, p4>>, n2, l)
    BY <1>4, <2>3, <2>4, <2>5, SquareIs
  <2> QED
    BY <1>1, <2>1, <2>2, <2>6
<1>7. PICK ns : ns = <<n1, n2>>
  OBVIOUS
<1>8. ns[1] = n1 /\ ns[2] = n2
  BY <1>7
<1>9. n1 # n2
  <2>1. n1[3] = 1 /\ n2[3] = -1
    BY <1>3
  <2> QED
    BY <2>1
<1>10. PICK x : x = GenerateXSprite
  OBVIOUS
<1>11. /\ x[1] = Face(<<p(0, 0, 0), p(1, 0, 1), p(1, 1, 1), p(0, 1, 0)>>, Whole)
       /\ x[2] = Face(<<p(1, 0, 0), p(0, 0, 1), p(0, 1, 1), p(1, 1, 0)>>, Whole)
       /\ x = [i \in 1 .. 2 |-> x[i]]
  BY <1>2, <1>10
<1>12. \A i \in 1 .. 2 : i = 1 \/ i = 2
  OBVIOUS
<1>13. \A i \in 1 .. 2 : \E points, tex, k : x[i] = Face(points, tex) /\ IsSquare(points, ns[i], k)
  BY <1>5, <1>6, <1>8, <1>11, <1>12, Zenon
<1>14. \A i, j \in 1 .. 2 : ns[i] = ns[j] => i = j
  BY <1>8, <1>9, <1>12, Zenon
<1>15. 2 \in Nat
  OBVIOUS
<1>16. IsShape(x, 2, ns)
  BY <1>11, <1>13, <1>14, <1>15, Zenon DEF IsShape
<1> QED
  BY <1>10, <1>16, Zenon

\* The cube.
LEMMA CubeShape == IsShape(GenerateCubeFaces, 6, SideNormals)
<1>1. Corner = << -40, -40, -40 >> /\ Unit = 2 * 40 /\ Unit = 40 + 40
  BY DEF Corner, Half, Unit
<1> QED
  BY <1>1, BoxShape DEF GenerateCubeFaces

\* blockgeom.cpp: whatever the type, its faces are squares that look to different sides;
\* the cube is that of all opaque types.
LEMMA Shapes ==
    /\ \A type \in BlockTypes : \E n, ns : IsShape(Geometry(type), n, ns)
    /\ \A type \in Opaque : Geometry(type) = GenerateCubeFaces
<1>1. IsShape(GenerateLiquidCubeFaces, 6, SideNormals)
  <2>1. Corner = << -40, -40, -40 >> /\ Unit = 2 * 40 /\ 72 = 32 + 40
    BY DEF Corner, Half, Unit
  <2> QED
    BY <2>1, BoxShape DEF GenerateLiquidCubeFaces
<1>2. IsShape(GenerateTorchFaces, 6, SideNormals)
  <2>1. << -5, -Half, -5 >> = << -5, -40, -5 >> /\ 10 = 2 * 5 /\ 50 = 10 + 40
    BY DEF Half, Unit
  <2> QED
    BY <2>1, BoxShape DEF GenerateTorchFaces
<1>3. \E ns : IsShape(<<>>, 0, ns)
  <2>1. PICK e : e = <<>>
    OBVIOUS
  <2>2. e = [i \in 1 .. 0 |-> e[i]] /\ 1 .. 0 = {} /\ 0 \in Nat
    BY <2>1
  <2>3. IsShape(e, 0, e)
    BY <2>2, Zenon DEF IsShape
  <2> QED
    BY <2>1, <2>3, Zenon
<1>4. \A type : Geometry(type) \in {GenerateCubeFaces, GenerateLiquidCubeFaces, GenerateTorchFaces,
                                   GenerateXSprite, <<>>}
  BY DEF Geometry
<1>5. \A type \in Opaque : Geometry(type) = GenerateCubeFaces
  BY DEF Geometry, Opaque
<1> QED
  BY CubeShape, <1>1, <1>2, <1>3, <1>4, <1>5, SpriteShape, Zenon

--------------------------------------------------------------------------------
(* A cell and the faces that are made of its block.                         *)

\* A cell as a place: the coordinates of its middle, in blocks.
Middle(c) == <<c[1], c[3], c[2]>>

\* A rendered square of a cell, which looks to this side.
OfCell(face, n, c) ==
    /\ face.render = TRUE
    /\ Normal(face.points[1], face.points[2], face.points[4]) = n
    /\ \A a \in 1 .. 3 : \E l \in Lows(n, a) : IsLow(face.points, a, 80 * Middle(c)[a] + l)

\* A square keeps its side when it is moved.
Shifted(p, v) == <<p[1] + v[1], p[2] + v[2], p[3] + v[3]>>
LEMMA NormalMoved ==
    ASSUME NEW p \in Vector, NEW q \in Vector, NEW r \in Vector, NEW v \in Vector
    PROVE  Normal(Shifted(p, v), Shifted(q, v), Shifted(r, v)) = Normal(p, q, r)
<1>0. PICK x, y, z : x = Shifted(p, v) /\ y = Shifted(q, v) /\ z = Shifted(r, v)
  OBVIOUS
<1>1. \A a \in 1 .. 3 : p[a] \in Int /\ q[a] \in Int /\ r[a] \in Int /\ v[a] \in Int
  BY DEF Vector
<1>2. /\ x \in Vector /\ y \in Vector /\ z \in Vector
      /\ x = <<p[1] + v[1], p[2] + v[2], p[3] + v[3]>>
      /\ y = <<q[1] + v[1], q[2] + v[2], q[3] + v[3]>>
      /\ z = <<r[1] + v[1], r[2] + v[2], r[3] + v[3]>>
  BY <1>0, <1>1 DEF Vector, Shifted
<1>3. \A a \in 1 .. 3 : a = 1 \/ a = 2 \/ a = 3
  OBVIOUS
<1>4. \A a \in 1 .. 3 : y[a] - x[a] = q[a] - p[a] /\ z[a] - x[a] = r[a] - p[a]
  BY <1>1, <1>2, <1>3
<1>5. 1 \in 1 .. 3 /\ 2 \in 1 .. 3 /\ 3 \in 1 .. 3
  OBVIOUS
<1>6. Normal(x, y, z) =
             <<Sign((y[2] - x[2]) * (z[3] - x[3]) - (y[3] - x[3]) * (z[2] - x[2])),
               Sign((y[3] - x[3]) * (z[1] - x[1]) - (y[1] - x[1]) * (z[3] - x[3])),
               Sign((y[1] - x[1]) * (z[2] - x[2]) - (y[2] - x[2]) * (z[1] - x[1]))>>
  <2>1. x \in Vector /\ y \in Vector /\ z \in Vector
    BY <1>2
  <2> QED
    BY <2>1, NormalIs
<1>7. Normal(p, q, r) =
             <<Sign((q[2] - p[2]) * (r[3] - p[3]) - (q[3] - p[3]) * (r[2] - p[2])),
               Sign((q[3] - p[3]) * (r[1] - p[1]) - (q[1] - p[1]) * (r[3] - p[3])),
               Sign((q[1] - p[1]) * (r[2] - p[2]) - (q[2] - p[2]) * (r[1] - p[1]))>>
  BY NormalIs
<1> QED
  BY <1>0, <1>4, <1>5, <1>6, <1>7, Zenon

\* The least coordinate of a square that is moved.
LEMMA LowMoved ==
    ASSUME NEW points, NEW w, NEW a \in 1 .. 3, NEW v \in Int, NEW l \in Int,
           \A k \in 1 .. 4 : points[k] \in Vector,
           \A k \in 1 .. 4 : w[k][a] = points[k][a] + v,
           IsLow(points, a, l)
    PROVE  IsLow(w, a, v + l)
<1>1. \A k \in 1 .. 4 : points[k][a] \in Int
  BY DEF Vector
<1>2. (\E k \in 1 .. 4 : points[k][a] = l) /\ \A k \in 1 .. 4 : l <= points[k][a]
  BY DEF IsLow
<1>3. \A k \in 1 .. 4 : v + l <= w[k][a]
  BY <1>1, <1>2
<1>4. \E k \in 1 .. 4 : w[k][a] = v + l
  BY <1>1, <1>2
<1> QED
  BY <1>3, <1>4 DEF IsLow

\* A type has as many faces when they are moved to a cell.
LEMMA MovedList ==
    ASSUME NEW type, NEW n, NEW ns, IsShape(Geometry(type), n, ns), NEW c
    PROVE  MovedFaces(type, c) = [i \in 1 .. n |-> MovedFaces(type, c)[i]]
<1>1. PICK m : m = MovedFaces(type, c)
  OBVIOUS
<1>2. DOMAIN Geometry(type) = 1 .. n
  <2>1. PICK g : g = Geometry(type)
    OBVIOUS
  <2>2. g = [i \in 1 .. n |-> g[i]]
    BY <2>1, Zenon DEF IsShape
  <2> QED
    BY <2>1, <2>2
<1>3. m = [i \in DOMAIN Geometry(type) |-> m[i]]
  BY <1>1 DEF MovedFaces
<1> QED
  BY <1>1, <1>2, <1>3

\* Where the faces of a cell are that ChunkObject::Update makes of its geometry.
LEMMA MovedIs ==
    ASSUME NEW type, NEW n, NEW ns, IsShape(Geometry(type), n, ns), NEW c \in Cells
    PROVE  \A i \in 1 .. n :
              /\ OfCell(MovedFaces(type, c)[i], ns[i], c)
              /\ \A k \in 1 .. 4 :
                    MovedFaces(type, c)[i].points[k] =
                       <<Geometry(type)[i].points[k][1] + 80 * c[1],
                         Geometry(type)[i].points[k][2] + 80 * c[3],
                         Geometry(type)[i].points[k][3] + 80 * c[2]>>
<1>1. PICK g : g = Geometry(type)
  OBVIOUS
<1>2. PICK m : m = MovedFaces(type, c)
  OBVIOUS
<1>3. PICK names : names = TextureNames(type)
  OBVIOUS
<1>4. /\ n \in Nat /\ g = [i \in 1 .. n |-> g[i]]
      /\ \A i \in 1 .. n : \E points, tex, l : g[i] = Face(points, tex) /\ IsSquare(points, ns[i], l)
  BY <1>1 DEF IsShape
<1>5. m = [i \in DOMAIN g |->
              [g[i] EXCEPT
                !.points = [t \in 1 .. 4 |->
                    <<@[t][1] + Unit * c[1], @[t][2] + Unit * c[3], @[t][3] + Unit * c[2]>>],
                !.texCoord = InAtlas(IF Len(names) = 1 THEN names[1] ELSE names[i], @)]]
  BY <1>1, <1>2, <1>3, Zenon DEF MovedFaces
<1>6. DOMAIN g = 1 .. n
  BY <1>4
<1>7. ASSUME NEW i \in 1 .. n
      PROVE  /\ OfCell(m[i], ns[i], c)
             /\ \A k \in 1 .. 4 :
                   m[i].points[k] = <<g[i].points[k][1] + 80 * c[1],
                                      g[i].points[k][2] + 80 * c[3],
                                      g[i].points[k][3] + 80 * c[2]>>
  <2>1. PICK points, tex, l : g[i] = Face(points, tex) /\ IsSquare(points, ns[i], l)
    BY <1>4
  <2>2. PICK w : w = [t \in 1 .. 4 |-> <<points[t][1] + 80 * c[1], points[t][2] + 80 * c[3],
                                        points[t][3] + 80 * c[2]>>]
    OBVIOUS
  <2>3. g[i].points = points /\ g[i] = [points |-> points, texCoord |-> tex, render |-> TRUE]
    BY <2>1 DEF Face
  <2>4. m[i].points = w /\ m[i].render = TRUE
    <3>1. m[i] = [g[i] EXCEPT
                    !.points = [t \in 1 .. 4 |-> <<g[i].points[t][1] + Unit * c[1],
                                                  g[i].points[t][2] + Unit * c[3],
                                                  g[i].points[t][3] + Unit * c[2]>>],
                    !.texCoord = InAtlas(IF Len(names) = 1 THEN names[1] ELSE names[i],
                                         g[i].texCoord)]
      BY <1>5, <1>6
    <3>2. w = [t \in 1 .. 4 |-> <<g[i].points[t][1] + Unit * c[1],
                                  g[i].points[t][2] + Unit * c[3],
                                  g[i].points[t][3] + Unit * c[2]>>]
      BY <2>2, <2>3 DEF Unit
    <3> QED
      BY <2>3, <3>1, <3>2
  <2>5. PICK v : v = <<80 * c[1], 80 * c[3], 80 * c[2]>>
    OBVIOUS
  <2>6. v \in Vector /\ v[1] = 80 * c[1] /\ v[2] = 80 * c[3] /\ v[3] = 80 * c[2]
    <3>1. c[1] \in Int /\ c[2] \in Int /\ c[3] \in Int
      BY ChunkAssumption DEF Cells
    <3> QED
      BY <2>5, <3>1 DEF Vector
  <2>7. \A k \in 1 .. 4 : w[k] = Shifted(points[k], v)
    BY <2>2, <2>6 DEF Shifted
  <2>8. /\ \A k \in 1 .. 4 : points[k] \in Vector
        /\ Normal(points[1], points[2], points[4]) = ns[i]
        /\ \A a \in 1 .. 3 : l[a] \in Int /\ IsLow(points, a, l[a]) /\ l[a] \in Lows(ns[i], a)
    BY <2>1 DEF IsSquare
  <2>9. Normal(w[1], w[2], w[4]) = ns[i]
    <3>1. 1 \in 1 .. 4 /\ 2 \in 1 .. 4 /\ 4 \in 1 .. 4
      OBVIOUS
    <3>2. w[1] = Shifted(points[1], v) /\ w[2] = Shifted(points[2], v) /\ w[4] = Shifted(points[4], v)
      BY <2>7, <3>1
    <3>3. points[1] \in Vector /\ points[2] \in Vector /\ points[4] \in Vector
      BY <2>8, <3>1
    <3>4. Normal(w[1], w[2], w[4]) = Normal(points[1], points[2], points[4])
      BY <2>6, <3>2, <3>3, NormalMoved
    <3> QED
      BY <2>8, <3>4
  <2>10. ASSUME NEW a \in 1 .. 3 PROVE IsLow(w, a, 80 * Middle(c)[a] + l[a])
    <3>1. v[a] = 80 * Middle(c)[a] /\ v[a] \in Int
      BY <2>5, <2>6 DEF Middle, Vector
    <3>2. \A k \in 1 .. 4 : w[k][a] = points[k][a] + v[a]
      BY <2>7 DEF Shifted
    <3>3. IsLow(w, a, v[a] + l[a])
      BY <2>8, <3>1, <3>2, LowMoved
    <3> QED
      BY <3>1, <3>3
  <2>11. OfCell(m[i], ns[i], c)
    BY <2>4, <2>8, <2>9, <2>10 DEF OfCell
  <2>12. \A k \in 1 .. 4 :
            m[i].points[k] = <<g[i].points[k][1] + 80 * c[1], g[i].points[k][2] + 80 * c[3],
                               g[i].points[k][3] + 80 * c[2]>>
    BY <2>2, <2>3, <2>4
  <2> QED
    BY <2>11, <2>12
<1> QED
  BY <1>1, <1>2, <1>7, Zenon

\* Two faces are the same quad only if they are of the same cell and look to the same side.
LEMMA QuadsApart ==
    ASSUME NEW f, NEW g, NEW n, NEW m, NEW c \in Cells, NEW d \in Cells,
           OfCell(f, n, c), OfCell(g, m, d), QuadOf(f) = QuadOf(g)
    PROVE  c = d /\ n = m
<1>1. PICK p : p = f.points
  OBVIOUS
<1>2. PICK q : q = g.points
  OBVIOUS
<1>3. n = m /\ {p[k] : k \in 1 .. 4} = {q[k] : k \in 1 .. 4}
  <2>1. QuadOf(f).seenFrom = n /\ QuadOf(g).seenFrom = m
    BY DEF QuadOf, OfCell
  <2>2. QuadOf(f).corners = {p[k] : k \in 1 .. 4} /\ QuadOf(g).corners = {q[k] : k \in 1 .. 4}
    BY <1>1, <1>2 DEF QuadOf
  <2> QED
    BY <2>1, <2>2
<1>4. /\ \A k \in 1 .. 4 : \E j \in 1 .. 4 : q[j] = p[k]
      /\ \A k \in 1 .. 4 : \E j \in 1 .. 4 : p[j] = q[k]
  BY <1>3
<1>5. /\ c[1] \in Int /\ c[2] \in Int /\ c[3] \in Int /\ c = <<c[1], c[2], c[3]>>
      /\ d[1] \in Int /\ d[2] \in Int /\ d[3] \in Int /\ d = <<d[1], d[2], d[3]>>
  BY ChunkAssumption DEF Cells
<1>6. ASSUME NEW a \in 1 .. 3 PROVE Middle(c)[a] = Middle(d)[a]
  <2>1. PICK l \in Lows(n, a) : IsLow(p, a, 80 * Middle(c)[a] + l)
    BY <1>1 DEF OfCell
  <2>2. PICK k \in Lows(n, a) : IsLow(q, a, 80 * Middle(d)[a] + k)
    BY <1>2, <1>3 DEF OfCell
  <2>3. \A j \in Lows(n, a) : j \in Int /\ (j \in {5, 10, 32, 40} \/ j \in {-40, -5})
    BY DEF Lows
  <2>4. \/ l \in {5, 10, 32, 40} /\ k \in {5, 10, 32, 40}
        \/ l \in {-40, -5} /\ k \in {-40, -5}
    BY DEF Lows
  <2>5. Middle(c)[a] \in Int /\ Middle(d)[a] \in Int
    BY <1>5 DEF Middle
  <2>6. PICK x \in Int : x = 80 * Middle(c)[a] + l
    BY <2>3, <2>5
  <2>7. PICK y \in Int : y = 80 * Middle(d)[a] + k
    BY <2>3, <2>5
  <2>8. /\ (\E j \in 1 .. 4 : p[j][a] = x) /\ \A j \in 1 .. 4 : x <= p[j][a]
        /\ (\E j \in 1 .. 4 : q[j][a] = y) /\ \A j \in 1 .. 4 : y <= q[j][a]
    BY <2>1, <2>2, <2>6, <2>7 DEF IsLow
  <2>9. x <= y /\ y <= x
    BY <1>4, <2>8
  <2>10. x = y
    BY <2>9
  <2>11. ASSUME NEW i \in Int, NEW j \in Int, 80 * i + l = 80 * j + k PROVE i = j
    BY <2>4, <2>11
  <2> QED
    BY <2>5, <2>6, <2>7, <2>10, <2>11
<1>7. Middle(c)[1] = Middle(d)[1] /\ Middle(c)[2] = Middle(d)[2] /\ Middle(c)[3] = Middle(d)[3]
  BY <1>6
<1>8. c[1] = d[1] /\ c[2] = d[2] /\ c[3] = d[3]
  BY <1>7 DEF Middle
<1> QED
  BY <1>3, <1>5, <1>8, Zenon

\* Some of the faces of a list, each as a list of its own.
Some(m, g, P) == [n \in 1 .. m |-> IF n \in P THEN << g[n] >> ELSE << >>]
QuadsOfSome(m, g, P) == {QuadOf(g[n]) : n \in P \cap (1 .. m)}

\* They are drawn, in its order.
LEMMA DrawsSome ==
    ASSUME NEW X, NEW m \in Nat, NEW g, NEW P,
           \A n \in 1 .. m : g[n] \in X,
           \A n, k \in 1 .. m : QuadOf(g[n]) = QuadOf(g[k]) => n = k
    PROVE  Draws(X, FlattenSeq(Some(m, g, P)), QuadsOfSome(m, g, P))
<1> DEFINE part(n) == IF n \in P THEN << g[n] >> ELSE << >>
           r(j) == [n \in 1 .. j |-> part(n)]
           Q(j) == {QuadOf(g[n]) : n \in P \cap (1 .. j)}
           S == {j \in Nat : j <= m => r(j) \in Seq(Seq(X)) /\ Draws(X, FlattenSeq(r(j)), Q(j))}
<1>1. 0 \in S
  <2>1. PICK e : e = << >>
    OBVIOUS
  <2>2. r(0) = e /\ Q(0) = {}
    BY <2>1
  <2>3. FlattenSeq(e) = e
    BY <2>1, FlattenEmpty
  <2>4. e \in Seq(Seq(X))
    BY <2>1
  <2>5. Draws(X, e, {})
    BY <2>1, DrawsNone
  <2>6. r(0) \in Seq(Seq(X)) /\ Draws(X, FlattenSeq(r(0)), Q(0))
    BY <2>2, <2>3, <2>4, <2>5, Zenon
  <2> QED
    BY <2>6
<1>2. ASSUME NEW j \in S PROVE j + 1 \in S
  <2>0. j \in Nat /\ j + 1 \in Nat
    OBVIOUS
  <2> SUFFICES ASSUME j + 1 <= m
               PROVE  r(j + 1) \in Seq(Seq(X)) /\ Draws(X, FlattenSeq(r(j + 1)), Q(j + 1))
    BY <2>0
  <2>1. r(j) \in Seq(Seq(X)) /\ Draws(X, FlattenSeq(r(j)), Q(j))
    BY <2>0
  <2>2. PICK x : x = part(j + 1)
    OBVIOUS
  <2>3. j + 1 \in 1 .. m /\ g[j + 1] \in X
    BY <2>0
  <2>4. x \in Seq(X)
    BY <2>2, <2>3
  <2>5. r(j + 1) = Append(r(j), x) /\ r(j + 1) \in Seq(Seq(X))
    <3>1. PICK a : a = r(j)
      OBVIOUS
    <3>2. PICK b : b = r(j + 1)
      OBVIOUS
    <3>3. b = [n \in 1 .. j + 1 |-> b[n]] /\ \A n \in 1 .. j + 1 : b[n] = part(n)
      BY <3>2
    <3>4. a = [n \in 1 .. j |-> a[n]] /\ \A n \in 1 .. j : a[n] = part(n)
      BY <3>1
    <3> HIDE DEF part, r
    <3>5. a \in Seq(Seq(X)) /\ Len(a) = j
      BY <2>0, <2>1, <3>1, <3>4
    <3>6. PICK d : d = Append(a, x)
      OBVIOUS
    <3>7. /\ d \in Seq(Seq(X)) /\ Len(d) = j + 1 /\ d[j + 1] = x
          /\ \A n \in 1 .. j : d[n] = a[n]
      BY <2>0, <2>4, <3>5, <3>6, AppendProperties
    <3>8. \A n \in 1 .. j + 1 : d[n] = b[n]
      <4> SUFFICES ASSUME NEW n \in 1 .. j + 1 PROVE d[n] = b[n]
        OBVIOUS
      <4>1. CASE n = j + 1
        BY <2>2, <3>3, <3>7, <4>1
      <4>2. CASE n # j + 1
        <5>1. n \in 1 .. j
          BY <2>0, <4>2
        <5> QED
          BY <3>3, <3>4, <3>7, <5>1
      <4> QED
        BY <4>1, <4>2
    <3>9. d = [n \in 1 .. j + 1 |-> d[n]]
      BY <2>0, <3>7
    <3>10. d = b
      BY <3>3, <3>8, <3>9
    <3> QED
      BY <3>1, <3>2, <3>6, <3>7, <3>10
  <2>6. FlattenSeq(r(j + 1)) = FlattenSeq(r(j)) \o x
    BY <2>1, <2>4, <2>5, FlattenAppend
  <2>7. CASE j + 1 \in P
    <3>1. x = << g[j + 1] >>
      BY <2>2, <2>7
    <3>2. Draws(X, x, {QuadOf(g[j + 1])})
      BY <2>3, <3>1, DrawsOne
    <3>3. Q(j) \cap {QuadOf(g[j + 1])} = {}
      <4> SUFFICES ASSUME NEW n \in P \cap (1 .. j), QuadOf(g[n]) = QuadOf(g[j + 1]) PROVE FALSE
        OBVIOUS
      <4>1. n \in 1 .. m /\ n # j + 1
        BY <2>0
      <4> QED
        BY <2>3, <4>1
    <3>4. Q(j + 1) = Q(j) \cup {QuadOf(g[j + 1])}
      <4>1. P \cap (1 .. j + 1) = (P \cap (1 .. j)) \cup {j + 1}
        BY <2>0, <2>7
      <4> QED
        BY <4>1
    <3> HIDE DEF r, Q, part
    <3>5. PICK u : u = FlattenSeq(r(j))
      OBVIOUS
    <3>6. Draws(X, u \o x, Q(j) \cup {QuadOf(g[j + 1])})
      BY <2>1, <3>2, <3>3, <3>5, DrawsBoth
    <3> QED
      BY <2>5, <2>6, <3>4, <3>5, <3>6
  <2>8. CASE j + 1 \notin P
    <3>1. x = << >>
      BY <2>2, <2>8
    <3>2. Q(j + 1) = Q(j)
      <4>1. P \cap (1 .. j + 1) = P \cap (1 .. j)
        BY <2>0, <2>8
      <4> QED
        BY <4>1
    <3>3. Draws(X, x, {})
      BY <3>1, DrawsNone
    <3> HIDE DEF r, Q, part
    <3>4. PICK u : u = FlattenSeq(r(j))
      OBVIOUS
    <3>5. Draws(X, u \o x, Q(j) \cup {})
      BY <2>1, <3>3, <3>4, DrawsBoth
    <3> QED
      BY <2>5, <2>6, <3>2, <3>4, <3>5
  <2> QED
    BY <2>7, <2>8
<1> HIDE DEF S
<1>3. S = Nat
  <2>1. S \subseteq Nat
    BY DEF S
  <2> QED
    BY <1>1, <1>2, <2>1, Induction
<1>4. m \in S
  BY <1>3
<1>5. Draws(X, FlattenSeq(r(m)), Q(m))
  BY <1>4 DEF S
<1> QED
  BY <1>5, Zenon DEF Some, QuadsOfSome

\* The faces that may be drawn, and the quads that are drawn of a cell: all of a type, or
\* those of its sides that are shown.
AllFaces ==
    {f \in {MovedFaces(type, c)[i] : type \in BlockTypes, c \in Cells, i \in Nat} : f.render = TRUE}
AllQuads(type, c) == {QuadOf(MovedFaces(type, c)[i]) : i \in DOMAIN MovedFaces(type, c)}
ShownQuads(b, c) ==
    {QuadOf(MovedFaces(BlockAt(b, c), c)[i]) : i \in {j \in 1 .. 6 : IsShown(b, c, j)}}
CellQuads(b, c) ==
    IF BlockAt(b, c) = "Air" THEN {}
    ELSE IF BlockIsTransparent(b, c) THEN AllQuads(BlockAt(b, c), c)
    ELSE ShownQuads(b, c)

\* A quad of a cell.
IsQuad(q, c) == \E f, n : OfCell(f, n, c) /\ QuadOf(f) = q

\* The faces of a type, moved to a cell, are different quads of the cell.
LEMMA MovedDiffer ==
    ASSUME NEW type \in BlockTypes, NEW c \in Cells, NEW n, NEW ns, IsShape(Geometry(type), n, ns)
    PROVE  \A i, j \in 1 .. n :
              /\ MovedFaces(type, c)[i] \in AllFaces
              /\ IsQuad(QuadOf(MovedFaces(type, c)[i]), c)
              /\ QuadOf(MovedFaces(type, c)[i]) = QuadOf(MovedFaces(type, c)[j]) => i = j
<1> SUFFICES ASSUME NEW i \in 1 .. n, NEW j \in 1 .. n
             PROVE  /\ MovedFaces(type, c)[i] \in AllFaces
                    /\ IsQuad(QuadOf(MovedFaces(type, c)[i]), c)
                    /\ QuadOf(MovedFaces(type, c)[i]) = QuadOf(MovedFaces(type, c)[j]) => i = j
  OBVIOUS
<1>1. PICK m : m = MovedFaces(type, c)
  OBVIOUS
<1>2. OfCell(m[i], ns[i], c) /\ OfCell(m[j], ns[j], c)
  BY <1>1, MovedIs
<1>3. m[i] \in AllFaces
  <2>1. m[i].render = TRUE /\ i \in Nat
    BY <1>2 DEF OfCell, IsShape
  <2> QED
    BY <1>1, <2>1 DEF AllFaces
<1>4. QuadOf(m[i]) = QuadOf(m[j]) => i = j
  <2> SUFFICES ASSUME QuadOf(m[i]) = QuadOf(m[j]) PROVE i = j
    OBVIOUS
  <2>1. ns[i] = ns[j]
    BY <1>2, QuadsApart
  <2> QED
    BY <2>1 DEF IsShape
<1>5. IsQuad(QuadOf(m[i]), c)
  BY <1>2, Zenon DEF IsQuad
<1> QED
  BY <1>1, <1>3, <1>4, <1>5, Zenon

\* All faces of a type are drawn.
LEMMA MovedDraws ==
    ASSUME NEW type \in BlockTypes, NEW c \in Cells
    PROVE  /\ Draws(AllFaces, MovedFaces(type, c), AllQuads(type, c))
           /\ \A q \in AllQuads(type, c) : IsQuad(q, c)
<1>1. PICK n, ns : IsShape(Geometry(type), n, ns)
  BY Shapes
<1>2. PICK m : m = MovedFaces(type, c)
  OBVIOUS
<1>3. n \in Nat /\ m = [i \in 1 .. n |-> m[i]]
  <2>1. n \in Nat
    BY <1>1 DEF IsShape
  <2>2. MovedFaces(type, c) = [i \in 1 .. n |-> MovedFaces(type, c)[i]]
    BY <1>1, MovedList
  <2> QED
    BY <1>2, <2>1, <2>2, Zenon
<1>4. \A i, j \in 1 .. n : /\ m[i] \in AllFaces
                           /\ IsQuad(QuadOf(m[i]), c)
                           /\ QuadOf(m[i]) = QuadOf(m[j]) => i = j
  BY <1>1, <1>2, MovedDiffer
<1>5. m \in Seq(AllFaces) /\ Len(m) = n /\ DOMAIN m = 1 .. n
  BY <1>3, <1>4
<1>6. AllQuads(type, c) = {QuadOf(m[i]) : i \in 1 .. n}
  BY <1>2, <1>5, Zenon DEF AllQuads
<1>7. Draws(AllFaces, m, {QuadOf(m[i]) : i \in 1 .. n})
  BY <1>4, <1>5, Zenon DEF Draws
<1>8. \A q \in {QuadOf(m[i]) : i \in 1 .. n} : IsQuad(q, c)
  BY <1>4, Zenon
<1> QED
  BY <1>2, <1>6, <1>7, <1>8, Zenon

\* The sides in the order they are pushed: each of them once.
LEMMA PushOrderIs ==
    /\ \A n \in 1 .. 6 : PushOrder[n] \in 1 .. 6
    /\ \A i \in 1 .. 6 : \E n \in 1 .. 6 : PushOrder[n] = i
    /\ \A n, k \in 1 .. 6 : PushOrder[n] = PushOrder[k] => n = k
<1>1. PICK p : p = PushOrder
  OBVIOUS
<1>2. p[1] = 4 /\ p[2] = 3 /\ p[3] = 6 /\ p[4] = 5 /\ p[5] = 1 /\ p[6] = 2
  BY <1>1 DEF PushOrder, CubeFaceLeft, CubeFaceRight, CubeFaceBottom, CubeFaceTop, CubeFaceBack,
              CubeFaceFront
<1>3. \A n \in 1 .. 6 : n = 1 \/ n = 2 \/ n = 3 \/ n = 4 \/ n = 5 \/ n = 6
  OBVIOUS
<1>4. 1 \in 1 .. 6 /\ 2 \in 1 .. 6 /\ 3 \in 1 .. 6 /\ 4 \in 1 .. 6 /\ 5 \in 1 .. 6 /\ 6 \in 1 .. 6
  OBVIOUS
<1>5. \A n \in 1 .. 6 : p[n] \in 1 .. 6
  BY <1>2, <1>3
<1>6. \A i \in 1 .. 6 : \E n \in 1 .. 6 : p[n] = i
  BY <1>2, <1>3, <1>4
<1>7. \A n, k \in 1 .. 6 : p[n] = p[k] => n = k
  BY <1>2, <1>3
<1> QED
  BY <1>1, <1>5, <1>6, <1>7

\* Of an opaque block those sides are drawn that are shown.
LEMMA ShownDraws ==
    ASSUME NEW b, NEW c \in Cells, BlockAt(b, c) \in Opaque
    PROVE  /\ Draws(AllFaces, ShownFaces(b, c), ShownQuads(b, c))
           /\ \A q \in ShownQuads(b, c) : IsQuad(q, c)
<1>1. PICK type : type = BlockAt(b, c)
  OBVIOUS
<1>2. PICK m : m = MovedFaces(type, c)
  OBVIOUS
<1>3. IsShape(Geometry(type), 6, SideNormals) /\ type \in BlockTypes
  BY <1>1, Shapes, CubeShape DEF BlockTypes
<1>4. \A i, j \in 1 .. 6 : /\ m[i] \in AllFaces
                           /\ IsQuad(QuadOf(m[i]), c)
                           /\ QuadOf(m[i]) = QuadOf(m[j]) => i = j
  BY <1>2, <1>3, MovedDiffer
<1>5. PICK P : P = {n \in 1 .. 6 : IsShown(b, c, PushOrder[n])}
  OBVIOUS
<1>6. PICK g : g = [n \in 1 .. 6 |-> m[PushOrder[n]]]
  OBVIOUS
<1>7. \A n \in 1 .. 6 : g[n] = m[PushOrder[n]]
  BY <1>6
<1>8. Draws(AllFaces, FlattenSeq(Some(6, g, P)), QuadsOfSome(6, g, P))
  <2>1. 6 \in Nat
    OBVIOUS
  <2>2. \A n \in 1 .. 6 : g[n] \in AllFaces
    BY <1>4, <1>7, PushOrderIs, Zenon
  <2>3. \A n, k \in 1 .. 6 : QuadOf(g[n]) = QuadOf(g[k]) => n = k
    <3> SUFFICES ASSUME NEW n \in 1 .. 6, NEW k \in 1 .. 6, QuadOf(g[n]) = QuadOf(g[k])
                 PROVE  n = k
      OBVIOUS
    <3>1. PushOrder[n] \in 1 .. 6 /\ PushOrder[k] \in 1 .. 6
      BY PushOrderIs
    <3>2. QuadOf(m[PushOrder[n]]) = QuadOf(m[PushOrder[k]])
      BY <1>7
    <3>3. PushOrder[n] = PushOrder[k]
      BY <1>4, <3>1, <3>2
    <3> QED
      BY <3>3, PushOrderIs
  <2> QED
    BY <2>1, <2>2, <2>3, DrawsSome
<1>9. ShownFaces(b, c) = FlattenSeq(Some(6, g, P))
  <2>1. ShownFaces(b, c) =
          FlattenSeq([n \in 1 .. 6 |->
                        IF IsShown(b, c, PushOrder[n]) THEN << m[PushOrder[n]] >> ELSE << >>])
    BY <1>1, <1>2, Zenon DEF ShownFaces
  <2>2. [n \in 1 .. 6 |-> IF IsShown(b, c, PushOrder[n]) THEN << m[PushOrder[n]] >> ELSE << >>]
          = Some(6, g, P)
    BY <1>5, <1>7 DEF Some
  <2> QED
    BY <2>1, <2>2
<1>10. ShownQuads(b, c) = QuadsOfSome(6, g, P)
  <2>1. ShownQuads(b, c) = {QuadOf(m[i]) : i \in {j \in 1 .. 6 : IsShown(b, c, j)}}
    BY <1>1, <1>2, Zenon DEF ShownQuads
  <2>2. ASSUME NEW i \in {j \in 1 .. 6 : IsShown(b, c, j)}
        PROVE  QuadOf(m[i]) \in {QuadOf(g[n]) : n \in P \cap (1 .. 6)}
    <3>1. PICK n \in 1 .. 6 : PushOrder[n] = i
      BY PushOrderIs
    <3>2. n \in P \cap (1 .. 6) /\ g[n] = m[i]
      BY <1>5, <1>7, <3>1
    <3> QED
      BY <3>2
  <2>3. ASSUME NEW n \in P \cap (1 .. 6)
        PROVE  QuadOf(g[n]) \in {QuadOf(m[i]) : i \in {j \in 1 .. 6 : IsShown(b, c, j)}}
    <3>1. PushOrder[n] \in {j \in 1 .. 6 : IsShown(b, c, j)} /\ g[n] = m[PushOrder[n]]
      BY <1>5, <1>7, PushOrderIs
    <3> QED
      BY <3>1
  <2> QED
    BY <2>1, <2>2, <2>3 DEF QuadsOfSome
<1>11. \A q \in ShownQuads(b, c) : IsQuad(q, c)
  BY <1>1, <1>2, <1>4, Zenon DEF ShownQuads
<1> QED
  BY <1>8, <1>9, <1>10, <1>11

\* A block adds its quads to those that are drawn.
LEMMA BlockDraws ==
    ASSUME NEW b, NEW c \in Cells, BlockAt(b, c) \in BlockTypes
    PROVE  /\ \A q \in CellQuads(b, c) : IsQuad(q, c)
           /\ \A faces, S : Draws(AllFaces, faces, S) /\ S \cap CellQuads(b, c) = {}
                 => Draws(AllFaces, WithBlock(b, c, faces), S \cup CellQuads(b, c))
<1> DEFINE type == BlockAt(b, c)
<1>1. CASE type = "Air"
  <2>1. CellQuads(b, c) = {} /\ \A faces : WithBlock(b, c, faces) = faces
    BY <1>1, Zenon DEF CellQuads, WithBlock
  <2> QED
    BY <2>1
<1>2. CASE type # "Air" /\ BlockIsTransparent(b, c)
  <2>1. /\ CellQuads(b, c) = AllQuads(type, c)
        /\ \A faces : WithBlock(b, c, faces) = MovedFaces(type, c) \o faces
    BY <1>2, Zenon DEF CellQuads, WithBlock
  <2>2. /\ Draws(AllFaces, MovedFaces(type, c), AllQuads(type, c))
        /\ \A q \in AllQuads(type, c) : IsQuad(q, c)
    BY MovedDraws
  <2>3. ASSUME NEW faces, NEW S, Draws(AllFaces, faces, S), S \cap CellQuads(b, c) = {}
        PROVE  Draws(AllFaces, WithBlock(b, c, faces), S \cup CellQuads(b, c))
    <3> HIDE DEF type
    <3>1. AllQuads(type, c) \cap S = {} /\ AllQuads(type, c) \cup S = S \cup CellQuads(b, c)
      BY <2>1, <2>3
    <3>2. Draws(AllFaces, MovedFaces(type, c) \o faces, AllQuads(type, c) \cup S)
      BY <2>2, <2>3, <3>1, DrawsBoth
    <3> QED
      BY <2>1, <3>1, <3>2
  <2> QED
    BY <2>1, <2>2, <2>3
<1>3. CASE type # "Air" /\ ~BlockIsTransparent(b, c)
  <2>1. /\ CellQuads(b, c) = ShownQuads(b, c)
        /\ \A faces : WithBlock(b, c, faces) = faces \o ShownFaces(b, c)
    BY <1>3, Zenon DEF CellQuads, WithBlock
  <2>2. type \in Opaque
    BY <1>3 DEF BlockIsTransparent, BlockTypes
  <2>3. /\ Draws(AllFaces, ShownFaces(b, c), ShownQuads(b, c))
        /\ \A q \in ShownQuads(b, c) : IsQuad(q, c)
    BY <2>2, ShownDraws
  <2>4. ASSUME NEW faces, NEW S, Draws(AllFaces, faces, S), S \cap CellQuads(b, c) = {}
        PROVE  Draws(AllFaces, WithBlock(b, c, faces), S \cup CellQuads(b, c))
    <3>1. S \cap ShownQuads(b, c) = {}
      BY <2>1, <2>4
    <3>2. Draws(AllFaces, faces \o ShownFaces(b, c), S \cup ShownQuads(b, c))
      BY <2>3, <2>4, <3>1, DrawsBoth
    <3> QED
      BY <2>1, <3>2
  <2> QED
    BY <2>1, <2>3, <2>4
<1> QED
  BY <1>1, <1>2, <1>3

\* No quad is of two cells.
LEMMA CellsDiffer ==
    ASSUME NEW c \in Cells, NEW d \in Cells, NEW q, IsQuad(q, c), IsQuad(q, d)
    PROVE  c = d
  BY QuadsApart DEF IsQuad

--------------------------------------------------------------------------------
(* All cells.                                                               *)

\* How many cells there are, and the turn of a cell in the loops.
Volume == SizeX * SizeZ * SizeY
TurnOf(x, z, y) == 1 + y + (z + x * SizeZ) * SizeY

\* Each cell has its turn.
LEMMA OrderAt ==
    ASSUME NEW x \in 0 .. SizeX - 1, NEW z \in 0 .. SizeZ - 1, NEW y \in 0 .. SizeY - 1
    PROVE  /\ TurnOf(x, z, y) \in 1 .. Volume
           /\ CellsInOrder[TurnOf(x, z, y)] = <<x, z, OffY + y>>
<1>1. SizeX \in Nat \ {0} /\ SizeZ \in Nat \ {0} /\ SizeY \in Nat \ {0} /\ OffY \in Int
  BY ChunkAssumption
<1> DEFINE row == z + x * SizeZ
           layer == y + z * SizeY
           i == TurnOf(x, z, y)
<1>2. x \in Nat /\ z \in Nat /\ y \in Nat /\ z < SizeZ /\ y < SizeY
  BY <1>1
<1>3. row \in 0 .. SizeX * SizeZ - 1
  BY <1>1, DigitsBound
<1>4. layer \in 0 .. SizeZ * SizeY - 1
  BY <1>1, DigitsBound
<1>5. row \in Nat /\ layer \in Nat /\ SizeZ * SizeY \in Nat \ {0} /\ SizeX * SizeZ \in Nat
  <2>1. SizeX * SizeZ \in Nat /\ SizeZ * SizeY \in Nat
    BY <1>1
  <2>2. SizeZ * SizeY # 0
    <3> HIDE DEF layer
    <3> QED
      BY <1>4, <2>1
  <2>3. row \in Nat /\ layer \in Nat
    <3> HIDE DEF layer, row
    <3> QED
      BY <1>3, <1>4, <2>1
  <2> QED
    BY <2>1, <2>2, <2>3
<1>6. i = 1 + (y + row * SizeY) /\ y + row * SizeY \in Nat
  <2>1. i = 1 + y + row * SizeY
    BY DEF TurnOf
  <2> HIDE DEF row, i
  <2>2. row * SizeY \in Nat
    BY <1>1, <1>5
  <2> QED
    BY <1>2, <2>1, <2>2
<1>7. i \in 1 .. Volume
  <2>1. y + row * SizeY \in 0 .. (SizeX * SizeZ) * SizeY - 1
    <3> HIDE DEF row, i
    <3> QED
      BY <1>1, <1>3, <1>5, DigitsBound
  <2>2. Volume = (SizeX * SizeZ) * SizeY /\ Volume \in Int
    BY <1>1 DEF Volume
  <2>3. PICK v : v = y + row * SizeY
    OBVIOUS
  <2> HIDE DEF row, i
  <2> QED
    BY <1>6, <2>1, <2>2, <2>3
<1>8. PICK k \in Nat : k = i - 1
  <2> HIDE DEF row, i
  <2>1. i - 1 \in Nat
    BY <1>6
  <2> QED
    BY <2>1
<1>9. k = row * SizeY + y
  <2> HIDE DEF row, i
  <2>1. PICK v \in Int : v = row * SizeY
    BY <1>1, <1>5
  <2> QED
    BY <1>2, <1>6, <1>8, <2>1
<1>10. k = x * (SizeZ * SizeY) + layer
  <2>1. \A a, b, c, s, t \in Int : (b + a * s) * t + c = a * (s * t) + (c + b * t)
    OBVIOUS
  <2>2. (z + x * SizeZ) * SizeY + y = x * (SizeZ * SizeY) + (y + z * SizeY)
    BY <1>1, <1>2, <2>1
  <2> QED
    BY <1>9, <2>2
<1>11. k \div SizeY = row /\ k % SizeY = y
  <2> HIDE DEF row, i
  <2> QED
    BY <1>1, <1>2, <1>5, <1>9, Division
<1>12. row % SizeZ = z
  <2>1. row = x * SizeZ + z
    <3>1. x * SizeZ \in Int
      BY <1>1, <1>2
    <3> QED
      BY <1>2, <3>1
  <2> HIDE DEF row
  <2> QED
    BY <1>1, <1>2, <2>1, Division
<1>13. k \div (SizeZ * SizeY) = x
  <2>1. PICK s : s = SizeZ * SizeY
    OBVIOUS
  <2> HIDE DEF layer
  <2>2. s \in Nat \ {0} /\ layer < s /\ k = x * s + layer
    BY <1>4, <1>5, <1>10, <2>1
  <2>3. k \div s = x
    BY <1>2, <1>5, <2>2, Division
  <2> QED
    BY <2>1, <2>3
<1>14. CellsInOrder[i] = <<(i - 1) \div (SizeZ * SizeY), ((i - 1) \div SizeY) % SizeZ,
                           OffY + ((i - 1) % SizeY)>>
  <2> HIDE DEF i
  <2>1. i \in 1 .. SizeX * SizeZ * SizeY
    BY <1>7, Zenon DEF Volume
  <2> QED
    BY <2>1 DEF CellsInOrder
<1> HIDE DEF row, layer
<1>15. CellsInOrder[i] = <<x, z, OffY + y>>
  BY <1>8, <1>11, <1>12, <1>13, <1>14, Zenon
<1> QED
  BY <1>7, <1>15

\* And no turn is without a cell.
LEMMA OrderOnto ==
    ASSUME NEW i \in 1 .. Volume
    PROVE  \E x \in 0 .. SizeX - 1, z \in 0 .. SizeZ - 1, y \in 0 .. SizeY - 1 : i = TurnOf(x, z, y)
<1>1. SizeX \in Nat \ {0} /\ SizeZ \in Nat \ {0} /\ SizeY \in Nat \ {0}
  BY ChunkAssumption
<1>2. SizeX * SizeZ \in Nat /\ Volume = (SizeX * SizeZ) * SizeY /\ Volume \in Nat
  <2>1. SizeX * SizeZ \in Nat
    BY <1>1
  <2>2. PICK s \in Nat : s = SizeX * SizeZ
    BY <2>1
  <2>3. s * SizeY \in Nat
    BY <1>1
  <2>4. Volume = s * SizeY
    BY <2>2, Zenon DEF Volume
  <2> QED
    BY <2>1, <2>2, <2>3, <2>4
<1>3. PICK k \in Nat : i = 1 + k /\ k < Volume
  <2>1. i - 1 \in Nat /\ i = 1 + (i - 1) /\ i - 1 < Volume
    BY <1>2
  <2> QED
    BY <2>1
<1>4. PICK q \in Nat, y \in Nat : y < SizeY /\ k = q * SizeY + y
  BY <1>1, Division
<1>5. q < SizeX * SizeZ
  <2>1. PICK s \in Nat : s = SizeX * SizeZ
    BY <1>2
  <2>2. SUFFICES ASSUME s <= q PROVE FALSE
    BY <2>1
  <2>3. s * SizeY <= q * SizeY
    <3>1. CASE s = q
      <4>1. s * SizeY \in Int
        BY <1>1
      <4> QED
        BY <3>1, <4>1
    <3>2. CASE s < q
      <4>1. s * SizeY \in Nat /\ q * SizeY \in Nat /\ s * SizeY + SizeY <= q * SizeY
        BY <1>1, <3>2, ProductGrows
      <4> QED
        BY <1>1, <4>1
    <3> QED
      BY <2>2, <3>1, <3>2
  <2>4. PICK a \in Int : a = s * SizeY
    BY <1>1
  <2>5. PICK b \in Int : b = q * SizeY
    BY <1>1
  <2> QED
    BY <1>2, <1>3, <1>4, <2>1, <2>3, <2>4, <2>5
<1>6. PICK x \in Nat, z \in Nat : z < SizeZ /\ q = x * SizeZ + z
  BY <1>1, Division
<1>7. x < SizeX
  <2>1. SUFFICES ASSUME SizeX <= x PROVE FALSE
    BY <1>1
  <2>2. SizeX * SizeZ <= x * SizeZ
    <3>1. CASE SizeX = x
      <4>1. SizeX * SizeZ \in Int
        BY <1>1
      <4> QED
        BY <3>1, <4>1
    <3>2. CASE SizeX < x
      <4>1. SizeX * SizeZ \in Nat /\ x * SizeZ \in Nat /\ SizeX * SizeZ + SizeZ <= x * SizeZ
        BY <1>1, <3>2, ProductGrows
      <4> QED
        BY <1>1, <4>1
    <3> QED
      BY <1>1, <2>1, <3>1, <3>2
  <2>3. PICK a \in Int : a = SizeX * SizeZ
    BY <1>1
  <2>4. PICK b \in Int : b = x * SizeZ
    BY <1>1
  <2> QED
    BY <1>5, <1>6, <2>2, <2>3, <2>4
<1>8. x \in 0 .. SizeX - 1 /\ z \in 0 .. SizeZ - 1 /\ y \in 0 .. SizeY - 1
  BY <1>1, <1>4, <1>6, <1>7
<1>9. i = TurnOf(x, z, y)
  <2>1. PICK a \in Int : a = x * SizeZ
    BY <1>1
  <2>2. q = z + a
    BY <1>6, <2>1
  <2>3. PICK b \in Int : b = q * SizeY
    BY <1>1
  <2>4. i = 1 + y + b
    BY <1>3, <1>4, <2>3
  <2> QED
    BY <2>1, <2>2, <2>3, <2>4 DEF TurnOf
<1> QED
  BY <1>8, <1>9

\* ChunkObject::Update: its loops come to each cell once.
LEMMA CellsOrdered ==
    /\ Volume \in Nat
    /\ \A i \in 1 .. Volume : CellsInOrder[i] \in Cells
    /\ \A i, j \in 1 .. Volume : CellsInOrder[i] = CellsInOrder[j] => i = j
    /\ \A c \in Cells : \E i \in 1 .. Volume : CellsInOrder[i] = c
<1>1. SizeX \in Nat \ {0} /\ SizeZ \in Nat \ {0} /\ SizeY \in Nat \ {0} /\ OffY \in Int
  BY ChunkAssumption
<1>2. Volume \in Nat
  <2>1. PICK s \in Nat : s = SizeX * SizeZ
    BY <1>1
  <2>2. s * SizeY \in Nat
    BY <1>1
  <2> QED
    BY <2>1, <2>2, Zenon DEF Volume
<1>3. ASSUME NEW i \in 1 .. Volume
      PROVE  \E x \in 0 .. SizeX - 1, z \in 0 .. SizeZ - 1, y \in 0 .. SizeY - 1 :
                i = TurnOf(x, z, y) /\ CellsInOrder[i] = <<x, z, OffY + y>>
  <2>1. PICK x \in 0 .. SizeX - 1, z \in 0 .. SizeZ - 1, y \in 0 .. SizeY - 1 : i = TurnOf(x, z, y)
    BY OrderOnto
  <2>2. CellsInOrder[i] = <<x, z, OffY + y>>
    BY <2>1, OrderAt
  <2> QED
    BY <2>1, <2>2
<1>4. \A i \in 1 .. Volume : CellsInOrder[i] \in Cells
  <2> SUFFICES ASSUME NEW i \in 1 .. Volume PROVE CellsInOrder[i] \in Cells
    OBVIOUS
  <2>1. PICK x \in 0 .. SizeX - 1, z \in 0 .. SizeZ - 1, y \in 0 .. SizeY - 1 :
             CellsInOrder[i] = <<x, z, OffY + y>>
    BY <1>3
  <2>2. OffY + y \in OffY .. OffY + SizeY - 1
    BY <1>1
  <2> QED
    BY <2>1, <2>2 DEF Cells
<1>5. \A i, j \in 1 .. Volume : CellsInOrder[i] = CellsInOrder[j] => i = j
  <2> SUFFICES ASSUME NEW i \in 1 .. Volume, NEW j \in 1 .. Volume, CellsInOrder[i] = CellsInOrder[j]
               PROVE  i = j
    OBVIOUS
  <2>1. PICK x \in 0 .. SizeX - 1, z \in 0 .. SizeZ - 1, y \in 0 .. SizeY - 1 :
             i = TurnOf(x, z, y) /\ CellsInOrder[i] = <<x, z, OffY + y>>
    BY <1>3
  <2>2. PICK u \in 0 .. SizeX - 1, v \in 0 .. SizeZ - 1, w \in 0 .. SizeY - 1 :
             j = TurnOf(u, v, w) /\ CellsInOrder[j] = <<u, v, OffY + w>>
    BY <1>3
  <2>3. x = u /\ z = v /\ OffY + y = OffY + w
    BY <2>1, <2>2
  <2>4. y = w
    BY <1>1, <2>3
  <2> QED
    BY <2>1, <2>2, <2>3, <2>4, Zenon
<1>6. \A c \in Cells : \E i \in 1 .. Volume : CellsInOrder[i] = c
  <2> SUFFICES ASSUME NEW c \in Cells PROVE \E i \in 1 .. Volume : CellsInOrder[i] = c
    OBVIOUS
  <2>1. /\ c[1] \in 0 .. SizeX - 1 /\ c[2] \in 0 .. SizeZ - 1 /\ c[3] - OffY \in 0 .. SizeY - 1
        /\ c[3] \in Int /\ c = <<c[1], c[2], c[3]>>
    BY <1>1 DEF Cells
  <2>2. OffY + (c[3] - OffY) = c[3]
    BY <1>1, <2>1
  <2>3. PICK y \in 0 .. SizeY - 1 : OffY + y = c[3]
    BY <2>1, <2>2
  <2>4. /\ TurnOf(c[1], c[2], y) \in 1 .. Volume
        /\ CellsInOrder[TurnOf(c[1], c[2], y)] = <<c[1], c[2], OffY + y>>
    BY <2>1, OrderAt
  <2> QED
    BY <2>1, <2>3, <2>4
<1> QED
  BY <1>2, <1>4, <1>5, <1>6

\* The faces after the first turns, as ComputedFaces goes through them.
TurnsTo(f, b, n) ==
    f = [i \in 0 .. n |-> IF i = 0 THEN << >> ELSE WithBlock(b, CellsInOrder[i], f[i - 1])]

\* Its values.
LEMMA TurnsAre ==
    ASSUME NEW f, NEW b, NEW n \in Nat, TurnsTo(f, b, n)
    PROVE  \A i \in 0 .. n : f[i] = IF i = 0 THEN << >> ELSE WithBlock(b, CellsInOrder[i], f[i - 1])
<1> DEFINE body(i) == IF i = 0 THEN << >> ELSE WithBlock(b, CellsInOrder[i], f[i - 1])
<1>1. f = [i \in 0 .. n |-> body(i)]
  BY DEF TurnsTo
<1> HIDE DEF body
<1>2. \A i \in 0 .. n : f[i] = body(i)
  BY <1>1
<1> QED
  BY <1>2 DEF body

\* There are such faces for any number of turns.
LEMMA TurnsExist ==
    ASSUME NEW b, NEW n \in Nat
    PROVE  \E f : TurnsTo(f, b, n)
<1> DEFINE S == {k \in Nat : \E f : TurnsTo(f, b, k)}
<1>1. 0 \in S
  <2> DEFINE f == [i \in 0 .. 0 |-> << >>]
  <2>1. f = [i \in 0 .. 0 |-> IF i = 0 THEN << >> ELSE WithBlock(b, CellsInOrder[i], f[i - 1])]
    <3>1. \A i \in 0 .. 0 : i = 0
      OBVIOUS
    <3> QED
      BY <3>1
  <2>2. TurnsTo(f, b, 0)
    BY <2>1 DEF TurnsTo
  <2> QED
    BY <2>2
<1>2. ASSUME NEW k \in S PROVE k + 1 \in S
  <2>1. k \in Nat /\ \E f : TurnsTo(f, b, k)
    OBVIOUS
  <2>2. PICK f : TurnsTo(f, b, k)
    BY <2>1
  <2>3. PICK x : x = WithBlock(b, CellsInOrder[k + 1], f[k])
    OBVIOUS
  <2> DEFINE g == [i \in 0 .. k + 1 |-> IF i <= k THEN f[i] ELSE x]
  <2>4. ASSUME NEW i \in 0 .. k + 1
        PROVE  g[i] = IF i = 0 THEN << >> ELSE WithBlock(b, CellsInOrder[i], g[i - 1])
    <3>1. CASE i <= k
      <4>1. i \in 0 .. k /\ g[i] = f[i]
        BY <2>1, <3>1
      <4>2. f[i] = IF i = 0 THEN << >> ELSE WithBlock(b, CellsInOrder[i], f[i - 1])
        BY <2>1, <2>2, <4>1, TurnsAre
      <4>3. i # 0 => g[i - 1] = f[i - 1]
        BY <2>1, <4>1
      <4> HIDE DEF g
      <4> QED
        BY <4>1, <4>2, <4>3
    <3>2. CASE i = k + 1
      <4>1. i # 0 /\ g[i] = x /\ g[i - 1] = f[k]
        BY <2>1, <3>2
      <4> HIDE DEF g
      <4> QED
        BY <2>3, <3>2, <4>1
    <3> QED
      BY <2>1, <3>1, <3>2
  <2>5. g = [i \in 0 .. k + 1 |-> g[i]]
    OBVIOUS
  <2> HIDE DEF g
  <2>6. g = [i \in 0 .. k + 1 |-> IF i = 0 THEN << >> ELSE WithBlock(b, CellsInOrder[i], g[i - 1])]
    BY <2>4, <2>5
  <2>7. TurnsTo(g, b, k + 1)
    BY <2>6 DEF TurnsTo
  <2> QED
    BY <2>1, <2>7
<1> HIDE DEF S
<1>3. S = Nat
  BY <1>1, <1>2, Induction DEF S
<1> QED
  BY <1>3 DEF S

\* ComputedFaces is the last of them.
LEMMA ComputedIs ==
    ASSUME NEW b, Volume \in Nat
    PROVE  \E f : TurnsTo(f, b, Volume) /\ ComputedFaces(b) = f[Volume]
<1> DEFINE f == CHOOSE g : TurnsTo(g, b, Volume)
<1>1. TurnsTo(f, b, Volume)
  BY TurnsExist
<1>2. ComputedFaces(b) = f[Volume]
  BY DEF ComputedFaces, TurnsTo, Volume
<1> QED
  BY <1>1, <1>2

\* ChunkObject::Update draws the quads of all cells, each of them once.
LEMMA ComputedDraws ==
    ASSUME NEW b \in [Offsets -> BlockTypes]
    PROVE  Draws(AllFaces, ComputedFaces(b), UNION {CellQuads(b, c) : c \in Cells})
<1>1. /\ Volume \in Nat
      /\ \A i \in 1 .. Volume : CellsInOrder[i] \in Cells
      /\ \A i, j \in 1 .. Volume : CellsInOrder[i] = CellsInOrder[j] => i = j
      /\ \A c \in Cells : \E i \in 1 .. Volume : CellsInOrder[i] = c
  BY CellsOrdered
<1>2. PICK f : TurnsTo(f, b, Volume) /\ ComputedFaces(b) = f[Volume]
  BY <1>1, ComputedIs
<1>3. \A i \in 0 .. Volume : f[i] = IF i = 0 THEN << >> ELSE WithBlock(b, CellsInOrder[i], f[i - 1])
  BY <1>1, <1>2, TurnsAre
<1>4. \A c \in Cells : BlockAt(b, c) \in BlockTypes
  BY OffsetsSound DEF BlockAt
<1> DEFINE Q(n) == UNION {CellQuads(b, CellsInOrder[i]) : i \in 1 .. n}
           S == {n \in Nat : n <= Volume => Draws(AllFaces, f[n], Q(n))}
<1>5. 0 \in S
  <2>1. f[0] = << >>
    BY <1>1, <1>3
  <2>2. Q(0) = {}
    OBVIOUS
  <2>3. Draws(AllFaces, f[0], {})
    BY <2>1, DrawsNone
  <2> QED
    BY <2>2, <2>3
<1>6. ASSUME NEW n \in S PROVE n + 1 \in S
  <2>0. n \in Nat /\ n + 1 \in Nat
    OBVIOUS
  <2> SUFFICES ASSUME n + 1 <= Volume PROVE Draws(AllFaces, f[n + 1], Q(n + 1))
    BY <2>0
  <2>1. Draws(AllFaces, f[n], Q(n)) /\ n + 1 \in 1 .. Volume
    BY <1>1, <2>0
  <2>2. PICK c \in Cells : c = CellsInOrder[n + 1]
    BY <1>1, <2>1
  <2>3. f[n + 1] = WithBlock(b, c, f[n])
    <3>1. n + 1 \in 0 .. Volume /\ n + 1 # 0 /\ (n + 1) - 1 = n
      BY <1>1, <2>0
    <3> QED
      BY <1>3, <2>2, <3>1
  <2>4. Q(n + 1) = Q(n) \cup CellQuads(b, c)
    <3>1. 1 .. n + 1 = (1 .. n) \cup {n + 1}
      BY <2>0
    <3> QED
      BY <2>2, <3>1
  <2>5. Q(n) \cap CellQuads(b, c) = {}
    <3> SUFFICES ASSUME NEW q \in CellQuads(b, c), NEW i \in 1 .. n, q \in CellQuads(b, CellsInOrder[i])
                 PROVE  FALSE
      OBVIOUS
    <3>1. i \in 1 .. Volume /\ i # n + 1
      BY <1>1, <2>0
    <3>2. PICK d \in Cells : d = CellsInOrder[i]
      BY <1>1, <3>1
    <3>3. IsQuad(q, c) /\ IsQuad(q, d)
      BY <1>4, <3>2, BlockDraws
    <3>4. c = d
      BY <3>3, CellsDiffer
    <3> QED
      BY <1>1, <2>1, <2>2, <3>1, <3>2, <3>4
  <2> HIDE DEF Q
  <2>6. Draws(AllFaces, WithBlock(b, c, f[n]), Q(n) \cup CellQuads(b, c))
    BY <1>4, <2>1, <2>5, BlockDraws
  <2> QED
    BY <2>3, <2>4, <2>6
<1> HIDE DEF S
<1>7. S = Nat
  <2>1. S \subseteq Nat
    BY DEF S
  <2> QED
    BY <1>5, <1>6, <2>1, Induction
<1>8. Draws(AllFaces, f[Volume], Q(Volume))
  <2>1. Volume \in S /\ Volume <= Volume
    BY <1>1, <1>7
  <2> QED
    BY <2>1 DEF S
<1>9. Q(Volume) = UNION {CellQuads(b, c) : c \in Cells}
  <2>1. \A i \in 1 .. Volume : \E c \in Cells : c = CellsInOrder[i]
    BY <1>1
  <2> QED
    BY <1>1, <2>1
<1> QED
  BY <1>2, <1>8, <1>9, Zenon

--------------------------------------------------------------------------------
(* Which sides are shown.                                                   *)

\* A side is shown at the border of the chunk and before a transparent block, unless an
\* assertion of BlockOffset fails first.
LEMMA ShownIs ==
    ASSUME NEW b, NEW c \in Cells, NEW i \in 1 .. 6,
           c[3] < SizeY - 1 => c[3] + 1 <= OffY + SizeY - 1
    PROVE  IsShown(b, c, i) <=> \/ Neighbour(c, SideNormals[i]) \notin Cells
                               \/ BlockIsTransparent(b, Neighbour(c, SideNormals[i]))
<1>1. SizeX \in Nat \ {0} /\ SizeZ \in Nat \ {0} /\ SizeY \in Nat \ {0} /\ OffY \in Int /\ OffY <= 0
  BY ChunkAssumption
<1>2. /\ c[1] \in 0 .. SizeX - 1 /\ c[2] \in 0 .. SizeZ - 1 /\ c[3] \in OffY .. OffY + SizeY - 1
      /\ c[3] \in Int
  BY <1>1 DEF Cells
<1>3. \A x, z, y : <<x, z, y>> \in Cells
         <=> x \in 0 .. SizeX - 1 /\ z \in 0 .. SizeZ - 1 /\ y \in OffY .. OffY + SizeY - 1
  BY DEF Cells
<1>4. CASE i = 1
  <2>1. SideNormals[i] = << 0, 0, -1 >>
    BY <1>4 DEF SideNormals
  <2>2. Neighbour(c, SideNormals[i]) = <<c[1], c[2] - 1, c[3]>>
    BY <1>1, <1>2, <2>1 DEF Neighbour
  <2>3. IsShown(b, c, i) <=> c[2] = 0 \/ BlockIsTransparent(b, <<c[1], c[2] - 1, c[3]>>)
    BY <1>4 DEF IsShown, CubeFaceLeft, CubeFaceRight, CubeFaceBottom, CubeFaceTop, CubeFaceBack,
              CubeFaceFront
  <2>4. <<c[1], c[2] - 1, c[3]>> \notin Cells <=> c[2] = 0
    BY <1>1, <1>2, <1>3
  <2> QED
    BY <2>2, <2>3, <2>4
<1>5. CASE i = 2
  <2>1. SideNormals[i] = << 0, 0, 1 >>
    BY <1>5 DEF SideNormals
  <2>2. Neighbour(c, SideNormals[i]) = <<c[1], c[2] + 1, c[3]>>
    BY <1>1, <1>2, <2>1 DEF Neighbour
  <2>3. IsShown(b, c, i) <=> c[2] = SizeZ - 1 \/ BlockIsTransparent(b, <<c[1], c[2] + 1, c[3]>>)
    BY <1>5 DEF IsShown, CubeFaceLeft, CubeFaceRight, CubeFaceBottom, CubeFaceTop, CubeFaceBack,
              CubeFaceFront
  <2>4. <<c[1], c[2] + 1, c[3]>> \notin Cells <=> c[2] = SizeZ - 1
    BY <1>1, <1>2, <1>3
  <2> QED
    BY <2>2, <2>3, <2>4
<1>6. CASE i = 3
  <2>1. SideNormals[i] = << 1, 0, 0 >>
    BY <1>6 DEF SideNormals
  <2>2. Neighbour(c, SideNormals[i]) = <<c[1] + 1, c[2], c[3]>>
    BY <1>1, <1>2, <2>1 DEF Neighbour
  <2>3. IsShown(b, c, i) <=> c[1] = SizeX - 1 \/ BlockIsTransparent(b, <<c[1] + 1, c[2], c[3]>>)
    BY <1>6 DEF IsShown, CubeFaceLeft, CubeFaceRight, CubeFaceBottom, CubeFaceTop, CubeFaceBack,
              CubeFaceFront
  <2>4. <<c[1] + 1, c[2], c[3]>> \notin Cells <=> c[1] = SizeX - 1
    BY <1>1, <1>2, <1>3
  <2> QED
    BY <2>2, <2>3, <2>4
<1>7. CASE i = 4
  <2>1. SideNormals[i] = << -1, 0, 0 >>
    BY <1>7 DEF SideNormals
  <2>2. Neighbour(c, SideNormals[i]) = <<c[1] - 1, c[2], c[3]>>
    BY <1>1, <1>2, <2>1 DEF Neighbour
  <2>3. IsShown(b, c, i) <=> c[1] = 0 \/ BlockIsTransparent(b, <<c[1] - 1, c[2], c[3]>>)
    BY <1>7 DEF IsShown, CubeFaceLeft, CubeFaceRight, CubeFaceBottom, CubeFaceTop, CubeFaceBack,
              CubeFaceFront
  <2>4. <<c[1] - 1, c[2], c[3]>> \notin Cells <=> c[1] = 0
    BY <1>1, <1>2, <1>3
  <2> QED
    BY <2>2, <2>3, <2>4
<1>8. CASE i = 5
  <2>1. SideNormals[i] = << 0, 1, 0 >>
    BY <1>8 DEF SideNormals
  <2>2. Neighbour(c, SideNormals[i]) = <<c[1], c[2], c[3] + 1>>
    BY <1>1, <1>2, <2>1 DEF Neighbour
  <2>3. IsShown(b, c, i) <=> c[3] = SizeY - 1 \/ BlockIsTransparent(b, <<c[1], c[2], c[3] + 1>>)
    BY <1>8 DEF IsShown, CubeFaceLeft, CubeFaceRight, CubeFaceBottom, CubeFaceTop, CubeFaceBack,
              CubeFaceFront
  <2>4. <<c[1], c[2], c[3] + 1>> \notin Cells <=> c[3] = SizeY - 1
    BY <1>1, <1>2, <1>3
  <2> QED
    BY <2>2, <2>3, <2>4
<1>9. CASE i = 6
  <2>1. SideNormals[i] = << 0, -1, 0 >>
    BY <1>9 DEF SideNormals
  <2>2. Neighbour(c, SideNormals[i]) = <<c[1], c[2], c[3] - 1>>
    BY <1>1, <1>2, <2>1 DEF Neighbour
  <2>3. IsShown(b, c, i) <=> c[3] = OffY \/ BlockIsTransparent(b, <<c[1], c[2], c[3] - 1>>)
    BY <1>9 DEF IsShown, CubeFaceLeft, CubeFaceRight, CubeFaceBottom, CubeFaceTop, CubeFaceBack,
              CubeFaceFront
  <2>4. <<c[1], c[2], c[3] - 1>> \notin Cells <=> c[3] = OffY
    BY <1>1, <1>2, <1>3
  <2> QED
    BY <2>2, <2>3, <2>4
<1> QED
  BY <1>4, <1>5, <1>6, <1>7, <1>8, <1>9

\* Half a block to either side; the offsets of the corners of a side of a cube from its
\* middle, and which they are.
Halves == {-40, 40}
CubeSide(i) == BoxPoints(40, 40)[i]
OnSide(d, x, y, z) ==
    (d[1] # 0 => x = 40 * d[1]) /\ (d[2] # 0 => y = 40 * d[2]) /\ (d[3] # 0 => z = 40 * d[3])

\* The square between a cell and its neighbour: its corners.
LEMMA BetweenIs ==
    ASSUME NEW c \in Cells, NEW d \in Directions
    PROVE  \A p : p \in Between(c, d)
              <=> \E i, j, k \in Halves :
                     p = <<80 * c[1] + i, 80 * c[3] + j, 80 * c[2] + k>> /\ OnSide(d, i, j, k)
<1>0. Half = 40 /\ Unit = 80
  BY DEF Half, Unit
<1>1. c[1] \in Int /\ c[2] \in Int /\ c[3] \in Int
  BY ChunkAssumption DEF Cells
<1>2. d[1] \in Int /\ d[2] \in Int /\ d[3] \in Int
  BY DEF Directions
<1>3. \A n \in 1 .. 3 : n = 1 \/ n = 2 \/ n = 3
  OBVIOUS
<1>4. ASSUME NEW i \in {-40, 40}, NEW j \in {-40, 40}, NEW k \in {-40, 40}, NEW p,
             p = <<80 * c[1] + i, 80 * c[3] + j, 80 * c[2] + k>>
      PROVE  (\A n \in 1 .. 3 : d[n] # 0 => p[n] = Unit * <<c[1], c[3], c[2]>>[n] + Half * d[n])
                <=> /\ (d[1] # 0 => i = 40 * d[1]) /\ (d[2] # 0 => j = 40 * d[2])
                    /\ (d[3] # 0 => k = 40 * d[3])
  <2>1. p[1] = 80 * c[1] + i /\ p[2] = 80 * c[3] + j /\ p[3] = 80 * c[2] + k
    BY <1>4
  <2>2. PICK m : m = <<c[1], c[3], c[2]>>
    OBVIOUS
  <2>3. m[1] = c[1] /\ m[2] = c[3] /\ m[3] = c[2]
    BY <2>2
  <2>4. /\ p[1] = 80 * m[1] + 40 * d[1] <=> i = 40 * d[1]
        /\ p[2] = 80 * m[2] + 40 * d[2] <=> j = 40 * d[2]
        /\ p[3] = 80 * m[3] + 40 * d[3] <=> k = 40 * d[3]
    BY <1>1, <1>2, <2>1, <2>3
  <2>5. (\A n \in 1 .. 3 : d[n] # 0 => p[n] = 80 * m[n] + 40 * d[n])
           <=> /\ (d[1] # 0 => p[1] = 80 * m[1] + 40 * d[1])
               /\ (d[2] # 0 => p[2] = 80 * m[2] + 40 * d[2])
               /\ (d[3] # 0 => p[3] = 80 * m[3] + 40 * d[3])
    <3>1. 1 \in 1 .. 3 /\ 2 \in 1 .. 3 /\ 3 \in 1 .. 3
      OBVIOUS
    <3> QED
      BY <1>3, <3>1
  <2>6. (\A n \in 1 .. 3 : d[n] # 0 => p[n] = 80 * m[n] + 40 * d[n])
           <=> /\ (d[1] # 0 => i = 40 * d[1]) /\ (d[2] # 0 => j = 40 * d[2])
               /\ (d[3] # 0 => k = 40 * d[3])
    BY <2>4, <2>5
  <2> QED
    BY <1>0, <2>2, <2>6
<1>5. \A p : p \in Between(c, d)
         <=> /\ \E i, j, k \in {-40, 40} : p = <<80 * c[1] + i, 80 * c[3] + j, 80 * c[2] + k>>
             /\ \A n \in 1 .. 3 : d[n] # 0 => p[n] = Unit * <<c[1], c[3], c[2]>>[n] + Half * d[n]
  <2>1. Between(c, d) =
           {p \in {<<80 * c[1] + i, 80 * c[3] + j, 80 * c[2] + k>> :
                      i \in {-40, 40}, j \in {-40, 40}, k \in {-40, 40}} :
              \A n \in 1 .. 3 : d[n] # 0 => p[n] = Unit * <<c[1], c[3], c[2]>>[n] + Half * d[n]}
    BY <1>0 DEF Between
  <2> QED
    BY <2>1
<1> QED
  BY <1>4, <1>5 DEF Halves, OnSide

\* The sides are the directions.
LEMMA SidesAre ==
    /\ \A i \in 1 .. 6 : SideNormals[i] \in Directions
    /\ \A d \in Directions : \E i \in 1 .. 6 : SideNormals[i] = d
<1>1. PICK m : m = SideNormals
  OBVIOUS
<1>2. /\ m[1] = <<0, 0, -1>> /\ m[2] = <<0, 0, 1>> /\ m[3] = <<1, 0, 0>>
      /\ m[4] = <<-1, 0, 0>> /\ m[5] = <<0, 1, 0>> /\ m[6] = <<0, -1, 0>>
  BY <1>1 DEF SideNormals
<1>3. \A i \in 1 .. 6 : i = 1 \/ i = 2 \/ i = 3 \/ i = 4 \/ i = 5 \/ i = 6
  OBVIOUS
<1>4. 1 \in 1 .. 6 /\ 2 \in 1 .. 6 /\ 3 \in 1 .. 6 /\ 4 \in 1 .. 6 /\ 5 \in 1 .. 6 /\ 6 \in 1 .. 6
  OBVIOUS
<1>5. Directions = {m[1], m[2], m[3], m[4], m[5], m[6]}
  BY <1>2 DEF Directions
<1> QED
  BY <1>1, <1>3, <1>4, <1>5

\* The corners of a side of a cube, as seen from its middle.
LEMMA CubeCorners ==
    \A i \in 1 .. 6 : \A x, y, z \in Halves :
       (\E k \in 1 .. 4 : CubeSide(i)[k] = <<x, y, z>>) <=> OnSide(SideNormals[i], x, y, z)
<1> SUFFICES ASSUME NEW i \in 1 .. 6, NEW x \in {-40, 40}, NEW y \in {-40, 40}, NEW z \in {-40, 40}
             PROVE  (\E k \in 1 .. 4 : CubeSide(i)[k] = <<x, y, z>>) <=> OnSide(SideNormals[i], x, y, z)
  BY DEF Halves
<1>1. PICK q : q = CubeSide(i)
  OBVIOUS
<1>2. PICK d : d = SideNormals[i]
  OBVIOUS
<1>3. (\E k \in 1 .. 4 : q[k] = <<x, y, z>>)
         <=> q[1] = <<x, y, z>> \/ q[2] = <<x, y, z>> \/ q[3] = <<x, y, z>> \/ q[4] = <<x, y, z>>
  <2>1. \A k \in 1 .. 4 : k = 1 \/ k = 2 \/ k = 3 \/ k = 4
    OBVIOUS
  <2>2. 1 \in 1 .. 4 /\ 2 \in 1 .. 4 /\ 3 \in 1 .. 4 /\ 4 \in 1 .. 4
    OBVIOUS
  <2> QED
    BY <2>1, <2>2
<1>4. CASE i = 1
  <2>1. q = << <<40, -40, -40>>, <<-40, -40, -40>>, <<-40, 40, -40>>, <<40, 40, -40>> >>
    BY <1>1, <1>4 DEF BoxPoints, CubeSide
  <2>2. d[1] = 0 /\ d[2] = 0 /\ d[3] = -1
    BY <1>2, <1>4 DEF SideNormals
  <2>3. /\ q[1] = <<x, y, z>> <=> x = 40 /\ y = -40 /\ z = -40
        /\ q[2] = <<x, y, z>> <=> x = -40 /\ y = -40 /\ z = -40
        /\ q[3] = <<x, y, z>> <=> x = -40 /\ y = 40 /\ z = -40
        /\ q[4] = <<x, y, z>> <=> x = 40 /\ y = 40 /\ z = -40
    BY <2>1
  <2>4. (q[1] = <<x, y, z>> \/ q[2] = <<x, y, z>> \/ q[3] = <<x, y, z>> \/ q[4] = <<x, y, z>>)
           <=> /\ (d[1] # 0 => x = 40 * d[1]) /\ (d[2] # 0 => y = 40 * d[2])
               /\ (d[3] # 0 => z = 40 * d[3])
    BY <2>2, <2>3
  <2> QED
    BY <1>1, <1>2, <1>3, <2>4 DEF OnSide
<1>5. CASE i = 2
  <2>1. q = << <<-40, -40, 40>>, <<40, -40, 40>>, <<40, 40, 40>>, <<-40, 40, 40>> >>
    BY <1>1, <1>5 DEF BoxPoints, CubeSide
  <2>2. d[1] = 0 /\ d[2] = 0 /\ d[3] = 1
    BY <1>2, <1>5 DEF SideNormals
  <2>3. /\ q[1] = <<x, y, z>> <=> x = -40 /\ y = -40 /\ z = 40
        /\ q[2] = <<x, y, z>> <=> x = 40 /\ y = -40 /\ z = 40
        /\ q[3] = <<x, y, z>> <=> x = 40 /\ y = 40 /\ z = 40
        /\ q[4] = <<x, y, z>> <=> x = -40 /\ y = 40 /\ z = 40
    BY <2>1
  <2>4. (q[1] = <<x, y, z>> \/ q[2] = <<x, y, z>> \/ q[3] = <<x, y, z>> \/ q[4] = <<x, y, z>>)
           <=> /\ (d[1] # 0 => x = 40 * d[1]) /\ (d[2] # 0 => y = 40 * d[2])
               /\ (d[3] # 0 => z = 40 * d[3])
    BY <2>2, <2>3
  <2> QED
    BY <1>1, <1>2, <1>3, <2>4 DEF OnSide
<1>6. CASE i = 3
  <2>1. q = << <<40, -40, 40>>, <<40, -40, -40>>, <<40, 40, -40>>, <<40, 40, 40>> >>
    BY <1>1, <1>6 DEF BoxPoints, CubeSide
  <2>2. d[1] = 1 /\ d[2] = 0 /\ d[3] = 0
    BY <1>2, <1>6 DEF SideNormals
  <2>3. /\ q[1] = <<x, y, z>> <=> x = 40 /\ y = -40 /\ z = 40
        /\ q[2] = <<x, y, z>> <=> x = 40 /\ y = -40 /\ z = -40
        /\ q[3] = <<x, y, z>> <=> x = 40 /\ y = 40 /\ z = -40
        /\ q[4] = <<x, y, z>> <=> x = 40 /\ y = 40 /\ z = 40
    BY <2>1
  <2>4. (q[1] = <<x, y, z>> \/ q[2] = <<x, y, z>> \/ q[3] = <<x, y, z>> \/ q[4] = <<x, y, z>>)
           <=> /\ (d[1] # 0 => x = 40 * d[1]) /\ (d[2] # 0 => y = 40 * d[2])
               /\ (d[3] # 0 => z = 40 * d[3])
    BY <2>2, <2>3
  <2> QED
    BY <1>1, <1>2, <1>3, <2>4 DEF OnSide
<1>7. CASE i = 4
  <2>1. q = << <<-40, -40, -40>>, <<-40, -40, 40>>, <<-40, 40, 40>>, <<-40, 40, -40>> >>
    BY <1>1, <1>7 DEF BoxPoints, CubeSide
  <2>2. d[1] = -1 /\ d[2] = 0 /\ d[3] = 0
    BY <1>2, <1>7 DEF SideNormals
  <2>3. /\ q[1] = <<x, y, z>> <=> x = -40 /\ y = -40 /\ z = -40
        /\ q[2] = <<x, y, z>> <=> x = -40 /\ y = -40 /\ z = 40
        /\ q[3] = <<x, y, z>> <=> x = -40 /\ y = 40 /\ z = 40
        /\ q[4] = <<x, y, z>> <=> x = -40 /\ y = 40 /\ z = -40
    BY <2>1
  <2>4. (q[1] = <<x, y, z>> \/ q[2] = <<x, y, z>> \/ q[3] = <<x, y, z>> \/ q[4] = <<x, y, z>>)
           <=> /\ (d[1] # 0 => x = 40 * d[1]) /\ (d[2] # 0 => y = 40 * d[2])
               /\ (d[3] # 0 => z = 40 * d[3])
    BY <2>2, <2>3
  <2> QED
    BY <1>1, <1>2, <1>3, <2>4 DEF OnSide
<1>8. CASE i = 5
  <2>1. q = << <<-40, 40, -40>>, <<-40, 40, 40>>, <<40, 40, 40>>, <<40, 40, -40>> >>
    BY <1>1, <1>8 DEF BoxPoints, CubeSide
  <2>2. d[1] = 0 /\ d[2] = 1 /\ d[3] = 0
    BY <1>2, <1>8 DEF SideNormals
  <2>3. /\ q[1] = <<x, y, z>> <=> x = -40 /\ y = 40 /\ z = -40
        /\ q[2] = <<x, y, z>> <=> x = -40 /\ y = 40 /\ z = 40
        /\ q[3] = <<x, y, z>> <=> x = 40 /\ y = 40 /\ z = 40
        /\ q[4] = <<x, y, z>> <=> x = 40 /\ y = 40 /\ z = -40
    BY <2>1
  <2>4. (q[1] = <<x, y, z>> \/ q[2] = <<x, y, z>> \/ q[3] = <<x, y, z>> \/ q[4] = <<x, y, z>>)
           <=> /\ (d[1] # 0 => x = 40 * d[1]) /\ (d[2] # 0 => y = 40 * d[2])
               /\ (d[3] # 0 => z = 40 * d[3])
    BY <2>2, <2>3
  <2> QED
    BY <1>1, <1>2, <1>3, <2>4 DEF OnSide
<1>9. CASE i = 6
  <2>1. q = << <<40, -40, -40>>, <<40, -40, 40>>, <<-40, -40, 40>>, <<-40, -40, -40>> >>
    BY <1>1, <1>9 DEF BoxPoints, CubeSide
  <2>2. d[1] = 0 /\ d[2] = -1 /\ d[3] = 0
    BY <1>2, <1>9 DEF SideNormals
  <2>3. /\ q[1] = <<x, y, z>> <=> x = 40 /\ y = -40 /\ z = -40
        /\ q[2] = <<x, y, z>> <=> x = 40 /\ y = -40 /\ z = 40
        /\ q[3] = <<x, y, z>> <=> x = -40 /\ y = -40 /\ z = 40
        /\ q[4] = <<x, y, z>> <=> x = -40 /\ y = -40 /\ z = -40
    BY <2>1
  <2>4. (q[1] = <<x, y, z>> \/ q[2] = <<x, y, z>> \/ q[3] = <<x, y, z>> \/ q[4] = <<x, y, z>>)
           <=> /\ (d[1] # 0 => x = 40 * d[1]) /\ (d[2] # 0 => y = 40 * d[2])
               /\ (d[3] # 0 => z = 40 * d[3])
    BY <2>2, <2>3
  <2> QED
    BY <1>1, <1>2, <1>3, <2>4 DEF OnSide
<1> QED
  BY <1>4, <1>5, <1>6, <1>7, <1>8, <1>9

\* The corners of a cube are half a block from its middle.
LEMMA CubePoints ==
    \A i \in 1 .. 6, k \in 1 .. 4 : \E x, y, z \in Halves : CubeSide(i)[k] = <<x, y, z>>
<1> SUFFICES ASSUME NEW i \in 1 .. 6, NEW k \in 1 .. 4
             PROVE  \E x, y, z \in {-40, 40} : BoxPoints(40, 40)[i][k] = <<x, y, z>>
  BY DEF Halves, CubeSide
<1>1. PICK q : q = BoxPoints(40, 40)[i]
  OBVIOUS
<1>2. PICK C : C = {-40, 40} \X {-40, 40} \X {-40, 40}
  OBVIOUS
<1>3. k = 1 \/ k = 2 \/ k = 3 \/ k = 4
  OBVIOUS
<1>4. ASSUME i = 1 PROVE q[k] \in C
  <2>1. q = << <<40, -40, -40>>, <<-40, -40, -40>>, <<-40, 40, -40>>, <<40, 40, -40>> >>
    BY <1>1, <1>4 DEF BoxPoints
  <2>2. q[1] \in C /\ q[2] \in C /\ q[3] \in C /\ q[4] \in C
    BY <1>2, <2>1
  <2> QED
    BY <1>3, <2>2
<1>5. ASSUME i = 2 PROVE q[k] \in C
  <2>1. q = << <<-40, -40, 40>>, <<40, -40, 40>>, <<40, 40, 40>>, <<-40, 40, 40>> >>
    BY <1>1, <1>5 DEF BoxPoints
  <2>2. q[1] \in C /\ q[2] \in C /\ q[3] \in C /\ q[4] \in C
    BY <1>2, <2>1
  <2> QED
    BY <1>3, <2>2
<1>6. ASSUME i = 3 PROVE q[k] \in C
  <2>1. q = << <<40, -40, 40>>, <<40, -40, -40>>, <<40, 40, -40>>, <<40, 40, 40>> >>
    BY <1>1, <1>6 DEF BoxPoints
  <2>2. q[1] \in C /\ q[2] \in C /\ q[3] \in C /\ q[4] \in C
    BY <1>2, <2>1
  <2> QED
    BY <1>3, <2>2
<1>7. ASSUME i = 4 PROVE q[k] \in C
  <2>1. q = << <<-40, -40, -40>>, <<-40, -40, 40>>, <<-40, 40, 40>>, <<-40, 40, -40>> >>
    BY <1>1, <1>7 DEF BoxPoints
  <2>2. q[1] \in C /\ q[2] \in C /\ q[3] \in C /\ q[4] \in C
    BY <1>2, <2>1
  <2> QED
    BY <1>3, <2>2
<1>8. ASSUME i = 5 PROVE q[k] \in C
  <2>1. q = << <<-40, 40, -40>>, <<-40, 40, 40>>, <<40, 40, 40>>, <<40, 40, -40>> >>
    BY <1>1, <1>8 DEF BoxPoints
  <2>2. q[1] \in C /\ q[2] \in C /\ q[3] \in C /\ q[4] \in C
    BY <1>2, <2>1
  <2> QED
    BY <1>3, <2>2
<1>9. ASSUME i = 6 PROVE q[k] \in C
  <2>1. q = << <<40, -40, -40>>, <<40, -40, 40>>, <<-40, -40, 40>>, <<-40, -40, -40>> >>
    BY <1>1, <1>9 DEF BoxPoints
  <2>2. q[1] \in C /\ q[2] \in C /\ q[3] \in C /\ q[4] \in C
    BY <1>2, <2>1
  <2> QED
    BY <1>3, <2>2
<1>10. q[k] \in C
  BY <1>4, <1>5, <1>6, <1>7, <1>8, <1>9
<1>11. PICK p \in C : p = BoxPoints(40, 40)[i][k]
  BY <1>1, <1>10
<1>12. \E x, y, z \in {-40, 40} : p = <<x, y, z>>
  BY <1>2
<1> QED
  BY <1>11, <1>12, Zenon

\* A side of an opaque block is the square between its cell and the neighbour on that side.
LEMMA SideIsBetween ==
    ASSUME NEW type \in Opaque, NEW c \in Cells, NEW i \in 1 .. 6
    PROVE  QuadOf(MovedFaces(type, c)[i])
              = [corners |-> Between(c, SideNormals[i]), seenFrom |-> SideNormals[i]]
<1>1. PICK m : m = MovedFaces(type, c)[i]
  OBVIOUS
<1>2. PICK q : q = CubeSide(i)
  OBVIOUS
<1>3. PICK d \in Directions : d = SideNormals[i]
  BY SidesAre
<1>4. Geometry(type) = GenerateCubeFaces
  BY Shapes
<1>5. Geometry(type)[i].points = q
  <2>1. Corner = << -40, -40, -40 >> /\ Unit = 2 * 40 /\ Unit = 40 + 40
    BY DEF Corner, Half, Unit
  <2>2. GenerateCubeFaces = [j \in 1 .. 6 |-> Face(BoxPoints(40, 40)[j], Alone(Whole)[j])]
    BY <2>1, BoxIs DEF GenerateCubeFaces
  <2>3. GenerateCubeFaces[i] = Face(q, Alone(Whole)[i])
    BY <1>2, <2>2 DEF CubeSide
  <2> QED
    BY <1>4, <2>3 DEF Face
<1>6. /\ OfCell(m, d, c)
      /\ \A k \in 1 .. 4 : m.points[k] = <<q[k][1] + 80 * c[1], q[k][2] + 80 * c[3],
                                          q[k][3] + 80 * c[2]>>
  <2>1. IsShape(Geometry(type), 6, SideNormals)
    BY <1>4, CubeShape
  <2> QED
    BY <1>1, <1>3, <1>5, <2>1, MovedIs
<1>7. Normal(m.points[1], m.points[2], m.points[4]) = d
  BY <1>6 DEF OfCell
<1>8. c[1] \in Int /\ c[2] \in Int /\ c[3] \in Int
  BY ChunkAssumption DEF Cells
<1>9. \A x, y, z \in Halves : (\E k \in 1 .. 4 : q[k] = <<x, y, z>>) <=> OnSide(d, x, y, z)
  BY <1>2, <1>3, CubeCorners
<1>10. \A k \in 1 .. 4 : \E x, y, z \in Halves : q[k] = <<x, y, z>>
  BY <1>2, CubePoints
<1>11. \A p : p \in Between(c, d)
          <=> \E x, y, z \in Halves :
                 p = <<80 * c[1] + x, 80 * c[3] + y, 80 * c[2] + z>> /\ OnSide(d, x, y, z)
  BY BetweenIs
<1>12. ASSUME NEW k \in 1 .. 4 PROVE m.points[k] \in Between(c, d)
  <2>1. PICK x \in Halves, y \in Halves, z \in Halves : q[k] = <<x, y, z>>
    BY <1>10
  <2>2. OnSide(d, x, y, z)
    BY <1>9, <2>1
  <2>3. m.points[k] = <<80 * c[1] + x, 80 * c[3] + y, 80 * c[2] + z>>
    BY <1>6, <1>8, <2>1 DEF Halves
  <2> QED
    BY <1>11, <2>2, <2>3
<1>13. ASSUME NEW p \in Between(c, d) PROVE \E k \in 1 .. 4 : m.points[k] = p
  <2>1. PICK x \in Halves, y \in Halves, z \in Halves :
           p = <<80 * c[1] + x, 80 * c[3] + y, 80 * c[2] + z>> /\ OnSide(d, x, y, z)
    BY <1>11
  <2>2. PICK k \in 1 .. 4 : q[k] = <<x, y, z>>
    BY <1>9, <2>1
  <2>3. m.points[k] = <<80 * c[1] + x, 80 * c[3] + y, 80 * c[2] + z>>
    BY <1>6, <1>8, <2>2 DEF Halves
  <2> QED
    BY <2>1, <2>3
<1>14. {m.points[k] : k \in 1 .. 4} = Between(c, d)
  BY <1>12, <1>13
<1> QED
  BY <1>1, <1>3, <1>7, <1>14, Zenon DEF QuadOf

\* Which squares beside an opaque block are among the quads of a chunk.
LEMMA SquareIsDrawn ==
    ASSUME NEW b \in [Offsets -> BlockTypes], NEW c \in Cells, NEW d \in Directions,
           BlockAt(b, c) \in Opaque, c[3] < SizeY - 1 => c[3] + 1 <= OffY + SizeY - 1
    PROVE  [corners |-> Between(c, d), seenFrom |-> d] \in UNION {CellQuads(b, e) : e \in Cells}
              <=> \/ Neighbour(c, d) \notin Cells
                  \/ BlockIsTransparent(b, Neighbour(c, d))
<1>1. PICK i \in 1 .. 6 : SideNormals[i] = d
  BY SidesAre
<1>2. PICK type \in Opaque : type = BlockAt(b, c)
  OBVIOUS
<1>3. PICK q : q = [corners |-> Between(c, d), seenFrom |-> d]
  OBVIOUS
<1>4. q = QuadOf(MovedFaces(type, c)[i])
  BY <1>1, <1>3, SideIsBetween
<1>5. \A j \in 1 .. 6 : /\ IsQuad(QuadOf(MovedFaces(type, c)[j]), c)
                        /\ QuadOf(MovedFaces(type, c)[j]) = q => j = i
  <2>1. IsShape(Geometry(type), 6, SideNormals) /\ type \in BlockTypes
    BY Shapes, CubeShape DEF BlockTypes
  <2> QED
    BY <1>4, <2>1, MovedDiffer
<1>6. CellQuads(b, c) = {QuadOf(MovedFaces(type, c)[j]) : j \in {k \in 1 .. 6 : IsShown(b, c, k)}}
  <2>1. BlockAt(b, c) # "Air" /\ ~BlockIsTransparent(b, c)
    BY DEF BlockIsTransparent, Opaque, Transparent
  <2>2. CellQuads(b, c) = ShownQuads(b, c)
    BY <2>1, Zenon DEF CellQuads
  <2> QED
    BY <1>2, <2>2 DEF ShownQuads
<1>7. q \in CellQuads(b, c) <=> IsShown(b, c, i)
  BY <1>4, <1>5, <1>6
<1>8. ASSUME NEW e \in Cells, q \in CellQuads(b, e) PROVE e = c
  <2>1. BlockAt(b, e) \in BlockTypes
    BY OffsetsSound DEF BlockAt
  <2>2. IsQuad(q, e)
    BY <1>8, <2>1, BlockDraws
  <2>3. IsQuad(q, c)
    BY <1>4, <1>5
  <2> QED
    BY <2>2, <2>3, CellsDiffer
<1>9. q \in UNION {CellQuads(b, e) : e \in Cells} <=> IsShown(b, c, i)
  BY <1>7, <1>8
<1>10. IsShown(b, c, i) <=> \/ Neighbour(c, d) \notin Cells
                           \/ BlockIsTransparent(b, Neighbour(c, d))
  BY <1>1, ShownIs
<1> QED
  BY <1>3, <1>9, <1>10

\* ChunkObject::Update over meshtools.cpp, for chunks of any size and any blocks: a frame
\* shows of every opaque block just the squares where it meets the outside or a transparent
\* block, turned to it, and nothing is drawn twice.
THEOREM SurfacesAreDrawn == SceneSpec => []SurfaceIsDrawn
<1>1. SceneSpec => []PlacesInv
  BY PlacesInvariant
<1>2. FrameInv /\ PlacesInv => SurfaceIsDrawn
  <2> SUFFICES ASSUME FrameInv, PlacesInv, phase = "swap" PROVE SurfaceIsDrawn
    BY DEF SurfaceIsDrawn
  <2>1. PICK v : v = screen.chunk.vertices
    OBVIOUS
  <2>2. v = VerticesOf(ComputedFaces(blocks))
    <3>1. screen.chunk = Drawn(chunk) /\ ~chunk.mesh.needsRecompute
      BY DEF FrameInv, ScreenInv
    <3> QED
      BY <2>1, <3>1 DEF FrameInv, ChunkInv, Drawn
  <2>3. blocks \in [Offsets -> BlockTypes]
    BY DEF PlacesInv, BlocksOK
  <2>4. Asserts(blocks)
    BY DEF FrameInv, ChunkInv
  <2>5. PICK a : a = ComputedFaces(blocks)
    OBVIOUS
  <2>6. PICK Q : Q = UNION {CellQuads(blocks, e) : e \in Cells}
    OBVIOUS
  <2>7. Draws(AllFaces, a, Q)
    BY <2>3, <2>5, <2>6, ComputedDraws
  <2>8. \A k \in 1 .. Len(a) : a[k].render = TRUE
    <3>1. \A k \in 1 .. Len(a) : a[k] \in AllFaces
      BY <2>7 DEF Draws
    <3> QED
      BY <3>1 DEF AllFaces
  <2>9. Len(v) = 6 * Len(a) /\ Quads(v) = Q
    BY <2>2, <2>5, <2>7, <2>8, DrawsVertices
  <2>10. 6 * Cardinality(Quads(v)) = Len(v)
    BY <2>7, <2>9, DrawsCount
  <2>11. ASSUME NEW c \in Places, NEW d \in Directions, BlockAt(blocks, c) \in Opaque
         PROVE  ([corners |-> Between(c, d), seenFrom |-> d] \in Q)
                   <=> (\/ Neighbour(c, d) \notin Cells
                        \/ BlockIsTransparent(blocks, Neighbour(c, d)))
    <3>1. c \in Cells
      BY SceneAssumption
    <3>2. c[3] < SizeY - 1 => c[3] + 1 <= OffY + SizeY - 1
      <4>1. BlockAt(blocks, c) # "Air"
        BY <2>11 DEF Opaque
      <4> QED
        BY <2>4, <2>11, <3>1, <4>1 DEF Asserts
    <3> QED
      BY <2>3, <2>6, <2>11, <3>1, <3>2, SquareIsDrawn
  <2>12. SurfaceIsDrawn
    BY <2>1, <2>9, <2>10, <2>11 DEF SurfaceIsDrawn
  <2> QED
    BY <2>12
<1> QED
  BY <1>1, <1>2, FrameInvariant, PTL
================================================================================
