------------------------------- MODULE ChunkMesh -------------------------------
(***************************************************************************)
(* CraftBlock::Chunk (chunk.cpp), the faces that ChunkObject::Update makes   *)
(* of its blocks (mineblock.cpp), and the mesh that draws faces (mesh.h,     *)
(* mesh.cpp).                                                               *)
(*                                                                          *)
(* A cell is <<x, z, y>>, in the order the code passes them.  A mesh is the  *)
(* record [faces, needsRecompute, vertices]; the vertices are what the       *)
(* buffers of OpenGL were last given.                                       *)
(***************************************************************************)
EXTENDS BlockTables, FiniteSets

CONSTANTS
    SizeX, SizeZ, SizeY,    \* CHUNK_SIZE_X, CHUNK_SIZE_Z, CHUNK_SIZE_Y
    OffY                    \* CHUNK_SIZE_Y_OFF

ASSUME ChunkAssumption ==
    /\ SizeX \in Nat \ {0} /\ SizeZ \in Nat \ {0} /\ SizeY \in Nat \ {0} /\ OffY \in Int /\ OffY <= 0

--------------------------------------------------------------------------------
(* Chunk.                                                                   *)

Cells == (0 .. SizeX - 1) \X (0 .. SizeZ - 1) \X (OffY .. OffY + SizeY - 1)
Offsets == 0 .. SizeX * SizeZ * SizeY - 1

\* Mutant of BlockOffset: the layers lie as far apart as the rows.
BlockOffset_Rows(c) == c[1] + c[2] * SizeX + (c[3] - OffY) * SizeX

\* Its assertions hold in Cells and nowhere else.
BlockOffset(c) == c[1] + c[2] * SizeX + (c[3] - OffY) * SizeZ * SizeX

BlockAt(blocks, c) == blocks[BlockOffset(c)]
BlockIsTransparent(blocks, c) == BlockAt(blocks, c) \in Transparent

--------------------------------------------------------------------------------
(* ChunkObject::Update.                                                     *)

\* The cells in the order of its loops.
CellsInOrder ==
    [i \in 1 .. SizeX * SizeZ * SizeY |->
        <<(i - 1) \div (SizeZ * SizeY), ((i - 1) \div SizeY) % SizeZ, OffY + ((i - 1) % SizeY)>>]

\* The faces of a type moved to a cell, each with its part of the atlas.
MovedFaces(type, c) ==
    LET faces == Geometry(type)
        names == TextureNames(type)
    IN  [i \in DOMAIN faces |->
            [faces[i] EXCEPT
                !.points = [t \in 1 .. 4 |->
                    <<@[t][1] + Unit * c[1], @[t][2] + Unit * c[3], @[t][3] + Unit * c[2]>>],
                !.texCoord = InAtlas(IF Len(names) = 1 THEN names[1] ELSE names[i], @)]]

\* Mutant of IsShown: the neighbour on the left is taken for opaque at the border.
IsShown_Border(blocks, c, side) ==
    LET Sees(border, d) == border \/ BlockIsTransparent(blocks, d)
    IN  CASE side = CubeFaceLeft   -> c[1] # 0 /\ Sees(FALSE, <<c[1] - 1, c[2], c[3]>>)
          [] side = CubeFaceRight  -> Sees(c[1] = SizeX - 1, <<c[1] + 1, c[2], c[3]>>)
          [] side = CubeFaceBottom -> Sees(c[3] = OffY, <<c[1], c[2], c[3] - 1>>)
          [] side = CubeFaceTop    -> Sees(c[3] = SizeY - 1, <<c[1], c[2], c[3] + 1>>)
          [] side = CubeFaceBack   -> Sees(c[2] = 0, <<c[1], c[2] - 1, c[3]>>)
          [] side = CubeFaceFront  -> Sees(c[2] = SizeZ - 1, <<c[1], c[2] + 1, c[3]>>)

\* A face of an opaque block is shown at the border and before a transparent one.
\* The border at the top is that of a chunk whose layers start at 0.
IsShown(blocks, c, side) ==
    LET Sees(border, d) == border \/ BlockIsTransparent(blocks, d)
    IN  CASE side = CubeFaceLeft   -> Sees(c[1] = 0, <<c[1] - 1, c[2], c[3]>>)
          [] side = CubeFaceRight  -> Sees(c[1] = SizeX - 1, <<c[1] + 1, c[2], c[3]>>)
          [] side = CubeFaceBottom -> Sees(c[3] = OffY, <<c[1], c[2], c[3] - 1>>)
          [] side = CubeFaceTop    -> Sees(c[3] = SizeY - 1, <<c[1], c[2], c[3] + 1>>)
          [] side = CubeFaceBack   -> Sees(c[2] = 0, <<c[1], c[2] - 1, c[3]>>)
          [] side = CubeFaceFront  -> Sees(c[2] = SizeZ - 1, <<c[1], c[2] + 1, c[3]>>)

PushOrder == <<CubeFaceLeft, CubeFaceRight, CubeFaceBottom, CubeFaceTop, CubeFaceBack,
               CubeFaceFront>>

ShownFaces(blocks, c) ==
    LET faces == MovedFaces(BlockAt(blocks, c), c)
    IN  FlattenSeq([n \in 1 .. 6 |->
            IF IsShown(blocks, c, PushOrder[n]) THEN <<faces[PushOrder[n]]>> ELSE <<>>])

\* Transparent blocks go before, with all their faces; opaque ones behind.
WithBlock(blocks, c, faces) ==
    IF BlockAt(blocks, c) = "Air" THEN faces
    ELSE IF BlockIsTransparent(blocks, c) THEN MovedFaces(BlockAt(blocks, c), c) \o faces
    ELSE faces \o ShownFaces(blocks, c)

ComputedFaces(blocks) ==
    LET Turns[i \in 0 .. SizeX * SizeZ * SizeY] ==
            IF i = 0 THEN <<>> ELSE WithBlock(blocks, CellsInOrder[i], Turns[i - 1])
    IN  Turns[SizeX * SizeZ * SizeY]

\* Mutant of Asserts: the textures are looked at face by face.
Asserts_PerFace(blocks) ==
    \A c \in Cells :
       LET type == BlockAt(blocks, c) IN
       type # "Air" =>
          /\ Len(TextureNames(type)) \in {1, Len(Geometry(type))} \/ Geometry(type) = <<>>
          /\ type \in Opaque /\ c[3] < SizeY - 1 => c[3] + 1 <= OffY + SizeY - 1

\* The assertions of Update, and of BlockOffset under it: a type with a texture for
\* all or for each of its faces, and an upper neighbour within the chunk.
Asserts(blocks) ==
    \A c \in Cells :
       LET type == BlockAt(blocks, c) IN
       type # "Air" =>
          /\ Len(TextureNames(type)) \in {1, Len(Geometry(type))}
          /\ type \in Opaque /\ c[3] < SizeY - 1 => c[3] + 1 <= OffY + SizeY - 1

--------------------------------------------------------------------------------
(* _Mesh.                                                                   *)

NewMesh(faces) == [faces |-> Copied(faces), needsRecompute |-> TRUE, vertices |-> <<>>]

\* Mutant of SetShowFace: nothing is recomputed.
SetShowFace_Lazy(mesh, n, show) == [mesh EXCEPT !.faces[n].render = show]

\* SetShowFace: whether to recompute is decided by this face alone.
SetShowFace(mesh, n, show) ==
    [mesh EXCEPT !.needsRecompute = mesh.faces[n].render # show,
                 !.faces[n].render = show]
\* SetFaceMap, called for each of these faces.
SetFaceMap(mesh, targets, map) ==
    [mesh EXCEPT !.needsRecompute = @ \/ targets # {},
                 !.faces = [n \in DOMAIN @ |->
                    IF n \in targets THEN [@[n] EXCEPT !.texCoord = map] ELSE @[n]]]
Invalidate(mesh) == [mesh EXCEPT !.needsRecompute = TRUE]

\* The two triangles of each face that is rendered; no vertex is shared.
Triangles(face) ==
    [i \in 1 .. 6 |-> LET k == <<1, 2, 4, 2, 3, 4>>[i]
                      IN  [pos |-> face.points[k], tex |-> face.texCoord[k]]]
VerticesOf(faces) ==
    FlattenSeq([i \in DOMAIN faces |->
                   IF faces[i].render THEN Triangles(faces[i]) ELSE <<>>])

Recompute(mesh) ==
    IF ~mesh.needsRecompute THEN mesh
    ELSE [mesh EXCEPT !.needsRecompute = FALSE, !.vertices = VerticesOf(mesh.faces)]
================================================================================
