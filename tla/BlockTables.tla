------------------------------ MODULE BlockTables ------------------------------
(***************************************************************************)
(* The types of blocks (block.h, blocks.h, blocks.cpp), their geometry       *)
(* (blockgeom.cpp, meshtools.cpp, face.h), and the atlas that holds their    *)
(* textures (texture.cpp).                                                  *)
(*                                                                          *)
(* Lengths are in eightieths of a block and texture coordinates in           *)
(* eightieths of a texture, which every number of meshtools.cpp is a         *)
(* multiple of.  Colours are all white and left out.                        *)
(***************************************************************************)
EXTENDS Integers, Sequences, SequencesExt

Unit == 80

--------------------------------------------------------------------------------
(* blocks.h: BLOCKSTRUCT(name, isTransparent).                              *)

Transparent == {"Air", "Water", "Glass", "Leaves", "Rose", "Lava", "Torch", "TallGrass",
                "PineLeaves"}
Opaque == {"Grass", "Dirt", "Stone", "Sand", "Log", "Buttercup", "Coal", "Copper", "Clay",
           "Gravel", "Planks", "Cobblestone", "Snow", "Podzol", "Shrub", "PineLog", "Brick",
           "Cactus"}
BlockTypes == Transparent \cup Opaque

\* blocks.cpp: one texture for every face, one for all, or none.
Sides(side, top, bottom) == <<side, side, side, side, top, bottom>>
Alone(name) == Sides(name, name, name)
TextureNames(type) ==
    CASE type = "Grass"  -> Sides("grass_side_carried", "grass_carried", "dirt")
      [] type = "Log"    -> Sides("log_oak", "log_oak_top", "log_oak_top")
      [] type = "Podzol" -> Sides("dirt_podzol_side", "dirt_podzol_top", "dirt_podzol_side")
      [] type = "Cactus" -> Sides("cactus_side", "cactus_top", "cactus_bottom")
      [] type = "Rose"      -> <<"flower_rose">>
      [] type = "TallGrass" -> <<"tallgrass_carried">>
      [] type = "Water"  -> Alone("water_placeholder")
      [] type = "Lava"   -> Alone("lava_placeholder")
      [] type = "Leaves" -> Alone("leaves_acacia")
      [] type = "Coal"   -> Alone("coal_ore")
      [] type = "Planks" -> Alone("planks_oak")
      [] type = "Torch"  -> Alone("torch_on")
      [] type = "Dirt"   -> Alone("dirt")        [] type = "Stone"  -> Alone("stone")
      [] type = "Sand"   -> Alone("sand")        [] type = "Glass"  -> Alone("glass")
      [] type = "Clay"   -> Alone("clay")        [] type = "Gravel" -> Alone("gravel")
      [] type = "Snow"   -> Alone("snow")        [] type = "Brick"  -> Alone("brick")
      [] type = "Cobblestone" -> Alone("cobblestone")
      [] OTHER -> <<>>

\* TexturesToLoad: each name once.  The atlas numbers them from 0.
TexturesToLoad == UNION {ToSet(TextureNames(type)) : type \in BlockTypes}

--------------------------------------------------------------------------------
(* face.h and meshtools.cpp.                                                *)

Face(points, tex) == [points |-> points, texCoord |-> tex, render |-> TRUE]

\* The copy constructor of Face takes the points, the coordinates and the colours.
Copied(faces) == [i \in DOMAIN faces |-> Face(faces[i].points, faces[i].texCoord)]

\* The corners of a texture between these borders.
Window(left, right, top, bottom) ==
    <<<<left, bottom>>, <<right, bottom>>, <<right, top>>, <<left, top>>>>
Whole == Window(0, Unit, 0, Unit)

\* The same corners, of the texture of this name in the atlas.
InAtlas(name, corners) == [k \in DOMAIN corners |-> <<name>> \o corners[k]]

CubeFaceBack == 1
CubeFaceRight == 3
CubeFaceTop == 5
CubeFaceFront == 2
CubeFaceLeft == 4
CubeFaceBottom == 6

\* A box over a square: its six faces in the order of the constants above.
Box(corner, width, height, tex) ==
    LET p(i, j, k) == <<corner[1] + i * width, corner[2] + j * height, corner[3] + k * width>>
    IN  <<Face(<<p(1, 0, 0), p(0, 0, 0), p(0, 1, 0), p(1, 1, 0)>>, tex[1]),
          Face(<<p(0, 0, 1), p(1, 0, 1), p(1, 1, 1), p(0, 1, 1)>>, tex[2]),
          Face(<<p(1, 0, 1), p(1, 0, 0), p(1, 1, 0), p(1, 1, 1)>>, tex[3]),
          Face(<<p(0, 0, 0), p(0, 0, 1), p(0, 1, 1), p(0, 1, 0)>>, tex[4]),
          Face(<<p(0, 1, 0), p(0, 1, 1), p(1, 1, 1), p(1, 1, 0)>>, tex[5]),
          Face(<<p(1, 0, 0), p(1, 0, 1), p(0, 0, 1), p(0, 0, 0)>>, tex[6])>>

Half == Unit \div 2
Corner == <<-Half, -Half, -Half>>

\* Mutant of GenerateCubeFaces: left and right in the other order.
GenerateCubeFaces_Swapped ==
    LET l == Box(Corner, Unit, Unit, Alone(Whole)) IN [l EXCEPT ![3] = l[4], ![4] = l[3]]

GenerateCubeFaces == Box(Corner, Unit, Unit, Alone(Whole))
GenerateLiquidCubeFaces == Box(Corner, Unit, 72, Alone(Whole))
GenerateXSprite ==
    LET p(i, j, k) == <<Corner[1] + i * Unit, Corner[2] + j * Unit, Corner[3] + k * Unit>>
    IN  <<Face(<<p(0, 0, 0), p(1, 0, 1), p(1, 1, 1), p(0, 1, 0)>>, Whole),
          Face(<<p(1, 0, 0), p(0, 0, 1), p(0, 1, 1), p(1, 1, 0)>>, Whole)>>

\* An eighth of a block wide and five eighths high, of that part of the texture.
GenerateTorchFaces ==
    Box(<<-5, -Half, -5>>, 10, 50,
        Sides(Window(35, 45, 30, 80), Window(35, 45, 30, 40), Window(35, 45, 70, 40)))

\* initializeGeometries: all but Glass, which operator[] gives an empty geometry.
Geometry(type) ==
    CASE type \in {"Water", "Lava"}     -> GenerateLiquidCubeFaces
      [] type \in {"Rose", "TallGrass"} -> GenerateXSprite
      [] type = "Torch"                 -> GenerateTorchFaces
      [] type = "Glass"                 -> <<>>
      [] OTHER                          -> GenerateCubeFaces

--------------------------------------------------------------------------------
(* BuildTextureAtlasFromFiles and _TextureAtlas::operator[].                 *)

\* The least power of two, and the least square, that are not below.
NextPow2(n) == CHOOSE p \in {2^k : k \in 0 .. 30} : p >= n /\ (p = 1 \/ p \div 2 < n)
CeilSqrt(n) == CHOOSE r \in 0 .. n : r * r >= n /\ \A q \in 0 .. r - 1 : q * q < n
AtlasSide(width, height, count) == NextPow2(CeilSqrt(width * height * count))

\* Where the pixels of the image with this number, from 0, are copied to.
PlacedX(i, a) == (i * a.width) % a.side
PlacedY(i, a) == ((i * a.width) \div a.side) * a.height

\* Mutant of FoundY: by the height of an image.
FoundY_Height(i, a) == <<(i * a.height) \div a.side, a.side \div a.height>>

\* Where it is looked up, as a fraction of the side.
FoundX(i, a) == <<(i * a.width) % a.side, a.width * (a.side \div a.width)>>
FoundY(i, a) == <<(i * a.width) \div a.side, a.side \div a.height>>

\* The row that is filled first, and every row of every image, lie in the atlas.
Fits(a) ==
    /\ a.side > 2
    /\ \A i \in 0 .. a.count - 1 :
          PlacedX(i, a) + a.width <= a.side /\ PlacedY(i, a) + a.height <= a.side
================================================================================
