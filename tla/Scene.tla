---------------------------------- MODULE Scene --------------------------------
(***************************************************************************)
(* The window: main (main.cpp) builds the atlas of the textures, fills a     *)
(* chunk and draws frame after frame, each of what the events between them   *)
(* changed: the camera (camera.h, camera.cpp), the blocks, the objects       *)
(* (object.h, object.cpp) and the text of the GUI (gui.cpp).                 *)
(*                                                                          *)
(* Everything runs on one thread.  What can go wrong is in the flags: each   *)
(* part recomputes what it shows only when it was told that it changed.      *)
(*                                                                          *)
(* Beside the chunk there is one more Object with a mesh of its own, used    *)
(* through what object.h and mesh.h offer.  Objects and the yaw of the camera *)
(* turn by quarters; its pitch goes in steps whose sine and cosine are fifths, *)
(* the unit of its place, and a key moves it by a whole front.               *)
(***************************************************************************)
EXTENDS ChunkMesh, Matrices

CONSTANTS
    Sizes,              \* <<width, height>> the images may have; as many pixels in all
                        \* as the float of their number counts one by one
    Types,              \* the types of blocks that may be put
    Places,             \* and the cells
    Names,              \* textures that may be asked for
    Faces,              \* faces of the object that may be shown, hidden or mapped
    Positions,          \* of the objects
    Rotations,          \* and <<roll, pitch, yaw>>
    Aspect, Near, Far,  \* of the projection, whose angle is a right one
    MouseClamp, CameraClamp,    \* the 50 of updateMouse and the 89 of Camera::update
    MaxCalls            \* bound on the calls and the events

ASSUME SceneAssumption ==
    /\ Types \subseteq BlockTypes /\ Places \subseteq Cells /\ Faces \subseteq Nat \ {0}
    /\ Positions \cup Rotations \subseteq Int \X Int \X Int
    /\ {Aspect, Near} \subseteq Nat \ {0} /\ Far \in Nat /\ Near < Far
    /\ MouseClamp \in Nat /\ CameraClamp \in 0 .. 2 /\ MouseClamp <= CameraClamp
    /\ MaxCalls \in Nat
    /\ Sizes \subseteq (Nat \ {0}) \X (Nat \ {0})
    /\ \A size \in Sizes : size[1] * size[2] * Cardinality(TexturesToLoad) <= 2^24

VARIABLES
    phase,              \* where main is
    atlas,              \* [width, height, count, side]
    blocks, needsUpdate,
    chunk, object,      \* [pos, rot, m, needsMatrixUpdate, mesh]
    camera,             \* [pos, pitch, yaw, front, needsMatrixUpdate]
    firstMouse,
    viewProjection,
    gui,                \* [seen, needUpdate, boxes]
    screen,             \* what the last frame drew of the chunk and the object
    unchanged,          \* history: the last call on the mesh of the object was a
                        \* SetShowFace that changed nothing
    calls

sceneVars == <<phase, atlas, blocks, needsUpdate, chunk, object, camera, firstMouse,
               viewProjection, gui, screen, unchanged, calls>>

Looks(c) == [pos |-> c.pos, pitch |-> c.pitch, yaw |-> c.yaw]
Origin == <<0, 0, 0>>
Nowhere == [pos |-> Origin, pitch |-> 0, yaw |-> 0]
NewObject(mesh) ==
    [pos |-> Origin, rot |-> Origin, m |-> NoMatrix, needsMatrixUpdate |-> TRUE, mesh |-> mesh]

\* Nobody sets the fields of GUI before its first Render.
SceneInit ==
    /\ phase = "textures" /\ calls = 0 /\ unchanged = FALSE
    /\ atlas = [width |-> 0, height |-> 0, count |-> 0, side |-> 0]
    /\ blocks = [i \in Offsets |-> "Air"] /\ needsUpdate = TRUE
    /\ chunk = NewObject(NewMesh(<<>>)) /\ object = NewObject(NewMesh(GenerateCubeFaces))
    /\ camera = [pos |-> <<0, 5, 10>>, pitch |-> -1, yaw |-> -1, front |-> Origin,
                 needsMatrixUpdate |-> TRUE]
    /\ firstMouse = TRUE /\ viewProjection = NoMatrix
    /\ gui \in [seen : {Looks(camera), Nowhere}, needUpdate : {TRUE}, boxes : {Nowhere}]
    /\ screen = [chunk |-> <<>>, object |-> <<>>]

--------------------------------------------------------------------------------
(* Before the first frame.                                                  *)

\* An image that cannot be loaded, or of another size, ends the program; what does
\* not fit is written past the end of a row or of the rows.
BuildTextureAtlas ==
    /\ phase = "textures"
    /\ \E size \in Sizes, loaded \in BOOLEAN :
          LET count == Cardinality(TexturesToLoad)
              a == [width |-> size[1], height |-> size[2], count |-> count,
                    side |-> AtlasSide(size[1], size[2], count)]
          IN  /\ atlas' = IF loaded THEN a ELSE atlas
              /\ phase' = CASE ~loaded -> "ended"
                            [] loaded /\ ~Fits(a) -> "undefined"
                            [] OTHER -> "poll"
    /\ UNCHANGED <<blocks, needsUpdate, chunk, object, camera, firstMouse,
                   viewProjection, gui, screen, unchanged, calls>>

--------------------------------------------------------------------------------
(* A frame.                                                                 *)

Clamp(value, limit) == CASE value > limit -> limit [] value < -limit -> -limit [] OTHER -> value

\* The cosine and the sine of a pitch, in fifths.
CosPitch(pitch) == <<3, 4, 5, 4, 3>>[pitch + 3]
SinPitch(pitch) == <<-4, -3, 0, 3, 4>>[pitch + 3]
CamFront(pitch, yaw) ==
    <<Cosine(yaw) * CosPitch(pitch), SinPitch(pitch), Sine(yaw) * CosPitch(pitch)>>

Projection == Perspective(1, Aspect, Near, Far)

\* Camera::update.  A pitch that is cut is assigned, which asks for one more update.
CameraUpdate ==
    /\ phase = "poll" /\ phase' = "chunk"
    /\ IF camera.needsMatrixUpdate
       THEN LET pitch == Clamp(camera.pitch, CameraClamp)
                front == CamFront(pitch, camera.yaw)
            IN  /\ camera' = [camera EXCEPT !.pitch = pitch, !.front = front,
                                           !.needsMatrixUpdate = pitch # camera.pitch]
                /\ viewProjection' = Product(Projection, LookAt(camera.pos, front, 5))
       ELSE UNCHANGED <<camera, viewProjection>>
    /\ UNCHANGED <<atlas, blocks, needsUpdate, chunk, object, firstMouse, gui, screen,
                   unchanged, calls>>

\* Object::Update.
Placement(o) ==
    Product(Product(Product(Translation(o.pos, 1), RotationX(o.rot[1])), RotationY(o.rot[2])),
            RotationZ(o.rot[3]))
Updated(o) ==
    IF o.needsMatrixUpdate THEN [o EXCEPT !.needsMatrixUpdate = FALSE, !.m = Placement(o)] ELSE o

\* ChunkObject::Update.
ChunkUpdate ==
    /\ phase = "chunk"
    /\ needsUpdate' = FALSE
    /\ phase' = IF needsUpdate /\ ~Asserts(blocks) THEN "aborted" ELSE "render"
    /\ chunk' = IF ~needsUpdate \/ ~Asserts(blocks) THEN chunk
                ELSE LET mesh == [chunk.mesh EXCEPT !.faces = ComputedFaces(blocks)]
                     IN  Updated([chunk EXCEPT !.mesh = Recompute(Invalidate(mesh))])
    /\ UNCHANGED <<atlas, blocks, object, camera, firstMouse, viewProjection, gui, screen,
                   unchanged, calls>>

\* Object::Render: the matrix and the vertices that it leaves the object with are
\* those that are drawn.
Rendered(o) == [Updated(o) EXCEPT !.mesh = Recompute(o.mesh)]
Drawn(o) == [mvp |-> Product(viewProjection, o.m), vertices |-> o.mesh.vertices]
Render ==
    /\ phase = "render" /\ phase' = "gui"
    /\ chunk' = Rendered(chunk) /\ object' = Rendered(object)
    /\ screen' = [chunk |-> Drawn(chunk'), object |-> Drawn(object')]
    /\ UNCHANGED <<atlas, blocks, needsUpdate, camera, firstMouse, viewProjection, gui,
                   unchanged, calls>>

\* Mutant of GuiRender: the boxes are filled before the change is noticed.
GuiRender_Late ==
    /\ phase = "gui" /\ phase' = "swap"
    /\ gui' = [seen |-> Looks(camera), needUpdate |-> gui.seen # Looks(camera),
               boxes |-> IF gui.needUpdate THEN gui.seen ELSE gui.boxes]
    /\ UNCHANGED <<atlas, blocks, needsUpdate, chunk, object, camera, firstMouse,
                   viewProjection, screen, unchanged, calls>>

\* GUI::Render and update.
GuiRender ==
    /\ phase = "gui" /\ phase' = "swap"
    /\ gui' = [seen |-> Looks(camera), needUpdate |-> FALSE,
               boxes |-> IF gui.needUpdate \/ gui.seen # Looks(camera)
                         THEN Looks(camera) ELSE gui.boxes]
    /\ UNCHANGED <<atlas, blocks, needsUpdate, chunk, object, camera, firstMouse,
                   viewProjection, screen, unchanged, calls>>

SwapBuffers ==
    /\ phase = "swap" /\ phase' = "poll"
    /\ UNCHANGED <<atlas, blocks, needsUpdate, chunk, object, camera, firstMouse,
                   viewProjection, gui, screen, unchanged, calls>>

--------------------------------------------------------------------------------
(* Between the frames.                                                      *)

Call ==
    /\ phase = "poll" /\ calls < MaxCalls /\ calls' = calls + 1
    /\ UNCHANGED <<atlas, viewProjection, gui, screen>>

\* Mutant of PutBlock: a chunk that is not drawn yet needs nothing.
PutBlock_Quiet(c, type) ==
    /\ Call
    /\ blocks' = [blocks EXCEPT ![BlockOffset(c)] = type]
    /\ needsUpdate' = (needsUpdate \/ chunk.needsMatrixUpdate)
    /\ UNCHANGED <<phase, chunk, object, camera, firstMouse, unchanged>>

PutBlock(c, type) ==
    /\ Call
    /\ blocks' = [blocks EXCEPT ![BlockOffset(c)] = type]
    /\ needsUpdate' = TRUE
    /\ UNCHANGED <<phase, chunk, object, camera, firstMouse, unchanged>>

\* SetPos and SetRotation, and the assignment to a coordinate or an angle, which looks
\* whether it changes.
Moved(o, p, rot) == [o EXCEPT !.pos = p, !.rot = rot, !.needsMatrixUpdate = TRUE]
Assigned(o, p, rot) ==
    [o EXCEPT !.pos = p, !.rot = rot, !.needsMatrixUpdate = @ \/ o.pos # p \/ o.rot # rot]
MoveObjects(p) ==
    /\ Call
    /\ chunk' = Moved(chunk, p, chunk.rot) /\ object' = Assigned(object, p, object.rot)
    /\ UNCHANGED <<phase, blocks, needsUpdate, camera, firstMouse, unchanged>>

RotateObjects(rot) ==
    /\ Call
    /\ chunk' = Moved(chunk, chunk.pos, rot) /\ object' = Assigned(object, object.pos, rot)
    /\ UNCHANGED <<phase, blocks, needsUpdate, camera, firstMouse, unchanged>>

ShowFace(n, show) ==
    /\ Call
    /\ object' = [object EXCEPT !.mesh = SetShowFace(object.mesh, n, show)]
    /\ unchanged' = (object.mesh.faces[n].render = show)
    /\ UNCHANGED <<phase, blocks, needsUpdate, chunk, camera, firstMouse>>

\* SetTextureFromAtlas for one face and for all, which turns the texture.  A name that
\* is not in the atlas, or a face there is none of, fails an assertion.
Turned == <<<<0, 0>>, <<0, Unit>>, <<Unit, Unit>>, <<Unit, 0>>>>
SetTextureFromAtlas(targets, corners, name) ==
    /\ Call
    /\ IF name \in TexturesToLoad /\ targets \subseteq DOMAIN object.mesh.faces
       THEN /\ object' = [object EXCEPT !.mesh = SetFaceMap(@, targets, InAtlas(name, corners))]
            /\ unchanged' = FALSE
            /\ UNCHANGED phase
       ELSE phase' = "no such texture" /\ UNCHANGED <<object, unchanged>>
    /\ UNCHANGED <<blocks, needsUpdate, chunk, camera, firstMouse>>

\* CloneWithMesh: the faces are copied twice, for the list and for the mesh.
Clone ==
    /\ Call
    /\ object' = [NewObject(NewMesh(Copied(object.mesh.faces)))
                    EXCEPT !.pos = object.pos, !.rot = object.rot]
    /\ unchanged' = FALSE
    /\ UNCHANGED <<phase, blocks, needsUpdate, chunk, camera, firstMouse>>

\* updateMouse: the first time only the place of the pointer is kept.
MouseMove(dx, dy) ==
    /\ Call
    /\ firstMouse' = FALSE
    /\ camera' = [camera EXCEPT
                    !.yaw = IF firstMouse THEN @ ELSE @ + dx,
                    !.pitch = Clamp(IF firstMouse THEN @ ELSE @ + dy, MouseClamp),
                    !.needsMatrixUpdate = TRUE]
    /\ UNCHANGED <<phase, blocks, needsUpdate, chunk, object, unchanged>>

\* processInput: a key that is held moves the camera, forth, to the side or up, and back;
\* forth is where it looked when the last frame was drawn.
Steps == {camera.front, CrossProduct(camera.front, Up), Times(5, Up)}
Walk(step) ==
    /\ Call /\ camera.front # Origin
    /\ camera' = [camera EXCEPT !.pos = Plus(@, step), !.needsMatrixUpdate = TRUE]
    /\ UNCHANGED <<phase, blocks, needsUpdate, chunk, object, firstMouse, unchanged>>

\* Escape closes the window, and the loop ends.
Close ==
    /\ Call
    /\ phase' = "ended"
    /\ UNCHANGED <<blocks, needsUpdate, chunk, object, camera, firstMouse, unchanged>>

SceneNext ==
    \/ BuildTextureAtlas
    \/ CameraUpdate \/ ChunkUpdate \/ Render \/ GuiRender \/ SwapBuffers
    \/ \E c \in Places, type \in Types : PutBlock(c, type)
    \/ \E p \in Positions : MoveObjects(p)
    \/ \E rot \in Rotations : RotateObjects(rot)
    \/ \E step \in Steps, n \in {1, -1} : Walk(Times(n, step))
    \/ \E n \in Faces \cap DOMAIN object.mesh.faces, show \in BOOLEAN : ShowFace(n, show)
    \/ \E n \in Faces, name \in Names : SetTextureFromAtlas({n}, Whole, name)
    \/ \E name \in Names : SetTextureFromAtlas(DOMAIN object.mesh.faces, Turned, name)
    \/ Clone \/ Close
    \/ \E dx \in {-1, 0, 1}, dy \in {-1, 0, 1} : MouseMove(dx, dy)

SceneSpec == SceneInit /\ [][SceneNext]_sceneVars
--------------------------------------------------------------------------------
Meshes == {chunk.mesh, object.mesh}

\* The parts keep their types.
SceneTypeOK ==
    /\ phase \in {"textures", "poll", "chunk", "render", "gui", "swap", "ended", "aborted",
                  "no such texture", "undefined"}
    /\ blocks \in [Offsets -> BlockTypes] /\ needsUpdate \in BOOLEAN
    /\ {chunk.pos, object.pos} \subseteq Positions \cup {Origin}
    /\ {chunk.rot, object.rot} \subseteq Rotations \cup {Origin}
    /\ \A mesh \in Meshes : mesh.needsRecompute \in BOOLEAN /\ Len(mesh.vertices) % 6 = 0
    /\ camera.pitch \in -MouseClamp .. MouseClamp /\ camera.yaw \in Int
    /\ firstMouse \in BOOLEAN /\ unchanged \in BOOLEAN /\ calls \in 0 .. MaxCalls

\* Where a point of an object is: turned about z, y and x, then moved.
Turn(axis, quarters, p) ==
    LET j == 1 + (axis % 3)
        k == 1 + (j % 3)
    IN  [p EXCEPT ![j] = Cosine(quarters) * p[j] - Sine(quarters) * p[k],
                  ![k] = Sine(quarters) * p[j] + Cosine(quarters) * p[k]]
Placed(o, p) == Plus(o.pos, Turn(1, o.rot[1], Turn(2, o.rot[2], Turn(3, o.rot[3], p))))

\* The level direction a quarter to the right, and the one a quarter above the front.
Right(c) == <<Cosine(c.yaw + 1), 0, Sine(c.yaw + 1)>>
Above(c) == <<-Cosine(c.yaw) * SinPitch(c.pitch), CosPitch(c.pitch), -Sine(c.yaw) * SinPitch(c.pitch)>>

Sign(n) == CASE n > 0 -> 1 [] n < 0 -> -1 [] OTHER -> 0

Dot(u, v) == u[1] * v[1] + u[2] * v[2] + u[3] * v[3]

\* Clip coordinates are those of a point at distance d from the camera when the point
\* is as far before it, and on the side of it, that they say.
Shows(clip, c, d) ==
    LET depth == Dot(CamFront(c.pitch, c.yaw), d)
    IN  /\ Sign(clip[4]) = Sign(depth)
        /\ -clip[4] <= clip[3] /\ clip[3] <= clip[4] <=> 25 * Near <= depth /\ depth <= 25 * Far
        /\ Sign(clip[1]) = Sign(Dot(Right(c), d))
        /\ Sign(clip[2]) = Sign(Dot(Above(c), d))

\* And in proportion to the distance: the picture keeps the angles.
KeepsAngles(clip, c, d) ==
    LET depth == Dot(CamFront(c.pitch, c.yaw), d)
    IN  /\ clip[1] * Aspect * depth = clip[4] * 5 * Dot(Right(c), d)
        /\ clip[2] * depth = clip[4] * Dot(Above(c), d)

\* Four points of which every other is made.
Corners == {<<0, 0, 0>>, <<1, 0, 0>>, <<0, 1, 0>>, <<0, 0, 1>>}
ObjectsDrawn == {<<chunk, screen.chunk>>, <<object, screen.object>>}
FromCamera(o, p) == Minus(Times(5, Placed(o, p)), camera.pos)

\* main: whatever happened between two frames, each point of the chunk and of the object
\* is drawn where it now is as seen from where the camera now is, in proportion while the
\* camera looks straight ahead; the faces are those of the blocks and the text is that of
\* the camera.
FrameIsCurrent ==
    phase = "swap" =>
       /\ gui.boxes = Looks(camera)
       /\ screen.chunk.vertices = VerticesOf(ComputedFaces(blocks))
       /\ \A o \in ObjectsDrawn, p \in Corners :
             LET clip == Transformed(o[2].mvp, p)
                 d == FromCamera(o[1], p)
             IN  Shows(clip, camera, d) /\ (camera.pitch = 0 => KeepsAngles(clip, camera, d))

\* The same of every pitch ("f.Normalize()", matrix.cpp): the picture is not squeezed.
PictureKeepsAngles ==
    phase = "swap" => \A o \in ObjectsDrawn, p \in Corners :
       KeepsAngles(Transformed(o[2].mvp, p), camera, FromCamera(o[1], p))

\* mesh.h: the object is drawn with the faces and the textures that its mesh has, but
\* for a SetShowFace that changed nothing, which takes back what is still to recompute.
ObjectAsSet ==
    phase = "swap" /\ ~unchanged
       => screen.object.vertices = VerticesOf(object.mesh.faces)

\* The same without the exception.
ObjectAlwaysAsSet == phase = "swap" => screen.object.vertices = VerticesOf(object.mesh.faces)

Normal(p, q, r) ==
    LET n == CrossProduct(Minus(q, p), Minus(r, p))
    IN  <<Sign(n[1]), Sign(n[2]), Sign(n[3])>>

\* The quads of a list of vertices: their corners and the side they are seen from.
Quads(vertices) ==
    {[corners |-> {vertices[6 * k + i].pos : i \in 1 .. 6},
      seenFrom |-> Normal(vertices[6 * k + 1].pos, vertices[6 * k + 2].pos,
                          vertices[6 * k + 3].pos)] : k \in 0 .. Len(vertices) \div 6 - 1}

Directions == {<<1, 0, 0>>, <<-1, 0, 0>>, <<0, 1, 0>>, <<0, -1, 0>>, <<0, 0, 1>>, <<0, 0, -1>>}
Neighbour(c, d) == <<c[1] + d[1], c[2] + d[3], c[3] + d[2]>>

\* The square between a cell and its neighbour in a direction.
Between(c, d) ==
    {p \in {<<Unit * c[1] + i, Unit * c[3] + j, Unit * c[2] + k>> :
               i \in {-Half, Half}, j \in {-Half, Half}, k \in {-Half, Half}} :
       \A n \in 1 .. 3 : d[n] # 0 => p[n] = Unit * <<c[1], c[3], c[2]>>[n] + Half * d[n]}

\* ChunkObject::Update over meshtools.cpp: an opaque block shows a square just where it
\* meets the outside or a transparent block, turned to it, and nothing is drawn twice.
SurfaceIsDrawn ==
    phase = "swap" =>
       LET quads == Quads(screen.chunk.vertices)
       IN  /\ 6 * Cardinality(quads) = Len(screen.chunk.vertices)
           /\ \A c \in Places, d \in Directions :
                 BlockAt(blocks, c) \in Opaque =>
                    (([corners |-> Between(c, d), seenFrom |-> d] \in quads)
                       <=> (\/ Neighbour(c, d) \notin Cells
                            \/ BlockIsTransparent(blocks, Neighbour(c, d))))

\* Chunk: a PutBlock changes the cell it names and no other.
OneBlockChanges ==
    [][\A c, d \in Cells : BlockAt(blocks', c) # BlockAt(blocks, c)
                          /\ BlockAt(blocks', d) # BlockAt(blocks, d) => c = d]_sceneVars

Undrawable(c) ==
    \/ BlockAt(blocks, c) \in {"Glass", "Buttercup", "Copper", "Shrub", "PineLog", "PineLeaves"}
    \/ BlockAt(blocks, c) \in Opaque /\ OffY < 0 /\ c[3] = OffY + SizeY - 1

\* The assertions of Update end the program for a type without textures or geometry and,
\* when the layers begin below 0, for an opaque block in the top one, and for nothing
\* else; none of them is drawn.
AbortsForAReason ==
    /\ phase = "aborted" => \E c \in Places : Undrawable(c)
    /\ phase \in {"render", "gui", "swap"} => \A c \in Places : ~Undrawable(c)

Divides(n, m) == m % n = 0
Apart(i, j, a) ==
    \/ PlacedX(i, a) + a.width <= PlacedX(j, a) \/ PlacedX(j, a) + a.width <= PlacedX(i, a)
    \/ PlacedY(i, a) + a.height <= PlacedY(j, a) \/ PlacedY(j, a) + a.height <= PlacedY(i, a)

\* BuildTextureAtlasFromFiles and operator[]: when the width and the height of the images
\* divide the side, all fit, no two overlap, and each is looked up where it is.
AtlasSound ==
    atlas.side > 2 /\ Divides(atlas.width, atlas.side) /\ Divides(atlas.height, atlas.side) =>
       /\ phase # "undefined"
       /\ \A i \in 0 .. atlas.count - 1 :
             /\ FoundX(i, atlas)[1] * atlas.side = PlacedX(i, atlas) * FoundX(i, atlas)[2]
             /\ FoundY(i, atlas)[1] * atlas.side = PlacedY(i, atlas) * FoundY(i, atlas)[2]
             /\ \A j \in 0 .. i - 1 : Apart(i, j, atlas)
================================================================================
