------------------------------- MODULE MC_Scene --------------------------------
(* A chunk of 2 x 2 x 3 blocks whose lowest layer is -1; the blocks put are in   *)
(* five of its cells, one in the top layer.                                    *)
EXTENDS Scene

MCSizes == {<<16, 16>>, <<16, 32>>, <<8, 64>>, <<24, 24>>, <<32, 1>>, <<1, 1>>}
MCTypes == {"Air", "Stone", "Grass", "Water", "Rose", "Torch", "Glass", "Copper"}
MCPlaces == {<<0, 0, -1>>, <<0, 0, 0>>, <<1, 0, 0>>, <<0, 1, 0>>, <<1, 0, 1>>}
MCNames == {"dirt", "missing"}
MCFaces == {1, 2}
MCPositions == {<<0, 0, 0>>, <<1, 2, -1>>}
MCRotations == {<<0, 0, 0>>, <<1, 0, 0>>, <<3, 2, 1>>}
MCOff == -1
================================================================================
