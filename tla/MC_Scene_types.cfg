SPECIFICATION SceneSpec
CONSTANTS
    SizeX = 2
    SizeZ = 2
    SizeY = 3
    OffY <- MCOff
    Sizes <- MCSizes
    Types <- MCTypes
    Places <- MCPlaces
    Names <- MCNames
    Faces <- MCFaces
    Positions <- MCPositions
    Rotations <- MCRotations
    Aspect = 2
    Near = 1
    Far = 3
    MouseClamp = 1
    CameraClamp = 2
    MaxCalls = 2
INVARIANT SceneTypeOK
CHECK_DEADLOCK FALSE
