\* Two or three calls over layers whose markers sort first.
SPECIFICATION Spec
CONSTANTS
    Root = "/"
    Path <- LatePaths
    Dir <- MCDir
    Anc <- MCAnc
    Opaque <- MCOpaque
    WhiteoutOf <- MCWhiteoutOf
    WalkOrder <- MCWalkOrder
    QueueOrder <- MCQueueOrder
    Layers <- LateLayers
    Calls <- LateCalls
    NoCopy = NoCopy
    MaxGen = 3
    MaxOps = 3
INVARIANTS TypeOK LiveIffRegistered TreeLinked
PROPERTIES SameLayerKept OverlayPromise
CHECK_DEADLOCK FALSE
