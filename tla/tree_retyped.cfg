\* Four layers in which a directory becomes a file and is deleted.
SPECIFICATION Spec
CONSTANTS
    Root = "/"
    Path <- RetypedPaths
    Dir <- MCDir
    Anc <- MCAnc
    Opaque <- MCOpaque
    WhiteoutOf <- MCWhiteoutOf
    WalkOrder <- MCWalkOrder
    QueueOrder <- MCQueueOrder
    Layers <- RetypedLayers
    Calls <- NoCalls
    NoCopy = NoCopy
    MaxGen = 3
    MaxOps = 4
INVARIANT CopyComplete
CHECK_DEADLOCK FALSE
