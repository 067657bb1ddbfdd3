SPECIFICATION ResolveSpec
CONSTANTS
    Trees <- StraightTrees
    Paths <- MCPaths
    MaxLinks = 4
    WalkSteps = 40
INVARIANTS AgreesWithWalk CurPathTracks
PROPERTY Resolves
CHECK_DEADLOCK FALSE
