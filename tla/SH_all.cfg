SPECIFICATION Spec
CONSTANTS
    Shapes <- MCShapes
    Standings <- MCStandings
    LowerOps <- MCLowerOps
    BuildOps <- MCBuildOps
    MaxNodes = 2
    MaxSeqLen = 7
    Written <- MCWritten
    MIN_IOSURFACE_BYTES = 8
    ElementSize = 2
CHECK_DEADLOCK FALSE
INVARIANTS
    LoweredShapesAreTrue
    EmittedShapesAreTrue
