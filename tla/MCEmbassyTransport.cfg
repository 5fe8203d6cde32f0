SPECIFICATION Spec
CONSTANTS
    RX = 3
    ResponseSize = 2
    MaxSize = 4
    MaxControl = 2
    MaxFrames = 3
    MaxSends = 1
INVARIANTS
    BufferAligned
    FittingFramesAreRead
PROPERTIES
    ImplementsStream
CHECK_DEADLOCK FALSE
