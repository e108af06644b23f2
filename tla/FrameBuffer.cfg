SPECIFICATION Spec
CONSTANTS
    Sizes = {1, 3}
    MaxPackets = 1
    MaxBytes = 0
    LastFrame = 4
INVARIANTS
    FramesCounted
    FramesInOrder
PROPERTIES
    QueuedIsDelivered
    ShutdownEnds
CHECK_DEADLOCK FALSE
