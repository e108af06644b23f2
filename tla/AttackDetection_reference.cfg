SPECIFICATION Spec
CONSTANTS
    Protocols = {tcp}
    FrameSizes = {short}
    None = None
    LearningIntervals = 1
    ExceedThreshold = 1
    HistoryLength = 3
INVARIANT ReferenceIsNormal
