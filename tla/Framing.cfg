\* An ordinary node, the one with the largest id, and one that is refused.
CONSTANTS
    NodeIds = {3, 998, 999}
    Messages = 3
    CutSets <- MCCutSets
SPECIFICATION Spec
INVARIANT FramesIntact
PROPERTY ImplementsAtomicRead
PROPERTY RecoversAtBoundary
CHECK_DEADLOCK FALSE
