CONSTANTS
    MaxHeap = 160
    Chunk = 64
    BigBlock = 32
    BigRest = 24
    MaxOps = 6
    MaxReplayed = 4
    Runs = 2
    Ids <- MCIds
    Sizes <- MCSizes
    NewSizes <- MCNewSizes
    Word = 8
    kbest = 2
    maxsamples = 4
    epsilon = 10
    Starts <- MCStarts
    Cycles <- MCCycles
    Second = 10
    Indices = {0, 1, 2}
    MaxNumber = 4
    MaxTrace = 4
SPECIFICATION Spec
INVARIANTS PayloadsIntact HeapIsConsistent ReplayAgrees UtilIsARatio TimersMeasure TracesFit
PROPERTIES LosesOnlyWhenMoving
