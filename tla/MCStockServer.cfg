CONSTANTS
    Main = Main
    NoThread = NoThread
    Empty = Empty
    Mixed = Mixed
    NoId = NoId
    NoReq = NoReq
    w1 = w1
    w2 = w2
    h1 = h1
    s1 = s1
    s2 = s2
    Workers = {w1, w2}
    Handlers = {h1}
    MayAllocate = {Main, w1, w2}
    Order <- MCOrder
    Amounts = {1}
    IntMax = 2
    Initial <- MCInitial
    OrdersPerClient = 1
SPECIFICATION FairSpec
INVARIANTS SavedAfterSignal
PROPERTIES InterruptEndsUnlessAllocating
CHECK_DEADLOCK FALSE
