CONSTANTS
    t1 = t1
    t2 = t2
    t3 = t3
    s1 = s1
    s2 = s2
    s9 = s9
    NoId = NoId
    NoReq = NoReq
    Threads <- MCThree
    Order <- MCOrder
    UnknownIds = {s9}
    Amounts <- MCSignedAmounts
    IntMax = 2
    Initial <- MCInitial
    OrdersPerClient = 1
SPECIFICATION FairSpec
INVARIANTS ReadersExcludeWriters IdleStockIsUnlocked
PROPERTIES EveryRequestAnswered ImplementsLedger
