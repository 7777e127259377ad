CONSTANTS
    Nil = Nil
    NoId = NoId
    NoReq = NoReq
    t1 = t1
    t2 = t2
    s1 = s1
    s2 = s2
    s3 = s3
    s9 = s9
    Threads = {t1, t2}
    Stocks <- MCStocks
    Root = s1
    LeftOf <- ForkLeft
    RightOf <- ForkRight
    Order <- MCOrder
    UnknownIds = {s9}
    Amounts = {1, 2}
    IntMax = 2
    Initial <- MCInitial
    OrdersPerClient = 2
SPECIFICATION FairSpec
INVARIANTS PathIsSnapshot
PROPERTIES ImplementsLedger EveryRequestAnswered
