CONSTANTS
    m1 = m1
    m2 = m2
    u1 = u1
    u2 = u2
    MAXLINE = 3
    RIO_BUFSIZE = 3
    Capacity = 2
    Children <- MCChildren
    Users = {u1, u2}
    Inputs <- MCInputs
    ORDER_PER_CLIENT = 2
    LISTENQ = 1
SPECIFICATION FairSpec
INVARIANTS AnswersInStep ReportIsWhole
PROPERTIES EveryClientEnds
