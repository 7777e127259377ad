CONSTANTS
    Listen = 3
    NoFd = 0
    c1 = c1
    c2 = c2
    c3 = c3
    Conns = {c1, c2, c3}
    Fds = {4, 5}
    FdSetSize = 2
    Pieces = {"req", "blank", "exit", "half"}
    Pipelined = FALSE
    MaxWrites = 3
SPECIFICATION FairSpec
INVARIANTS ScanIsExact NoLineLost
PROPERTIES AnsweredUnlessStalled
