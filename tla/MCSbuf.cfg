CONSTANTS
    Main = Main
    NoFd = NoFd
    w1 = w1
    w2 = w2
    w3 = w3
    f1 = f1
    f2 = f2
    f3 = f3
    f4 = f4
    Workers <- MCThreeWorkers
    Fds <- MCFds
    N = 2
    MaxAccepts = 6
SPECIFICATION FairSpec
INVARIANTS NoOverwrite OneHolder
PROPERTIES RefinesConnQueue AcceptedIsServed
