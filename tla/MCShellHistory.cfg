CONSTANTS
    Lines <- SomeLines
    Exit <- WordExit
    Files <- SomeFiles
    BufSize = 14
    MaxHistory = 4
SPECIFICATION Spec
INVARIANTS FileIsHistory ExpansionIsMeant
