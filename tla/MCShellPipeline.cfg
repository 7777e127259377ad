CONSTANTS
    Words <- MCWords
    TypedWords <- SomeWords
    MaxTyped = 6
    MAX_PIPELINE = 3
    Commands <- SomeCommands
    PipeSize = 2
    MaxLines = 3
    MaxFd = 10
SPECIFICATION FairSpec
INVARIANTS EndOfFileComes StageReadsPrevious PromptIsTheTerminals LinesAreUnderstood
PROPERTIES PromptReturns
