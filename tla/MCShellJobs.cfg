CONSTANTS
    Procs = {1, 2}
    Jobs = {1, 2, 3}
    Commands = {"bg", "pipe", "fg", "bgjob", "kill"}
    StackMasks <- MCStackMasks
    MaxKeys = 1
SPECIFICATION FairSpec
INVARIANTS NoZombieForgotten WalkIsSafe
PROPERTIES RemovedOnlyWhenReaped PromptReturns
