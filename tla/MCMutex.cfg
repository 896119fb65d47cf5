SPECIFICATION FairSpec
CONSTANTS
    t1 = t1
    t2 = t2
    t3 = t3
    t4 = t4
    NoTask = NoTask
    MaxDepth = 2
    Tasks <- MCTasks
INVARIANTS Exclusion NoLostWakeup
PROPERTIES HandedOut ImplementsAbsMutex
