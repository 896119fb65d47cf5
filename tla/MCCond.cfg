SPECIFICATION FairSpec
CONSTANTS
    t1 = t1
    t2 = t2
    t3 = t3
    NoTask = NoTask
    Tasks <- MCTasks
INVARIANT NoLostWakeup
PROPERTIES ImplementsAbsCond SignalEndsWait
