SPECIFICATION FutexFairSpec
CONSTANTS
    t1 = t1
    t2 = t2
    t3 = t3
    w1 = w1
    Idle = Idle
    NCPU = 2
    MaxCount = 2
    Tasks <- MCTasks
    Words <- MCWords
    Calls <- MCCalls
    Signalled <- MCSignalled
INVARIANTS NoLostWakeup
PROPERTIES WaiterReturns WaitEnds
