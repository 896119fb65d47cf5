SPECIFICATION FairSpec
CONSTANTS
    t1 = t1
    t2 = t2
    t3 = t3
    w1 = w1
    Idle = Idle
    NoTask = NoTask
    Main = t1
    NCPU = 2
    MaxCount = 1
    Tasks <- MCTasks
    Words <- MCWords
    Calls <- MCCalls
    Signalled <- MCSignalled
INVARIANTS QueuesHoldSleepers FreedUnused SiblingsStopped NoLostChild
PROPERTIES TeardownEnds ReaperAwake
