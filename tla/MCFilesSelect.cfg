SPECIFICATION Spec
CONSTANTS
    t1 = t1
    t2 = t2
    t3 = t3
    f1 = f1
    f2 = f2
    e1 = e1
    p1 = p1
    p2 = p2
    o1 = o1
    o2 = o2
    tm = tm
    NoFile = NoFile
    Owners = {p1, p2}
    OpenFiles = {o1, o2}
    INT64_MAX = 3
    Group <- MCGroup
    NoTask = NoTask
    NoCall = NoCall
    EVENTFD_MAX = 2
    Semaphores = {f2}
    Eventfds = {f1, f2}
    Timerfds = {tm}
    UINT64_MAX = 3
    MaxSets = 1
    Epolls = {e1}
    Tasks <- MCTasks
    Programs <- SelectPrograms
INVARIANT SubscriptionsTemporary
