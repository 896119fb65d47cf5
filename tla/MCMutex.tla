------------------------------- MODULE MCMutex -------------------------------
EXTENDS Mutex

CONSTANTS t1, t2, t3, t4

MCTasks == {t1, t2, t3, t4}
=============================================================================
