------------------------------ MODULE MCRwLock ------------------------------
EXTENDS RwLock

CONSTANTS t1, t2, t3, t4

MCTasks == {t1, t2, t3, t4}
=============================================================================
