------------------------------- MODULE MCCond -------------------------------
EXTENDS Cond

CONSTANTS t1, t2, t3

MCTasks == {t1, t2, t3}
=============================================================================
