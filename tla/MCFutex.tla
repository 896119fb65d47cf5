------------------------------- MODULE MCFutex -------------------------------
EXTENDS Futex, TLC

CONSTANTS t1, t2, t3, w1

MCTasks == {t1, t2, t3}
MCWords == {w1}
MCCalls == t1 :> {"sem_wait", "sem_timedwait"} @@ t2 :> {"sem_wait"} @@ t3 :> {"sem_post"}
MCSignalled == {t1}
=============================================================================
