---------------------------- MODULE MCThreadGroup ----------------------------
EXTENDS ThreadGroup, TLC

CONSTANTS t1, t2, t3, w1

MCTasks == {t1, t2, t3}
MCWords == {w1}
MCCalls == t1 :> {"clone", "exec"}
           @@ t2 :> {"sem_timedwait", "fault", "exit"}
           @@ t3 :> {"exit_group"}
MCSignalled == {t1}
=============================================================================
