------------------------------- MODULE Files -------------------------------
(***************************************************************************)
(* Files under concurrent system calls: readiness (Readiness) and advisory *)
(* locks (FileLocks).  They share the tasks, which sleep in one call at a  *)
(* time, and the clock and the signals that end a sleep.                   *)
(***************************************************************************)
EXTENDS Readiness, FileLocks

CONSTANTS Programs  \* per program and task: the calls the task may make

ASSUME ProgramsAssumption == \A p \in Programs : \A t \in Tasks : \A c \in p[t] : LegalCall(c)

VARIABLES program   \* the program that runs

vars == <<pc, call, taskVars, readinessVars, lockVars, program>>

Init ==
    /\ TaskInit /\ ReadinessInit /\ LocksInit
    /\ program \in Programs

Start(t) ==
    Settled(t) /\ \E c \in program[t] :
        \/ ReadinessCall(t, c) /\ UNCHANGED lockVars
        \/ LockCall(t, c) /\ UNCHANGED readinessVars

Proceed(t) ==
    \/ ReadinessStep(t) /\ UNCHANGED lockVars
    \/ [op |-> "service"] \in program[t] /\ system_service(t) /\ UNCHANGED lockVars
    \/ LockStep(t) /\ UNCHANGED readinessVars

Clock(t) == (ps_fire_timers(t) \/ expire(t)) /\ UNCHANGED <<readinessVars, lockVars>>

Signal(t) ==
    /\ [op |-> "signal"] \in program[t]
    /\ LockSignal(t)
    /\ UNCHANGED readinessVars

Time ==
    /\ tick
    /\ UNCHANGED <<pc, call, taskVars, fileVars, pollVars, sub, scan, counter, timer, epollVars,
                   lockVars>>

Next ==
    /\ (\E t \in Tasks : Start(t) \/ Proceed(t) \/ Clock(t) \/ Signal(t)) \/ Time
    /\ UNCHANGED program

(* A task inside a call keeps running: the spinlocks and epoll_mutex, which *)
(* are free again and again, are taken at last, deadlines are met, and the  *)
(* service task goes on ticking.  Nothing has to make a call or send a      *)
(* signal, and no time has to pass.                                         *)
Fairness ==
    \A t \in Tasks : /\ SF_vars(Proceed(t) /\ UNCHANGED program)
                     /\ WF_vars(Clock(t) /\ UNCHANGED program)

Spec == Init /\ [][Next]_vars /\ Fairness

-----------------------------------------------------------------------------
InCall(t) == pc[t] # "user" \/ ~Settled(t)

CanReturn(t) ==
    \/ call[t] = NoCall
    \/ t \in signals
    \/ call[t].op \in LockOps /\ LockReturns(t)
    \/ call[t].op \notin LockOps /\ ReadinessReturns(t)

(* A call that can return does: none stays in the kernel for ever while     *)
(* what it waits for is there, its deadline has passed or a signal is       *)
(* pending, and no task is stuck behind a lock.                             *)
CallReturns == \A t \in Tasks : ~<>[](InCall(t) /\ CanReturn(t))
=============================================================================
