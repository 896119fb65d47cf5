------------------------------- MODULE Futex -------------------------------
(***************************************************************************)
(* FUTEX_WAIT and FUTEX_WAKE (src/ps/impl/ps_futex.c) by threads that run  *)
(* the semaphore of a C library on each word: a thread that finds the      *)
(* count at zero waits on the word for the value 0 and looks again when    *)
(* the call returns 0 or EAGAIN; it gives up on EINTR and ETIMEDOUT.  One  *)
(* that adds to the count wakes one waiter.                                *)
(*                                                                         *)
(* A step is one section under ps_lock or one access outside it.  The      *)
(* waiter records are a set: which of the matching ones is woken is left   *)
(* open, so that nothing below rests on their order.  A key is the word    *)
(* itself and every bitset matches.                                        *)
(***************************************************************************)
EXTENDS Sched

CONSTANTS Words,     \* futex words
          Calls,     \* for each task, the names of the calls it may make
          Signalled, \* the tasks that receive signals
          MaxCount   \* bound on the count of a semaphore

ASSUME MaxCountAssumption == MaxCount \in Nat

VARIABLES word,           \* the futex words, in user memory
          futex_waiters,  \* the tasks whose waiter record is linked
          woken,          \* the tasks whose waiter record says woken
          deadline,       \* of a wait: "none", "future" or "past"
          signals,        \* the tasks with an interrupting signal
          uaddr,          \* the word a task waits on or posts
          pc              \* where each task is

futexVars == <<word, futex_waiters, woken, deadline, signals, uaddr>>

(* Task t runs on a CPU at label from, and goes on at label to. *)
Step(t, from, to) ==
    /\ t \in on_cpu
    /\ pc[t] = from
    /\ pc' = [pc EXCEPT ![t] = to]

(* Return from futex_execute to user mode, where signals are handled. *)
Return(t, from, to) ==
    /\ Step(t, from, to)
    /\ deadline' = [deadline EXCEPT ![t] = "none"]
    /\ signals' = signals \ {t}

GoOn(t, from, to) ==
    /\ Step(t, from, to)
    /\ UNCHANGED <<deadline, signals>>

(* smp_check_stop lets t into the kernel. *)
Admitted(t) == t \notin terminate_requested

-----------------------------------------------------------------------------
(* The semaphore, in user mode. *)

sem_wait(t, w) ==
    /\ Calls[t] \cap {"sem_wait", "sem_timedwait"} # {}
    /\ Step(t, "user", "down")
    /\ uaddr' = [uaddr EXCEPT ![t] = w]
    /\ UNCHANGED <<schedVars, word, futex_waiters, woken, deadline, signals>>

sem_take(t) ==
    /\ word[uaddr[t]] > 0
    /\ Step(t, "down", "user")
    /\ word' = [word EXCEPT ![uaddr[t]] = @ - 1]
    /\ UNCHANGED <<schedVars, futex_waiters, woken, deadline, signals, uaddr>>

sem_post(t, w) ==
    /\ "sem_post" \in Calls[t]
    /\ word[w] < MaxCount
    /\ Step(t, "user", "wake")
    /\ word' = [word EXCEPT ![w] = @ + 1]
    /\ uaddr' = [uaddr EXCEPT ![t] = w]
    /\ UNCHANGED <<schedVars, futex_waiters, woken, deadline, signals>>

-----------------------------------------------------------------------------
(* futex_execute, FUTEX_WAIT. *)

(* The unlocked test of the word and the deadline of the call; a word that  *)
(* has changed gives EAGAIN, and sem_wait looks again.                      *)
futex_wait(t, d) ==
    /\ Admitted(t)
    /\ d = "none" => "sem_wait" \in Calls[t]
    /\ d = "future" => "sem_timedwait" \in Calls[t]
    /\ word[uaddr[t]] = 0
    /\ Step(t, "down", "again")
    /\ deadline' = [deadline EXCEPT ![t] = d]
    /\ UNCHANGED <<schedVars, word, futex_waiters, woken, signals, uaddr>>

(* wait_again. *)
wait_again(t) ==
    /\ IF deadline[t] = "past" THEN Return(t, "again", "user")
       ELSE GoOn(t, "again", "queue")
    /\ UNCHANGED <<schedVars, word, futex_waiters, woken, uaddr>>

wait_return(t) ==
    /\ IF word[uaddr[t]] # 0 THEN Return(t, "queue", "down")
       ELSE t \in signals /\ Return(t, "queue", "user")
    /\ UNCHANGED <<schedVars, word, futex_waiters, woken, uaddr>>

(* The task queues its record, arms its deadline and stops running.         *)
Queue(t, timed) ==
    /\ Step(t, "queue", "sched")
    /\ futex_waiters' = futex_waiters \cup {t}
    /\ woken' = woken \ {t}
    /\ ps_put_to_wait_queue_unsafe(t, timed, TRUE)
    /\ UNCHANGED <<on_cpu, terminate_requested, in_vm, word, deadline, signals, uaddr>>

(* Mutants: the word, or the signals, are not tested under ps_lock.         *)
QueueUntested(t) == t \notin signals /\ Queue(t, deadline[t] # "none")
QueueDeaf(t) == word[uaddr[t]] = 0 /\ Queue(t, deadline[t] # "none")

wait_queue(t) ==
    word[uaddr[t]] = 0 /\ t \notin signals /\ Queue(t, deadline[t] # "none")

(* Back from task_sched, with or without a wakeup. *)
Resume(t, ok) ==
    /\ IF ok THEN Return(t, "resume", "down") ELSE GoOn(t, "resume", "unwoken")
    /\ futex_waiters' = IF t \in woken THEN futex_waiters ELSE futex_waiters \ {t}
    /\ timer_disarm_unsafe(t)
    /\ woken' = woken \ {t}
    /\ UNCHANGED <<status, on_cpu, wait_interruptible, terminate_requested,
                   in_vm, word, uaddr>>

(* Mutant: an interrupted waiter does not look whether it was woken. *)
ResumeSignalFirst(t) == Resume(t, t \in woken \ signals)

wait_resume(t) == Resume(t, t \in woken)

(* Not woken: without a signal or a timeout, wait again. *)
wait_unwoken(t) ==
    /\ IF t \in signals \/ deadline[t] = "past" THEN Return(t, "unwoken", "user")
       ELSE GoOn(t, "unwoken", "again")
    /\ UNCHANGED <<schedVars, word, futex_waiters, woken, uaddr>>

-----------------------------------------------------------------------------
(* futex_execute, FUTEX_WAKE. *)

Waiters(w) == {t \in futex_waiters : uaddr[t] = w}

(* At most max of the waiters on w become ready. *)
futex_wake_mask_unsafe(w, max) ==
    \E S \in SUBSET Waiters(w) :
        /\ Cardinality(S) = max \/ (Cardinality(S) < max /\ S = Waiters(w))
        /\ futex_waiters' = futex_waiters \ S
        /\ woken' = woken \cup S
        /\ ps_put_to_ready_queue_unsafe(S)

futex_wake(t) ==
    /\ Admitted(t)
    /\ Return(t, "wake", "user")
    /\ futex_wake_mask_unsafe(uaddr[t], 1)
    /\ UNCHANGED <<on_cpu, timer_queue, terminate_requested, in_vm, word,
                   uaddr>>

-----------------------------------------------------------------------------
(* The rest of the kernel. *)

(* Where a task goes on that has called task_sched; being preempted before  *)
(* the call only adds a turn.                                               *)
Resumed(l) ==
    IF l = "sched" THEN "resume" ELSE IF l = "kill_sched" THEN "kill_wake" ELSE l

schedule(p, n, F) ==
    /\ task_sched(p, n, F)
    /\ pc' = [t \in Tasks |-> IF t = p THEN Resumed(pc[t]) ELSE pc[t]]
    /\ UNCHANGED futexVars

(* ps_queue_signal_unsafe with wake_signal_target. *)
queue_signal(t, cont) ==
    /\ t \in Signalled
    /\ signals' = signals \cup {t}
    /\ IF \/ status[t] = "waiting" /\ t \in wait_interruptible
          \/ status[t] = "stopped" /\ cont
       THEN ps_put_to_ready_queue_unsafe({t})
       ELSE UNCHANGED <<status, wait_interruptible>>
    /\ UNCHANGED <<on_cpu, timer_queue, terminate_requested, in_vm, word,
                   futex_waiters, woken, deadline, uaddr, pc>>

(* The clock passes the deadline of a call. *)
expire(t) ==
    /\ deadline[t] = "future"
    /\ deadline' = [deadline EXCEPT ![t] = "past"]
    /\ UNCHANGED <<schedVars, word, futex_waiters, woken, signals, uaddr, pc>>

-----------------------------------------------------------------------------
Labels == {"user", "down", "again", "queue", "sched", "resume", "unwoken", "wake"}

(* In the kernel; a signal that finds its task in user mode is handled at   *)
(* once.                                                                    *)
InFutex(t) == pc[t] \in {"again", "queue", "sched", "resume", "unwoken"}

(* Between wait_queue and wait_resume. *)
Waiting(t) == pc[t] \in {"sched", "resume"}

vars == <<schedVars, futexVars, pc>>

FutexVarsInit ==
    /\ on_cpu = {} /\ timer_queue = {} /\ wait_interruptible = {}
    /\ terminate_requested = {} /\ in_vm = {}
    /\ word = [w \in Words |-> 0]
    /\ futex_waiters = {} /\ woken = {} /\ signals = {}
    /\ deadline = [t \in Tasks |-> "none"]
    /\ uaddr \in [Tasks -> Words]

FutexInit ==
    /\ FutexVarsInit
    /\ status = [t \in Tasks |-> "ready"]
    /\ pc = [t \in Tasks |-> "user"]

(* What t does on its own once it has begun. *)
Proceed(t) ==
    \/ sem_take(t) \/ \E d \in {"none", "future"} : futex_wait(t, d)
    \/ wait_again(t) \/ wait_return(t) \/ wait_queue(t)
    \/ wait_resume(t) \/ wait_unwoken(t) \/ futex_wake(t)

Begin(t) == \E w \in Words : sem_wait(t, w) \/ sem_post(t, w)

Schedule ==
    \E p \in on_cpu \cup {Idle}, n \in Tasks \cup {Idle} : \E F \in SUBSET timer_queue : schedule(p, n, F)

FutexNext ==
    \/ \E t \in Tasks : \/ Begin(t) \/ Proceed(t)
                        \/ expire(t)
                        \/ InFutex(t) /\ queue_signal(t, FALSE)
    \/ Schedule

FutexSpec == FutexInit /\ [][FutexNext]_vars

(* The scheduler's turn reaches every task that is ready, since a picked    *)
(* task goes to the tail of its queue and the timer interrupt preempts; it  *)
(* fires every deadline, since each decision looks at the tree; and a task  *)
(* that keeps getting a CPU executes.  Time passes.                         *)
Dispatch(t) == t \notin on_cpu /\ \E p \in on_cpu \cup {Idle} : schedule(p, t, {})
Fire(t) ==
    /\ t \in timer_queue
    /\ \E p \in on_cpu \cup {Idle}, n \in Tasks \cup {Idle} : schedule(p, n, {t})
Yield(t) == Waiting(t) /\ \E n \in Tasks \cup {Idle} : schedule(t, n, {})

Running(t) ==
    /\ WF_vars(Dispatch(t))
    /\ WF_vars(Fire(t))
    /\ WF_vars(Yield(t))
    /\ SF_vars(Proceed(t))
    /\ WF_vars(expire(t))

FutexFairSpec == FutexSpec /\ \A t \in Tasks : Running(t)

-----------------------------------------------------------------------------
(* The type of the variables other than pc, which ThreadGroup extends.      *)
FutexVarsTypeOK ==
    /\ SchedTypeOK
    /\ word \in [Words -> 0..MaxCount]
    /\ futex_waiters \subseteq Tasks
    /\ woken \subseteq Tasks
    /\ deadline \in [Tasks -> {"none", "future", "past"}]
    /\ signals \subseteq Tasks
    /\ uaddr \in [Tasks -> Words]

(* Tasks that are about to wake a waiter on w, or to look at w again.       *)
Attending(w) ==
    {t \in Tasks : /\ uaddr[t] = w
                   /\ \/ pc[t] \in {"wake", "down"}
                      \/ Waiting(t) /\ t \in woken}

(* FUTEX_WAIT tests the word under ps_lock and FUTEX_WAKE hands its wakeup  *)
(* to one waiter, which may be leaving on a signal or a deadline at that    *)
(* moment.  Still, a count is never left behind sleeping waiters: somebody  *)
(* is about to wake one, or to look at the word, for every unit of it.      *)
NoLostWakeup ==
    \A w \in Words : Waiters(w) # {} => word[w] <= Cardinality(Attending(w))

(* A waiter does not sleep for ever while the count is above zero. *)
WaiterReturns ==
    \A t \in Tasks : []<>(~Waiting(t) \/ word[uaddr[t]] = 0)

(* A deadline and a signal end a wait, whenever they arrive during the call *)
(* and whatever wakeups it gets meanwhile.                                  *)
WaitEnds ==
    \A t \in Tasks : InFutex(t) /\ (deadline[t] # "none" \/ t \in signals) ~> ~InFutex(t)
=============================================================================
