------------------------------ MODULE TaskWait ------------------------------
(***************************************************************************)
(* A task that sleeps in a system call (src/ps/impl/alg/ps_alg_rr.c and    *)
(* ps_signal.c): its scheduler status, its deadline and the signals that   *)
(* may interrupt it.  Each operation is one section under ps_lock, and so  *)
(* part of one step.  Sched models the CPUs and the switch; here a task    *)
(* that is not waiting may take its next step at any moment.               *)
(***************************************************************************)
EXTENDS Naturals, FiniteSets

CONSTANTS Tasks,  \* the tasks that make system calls
          NoCall  \* no call, file or interest

VARIABLES pc,                 \* where each task is
          call,               \* the system call each task is in
          status,             \* sched->status: "running" or "waiting"
          wait_interruptible, \* the tasks a signal may wake
          timer_queue,        \* the tasks with an armed deadline
          deadline,           \* of a call: "none", "future" or "past"
          signals             \* the tasks with an interrupting signal

schedVars == <<status, wait_interruptible, timer_queue>>
taskVars == <<schedVars, deadline, signals>>

Step(t, from, to) == pc[t] = from /\ pc' = [pc EXCEPT ![t] = to]

(* ps_put_to_ready_queue for the tasks of S: a task that does not wait is   *)
(* left alone.                                                              *)
ps_put_to_ready_queue(S) ==
    /\ status' = [t \in Tasks |-> IF t \in S THEN "running" ELSE status[t]]
    /\ wait_interruptible' = wait_interruptible \ S

(* ps_prepare_interruptible_wait, once no signal is pending. *)
ps_prepare_interruptible_wait(t, timed) ==
    /\ t \notin signals
    /\ status' = [status EXCEPT ![t] = "waiting"]
    /\ wait_interruptible' = wait_interruptible \cup {t}
    /\ timer_queue' = IF timed THEN timer_queue \cup {t} ELSE timer_queue

ps_finish_timed_wait(t) == timer_queue' = timer_queue \ {t}

-----------------------------------------------------------------------------
(* The rest of the kernel. *)

(* ps_fire_timers_unsafe: a deadline that has passed wakes its task.        *)
ps_fire_timers(t) ==
    /\ t \in timer_queue
    /\ deadline[t] = "past"
    /\ timer_queue' = timer_queue \ {t}
    /\ ps_put_to_ready_queue({t})
    /\ UNCHANGED <<pc, call, deadline, signals>>

(* The clock passes the deadline of a call. *)
expire(t) ==
    /\ deadline[t] = "future"
    /\ deadline' = [deadline EXCEPT ![t] = "past"]
    /\ UNCHANGED <<pc, call, schedVars, signals>>

(* ps_queue_signal_unsafe with wake_signal_target.  A signal that finds its *)
(* task in user mode is handled at once.                                    *)
queue_signal(t) ==
    /\ pc[t] # "user"
    /\ signals' = signals \cup {t}
    /\ ps_put_to_ready_queue(IF t \in wait_interruptible THEN {t} ELSE {})
    /\ UNCHANGED <<pc, call, timer_queue, deadline>>

(* Return to user mode, where signals are handled. *)
ReturnToUser(t) ==
    /\ pc' = [pc EXCEPT ![t] = "user"]
    /\ call' = [call EXCEPT ![t] = NoCall]
    /\ deadline' = [deadline EXCEPT ![t] = "none"]
    /\ signals' = signals \ {t}

TaskInit ==
    /\ pc = [t \in Tasks |-> "user"]
    /\ call = [t \in Tasks |-> NoCall]
    /\ status = [t \in Tasks |-> "running"]
    /\ wait_interruptible = {} /\ timer_queue = {} /\ signals = {}
    /\ deadline = [t \in Tasks |-> "none"]
=============================================================================
