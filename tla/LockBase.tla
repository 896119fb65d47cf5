------------------------------ MODULE LockBase ------------------------------
(***************************************************************************)
(* lock_base (src/lib/impl/lock.c): a binary word with a wait queue, on    *)
(* which mutex_t, rmutex_t and cond_t are built.                           *)
(*                                                                         *)
(* A step is one access to shared memory that another CPU can observe.     *)
(* wait_lock is a spinlock: taking it is joined to the first access made   *)
(* under it and releasing it to the last one, and a section that makes one *)
(* access is one step that is enabled while wait_lock is free.  ps_lock    *)
(* only ever covers one access to the queues.  The atomics of the code are *)
(* sequentially consistent where they pair up, and relaxed loads are       *)
(* followed by a compare-exchange, so memory is sequentially consistent.   *)
(***************************************************************************)
EXTENDS KList, FiniteSets

CONSTANTS Tasks,   \* the tasks that use the lock
          NoTask   \* no task: psid 0 in a holder field, a free spinlock

ASSUME NoTaskAssumption == NoTask \notin Tasks
ASSUME TasksAssumption == IsFiniteSet(Tasks)

VARIABLES lock,      \* 0 = available, 1 = taken
          waiters,   \* registered slow-path acquirers
          wait_list, \* tasks in ps_waiting, linked by sched->ps_list
          wait_lock, \* the task inside the wait_lock section, or NoTask
          pc         \* where each task is in the code of lock.c

lockVars == <<lock, waiters, wait_list, wait_lock>>

Step(t, from, to) == pc[t] = from /\ pc' = [pc EXCEPT ![t] = to]

(* Task t, at label from, runs the compare-exchange 0 -> 1 on the word. *)
TryAcquire(t, from, taken, busy) ==
    \/ lock = 0 /\ lock' = 1 /\ Step(t, from, taken)
    \/ lock # 0 /\ lock' = lock /\ Step(t, from, busy)

(* lock_base_acquire, in the order of its steps. *)
lock_try_acquire(t, from, acquired) ==
    /\ TryAcquire(t, from, acquired, "register")
    /\ UNCHANGED <<waiters, wait_list, wait_lock>>

register(t) ==
    /\ Step(t, "register", "retry")
    /\ waiters' = waiters + 1
    /\ UNCHANGED <<lock, wait_list, wait_lock>>

(* Mutant: a woken waiter takes the word for granted. *)
TakeUnchecked(t) ==
    /\ wait_lock = NoTask
    /\ wait_lock' = t
    /\ Step(t, "retry", "unregister")
    /\ lock' = 1
    /\ UNCHANGED <<waiters, wait_list>>

lock_try_acquire_registered(t) ==
    /\ wait_lock = NoTask
    /\ wait_lock' = t
    /\ TryAcquire(t, "retry", "unregister", "sleep")
    /\ UNCHANGED <<waiters, wait_list>>

unregister(t, acquired) ==
    /\ Step(t, "unregister", acquired)
    /\ waiters' = waiters - 1
    /\ wait_lock' = NoTask
    /\ UNCHANGED <<lock, wait_list>>

ps_put_to_wait_queue(t) ==
    /\ Step(t, "sleep", "asleep")
    /\ wait_list' = list_insert_tail(wait_list, t)
    /\ wait_lock' = NoTask
    /\ UNCHANGED <<lock, waiters>>

(* task_sched returns once a wakeup has moved t to the ready queue. *)
Runnable(t) == t \notin Elems(wait_list)

task_sched(t, resumed) ==
    /\ Runnable(t)
    /\ Step(t, "asleep", resumed)
    /\ UNCHANGED lockVars

(* A wakeup meant for another wait of t: a poll subscription or a deadline  *)
(* that is still armed while t sleeps here makes it ready all the same.     *)
StaleWakeup(t) ==
    /\ ~Runnable(t)
    /\ wait_list' = list_remove_entry(wait_list, t)
    /\ UNCHANGED <<lock, waiters, wait_lock, pc>>

(* lock_wake_one_unsafe: the head of the list becomes ready. *)
lock_wake_one_unsafe ==
    wait_list' = IF wait_list = <<>> THEN wait_list
                 ELSE list_remove_entry(wait_list, Head(wait_list))

(* lock_base_release: store 0, load waiters, and wake one if any. *)
lock_store(t, from) ==
    /\ Step(t, from, "load")
    /\ lock' = 0
    /\ UNCHANGED <<waiters, wait_list, wait_lock>>

(* Mutant: the releaser looks at the queue instead of the count. *)
LoadQueue(t, released) ==
    /\ \/ wait_list = <<>> /\ Step(t, "load", released)
       \/ wait_list # <<>> /\ Step(t, "load", "wake")
    /\ UNCHANGED lockVars

lock_load_waiters(t, released) ==
    /\ \/ waiters = 0 /\ Step(t, "load", released)
       \/ waiters # 0 /\ Step(t, "load", "wake")
    /\ UNCHANGED lockVars

lock_wake(t, released) ==
    /\ wait_lock = NoTask
    /\ Step(t, "wake", released)
    /\ lock_wake_one_unsafe
    /\ UNCHANGED <<lock, waiters, wait_lock>>

lock_init(initstat) ==
    /\ lock = initstat
    /\ waiters = 0
    /\ wait_list = <<>>
    /\ wait_lock = NoTask

-----------------------------------------------------------------------------
(* What the users of lock_base share in their properties. *)

(* Registered acquirers: they count in waiters, woken or not. *)
Registered ==
    {t \in Tasks : pc[t] \in {"retry", "unregister", "sleep", "asleep", "abandon"}}

(* Releasers that have freed the word and have yet to look for a waiter. *)
Releasing == {t \in Tasks : pc[t] \in {"load", "wake"}}

(* Awake waiters that will look at the word again: to take it or, when a    *)
(* cond_wait was interrupted, to hand the wakeup on.                        *)
Retrying ==
    {t \in Tasks : \/ pc[t] \in {"retry", "abandon", "handon"}
                   \/ pc[t] = "asleep" /\ Runnable(t)}

(* lock_base_release clears the word outside wait_lock and wakes only when  *)
(* it sees a registered waiter, and the waiter it picks may be leaving on a *)
(* signal.  Still, a task never sleeps while the word is free unless a      *)
(* releaser is on its way to wake, or an awake waiter to take the word or   *)
(* to hand the wakeup on.                                                   *)
NoLostWakeup ==
    lock = 0 /\ wait_list # <<>> => Releasing # {} \/ Retrying # {}

LockTypeOK ==
    /\ lock \in {0, 1}
    /\ waiters \in Nat
    /\ wait_list \in Seq(Tasks)
    /\ wait_lock \in Tasks \cup {NoTask}

(* The inductive form of NoLostWakeup: waiters counts the registered tasks, *)
(* only sleepers are queued, once each, the holder of wait_lock is inside   *)
(* its section, and a task that is about to queue on a free word has a      *)
(* releaser behind it that cannot pass before it is queued.                 *)
InSection == {"unregister", "sleep", "handon"}

LockInv ==
    /\ LockTypeOK
    /\ pc = [t \in Tasks |-> pc[t]]
    /\ waiters = Cardinality(Registered)
    /\ Distinct(wait_list)
    /\ \A t \in Elems(wait_list) : pc[t] = "asleep"
    /\ \A t \in Tasks : wait_lock = t <=> pc[t] \in InSection
    /\ lock = 0 /\ (\E t \in Tasks : pc[t] = "sleep") => Releasing # {}
    /\ NoLostWakeup
=============================================================================
