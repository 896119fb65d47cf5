-------------------------------- MODULE Cond --------------------------------
(***************************************************************************)
(* cond_t (src/lib/impl/lock.c): an auto-reset event on lock_base.  The    *)
(* word is 0 when the event has fired; cond_wait consumes it.  Every idle  *)
(* task may wait, interruptibly or not, notify or reset, and signals come  *)
(* and go at any time.                                                     *)
(***************************************************************************)
EXTENDS LockBase

VARIABLES interruptible, \* the flag each task passed to cond_wait
          signalled      \* ps_interrupting_signals: a deliverable signal pends

sigVars == <<interruptible, signalled>>
vars == <<lock, waiters, wait_list, wait_lock, pc, interruptible, signalled>>

PCs == {"idle", "register", "retry", "unregister", "sleep", "asleep",
        "abandon", "handon", "load", "wake"}

(* cond_init(1): the event has not fired. *)
Init ==
    /\ lock_init(1)
    /\ pc = [t \in Tasks |-> "idle"]
    /\ interruptible = [t \in Tasks |-> FALSE]
    /\ signalled = [t \in Tasks |-> FALSE]

Interrupted(t) == interruptible[t] /\ signalled[t]

cond_wait(t) ==
    /\ \E i \in BOOLEAN : interruptible' = [interruptible EXCEPT ![t] = i]
    /\ lock_try_acquire(t, "idle", "idle")
    /\ UNCHANGED signalled

Register(t) == register(t) /\ UNCHANGED sigVars

Retry(t) == lock_try_acquire_registered(t) /\ UNCHANGED sigVars

Unregister(t) == unregister(t, "idle") /\ UNCHANGED sigVars

(* Mutant: the waiter goes to sleep without looking for a signal. *)
SleepUnchecked(t) == ps_put_to_wait_queue(t) /\ UNCHANGED sigVars

(* The busy branch: ps_prepare_interruptible_wait refuses to sleep when a   *)
(* signal pends, and the wait ends there; otherwise the task is queued.     *)
Sleep(t) ==
    \/ /\ ~Interrupted(t)
       /\ ps_put_to_wait_queue(t)
       /\ UNCHANGED sigVars
    \/ /\ Interrupted(t)
       /\ Step(t, "sleep", "idle")
       /\ waiters' = waiters - 1
       /\ wait_lock' = NoTask
       /\ UNCHANGED <<lock, wait_list, sigVars>>

Resume(t) ==
    /\ task_sched(t, IF Interrupted(t) THEN "abandon" ELSE "retry")
    /\ UNCHANGED sigVars

(* A woken task that gives up: it leaves the count, then passes an event    *)
(* that is still there to the next waiter.                                  *)
Abandon(t) ==
    /\ wait_lock = NoTask
    /\ wait_lock' = t
    /\ Step(t, "abandon", "handon")
    /\ waiters' = waiters - 1
    /\ UNCHANGED <<lock, wait_list, sigVars>>

(* Mutant: the interrupted waiter keeps the wakeup to itself. *)
KeepWakeup(t) ==
    /\ Step(t, "handon", "idle")
    /\ wait_lock' = NoTask
    /\ UNCHANGED <<lock, waiters, wait_list, sigVars>>

HandOn(t) ==
    /\ Step(t, "handon", "idle")
    /\ IF lock = 0 THEN lock_wake_one_unsafe ELSE UNCHANGED wait_list
    /\ wait_lock' = NoTask
    /\ UNCHANGED <<lock, waiters, sigVars>>

cond_reset(t) ==
    /\ pc[t] = "idle"
    /\ lock' = 1
    /\ UNCHANGED <<waiters, wait_list, wait_lock, pc, sigVars>>

(* cond_notify is lock_base_release. *)
cond_notify(t) == lock_store(t, "idle") /\ UNCHANGED sigVars
NotifyLoad(t) == lock_load_waiters(t, "idle") /\ UNCHANGED sigVars
NotifyWake(t) == lock_wake(t, "idle") /\ UNCHANGED sigVars

(* A signal is queued under ps_lock and wakes an interruptible sleeper. *)
wake_signal_target(t) ==
    /\ ~signalled[t]
    /\ signalled' = [signalled EXCEPT ![t] = TRUE]
    /\ wait_list' = IF interruptible[t] THEN list_remove_entry(wait_list, t)
                    ELSE wait_list
    /\ UNCHANGED <<lock, waiters, wait_lock, pc, interruptible>>

(* It is delivered, or taken by another thread of the group. *)
TakeSignal(t) ==
    /\ signalled[t]
    /\ signalled' = [signalled EXCEPT ![t] = FALSE]
    /\ UNCHANGED <<lockVars, pc, interruptible>>

Stale(t) == StaleWakeup(t) /\ UNCHANGED sigVars

Proceed(t) ==
    \/ Register(t) \/ Retry(t) \/ Unregister(t) \/ Sleep(t) \/ Resume(t)
    \/ Abandon(t) \/ HandOn(t) \/ NotifyLoad(t) \/ NotifyWake(t)

Next ==
    \E t \in Tasks :
        \/ cond_wait(t) \/ cond_notify(t) \/ cond_reset(t) \/ Proceed(t)
        \/ wake_signal_target(t) \/ TakeSignal(t) \/ Stale(t)

Spec == Init /\ [][Next]_vars

(* The steps that take wait_lock. *)
Spin(t) == Retry(t) \/ Abandon(t) \/ NotifyWake(t)

(* A task inside lock.c keeps running; nobody has to call in.  A CPU that   *)
(* spins on wait_lock gets it if it is free again and again: the backoff of *)
(* spinlock_lock does not hand the lock out in order, but stays in step     *)
(* with no other CPU for ever.                                              *)
Fairness == \A t \in Tasks : WF_vars(Proceed(t)) /\ SF_vars(Spin(t))

FairSpec == Spec /\ Fairness

-----------------------------------------------------------------------------
(* The types of the state of one event. *)
TypeOK ==
    /\ LockTypeOK
    /\ pc \in [Tasks -> PCs]
    /\ interruptible \in [Tasks -> BOOLEAN]
    /\ signalled \in [Tasks -> BOOLEAN]

(* The event implements the abstract one: a fired event is consumed once,   *)
(* by a task that waited, and no waiter sleeps for ever before an event     *)
(* that stays fired, although the wakeup may go to a waiter that leaves on  *)
(* a signal.                                                                *)
Waiting == {t \in Tasks : pc[t] \in {"register", "retry", "sleep", "asleep", "abandon"}}

Abs == INSTANCE AbsCond WITH waiting <- Waiting

ImplementsAbsCond == Abs!FairSpec

(* An interruptible wait ends once a signal stays pending, whichever side   *)
(* of the test in ps_prepare_interruptible_wait the signal arrives on.      *)
SignalEndsWait ==
    \A t \in Tasks : <>[]Interrupted(t) => []<>(pc[t] \in {"idle", "load", "wake"})
=============================================================================
