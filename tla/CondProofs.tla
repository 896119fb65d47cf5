----------------------------- MODULE CondProofs -----------------------------
(***************************************************************************)
(* cond_t for any number of tasks, with signals and stray wakeups: an      *)
(* event that fires while tasks sleep is never stranded.                   *)
(***************************************************************************)
EXTENDS Cond, LockBaseProofs

CondInv == TypeOK /\ LockInv

(* The initial event has not fired. *)
LEMMA CondInit == Init => CondInv
<1> SUFFICES ASSUME Init PROVE CondInv
  OBVIOUS
<1> USE DEF Init, lock_init
<1>1. pc = [t \in Tasks |-> "idle"] /\ \A t \in Tasks : pc[t] = "idle"
  OBVIOUS
<1>2. TypeOK
  BY DEF TypeOK, LockTypeOK, PCs
<1>3. Registered = {} /\ Cardinality(Registered) = 0
  BY <1>1, FS_EmptySet DEF Registered
<1>4. Distinct(wait_list) /\ Elems(wait_list) = {}
  BY DEF Distinct, Elems
<1> QED
  BY <1>1, <1>2, <1>3, <1>4, NoTaskAssumption
  DEF CondInv, LockInv, TypeOK, NoLostWakeup, InSection

(* An interrupted waiter takes wait_lock to leave: it still looks at the    *)
(* word before it goes.                                                     *)
LEMMA AbandonStep ==
    ASSUME LockInv, NEW t \in Tasks, Abandon(t)
    PROVE  LockInv'
<1>1. /\ pc[t] = "abandon" /\ pc'[t] = "handon"
      /\ pc' = [u \in Tasks |-> pc'[u]]
      /\ \A u \in Tasks \ {t} : pc'[u] = pc[u]
  BY StepPC DEF Abandon
<1>2. /\ UNCHANGED <<lock, wait_list>> /\ waiters' = waiters - 1
      /\ wait_lock = NoTask /\ wait_lock' = t
  BY DEF Abandon
<1>3. t \in Registered /\ Registered' = Registered \ {t}
  BY <1>1 DEF Registered
<1>4. waiters' = Cardinality(Registered') /\ waiters' \in Nat
  BY Zenon, <1>2, <1>3, CountLeave DEF LockInv
<1>5. \A u \in Elems(wait_list) : u \in Tasks
  BY ElemsOf DEF LockInv, LockTypeOK
<1>6. \A u \in Tasks : wait_lock' = u <=> pc'[u] \in InSection
  BY <1>1, <1>2, NoTaskAssumption DEF LockInv, InSection
<1>7. t \in Retrying' /\ Releasing' = Releasing
  BY <1>1 DEF Releasing, Retrying
<1>8. LockTypeOK' /\ NoLostWakeup' /\ Distinct(wait_list')
  BY <1>2, <1>4, <1>7 DEF LockInv, LockTypeOK, NoLostWakeup
<1>9. \A u \in Elems(wait_list') : pc'[u] = "asleep"
  BY <1>1, <1>2, <1>5 DEF LockInv
<1> QED
  BY <1>1, <1>2, <1>4, <1>6, <1>7, <1>8, <1>9 DEF LockInv

(* It hands the wakeup on if the event is there. *)
LEMMA HandOnStep ==
    ASSUME LockInv, NEW t \in Tasks, HandOn(t)
    PROVE  LockInv'
<1>1. /\ pc[t] = "handon" /\ pc'[t] = "idle"
      /\ pc' = [u \in Tasks |-> pc'[u]]
      /\ \A u \in Tasks \ {t} : pc'[u] = pc[u]
  BY StepPC DEF HandOn
<1>2. UNCHANGED <<lock, waiters>> /\ wait_lock' = NoTask
  BY DEF HandOn
<1>3. Registered' = Registered /\ Releasing' = Releasing
  BY <1>1 DEF Registered, Releasing
<1>4. /\ wait_list' \in Seq(Tasks) /\ Distinct(wait_list')
      /\ Elems(wait_list') \subseteq Elems(wait_list)
      /\ \A u \in Elems(wait_list) : u \in Tasks
      /\ lock = 0 /\ wait_list # <<>>
            => \E h \in Tasks : pc[h] = "asleep" /\ h \notin Elems(wait_list')
      /\ lock = 0 /\ wait_list = <<>> => wait_list' = <<>>
  <2>1. CASE lock = 0
    BY <2>1, WakeHead DEF HandOn
  <2>2. CASE lock # 0
    BY <2>2, ElemsOf DEF HandOn, LockInv, LockTypeOK
  <2> QED BY <2>1, <2>2
<1>5. lock' = 0 /\ wait_list' # <<>> => Retrying' # {}
  BY <1>1, <1>2, <1>4 DEF Retrying, Runnable
<1>6. \A u \in Tasks : wait_lock' = u <=> pc'[u] \in InSection
  BY <1>1, <1>2, NoTaskAssumption DEF LockInv, InSection
<1>7. \A u \in Elems(wait_list') : pc'[u] = "asleep"
  BY Zenon, <1>1, <1>4 DEF LockInv
<1>8. LockTypeOK' /\ NoLostWakeup'
  BY <1>2, <1>4, <1>5, NoTaskAssumption DEF LockInv, LockTypeOK, NoLostWakeup
<1> QED
  BY <1>1, <1>2, <1>3, <1>4, <1>6, <1>7, <1>8 DEF LockInv

(* Every step preserves the invariant of lock_base. *)
LEMMA CondLockNext == CondInv /\ [Next]_vars => LockInv'
<1> SUFFICES ASSUME CondInv, [Next]_vars PROVE LockInv'
  OBVIOUS
<1>inv. LockInv
  BY DEF CondInv
<1>1. ASSUME NEW t \in Tasks, cond_wait(t) PROVE LockInv'
  BY <1>1, <1>inv, FastPath DEF cond_wait, Inside
<1>2. ASSUME NEW t \in Tasks, Register(t) PROVE LockInv'
  BY <1>2, <1>inv, RegisterStep DEF Register
<1>3. ASSUME NEW t \in Tasks, Retry(t) PROVE LockInv'
  BY <1>3, <1>inv, RetryStep DEF Retry
<1>4. ASSUME NEW t \in Tasks, Unregister(t) PROVE LockInv'
  BY <1>4, <1>inv, LeaveStep DEF Unregister, unregister, Inside
<1>5. ASSUME NEW t \in Tasks, Sleep(t) PROVE LockInv'
  BY <1>5, <1>inv, LeaveStep, SleepStep DEF Sleep, Inside
<1>6. ASSUME NEW t \in Tasks, Resume(t) PROVE LockInv'
  BY <1>6, <1>inv, ResumeStep DEF Resume
<1>7. ASSUME NEW t \in Tasks, Abandon(t) PROVE LockInv'
  BY <1>7, <1>inv, AbandonStep
<1>8. ASSUME NEW t \in Tasks, HandOn(t) PROVE LockInv'
  BY <1>8, <1>inv, HandOnStep
<1>9. ASSUME NEW t \in Tasks, cond_notify(t) PROVE LockInv'
  BY <1>9, <1>inv, StoreStep DEF cond_notify, Inside
<1>10. ASSUME NEW t \in Tasks, NotifyLoad(t) PROVE LockInv'
  BY <1>10, <1>inv, LoadStep DEF NotifyLoad, Inside
<1>11. ASSUME NEW t \in Tasks, NotifyWake(t) PROVE LockInv'
  BY <1>11, <1>inv, WakeStep DEF NotifyWake, Inside
<1>12. ASSUME NEW t \in Tasks, cond_reset(t) PROVE LockInv'
  <2>1. lock' = 1 /\ UNCHANGED <<waiters, wait_list, wait_lock, pc>>
    BY <1>12 DEF cond_reset
  <2>2. Registered' = Registered
    BY <2>1 DEF Registered
  <2> QED BY <2>1, <2>2, <1>inv DEF LockInv, LockTypeOK, NoLostWakeup
<1>13. ASSUME NEW t \in Tasks, wake_signal_target(t) \/ Stale(t) PROVE LockInv'
  <2>1. CASE wait_list' = list_remove_entry(wait_list, t)
    BY <1>13, <2>1, <1>inv, WokenStep DEF wake_signal_target, Stale, StaleWakeup
  <2>2. CASE wait_list' = wait_list
    <3>1. UNCHANGED <<lock, waiters, wait_list, wait_lock, pc>>
      BY <1>13, <2>2 DEF wake_signal_target, Stale, StaleWakeup
    <3> QED
      BY Zenon, <3>1, <1>inv
      DEF LockInv, LockTypeOK, NoLostWakeup, Registered, Releasing, Retrying, Runnable
  <2> QED BY <1>13, <2>1, <2>2 DEF wake_signal_target, Stale, StaleWakeup
<1>14. ASSUME UNCHANGED <<lockVars, pc>> PROVE LockInv'
  BY <1>14, <1>inv
  DEF lockVars, LockInv, LockTypeOK, NoLostWakeup, Registered, Releasing, Retrying, Runnable
<1> QED
  BY <1>1, <1>2, <1>3, <1>4, <1>5, <1>6, <1>7, <1>8, <1>9, <1>10, <1>11, <1>12, <1>13,
     <1>14 DEF Next, Proceed, TakeSignal, vars, lockVars

(* And the types of what cond_wait adds. *)
LEMMA CondNext == CondInv /\ [Next]_vars => CondInv'
<1> SUFFICES ASSUME CondInv, [Next]_vars PROVE CondInv'
  OBVIOUS
<1>1. LockInv' /\ LockTypeOK'
  BY CondLockNext DEF LockInv
<1>2. interruptible' \in [Tasks -> BOOLEAN] /\ signalled' \in [Tasks -> BOOLEAN]
  BY Zenon DEF CondInv, TypeOK, Next, Proceed, cond_wait, Register, Retry, Unregister, Sleep,
     Resume, Abandon, HandOn, cond_notify, NotifyLoad, NotifyWake, cond_reset,
     wake_signal_target, TakeSignal, Stale, sigVars, vars
<1>3. pc' \in [Tasks -> PCs]
  BY DEF CondInv, TypeOK, PCs, Next, Proceed, cond_wait, Register, Retry, Unregister,
     Sleep, Resume, Abandon, HandOn, cond_notify, NotifyLoad, NotifyWake, cond_reset,
     wake_signal_target, TakeSignal, Stale, vars, lock_try_acquire, register,
     lock_try_acquire_registered, TryAcquire, unregister, ps_put_to_wait_queue,
     task_sched, StaleWakeup, lock_store, lock_load_waiters, lock_wake, Step
<1> QED BY <1>1, <1>2, <1>3 DEF CondInv, TypeOK

(* The state of a cond_t keeps its types. *)
THEOREM CondTypes == Spec => []TypeOK
<1>1. CondInv => TypeOK
  BY DEF CondInv
<1> QED BY <1>1, CondInit, CondNext, PTL DEF Spec

(* However many tasks wait, notify, reset and are signalled, an event that  *)
(* is set while tasks sleep has somebody on the way to wake one of them or  *)
(* to consume it; the hand-on of an interrupted waiter is what it takes.    *)
THEOREM CondNoLostWakeup == Spec => []NoLostWakeup
<1>1. CondInv => NoLostWakeup
  BY DEF CondInv, LockInv
<1> QED BY <1>1, CondInit, CondNext, PTL DEF Spec

(* Every step of the event is one of the abstract event. *)
LEMMA CondRefines == CondInv /\ [Next]_vars => [Abs!Next]_(Abs!vars)
<1> SUFFICES ASSUME CondInv, [Next]_vars PROVE [Abs!Next]_(Abs!vars)
  OBVIOUS
<1>1. pc \in [Tasks -> PCs] /\ lock \in {0, 1}
  BY DEF CondInv, TypeOK, LockTypeOK
<1>2. CASE UNCHANGED vars
  BY <1>2 DEF vars, Abs!vars, Waiting
<1>3. ASSUME NEW t \in Tasks,
             \/ cond_wait(t) \/ cond_notify(t) \/ cond_reset(t) \/ Proceed(t)
             \/ wake_signal_target(t) \/ TakeSignal(t) \/ Stale(t)
      PROVE  [Abs!Next]_(Abs!vars)
  <2> DEFINE labels == {"register", "retry", "sleep", "asleep", "abandon"}
  <2>1. \/ pc' = pc
        \/ \E to \in PCs : pc' = [pc EXCEPT ![t] = to]
    BY <1>1, <1>3 DEF PCs, Proceed, Step, cond_wait, lock_try_acquire, TryAcquire,
       cond_notify, lock_store, cond_reset, Register, register, Retry,
       lock_try_acquire_registered, Unregister, unregister, Sleep, ps_put_to_wait_queue,
       Resume, task_sched, Abandon, HandOn, NotifyLoad, lock_load_waiters, NotifyWake,
       lock_wake, wake_signal_target, TakeSignal, Stale, StaleWakeup
  <2>2. \A u \in Tasks \ {t} : pc'[u] = pc[u]
    BY <1>1, <2>1
  <2>3. ASSUME pc[t] \in labels <=> pc'[t] \in labels PROVE Waiting' = Waiting
    BY <2>2, <2>3 DEF Waiting
  <2>4. ASSUME pc[t] \in labels, pc'[t] \notin labels
        PROVE  t \in Waiting /\ Waiting' = Waiting \ {t}
    BY <2>2, <2>4 DEF Waiting
  <2>5. CASE cond_wait(t)
    <3>1. CASE lock = 0
      <4>1. pc[t] = "idle" /\ pc'[t] = "idle" /\ lock' = 1
        BY <1>1, <2>5, <3>1 DEF cond_wait, lock_try_acquire, TryAcquire, Step
      <4>2. Waiting' = Waiting /\ t \notin Waiting
        BY <2>3, <4>1 DEF Waiting
      <4> QED BY <3>1, <4>1, <4>2 DEF Abs!Next, Abs!Try
    <3>2. CASE lock = 1
      <4>1. pc[t] = "idle" /\ pc'[t] = "register" /\ lock' = lock
        BY <1>1, <2>5, <3>2 DEF cond_wait, lock_try_acquire, TryAcquire, Step
      <4>2. Waiting' = Waiting \cup {t} /\ t \notin Waiting
        BY <2>2, <4>1 DEF Waiting
      <4> QED BY <3>2, <4>1, <4>2 DEF Abs!Next, Abs!Wait
    <3> QED BY <1>1, <3>1, <3>2
  <2>6. CASE Retry(t)
    <3>1. CASE lock = 0
      <4>1. pc[t] = "retry" /\ pc'[t] = "unregister" /\ lock' = 1
        BY <1>1, <2>6, <3>1 DEF Retry, lock_try_acquire_registered, TryAcquire, Step
      <4>2. t \in Waiting /\ Waiting' = Waiting \ {t}
        BY <2>4, <4>1
      <4> QED BY <3>1, <4>1, <4>2 DEF Abs!Next, Abs!Take
    <3>2. CASE lock = 1
      <4>1. pc[t] = "retry" /\ pc'[t] = "sleep" /\ lock' = lock
        BY <1>1, <2>6, <3>2 DEF Retry, lock_try_acquire_registered, TryAcquire, Step
      <4>2. Waiting' = Waiting
        BY <2>3, <4>1
      <4> QED BY <4>1, <4>2 DEF Abs!vars
    <3> QED BY <1>1, <3>1, <3>2
  <2>7. CASE Sleep(t) \/ Abandon(t)
    <3>1. /\ lock' = lock /\ pc[t] \in {"sleep", "abandon"}
          /\ pc'[t] \in {"asleep", "idle", "handon"}
      BY <1>1, <2>7 DEF Sleep, ps_put_to_wait_queue, Abandon, Step
    <3>2. CASE pc'[t] = "asleep"
      <4>1. Waiting' = Waiting
        BY <2>3, <3>1, <3>2
      <4> QED BY <3>1, <4>1 DEF Abs!vars
    <3>3. CASE pc'[t] # "asleep"
      <4>1. t \in Waiting /\ Waiting' = Waiting \ {t}
        BY <2>4, <3>1, <3>3
      <4> QED BY <3>1, <4>1 DEF Abs!Next, Abs!Leave
    <3> QED BY <3>2, <3>3
  <2>8. CASE cond_notify(t) \/ cond_reset(t)
    <3>1. /\ pc[t] = "idle" /\ pc'[t] \in {"idle", "load"} /\ lock' \in {0, 1}
      BY <1>1, <2>8 DEF cond_notify, lock_store, cond_reset, Step
    <3>2. Waiting' = Waiting
      BY <2>3, <3>1
    <3> QED BY <3>1, <3>2 DEF Abs!Next, Abs!Notify, Abs!Reset
  <2>9. CASE ~(cond_wait(t) \/ Retry(t) \/ Sleep(t) \/ Abandon(t)
               \/ cond_notify(t) \/ cond_reset(t))
    <3>1. lock' = lock /\ (pc[t] \in labels <=> pc'[t] \in labels)
      BY <1>1, <1>3, <2>9 DEF Proceed, Step, lockVars, Register, register, Unregister,
         unregister, Resume, task_sched, HandOn, NotifyLoad, lock_load_waiters,
         NotifyWake, lock_wake, wake_signal_target, TakeSignal, Stale, StaleWakeup
    <3>2. Waiting' = Waiting
      BY <2>3, <3>1
    <3> QED BY <3>1, <3>2 DEF Abs!vars
  <2> QED BY <2>5, <2>6, <2>7, <2>8, <2>9
<1> QED BY <1>2, <1>3 DEF Next

(* cond_t is an auto-reset event: every fired event is consumed at most     *)
(* once, by a waiter (that it is consumed in the end is left to TLC).       *)
THEOREM CondImplementsAbsCond == Spec => Abs!Spec
<1>1. Init => Abs!Init
  BY DEF Init, lock_init, Abs!Init, Waiting
<1>2. CondInv /\ [Next]_vars => [Abs!Next]_(Abs!vars)
  BY CondRefines
<1> QED BY <1>1, <1>2, CondInit, CondNext, PTL DEF Spec, Abs!Spec
=============================================================================
