------------------------------- MODULE Mutex -------------------------------
(***************************************************************************)
(* mutex_t and rmutex_t (src/lib/impl/lock.c): lock_base plus the psid of  *)
(* the holder, and for rmutex_t the depth of its nested acquisitions.      *)
(* A task that is "idle" may lock at any time, one that is "held" unlocks  *)
(* or, on an rmutex_t, locks again.                                        *)
(***************************************************************************)
EXTENDS LockBase, Integers

CONSTANT MaxDepth   \* bound on nested acquisitions

ASSUME MaxDepthAssumption == MaxDepth \in Nat \ {0}

VARIABLES kind,     \* "mutex" or "rmutex", fixed when the lock is initialised
          holder,   \* the holder's psid, NoTask for 0
          depth     \* rmutex_t only

ownVars == <<kind, holder, depth>>
vars == <<lock, waiters, wait_list, wait_lock, pc, kind, holder, depth>>

PCs == {"idle", "register", "retry", "unregister", "sleep", "asleep", "got",
        "held", "store", "load", "wake", "died"}

mutex_init ==
    /\ lock_init(0)
    /\ holder = NoTask
    /\ depth = 0

Init ==
    /\ kind \in {"mutex", "rmutex"}
    /\ mutex_init
    /\ pc = [t \in Tasks |-> "idle"]

(* The fast path of mutex_lock, and of rmutex_lock by a task that is not    *)
(* the holder.                                                              *)
Lock(t) ==
    /\ kind = "rmutex" => holder # t
    /\ lock_try_acquire(t, "idle", "got")
    /\ UNCHANGED ownVars

(* rmutex_lock by the holder. *)
Relock(t) ==
    /\ kind = "rmutex"
    /\ holder = t
    /\ depth < MaxDepth
    /\ Step(t, "held", "held")
    /\ depth' = depth + 1
    /\ UNCHANGED <<lockVars, kind, holder>>

(* The slow path of lock_base_acquire. *)
Register(t) == register(t) /\ UNCHANGED ownVars
Retry(t) == lock_try_acquire_registered(t) /\ UNCHANGED ownVars
Unregister(t) == unregister(t, "got") /\ UNCHANGED ownVars
Sleep(t) == ps_put_to_wait_queue(t) /\ UNCHANGED ownVars
Resume(t) == task_sched(t, "retry") /\ UNCHANGED ownVars
Stale(t) == StaleWakeup(t) /\ UNCHANGED ownVars

(* The tail of mutex_lock and rmutex_lock. *)
SetHolder(t) ==
    /\ Step(t, "got", "held")
    /\ holder' = t
    /\ depth' = IF kind = "rmutex" THEN 1 ELSE depth
    /\ UNCHANGED <<lockVars, kind>>

(* Mutant: rmutex_unlock releases at every level. *)
UnlockAllLevels(t) ==
    /\ Step(t, "held", IF holder = t THEN "store" ELSE "died")
    /\ holder' = NoTask
    /\ UNCHANGED <<lockVars, kind, depth>>

(* mutex_unlock and rmutex_unlock up to lock_base_release.  DIE stops the   *)
(* kernel: a task that is "died" takes no further step.                     *)
Unlock(t) ==
    LET outermost == kind = "mutex" \/ ~(depth - 1 > 0)
    IN  /\ Step(t, "held", IF holder # t THEN "died"
                           ELSE IF outermost THEN "store" ELSE "held")
        /\ holder' = IF holder = t /\ outermost THEN NoTask ELSE holder
        /\ depth' = IF kind = "rmutex" /\ holder = t THEN depth - 1 ELSE depth
        /\ UNCHANGED <<lockVars, kind>>

(* lock_base_release. *)
ReleaseStore(t) == lock_store(t, "store") /\ UNCHANGED ownVars
ReleaseLoad(t) == lock_load_waiters(t, "idle") /\ UNCHANGED ownVars
ReleaseWake(t) == lock_wake(t, "idle") /\ UNCHANGED ownVars

(* What t does once it has called in. *)
Proceed(t) ==
    \/ Register(t) \/ Retry(t) \/ Unregister(t) \/ Sleep(t) \/ Resume(t)
    \/ SetHolder(t) \/ Unlock(t)
    \/ ReleaseStore(t) \/ ReleaseLoad(t) \/ ReleaseWake(t)

Next == \E t \in Tasks : Lock(t) \/ Relock(t) \/ Proceed(t) \/ Stale(t)

Spec == Init /\ [][Next]_vars

(* A task inside lock.c or in the section it guards keeps running: spinlock *)
(* sections mask interrupts, the scheduler is round robin and the guarded   *)
(* sections end, so an unlock that keeps being possible happens.  Nobody    *)
(* has to ask for the lock or to be woken by mistake.                       *)
Fairness ==
    \A t \in Tasks :
        /\ WF_vars(Proceed(t))
        /\ SF_vars(Unlock(t) /\ pc'[t] = "store")

FairSpec == Spec /\ Fairness

-----------------------------------------------------------------------------
(* The types of the state of one lock; depth is bounded by MaxDepth. *)
TypeOK ==
    /\ LockTypeOK
    /\ pc \in [Tasks -> PCs]
    /\ kind \in {"mutex", "rmutex"}
    /\ holder \in Tasks \cup {NoTask}
    /\ depth \in 0..MaxDepth

(* Between the compare-exchange that takes the word and the store that      *)
(* frees it.                                                                *)
OwnerLabels == {"unregister", "got", "held", "store"}

Owner(t) == pc[t] \in OwnerLabels

(* One task at a time is past mutex_lock or rmutex_lock, it is the recorded *)
(* holder until its outermost unlock, an open level of nesting keeps it the *)
(* holder, and the holder check of the unlock paths never stops the kernel. *)
Exclusion ==
    /\ \A t, u \in Tasks : Owner(t) /\ Owner(u) => t = u
    /\ \A t \in Tasks : (pc[t] = "held") <=> (holder = t)
    /\ kind = "rmutex" /\ depth > 0 => holder # NoTask
    /\ \A t \in Tasks : pc[t] # "died"

(* The inductive invariant: an owner keeps the word taken, and a held       *)
(* rmutex_t has been entered at least once.                                 *)
MutexInv ==
    /\ TypeOK
    /\ LockInv
    /\ Exclusion
    /\ \A t \in Tasks : Owner(t) => lock = 1
    /\ \A t \in Tasks : kind = "rmutex" /\ pc[t] = "held" => depth > 0

(* While somebody waits the lock keeps being handed out: a task that waits  *)
(* for ever sees acquisitions for ever.  The lock allows barging, so it may *)
(* still never be that task's turn.                                         *)
HandedOut ==
    \A t \in Tasks :
        <>[](pc[t] \in {"register", "retry", "sleep", "asleep"})
            => []<>(\E u \in Tasks : pc[u] = "got")

(* The lock implements the abstract one, owned from the successful          *)
(* compare-exchange to the store of 0.                                      *)
owner == IF \E t \in Tasks : Owner(t) THEN CHOOSE t \in Tasks : Owner(t)
         ELSE NoTask

Abs == INSTANCE AbsMutex

ImplementsAbsMutex == Abs!Spec
=============================================================================
