---------------------------- MODULE MutexProofs ----------------------------
(***************************************************************************)
(* mutex_t and rmutex_t for any number of tasks and any nesting: mutual    *)
(* exclusion, no lost wakeup, and that they implement the abstract lock.   *)
(***************************************************************************)
EXTENDS Mutex, LockBaseProofs

(* The initial lock is free. *)
LEMMA MutexInit == Init => MutexInv
<1> SUFFICES ASSUME Init PROVE MutexInv
  OBVIOUS
<1> USE DEF Init, mutex_init, lock_init
<1>1. pc = [t \in Tasks |-> "idle"] /\ \A t \in Tasks : pc[t] = "idle"
  OBVIOUS
<1>2. TypeOK
  BY MaxDepthAssumption DEF TypeOK, LockTypeOK, PCs
<1>3. Registered = {} /\ Cardinality(Registered) = 0
  BY <1>1, FS_EmptySet DEF Registered
<1>4. Distinct(wait_list) /\ Elems(wait_list) = {}
  BY DEF Distinct, Elems
<1>5. LockInv
  BY <1>1, <1>2, <1>3, <1>4, NoTaskAssumption
  DEF LockInv, TypeOK, NoLostWakeup, InSection
<1>6. Exclusion
  BY <1>1, NoTaskAssumption DEF Exclusion, Owner, OwnerLabels
<1> QED BY <1>1, <1>2, <1>5, <1>6 DEF MutexInv, Owner, OwnerLabels

(* A step that moves one task to a label and leaves the holder alone keeps  *)
(* what MutexInv adds to LockInv, if it makes an owner only of a free word  *)
(* and frees the word only of an owner.                                     *)
LEMMA KeepOwner ==
    ASSUME MutexInv, NEW t \in Tasks, NEW to \in PCs \ {"held", "died"},
           pc[t] # "held", pc' = [pc EXCEPT ![t] = to],
           LockInv', UNCHANGED ownVars,
           \/ /\ ~Owner(t) /\ lock = 0 /\ lock' = 1
           \/ /\ ~Owner(t) /\ to \notin {"unregister", "got", "store"} /\ lock' = lock
           \/ /\ Owner(t) /\ to \in {"unregister", "got", "store"} /\ lock' = lock
           \/ /\ Owner(t) /\ to \notin {"unregister", "got", "store"}
    PROVE  MutexInv'
<1>1. pc \in [Tasks -> PCs] /\ pc' \in [Tasks -> PCs]
  BY DEF MutexInv, TypeOK
<1>2. pc'[t] = to /\ \A u \in Tasks \ {t} : pc'[u] = pc[u]
  BY <1>1
<1>3. TypeOK'
  BY <1>1 DEF MutexInv, TypeOK, LockInv, ownVars
<1>4. \A u \in Tasks \ {t} : Owner(u)' <=> Owner(u)
  BY <1>2 DEF Owner, OwnerLabels
<1>5. Owner(t)' <=> to \in {"unregister", "got", "store"}
  BY <1>2 DEF Owner, OwnerLabels
<1>6. \A u, v \in Tasks : Owner(u)' /\ Owner(v)' => u = v
  BY <1>4, <1>5 DEF MutexInv, Exclusion
<1>7. \A u \in Tasks : (pc'[u] = "held" <=> pc[u] = "held") /\ pc'[u] # "died"
  BY <1>2 DEF MutexInv, Exclusion
<1>8. \A u \in Tasks : Owner(u)' => lock' = 1
  BY <1>4, <1>5, <1>6 DEF MutexInv, Exclusion
<1> QED BY <1>3, <1>6, <1>7, <1>8 DEF MutexInv, Exclusion, ownVars

(* Every step preserves the invariant. *)
LEMMA MutexNext == MutexInv /\ [Next]_vars => MutexInv'
<1> SUFFICES ASSUME MutexInv, [Next]_vars PROVE MutexInv'
  OBVIOUS
<1>inv. TypeOK /\ LockInv /\ Exclusion /\ pc \in [Tasks -> PCs]
  BY DEF MutexInv, TypeOK
<1>1. ASSUME NEW t \in Tasks, Lock(t) PROVE MutexInv'
  <2>1. LockInv'
    BY <1>1, <1>inv, FastPath DEF Lock, Inside
  <2>2. PICK to \in {"got", "register"} : Step(t, "idle", to) /\ (to = "got" => lock = 0 /\ lock' = 1)
                                           /\ (to = "register" => lock' = lock)
    BY <1>1 DEF Lock, lock_try_acquire, TryAcquire
  <2>3. UNCHANGED ownVars
    BY <1>1 DEF Lock
  <2> QED BY Zenon, <2>1, <2>2, <2>3, KeepOwner DEF Step, PCs, Owner, OwnerLabels
<1>2. ASSUME NEW t \in Tasks, Relock(t) PROVE MutexInv'
  <2>1. pc' = pc /\ UNCHANGED <<lockVars, kind, holder>> /\ depth' = depth + 1 /\ depth < MaxDepth
        /\ holder = t
    BY <1>2, <1>inv DEF Relock, Step
  <2>2. LockInv'
    BY <2>1, <1>inv
    DEF LockInv, LockTypeOK, lockVars, Registered, Releasing, Retrying, Runnable, NoLostWakeup
  <2>3. TypeOK'
    BY <2>1, <2>2, <1>inv, MaxDepthAssumption DEF TypeOK, LockInv
  <2>4. Exclusion' /\ (\A u \in Tasks : Owner(u)' => lock' = 1)
    BY <2>1, NoTaskAssumption DEF MutexInv, Exclusion, Owner, OwnerLabels, lockVars
  <2>5. depth' > 0
    BY <2>1, <1>inv, MaxDepthAssumption DEF TypeOK
  <2> QED BY <2>2, <2>3, <2>4, <2>5 DEF MutexInv
<1>3. ASSUME NEW t \in Tasks, Register(t) PROVE MutexInv'
  <2>1. LockInv'
    BY <1>3, <1>inv, RegisterStep DEF Register
  <2> QED BY Zenon, <1>3, <2>1, KeepOwner DEF Register, register, Step, PCs, Owner, OwnerLabels
<1>4. ASSUME NEW t \in Tasks, Retry(t) PROVE MutexInv'
  <2>1. LockInv'
    BY <1>4, <1>inv, RetryStep DEF Retry
  <2>2. PICK to \in {"unregister", "sleep"} : Step(t, "retry", to) /\ (to = "unregister" => lock = 0 /\ lock' = 1)
                                              /\ (to = "sleep" => lock' = lock)
    BY <1>4 DEF Retry, lock_try_acquire_registered, TryAcquire
  <2>3. UNCHANGED ownVars
    BY <1>4 DEF Retry
  <2> QED BY Zenon, <2>1, <2>2, <2>3, KeepOwner DEF Step, PCs, Owner, OwnerLabels
<1>5. ASSUME NEW t \in Tasks, Unregister(t) PROVE MutexInv'
  <2>1. pc[t] = "unregister" /\ Owner(t) /\ lock = 1
    BY <1>5 DEF Unregister, unregister, Step, Owner, OwnerLabels, MutexInv
  <2>2. LockInv'
    BY <1>5, <1>inv, LeaveStep DEF Unregister, unregister, Inside
  <2> QED BY Zenon, <1>5, <2>1, <2>2, KeepOwner DEF Unregister, unregister, Step, PCs
<1>6. ASSUME NEW t \in Tasks, Sleep(t) PROVE MutexInv'
  <2>1. LockInv'
    BY <1>6, <1>inv, SleepStep DEF Sleep
  <2> QED BY Zenon, <1>6, <2>1, KeepOwner DEF Sleep, ps_put_to_wait_queue, Step, PCs, Owner, OwnerLabels
<1>7. ASSUME NEW t \in Tasks, Resume(t) PROVE MutexInv'
  <2>1. LockInv'
    BY <1>7, <1>inv, ResumeStep DEF Resume
  <2> QED BY Zenon, <1>7, <2>1, KeepOwner DEF Resume, task_sched, lockVars, Step, PCs, Owner, OwnerLabels
<1>8. ASSUME NEW t \in Tasks, Stale(t) PROVE MutexInv'
  <2>1. LockInv'
    BY <1>8, <1>inv, WokenStep DEF Stale, StaleWakeup
  <2>2. UNCHANGED <<lock, pc, kind, holder, depth>>
    BY <1>8 DEF Stale, StaleWakeup, ownVars
  <2> QED BY <2>1, <2>2, <1>inv DEF MutexInv, TypeOK, LockInv, Exclusion, Owner, OwnerLabels
<1>9. ASSUME NEW t \in Tasks, SetHolder(t) PROVE MutexInv'
  <2>1. pc[t] = "got" /\ pc' = [pc EXCEPT ![t] = "held"] /\ holder' = t
        /\ depth' \in {1, depth} /\ (kind = "rmutex" => depth' = 1) /\ UNCHANGED <<lockVars, kind>>
    BY <1>9 DEF SetHolder, Step
  <2>2. pc'[t] = "held" /\ \A u \in Tasks \ {t} : pc'[u] = pc[u]
    BY <2>1, <1>inv
  <2>3. LockInv'
    <3>1. Registered' = Registered /\ Releasing' = Releasing /\ Retrying' = Retrying
      BY <2>1, <2>2 DEF Registered, Releasing, Retrying, Runnable, lockVars
    <3>2. \A u \in Tasks : (pc'[u] = "sleep" <=> pc[u] = "sleep") /\ (pc[u] = "asleep" => pc'[u] = "asleep")
                            /\ (pc'[u] \in InSection <=> pc[u] \in InSection)
      BY <2>1, <2>2 DEF InSection
    <3>3. Elems(wait_list) \subseteq Tasks
      BY <1>inv, ElemsOf DEF LockInv, LockTypeOK
    <3>4. pc' = [u \in Tasks |-> pc'[u]]
      BY Zenon, <2>1, <1>inv
    <3> QED BY Zenon, <3>1, <3>2, <3>3, <3>4, <2>1, <1>inv DEF LockInv, LockTypeOK, NoLostWakeup, lockVars
  <2>4. TypeOK'
    BY <2>1, <2>3, <1>inv, MaxDepthAssumption DEF TypeOK, LockInv, PCs
  <2>5. \A u \in Tasks : Owner(u)' <=> Owner(u)
    BY <2>1, <2>2 DEF Owner, OwnerLabels
  <2>6. Owner(t) /\ \A u \in Tasks : pc[u] # "held"
    BY <2>1, <1>inv DEF Owner, OwnerLabels, Exclusion
  <2>7. Exclusion'
    BY <2>1, <2>2, <2>5, <2>6, <1>inv, NoTaskAssumption DEF Exclusion
  <2> QED BY <2>1, <2>3, <2>4, <2>5, <2>7, <1>inv DEF MutexInv, lockVars
<1>10. ASSUME NEW t \in Tasks, Unlock(t) PROVE MutexInv'
  <2>1. pc[t] = "held" /\ holder = t /\ UNCHANGED <<lockVars, kind>>
    BY <1>10, <1>inv DEF Unlock, Step, Exclusion
  <2>2. PICK to \in {"store", "held"} :
           /\ pc' = [pc EXCEPT ![t] = to]
           /\ holder' = IF to = "store" THEN NoTask ELSE t
           /\ kind = "rmutex" /\ to = "held" => depth - 1 > 0
           /\ kind = "mutex" => to = "store"
           /\ kind = "rmutex" /\ to = "store" => ~(depth - 1 > 0)
    BY Zenon, <1>10, <2>1, <1>inv DEF Unlock, Step, TypeOK
  <2>3. pc'[t] = to /\ \A u \in Tasks \ {t} : pc'[u] = pc[u]
    BY <2>2, <1>inv
  <2>4. depth' = IF kind = "rmutex" THEN depth - 1 ELSE depth
    BY <1>10, <2>1 DEF Unlock
  <2>5. LockInv'
    <3>1. Registered' = Registered /\ Releasing' = Releasing /\ Retrying' = Retrying
      BY <2>1, <2>2, <2>3 DEF Registered, Releasing, Retrying, Runnable, lockVars
    <3>2. \A u \in Tasks : (pc'[u] = "sleep" <=> pc[u] = "sleep") /\ (pc[u] = "asleep" => pc'[u] = "asleep")
                            /\ (pc'[u] \in InSection <=> pc[u] \in InSection)
      BY <2>1, <2>2, <2>3 DEF InSection
    <3>3. Elems(wait_list) \subseteq Tasks
      BY <1>inv, ElemsOf DEF LockInv, LockTypeOK
    <3>4. pc' = [u \in Tasks |-> pc'[u]]
      BY Zenon, <2>2, <1>inv
    <3> QED BY Zenon, <3>1, <3>2, <3>3, <3>4, <2>1, <1>inv DEF LockInv, LockTypeOK, NoLostWakeup, lockVars
  <2>6. TypeOK'
    <3>1. depth' \in 0..MaxDepth
      BY <2>1, <2>4, <1>inv, MaxDepthAssumption DEF TypeOK, MutexInv
    <3>2. pc' \in [Tasks -> PCs]
      BY <2>2, <1>inv DEF PCs
    <3> QED BY <3>1, <3>2, <2>1, <2>2, <2>5, <1>inv DEF TypeOK, LockInv
  <2>7. \A u \in Tasks : Owner(u)' <=> Owner(u)
    BY <2>1, <2>2, <2>3 DEF Owner, OwnerLabels
  <2>8. Exclusion'
    BY <2>1, <2>2, <2>3, <2>4, <2>7, <1>inv, NoTaskAssumption DEF Exclusion
  <2>9. \A u \in Tasks : kind' = "rmutex" /\ pc'[u] = "held" => depth' > 0
    BY <2>1, <2>2, <2>3, <2>4, <1>inv DEF TypeOK, Exclusion
  <2> QED BY <2>1, <2>5, <2>6, <2>7, <2>8, <2>9 DEF MutexInv, lockVars
<1>11. ASSUME NEW t \in Tasks, ReleaseStore(t) PROVE MutexInv'
  <2>1. LockInv'
    BY <1>11, <1>inv, StoreStep DEF ReleaseStore, Inside
  <2> QED BY Zenon, <1>11, <2>1, KeepOwner DEF ReleaseStore, lock_store, Step, PCs, Owner, OwnerLabels
<1>12. ASSUME NEW t \in Tasks, ReleaseLoad(t) PROVE MutexInv'
  <2>1. LockInv'
    BY <1>12, <1>inv, LoadStep DEF ReleaseLoad, Inside
  <2>2. PICK to \in {"idle", "wake"} : Step(t, "load", to)
    BY <1>12 DEF ReleaseLoad, lock_load_waiters
  <2>3. UNCHANGED ownVars /\ lock' = lock
    BY <1>12 DEF ReleaseLoad, lock_load_waiters, lockVars
  <2> QED BY Zenon, <2>1, <2>2, <2>3, KeepOwner DEF Step, PCs, Owner, OwnerLabels
<1>13. ASSUME NEW t \in Tasks, ReleaseWake(t) PROVE MutexInv'
  <2>1. LockInv'
    BY <1>13, <1>inv, WakeStep DEF ReleaseWake, Inside
  <2> QED BY Zenon, <1>13, <2>1, KeepOwner DEF ReleaseWake, lock_wake, Step, PCs, Owner, OwnerLabels
<1>14. CASE UNCHANGED vars
  BY <1>14, <1>inv DEF vars, MutexInv, TypeOK, LockInv, LockTypeOK, Exclusion, Owner, OwnerLabels,
     Registered, Releasing, Retrying, Runnable, NoLostWakeup
<1> QED
  BY <1>1, <1>2, <1>3, <1>4, <1>5, <1>6, <1>7, <1>8, <1>9, <1>10, <1>11, <1>12, <1>13, <1>14
  DEF Next, Proceed

(* The state of a mutex_t or rmutex_t keeps its types. *)
THEOREM MutexTypes == Spec => []TypeOK
<1>1. MutexInv => TypeOK
  BY DEF MutexInv
<1> QED BY <1>1, MutexInit, MutexNext, PTL DEF Spec

(* However many tasks contend, one at a time is past mutex_lock, and        *)
(* mutex_unlock never finds another holder.                                 *)
THEOREM MutexExclusion == Spec => []Exclusion
<1>1. MutexInv => Exclusion
  BY DEF MutexInv
<1> QED BY <1>1, MutexInit, MutexNext, PTL DEF Spec

(* However many tasks contend, none sleeps on a free lock with nobody left  *)
(* to wake it: clearing the word before taking wait_lock loses no wakeup.   *)
THEOREM MutexNoLostWakeup == Spec => []NoLostWakeup
<1>1. MutexInv => NoLostWakeup
  BY DEF MutexInv, LockInv
<1> QED BY <1>1, MutexInit, MutexNext, PTL DEF Spec

(* owner names the one task between taking and freeing the word. *)
LEMMA OwnerIs ==
    ASSUME MutexInv
    PROVE  /\ \A t \in Tasks : pc[t] \in OwnerLabels => owner = t
           /\ (\A t \in Tasks : pc[t] \notin OwnerLabels) => owner = NoTask
BY DEF MutexInv, Exclusion, owner, Owner

(* A step makes an owner only of a free lock, and frees only its own. *)
LEMMA OwnerStep ==
    ASSUME MutexInv, Next
    PROVE  \E t \in Tasks :
              /\ \A u \in Tasks \ {t} : pc'[u] \in OwnerLabels <=> pc[u] \in OwnerLabels
              /\ pc[t] \notin OwnerLabels /\ pc'[t] \in OwnerLabels => lock = 0
<1>pc. pc \in [Tasks -> PCs]
  BY DEF MutexInv, TypeOK
<1>1. ASSUME NEW t \in Tasks, Lock(t) \/ Relock(t) \/ Proceed(t) \/ Stale(t)
      PROVE  /\ \A u \in Tasks \ {t} : pc'[u] \in OwnerLabels <=> pc[u] \in OwnerLabels
             /\ pc[t] \notin OwnerLabels /\ pc'[t] \in OwnerLabels => lock = 0
  <2>1. \A u \in Tasks \ {t} : pc'[u] = pc[u]
    BY <1>1, <1>pc
    DEF Lock, Relock, Proceed, Stale, Register, Retry, Unregister, Sleep, Resume,
        SetHolder, Unlock, ReleaseStore, ReleaseLoad, ReleaseWake, StaleWakeup,
        lock_try_acquire, register, lock_try_acquire_registered, TryAcquire, unregister,
        ps_put_to_wait_queue, task_sched, lock_store, lock_load_waiters, lock_wake, Step
  <2>2. pc[t] \notin OwnerLabels /\ pc'[t] \in OwnerLabels => lock = 0
    <3>1. CASE Lock(t) \/ Retry(t)
      BY <3>1, <1>pc DEF Lock, Retry, lock_try_acquire, lock_try_acquire_registered,
         TryAcquire, Step, OwnerLabels
    <3>2. CASE Relock(t) \/ Stale(t)
      BY <3>2, <1>pc DEF Relock, Stale, StaleWakeup, Step, OwnerLabels
    <3>3. CASE Register(t) \/ Unregister(t) \/ Sleep(t) \/ Resume(t)
      BY <3>3, <1>pc DEF Register, Unregister, Sleep, Resume, register, unregister,
         ps_put_to_wait_queue, task_sched, Step, OwnerLabels
    <3>4. CASE SetHolder(t) \/ Unlock(t)
      BY <3>4, <1>pc DEF SetHolder, Unlock, Step, OwnerLabels
    <3>5. CASE ReleaseStore(t) \/ ReleaseLoad(t) \/ ReleaseWake(t)
      BY <3>5, <1>pc DEF ReleaseStore, ReleaseLoad, ReleaseWake, lock_store,
         lock_load_waiters, lock_wake, Step, OwnerLabels
    <3> QED BY <1>1, <3>1, <3>2, <3>3, <3>4, <3>5 DEF Proceed
  <2> QED BY <2>1, <2>2
<1> QED BY <1>1 DEF Next

(* mutex_t and rmutex_t give their users what AbsMutex promises: the word   *)
(* is taken only when nobody owns it and freed only by its owner.           *)
THEOREM MutexImplementsAbsMutex == Spec => ImplementsAbsMutex
<1>1. Init => Abs!Init
  <2> SUFFICES ASSUME Init PROVE owner = NoTask
    BY DEF Abs!Init
  <2>1. \A t \in Tasks : pc[t] \notin OwnerLabels
    BY DEF Init, OwnerLabels
  <2> QED BY <2>1, MutexInit, OwnerIs
<1>2. MutexInv /\ MutexInv' /\ [Next]_vars => [Abs!Next]_owner
  <2> SUFFICES ASSUME MutexInv, MutexInv', [Next]_vars, owner' # owner
               PROVE  Abs!Next
    OBVIOUS
  <2>1. CASE UNCHANGED vars
    <3>1. \A u \in Tasks : pc'[u] \in OwnerLabels <=> pc[u] \in OwnerLabels
      BY <2>1 DEF vars
    <3> QED BY Zenon, <3>1 DEF owner, Owner
  <2>2. CASE Next
    <3>1. PICK t \in Tasks :
             /\ \A u \in Tasks \ {t} : pc'[u] \in OwnerLabels <=> pc[u] \in OwnerLabels
             /\ pc[t] \notin OwnerLabels /\ pc'[t] \in OwnerLabels => lock = 0
      BY <2>2, OwnerStep
    <3>2. /\ \A u \in Tasks : pc'[u] \in OwnerLabels => owner' = u
          /\ (\A u \in Tasks : pc'[u] \notin OwnerLabels) => owner' = NoTask
      BY DEF MutexInv, Exclusion, owner, Owner
    <3>3. /\ \A u \in Tasks : pc[u] \in OwnerLabels => owner = u
          /\ (\A u \in Tasks : pc[u] \notin OwnerLabels) => owner = NoTask
      BY OwnerIs
    <3>4. CASE pc[t] \in OwnerLabels <=> pc'[t] \in OwnerLabels
      <4>1. \A u \in Tasks : pc[u] \in OwnerLabels <=> pc'[u] \in OwnerLabels
        BY <3>1, <3>4
      <4>2. owner' = owner
        BY <4>1, <3>2, <3>3
      <4> QED BY <4>2
    <3>5. CASE pc[t] \in OwnerLabels /\ pc'[t] \notin OwnerLabels
      <4>1. \A u \in Tasks \ {t} : pc[u] \notin OwnerLabels
        BY <3>5 DEF MutexInv, Exclusion, Owner
      <4>2. owner = t /\ owner' = NoTask
        BY <4>1, <3>1, <3>2, <3>3, <3>5
      <4> QED BY <4>2 DEF Abs!Next, Abs!Release
    <3>6. CASE pc[t] \notin OwnerLabels /\ pc'[t] \in OwnerLabels
      <4>1. \A u \in Tasks : pc[u] \notin OwnerLabels
        BY <3>1, <3>6 DEF MutexInv, Owner
      <4>2. owner = NoTask /\ owner' = t
        BY <4>1, <3>2, <3>3, <3>6
      <4> QED BY <4>2 DEF Abs!Next, Abs!Acquire
    <3> QED BY <3>4, <3>5, <3>6
  <2> QED BY <2>1, <2>2
<1> QED
  BY <1>1, <1>2, MutexInit, MutexNext, PTL DEF Spec, ImplementsAbsMutex, Abs!Spec
=============================================================================
