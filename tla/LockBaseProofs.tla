--------------------------- MODULE LockBaseProofs ---------------------------
(***************************************************************************)
(* Every step of lock_base preserves LockInv, whatever the lock that is    *)
(* built on it does outside.  The proofs of Mutex and Cond cite one lemma  *)
(* per step.                                                               *)
(***************************************************************************)
EXTENDS LockBase, FiniteSetTheorems, TLAPS

-----------------------------------------------------------------------------
(* What the list operations of KList do to the entries of a list. *)

(* The entries of a list of elements of S are elements of S, and only the   *)
(* empty list has none.                                                     *)
LEMMA ElemsOf ==
    ASSUME NEW S, NEW q \in Seq(S)
    PROVE  Elems(q) \subseteq S /\ (q = <<>> <=> Elems(q) = {})
<1>1. Elems(q) \subseteq S
  BY DEF Elems
<1>2. ASSUME q # <<>> PROVE Elems(q) # {}
  BY <1>2, 1 \in DOMAIN q DEF Elems
<1>3. ASSUME q = <<>> PROVE Elems(q) = {}
  BY <1>3 DEF Elems
<1> QED BY <1>1, <1>2, <1>3

(* list_insert_tail adds its entry and nothing else; a list whose entries   *)
(* are distinct stays one if the entry was not linked.                      *)
LEMMA InsertTail ==
    ASSUME NEW S, NEW q \in Seq(S), NEW e \in S
    PROVE  /\ list_insert_tail(q, e) \in Seq(S)
           /\ Elems(list_insert_tail(q, e)) = Elems(q) \cup {e}
           /\ Distinct(q) /\ e \notin Elems(q) => Distinct(list_insert_tail(q, e))
<1> DEFINE r == list_insert_tail(q, e)
<1>1. r \in Seq(S) /\ Len(r) = Len(q) + 1 /\ DOMAIN r = 1..(Len(q) + 1)
  BY DEF list_insert_tail
<1>2. \A i \in 1..Len(q) : r[i] = q[i]
  BY DEF list_insert_tail
<1>3. r[Len(q) + 1] = e
  BY DEF list_insert_tail
<1>4. Elems(r) = Elems(q) \cup {e}
  <2>1. ASSUME NEW x \in Elems(r) PROVE x \in Elems(q) \cup {e}
    <3>1. PICK i \in 1..(Len(q) + 1) : x = r[i]
      BY <2>1, <1>1 DEF Elems
    <3>2. CASE i = Len(q) + 1
      BY <3>1, <3>2, <1>3
    <3>3. CASE i \in 1..Len(q)
      BY <3>1, <3>3, <1>2 DEF Elems
    <3> QED BY <3>2, <3>3
  <2>2. ASSUME NEW x \in Elems(q) PROVE x \in Elems(r)
    <3>1. PICK i \in 1..Len(q) : x = q[i]
      BY <2>2 DEF Elems
    <3>2. i \in DOMAIN r /\ x = r[i]
      BY <3>1, <1>1, <1>2
    <3> QED BY <3>2 DEF Elems
  <2>3. e \in Elems(r)
    BY <1>1, <1>3, Len(q) + 1 \in DOMAIN r DEF Elems
  <2> QED BY <2>1, <2>2, <2>3
<1>5. ASSUME Distinct(q), e \notin Elems(q) PROVE Distinct(r)
  BY <1>1, <1>2, <1>3, <1>5 DEF Distinct, Elems
<1> QED BY <1>1, <1>4, <1>5

(* list_remove_entry takes its entry off a list of distinct entries, keeps  *)
(* the others and keeps them distinct.                                      *)
LEMMA RemoveEntry ==
    ASSUME NEW S, NEW q \in Seq(S), NEW e, Distinct(q)
    PROVE  /\ list_remove_entry(q, e) \in Seq(S)
           /\ Elems(list_remove_entry(q, e)) = Elems(q) \ {e}
           /\ Distinct(list_remove_entry(q, e))
<1> DEFINE r == list_remove_entry(q, e)
<1>1. CASE e \notin Elems(q)
  BY <1>1 DEF list_remove_entry
<1>2. CASE e \in Elems(q)
  <2> DEFINE k == CHOOSE i \in DOMAIN q : q[i] = e
  <2>1. k \in 1..Len(q) /\ q[k] = e
    BY <1>2 DEF Elems
  <2> HIDE DEF k
  <2>2. r = [j \in 1..(Len(q) - 1) |-> IF j < k THEN q[j] ELSE q[j + 1]]
    BY <1>2 DEF list_remove_entry, k
  <2>3. \A i \in 1..Len(q) : q[i] = e => i = k
    BY <2>1 DEF Distinct
  <2>4. Len(q) - 1 \in Nat
    BY <2>1
  <2>5. \A j \in 1..(Len(q) - 1) : r[j] \in S
    BY <2>2, <2>1
  <2>6. r \in Seq(S) /\ Len(r) = Len(q) - 1 /\ DOMAIN r = 1..(Len(q) - 1)
    BY <2>2, <2>4, <2>5
  <2> HIDE DEF r
  <2>7. ASSUME NEW x \in Elems(r) PROVE x \in Elems(q) \ {e}
    <3>1. PICK j \in 1..(Len(q) - 1) : x = r[j]
      BY <2>6, <2>7 DEF Elems
    <3>2. CASE j < k
      BY <3>1, <3>2, <2>1, <2>2, <2>3 DEF Elems
    <3>3. CASE ~(j < k)
      <4>1. x = q[j + 1] /\ j + 1 \in 1..Len(q) /\ j + 1 # k
        BY <3>1, <3>3, <2>1, <2>2
      <4> QED BY <4>1, <2>3 DEF Elems
    <3> QED BY <3>2, <3>3
  <2>8. ASSUME NEW x \in Elems(q) \ {e} PROVE x \in Elems(r)
    <3>1. PICK i \in 1..Len(q) : x = q[i] /\ i # k
      BY <2>8, <2>1 DEF Elems
    <3>2. CASE i < k
      <4>1. i \in 1..(Len(q) - 1) /\ r[i] = x
        BY <3>1, <3>2, <2>1, <2>2
      <4> QED BY <4>1, <2>6 DEF Elems
    <3>3. CASE i > k
      <4>1. i - 1 \in 1..(Len(q) - 1) /\ r[i - 1] = x
        BY <3>1, <3>3, <2>1, <2>2
      <4> QED BY <4>1, <2>6 DEF Elems
    <3> QED BY <3>1, <3>2, <3>3, <2>1
  <2>9. ASSUME NEW i \in 1..(Len(q) - 1), NEW j \in 1..(Len(q) - 1), r[i] = r[j]
        PROVE  i = j
    <3>1. PICK m \in 1..Len(q) : r[i] = q[m] /\ m = (IF i < k THEN i ELSE i + 1)
      BY <2>1, <2>2
    <3>2. PICK n \in 1..Len(q) : r[j] = q[n] /\ n = (IF j < k THEN j ELSE j + 1)
      BY <2>1, <2>2
    <3>3. m = n
      BY <3>1, <3>2, <2>9 DEF Distinct
    <3> QED BY <3>1, <3>2, <3>3, <2>1
  <2> QED BY <2>6, <2>7, <2>8, <2>9 DEF Distinct, r
<1> QED BY <1>1, <1>2

-----------------------------------------------------------------------------
(* The labels lock_base gives a meaning to; a caller's own are outside. *)
Inside == {"retry", "unregister", "sleep", "asleep", "abandon", "handon",
           "load", "wake"}

(* What Step does to the labels. *)
LEMMA StepPC ==
    ASSUME LockInv, NEW t \in Tasks, NEW from, NEW to, Step(t, from, to)
    PROVE  /\ pc[t] = from
           /\ pc' = [u \in Tasks |-> pc'[u]]
           /\ pc'[t] = to
           /\ \A u \in Tasks \ {t} : pc'[u] = pc[u]
BY DEF Step, LockInv

(* The registered tasks are finite in number. *)
LEMMA RegisteredFinite == IsFiniteSet(Registered) /\ Cardinality(Registered) \in Nat
BY TasksAssumption, FS_Subset, FS_CardinalityType DEF Registered

(* waiters counts the registered tasks when one of them joins ... *)
LEMMA CountJoin ==
    ASSUME NEW t \in Registered', t \notin Registered,
           Registered' = Registered \cup {t}, waiters = Cardinality(Registered),
           waiters' = waiters + 1
    PROVE  waiters' = Cardinality(Registered') /\ waiters' \in Nat
BY RegisteredFinite, FS_AddElement

(* ... and when one leaves. *)
LEMMA CountLeave ==
    ASSUME NEW t \in Registered,
           Registered' = Registered \ {t}, waiters = Cardinality(Registered),
           waiters' = waiters - 1
    PROVE  waiters' = Cardinality(Registered') /\ waiters' \in Nat
<1>1. IsFiniteSet(Registered') /\ Cardinality(Registered') = Cardinality(Registered) - 1
  BY RegisteredFinite, FS_RemoveElement
<1>2. Cardinality(Registered') \in Nat
  BY <1>1, FS_CardinalityType
<1> QED BY <1>1, <1>2

(* Nobody is registered when waiters is 0. *)
LEMMA NoneRegistered ==
    ASSUME LockInv, waiters = 0
    PROVE  Registered = {}
BY Zenon, RegisteredFinite, FS_EmptySet DEF LockInv

(* A task that is not asleep is on no queue. *)
LEMMA AwakeRunnable ==
    ASSUME LockInv, NEW t \in Tasks, pc[t] # "asleep"
    PROVE  Runnable(t)
BY DEF LockInv, Runnable

(* The fast path. *)
LEMMA FastPath ==
    ASSUME LockInv, NEW t \in Tasks, NEW from, NEW acquired,
           from \notin Inside, acquired \notin Inside,
           lock_try_acquire(t, from, acquired)
    PROVE  LockInv'
<1>1. PICK to : to \notin Inside /\ Step(t, from, to)
  BY DEF lock_try_acquire, TryAcquire, Inside
<1>2. /\ pc[t] = from /\ pc'[t] = to
      /\ pc' = [u \in Tasks |-> pc'[u]]
      /\ \A u \in Tasks \ {t} : pc'[u] = pc[u]
  BY <1>1, StepPC
<1>3. UNCHANGED <<waiters, wait_list, wait_lock>> /\ lock' \in {0, 1} /\ lock' = 1
  BY DEF lock_try_acquire, TryAcquire, LockInv, LockTypeOK
<1>4. Registered' = Registered
  BY <1>1, <1>2 DEF Registered, Inside
<1>5. \A u \in Elems(wait_list) : u \in Tasks
  BY ElemsOf DEF LockInv, LockTypeOK
<1>6. LockTypeOK' /\ NoLostWakeup' /\ Distinct(wait_list')
  BY <1>3 DEF LockInv, LockTypeOK, NoLostWakeup
<1>7. \A u \in Tasks : wait_lock' = u <=> pc'[u] \in InSection
  BY <1>1, <1>2, <1>3 DEF LockInv, Inside, InSection
<1>8. \A u \in Elems(wait_list') : pc'[u] = "asleep"
  BY <1>1, <1>2, <1>3, <1>5 DEF LockInv, Inside
<1> QED
  BY <1>2, <1>3, <1>4, <1>6, <1>7, <1>8 DEF LockInv

(* The slow path registers. *)
LEMMA RegisterStep ==
    ASSUME LockInv, NEW t \in Tasks, register(t)
    PROVE  LockInv'
<1>1. /\ pc[t] = "register" /\ pc'[t] = "retry"
      /\ pc' = [u \in Tasks |-> pc'[u]]
      /\ \A u \in Tasks \ {t} : pc'[u] = pc[u]
  BY StepPC DEF register
<1>2. UNCHANGED <<lock, wait_list, wait_lock>> /\ waiters' = waiters + 1
  BY DEF register
<1>3. t \notin Registered /\ Registered' = Registered \cup {t} /\ t \in Registered'
  BY <1>1 DEF Registered
<1>4. waiters' = Cardinality(Registered') /\ waiters' \in Nat
  BY Zenon, <1>2, <1>3, CountJoin DEF LockInv
<1>5. \A u \in Elems(wait_list) : u \in Tasks
  BY ElemsOf DEF LockInv, LockTypeOK
<1>6. Releasing \subseteq Releasing' /\ t \in Retrying'
  BY <1>1 DEF Releasing, Retrying
<1> QED
  BY Zenon, <1>1, <1>2, <1>4, <1>5, <1>6 DEF LockInv, LockTypeOK, NoLostWakeup, InSection

(* The compare-exchange under wait_lock. *)
LEMMA RetryStep ==
    ASSUME LockInv, NEW t \in Tasks, lock_try_acquire_registered(t)
    PROVE  LockInv'
<1>1. PICK to \in {"unregister", "sleep"} : Step(t, "retry", to)
  BY DEF lock_try_acquire_registered, TryAcquire
<1>2. /\ pc[t] = "retry" /\ pc'[t] = to
      /\ pc' = [u \in Tasks |-> pc'[u]]
      /\ \A u \in Tasks \ {t} : pc'[u] = pc[u]
  BY <1>1, StepPC
<1>3. /\ UNCHANGED <<waiters, wait_list>> /\ lock' = 1
      /\ wait_lock = NoTask /\ wait_lock' = t
  BY DEF lock_try_acquire_registered, TryAcquire, LockInv, LockTypeOK
<1>4. Registered' = Registered
  BY <1>1, <1>2 DEF Registered
<1>5. \A u \in Elems(wait_list) : u \in Tasks
  BY ElemsOf DEF LockInv, LockTypeOK
<1>6. \A u \in Tasks : wait_lock' = u <=> pc'[u] \in InSection
  BY <1>1, <1>2, <1>3, NoTaskAssumption DEF LockInv, InSection
<1>7. LockTypeOK' /\ NoLostWakeup' /\ Distinct(wait_list')
  BY <1>3 DEF LockInv, LockTypeOK, NoLostWakeup
<1>8. \A u \in Elems(wait_list') : pc'[u] = "asleep"
  BY <1>2, <1>3, <1>5 DEF LockInv
<1> QED
  BY <1>2, <1>3, <1>4, <1>6, <1>7, <1>8 DEF LockInv

(* Leaving the slow path, with the word taken or, in cond_wait, without it. *)
LEMMA LeaveStep ==
    ASSUME LockInv, NEW t \in Tasks, NEW out, out \notin Inside,
           Step(t, "unregister", out) \/ Step(t, "sleep", out),
           UNCHANGED <<lock, wait_list>>, wait_lock' = NoTask, waiters' = waiters - 1
    PROVE  LockInv'
<1>1. /\ pc[t] \in {"unregister", "sleep"} /\ pc'[t] = out
      /\ pc' = [u \in Tasks |-> pc'[u]]
      /\ \A u \in Tasks \ {t} : pc'[u] = pc[u]
  BY StepPC
<1>2. UNCHANGED <<lock, wait_list>> /\ wait_lock' = NoTask /\ waiters' = waiters - 1
  OBVIOUS
<1>3. t \in Registered /\ Registered' = Registered \ {t}
  BY <1>1 DEF Registered, Inside
<1>4. waiters' = Cardinality(Registered') /\ waiters' \in Nat
  BY <1>2, <1>3, CountLeave DEF LockInv
<1>5. \A u \in Elems(wait_list) : u \in Tasks
  BY ElemsOf DEF LockInv, LockTypeOK
<1>6. \A u \in Tasks : wait_lock' = u <=> pc'[u] \in InSection
  BY <1>1, <1>2, NoTaskAssumption DEF LockInv, InSection, Inside
<1>7. Releasing' = Releasing /\ Retrying' = Retrying
  BY <1>1, <1>2 DEF Releasing, Retrying, Runnable, Inside
<1>8. LockTypeOK' /\ NoLostWakeup' /\ Distinct(wait_list')
  BY <1>2, <1>4, <1>7 DEF LockInv, LockTypeOK, NoLostWakeup
<1>9. \A u \in Elems(wait_list') : pc'[u] = "asleep"
  BY <1>1, <1>2, <1>5 DEF LockInv
<1>10. (\E u \in Tasks : pc'[u] = "sleep") => (\E u \in Tasks : pc[u] = "sleep")
  BY <1>1 DEF Inside
<1> QED
  BY <1>1, <1>2, <1>4, <1>6, <1>7, <1>8, <1>9, <1>10 DEF LockInv

(* Queueing on the wait list: a releaser that freed the word meanwhile is   *)
(* still there.                                                             *)
LEMMA SleepStep ==
    ASSUME LockInv, NEW t \in Tasks, ps_put_to_wait_queue(t)
    PROVE  LockInv'
<1>1. /\ pc[t] = "sleep" /\ pc'[t] = "asleep"
      /\ pc' = [u \in Tasks |-> pc'[u]]
      /\ \A u \in Tasks \ {t} : pc'[u] = pc[u]
  BY StepPC DEF ps_put_to_wait_queue
<1>2. /\ UNCHANGED <<lock, waiters>> /\ wait_lock' = NoTask
      /\ wait_list' = list_insert_tail(wait_list, t)
  BY DEF ps_put_to_wait_queue
<1>3. Registered' = Registered
  BY <1>1 DEF Registered
<1>4. t \notin Elems(wait_list)
  BY <1>1 DEF LockInv
<1>5. /\ wait_list' \in Seq(Tasks) /\ Distinct(wait_list')
      /\ Elems(wait_list') = Elems(wait_list) \cup {t}
  <2>1. wait_list \in Seq(Tasks) /\ Distinct(wait_list)
    BY DEF LockInv, LockTypeOK
  <2> QED BY <1>2, <1>4, <2>1, InsertTail
<1>6. \A u \in Elems(wait_list) : u \in Tasks
  BY ElemsOf DEF LockInv, LockTypeOK
<1>7. \A u \in Tasks : wait_lock' = u <=> pc'[u] \in InSection
  BY <1>1, <1>2, NoTaskAssumption DEF LockInv, InSection
<1>8. lock = 0 => Releasing # {}
  BY <1>1 DEF LockInv
<1>9. Releasing' = Releasing
  BY <1>1 DEF Releasing
<1> QED
  BY Zenon, <1>1, <1>2, <1>3, <1>5, <1>6, <1>7, <1>8, <1>9 DEF LockInv, LockTypeOK, NoLostWakeup

(* A sleeper that was woken runs again; it keeps its registration. *)
LEMMA ResumeStep ==
    ASSUME LockInv, NEW t \in Tasks, NEW resumed \in {"retry", "abandon"},
           task_sched(t, resumed)
    PROVE  LockInv'
<1>1. /\ pc[t] = "asleep" /\ pc'[t] = resumed
      /\ pc' = [u \in Tasks |-> pc'[u]]
      /\ \A u \in Tasks \ {t} : pc'[u] = pc[u]
  BY StepPC DEF task_sched
<1>2. UNCHANGED lockVars /\ t \notin Elems(wait_list)
  BY DEF task_sched, Runnable
<1>3. Registered' = Registered
  BY <1>1 DEF Registered
<1>4. \A u \in Elems(wait_list) : u \in Tasks
  BY ElemsOf DEF LockInv, LockTypeOK
<1>5. Releasing' = Releasing /\ t \in Retrying'
  BY <1>1 DEF Releasing, Retrying
<1> QED
  BY Zenon, <1>1, <1>2, <1>3, <1>4, <1>5
  DEF LockInv, LockTypeOK, NoLostWakeup, lockVars, InSection

(* Taking a sleeper off the queue makes it one that will look again. *)
LEMMA Unqueue ==
    ASSUME LockInv, NEW t, wait_list' = list_remove_entry(wait_list, t)
    PROVE  /\ wait_list' \in Seq(Tasks) /\ Distinct(wait_list')
           /\ Elems(wait_list') = Elems(wait_list) \ {t}
           /\ \A u \in Elems(wait_list) : u \in Tasks
BY RemoveEntry, ElemsOf DEF LockInv, LockTypeOK

(* A wakeup from elsewhere, or by a signal, takes a task off the queue. *)
LEMMA WokenStep ==
    ASSUME LockInv, NEW t \in Tasks,
           wait_list' = list_remove_entry(wait_list, t),
           UNCHANGED <<lock, waiters, wait_lock, pc>>
    PROVE  LockInv'
<1>1. /\ wait_list' \in Seq(Tasks) /\ Distinct(wait_list')
      /\ Elems(wait_list') = Elems(wait_list) \ {t}
      /\ \A u \in Elems(wait_list) : u \in Tasks
  BY Unqueue
<1>2. Registered' = Registered /\ Releasing' = Releasing
  BY DEF Registered, Releasing
<1>3. Retrying \subseteq Retrying'
  BY <1>1 DEF Retrying, Runnable
<1>4. CASE t \in Elems(wait_list)
  <2>1. t \in Retrying'
    BY Zenon, <1>1, <1>4 DEF Retrying, Runnable, LockInv
  <2> QED BY Zenon, <1>1, <1>2, <2>1 DEF LockInv, LockTypeOK, NoLostWakeup
<1>5. CASE t \notin Elems(wait_list)
  <2>1. wait_list' = wait_list
    BY <1>5 DEF list_remove_entry
  <2> QED BY Zenon, <1>1, <1>2, <1>3, <2>1 DEF LockInv, LockTypeOK, NoLostWakeup
<1> QED BY <1>4, <1>5

(* The store of 0: the releaser is there to look for waiters. *)
LEMMA StoreStep ==
    ASSUME LockInv, NEW t \in Tasks, NEW from, from \notin Inside,
           lock_store(t, from)
    PROVE  LockInv'
<1>1. /\ pc[t] = from /\ pc'[t] = "load"
      /\ pc' = [u \in Tasks |-> pc'[u]]
      /\ \A u \in Tasks \ {t} : pc'[u] = pc[u]
  BY StepPC DEF lock_store
<1>2. UNCHANGED <<waiters, wait_list, wait_lock>> /\ lock' = 0
  BY DEF lock_store
<1>3. Registered' = Registered
  BY <1>1 DEF Registered, Inside
<1>4. \A u \in Elems(wait_list) : u \in Tasks
  BY ElemsOf DEF LockInv, LockTypeOK
<1>5. t \in Releasing'
  BY <1>1 DEF Releasing
<1> QED
  BY Zenon, <1>1, <1>2, <1>3, <1>4, <1>5
  DEF LockInv, LockTypeOK, NoLostWakeup, Inside, InSection

(* The load of waiters: a releaser leaves only when nobody is registered,   *)
(* so nobody sleeps or is about to.                                         *)
LEMMA LoadStep ==
    ASSUME LockInv, NEW t \in Tasks, NEW released, released \notin Inside,
           lock_load_waiters(t, released)
    PROVE  LockInv'
<1>1. PICK to : Step(t, "load", to) /\ (to = "wake" \/ (to = released /\ waiters = 0))
  BY DEF lock_load_waiters
<1>2. /\ pc[t] = "load" /\ pc'[t] = to
      /\ pc' = [u \in Tasks |-> pc'[u]]
      /\ \A u \in Tasks \ {t} : pc'[u] = pc[u]
  BY <1>1, StepPC
<1>3. UNCHANGED lockVars
  BY DEF lock_load_waiters
<1>4. Registered' = Registered
  BY <1>1, <1>2 DEF Registered, Inside
<1>5. \A u \in Elems(wait_list) : u \in Tasks
  BY ElemsOf DEF LockInv, LockTypeOK
<1>6. CASE to = "wake"
  <2>1. t \in Releasing'
    BY <1>2, <1>6 DEF Releasing
  <2> QED
    BY Zenon, <1>2, <1>3, <1>4, <1>5, <1>6, <2>1
    DEF LockInv, LockTypeOK, NoLostWakeup, lockVars, InSection
<1>7. CASE to = released /\ waiters = 0
  <2>1. Registered = {}
    BY <1>7, NoneRegistered
  <2>2. \A u \in Tasks : pc[u] \notin {"sleep", "asleep"}
    BY <2>1 DEF Registered
  <2>3. wait_list = <<>>
    <3>1. Elems(wait_list) = {}
      BY <1>5, <2>2 DEF LockInv
    <3>2. wait_list \in Seq(Tasks)
      BY DEF LockInv, LockTypeOK
    <3> QED BY <3>1, <3>2, ElemsOf
  <2> QED
    BY Zenon, <1>2, <1>3, <1>4, <1>5, <1>7, <2>2, <2>3
    DEF LockInv, LockTypeOK, NoLostWakeup, lockVars, InSection, Inside
<1> QED BY <1>1, <1>6, <1>7

(* The wakeup itself: the head of the queue will look again. *)
LEMMA WakeHead ==
    ASSUME LockInv, lock_wake_one_unsafe
    PROVE  /\ wait_list' \in Seq(Tasks) /\ Distinct(wait_list')
           /\ Elems(wait_list') \subseteq Elems(wait_list)
           /\ \A u \in Elems(wait_list) : u \in Tasks
           /\ wait_list # <<>> => \E h \in Tasks : pc[h] = "asleep" /\ h \notin Elems(wait_list')
           /\ wait_list = <<>> => wait_list' = <<>>
<1>1. \A u \in Elems(wait_list) : u \in Tasks /\ pc[u] = "asleep"
  BY Zenon, ElemsOf DEF LockInv, LockTypeOK
<1>2. CASE wait_list = <<>>
  BY Zenon, <1>1, <1>2 DEF lock_wake_one_unsafe, LockInv, LockTypeOK
<1>3. CASE wait_list # <<>>
  <2> DEFINE h == Head(wait_list)
  <2>1. h \in Elems(wait_list)
    BY <1>3 DEF Elems, LockInv, LockTypeOK
  <2>2. wait_list' = list_remove_entry(wait_list, h)
    BY <1>3 DEF lock_wake_one_unsafe
  <2>3. wait_list' \in Seq(Tasks) /\ Distinct(wait_list')
        /\ Elems(wait_list') = Elems(wait_list) \ {h}
    BY <2>2, Unqueue
  <2> QED BY <1>1, <1>3, <2>1, <2>3
<1> QED BY <1>2, <1>3

(* lock_wake: the head of the queue, if any, will look at the word again. *)
LEMMA WakeStep ==
    ASSUME LockInv, NEW t \in Tasks, NEW released, released \notin Inside,
           lock_wake(t, released)
    PROVE  LockInv'
<1>1. /\ pc[t] = "wake" /\ pc'[t] = released
      /\ pc' = [u \in Tasks |-> pc'[u]]
      /\ \A u \in Tasks \ {t} : pc'[u] = pc[u]
  BY StepPC DEF lock_wake
<1>2. UNCHANGED <<lock, waiters, wait_lock>> /\ wait_lock = NoTask
  BY DEF lock_wake
<1>3. Registered' = Registered
  BY <1>1 DEF Registered, Inside
<1>4. /\ wait_list' \in Seq(Tasks) /\ Distinct(wait_list')
      /\ Elems(wait_list') \subseteq Elems(wait_list)
      /\ \A u \in Elems(wait_list) : u \in Tasks
      /\ wait_list # <<>> => \E h \in Tasks : pc[h] = "asleep" /\ h \notin Elems(wait_list')
      /\ wait_list = <<>> => wait_list' = <<>>
  BY WakeHead DEF lock_wake
<1>5. wait_list' # <<>> => Retrying' # {}
  BY <1>1, <1>4 DEF Retrying, Runnable
<1>6. \A u \in Tasks : pc[u] \notin InSection
  BY <1>2, NoTaskAssumption DEF LockInv
<1>7. \A u \in Tasks : pc'[u] \notin InSection
  BY <1>1, <1>6 DEF InSection, Inside
<1> QED
  BY Zenon, <1>1, <1>2, <1>3, <1>4, <1>5, <1>6, <1>7, NoTaskAssumption
  DEF LockInv, LockTypeOK, NoLostWakeup, InSection
=============================================================================
