---------------------------- MODULE RwLockProofs ----------------------------
(***************************************************************************)
(* rwlock_t for any number of tasks: a writer is alone, and no reader or   *)
(* writer is left asleep with nobody to wake it.                           *)
(***************************************************************************)
EXTENDS RwLock, FiniteSetTheorems, TLAPS

-----------------------------------------------------------------------------
(* What the list operations of KList do to the entries of a list. *)

(* The entries of a list of elements of S are elements of S, and only the   *)
(* empty list has none.                                                     *)
LEMMA ElemsOf ==
    ASSUME NEW S, NEW q \in Seq(S)
    PROVE  Elems(q) \subseteq S /\ (q = <<>> <=> Elems(q) = {})
<1>1. Elems(q) \subseteq S
  BY DEF Elems
<1>2. ASSUME q # <<>> PROVE Elems(q) # {}
  BY <1>2, 1 \in DOMAIN q DEF Elems
<1>3. ASSUME q = <<>> PROVE Elems(q) = {}
  BY <1>3 DEF Elems
<1> QED BY Zenon, <1>1, <1>2, <1>3

(* list_insert_tail adds its entry and nothing else; a list whose entries   *)
(* are distinct stays one if the entry was not linked.                      *)
LEMMA InsertTail ==
    ASSUME NEW S, NEW q \in Seq(S), NEW e \in S
    PROVE  /\ list_insert_tail(q, e) \in Seq(S)
           /\ Elems(list_insert_tail(q, e)) = Elems(q) \cup {e}
           /\ Distinct(q) /\ e \notin Elems(q) => Distinct(list_insert_tail(q, e))
<1> DEFINE r == list_insert_tail(q, e)
<1>1. r \in Seq(S) /\ Len(r) = Len(q) + 1 /\ DOMAIN r = 1..(Len(q) + 1)
  BY DEF list_insert_tail
<1>2. \A i \in 1..Len(q) : r[i] = q[i]
  BY DEF list_insert_tail
<1>3. r[Len(q) + 1] = e
  BY DEF list_insert_tail
<1>4. Elems(r) = Elems(q) \cup {e}
  <2>1. ASSUME NEW x \in Elems(r) PROVE x \in Elems(q) \cup {e}
    <3>1. PICK i \in 1..(Len(q) + 1) : x = r[i]
      BY Zenon, <2>1, <1>1 DEF Elems
    <3>2. CASE i = Len(q) + 1
      BY Zenon, <3>1, <3>2, <1>3
    <3>3. CASE i \in 1..Len(q)
      BY <3>1, <3>3, <1>2 DEF Elems
    <3> QED BY <3>2, <3>3
  <2>2. ASSUME NEW x \in Elems(q) PROVE x \in Elems(r)
    <3>1. PICK i \in 1..Len(q) : x = q[i]
      BY <2>2 DEF Elems
    <3>2. i \in DOMAIN r /\ x = r[i]
      BY <3>1, <1>1, <1>2
    <3> QED BY Zenon, <3>2 DEF Elems
  <2>3. e \in Elems(r)
    BY <1>1, <1>3, Len(q) + 1 \in DOMAIN r DEF Elems
  <2> QED BY Zenon, <2>1, <2>2, <2>3
<1>5. ASSUME Distinct(q), e \notin Elems(q) PROVE Distinct(r)
  BY <1>1, <1>2, <1>3, <1>5 DEF Distinct, Elems
<1> QED BY Zenon, <1>1, <1>4, <1>5

(* list_remove_entry takes its entry off a list of distinct entries, keeps  *)
(* the others and keeps them distinct.                                      *)
LEMMA RemoveEntry ==
    ASSUME NEW S, NEW q \in Seq(S), NEW e, Distinct(q)
    PROVE  /\ list_remove_entry(q, e) \in Seq(S)
           /\ Elems(list_remove_entry(q, e)) = Elems(q) \ {e}
           /\ Distinct(list_remove_entry(q, e))
<1> DEFINE r == list_remove_entry(q, e)
<1>1. CASE e \notin Elems(q)
  BY Zenon, <1>1 DEF list_remove_entry
<1>2. CASE e \in Elems(q)
  <2> DEFINE k == CHOOSE i \in DOMAIN q : q[i] = e
  <2>1. k \in 1..Len(q) /\ q[k] = e
    BY <1>2 DEF Elems
  <2> HIDE DEF k
  <2>2. r = [j \in 1..(Len(q) - 1) |-> IF j < k THEN q[j] ELSE q[j + 1]]
    BY Zenon, <1>2 DEF list_remove_entry, k
  <2>3. \A i \in 1..Len(q) : q[i] = e => i = k
    BY <2>1 DEF Distinct
  <2>4. Len(q) - 1 \in Nat
    BY <2>1
  <2>5. \A j \in 1..(Len(q) - 1) : r[j] \in S
    BY <2>2, <2>1
  <2>6. r \in Seq(S) /\ Len(r) = Len(q) - 1 /\ DOMAIN r = 1..(Len(q) - 1)
    BY <2>2, <2>4, <2>5
  <2> HIDE DEF r
  <2>7. ASSUME NEW x \in Elems(r) PROVE x \in Elems(q) \ {e}
    <3>1. PICK j \in 1..(Len(q) - 1) : x = r[j]
      BY Zenon, <2>6, <2>7 DEF Elems
    <3>2. CASE j < k
      BY <3>1, <3>2, <2>1, <2>2, <2>3 DEF Elems
    <3>3. CASE ~(j < k)
      <4>1. x = q[j + 1] /\ j + 1 \in 1..Len(q) /\ j + 1 # k
        BY <3>1, <3>3, <2>1, <2>2
      <4> QED BY <4>1, <2>3 DEF Elems
    <3> QED BY Zenon, <3>2, <3>3
  <2>8. ASSUME NEW x \in Elems(q) \ {e} PROVE x \in Elems(r)
    <3>1. PICK i \in 1..Len(q) : x = q[i] /\ i # k
      BY <2>8, <2>1 DEF Elems
    <3>2. CASE i < k
      <4>1. i \in 1..(Len(q) - 1) /\ r[i] = x
        BY <3>1, <3>2, <2>1, <2>2
      <4> QED BY Zenon, <4>1, <2>6 DEF Elems
    <3>3. CASE i > k
      <4>1. i - 1 \in 1..(Len(q) - 1) /\ r[i - 1] = x
        BY <3>1, <3>3, <2>1, <2>2
      <4> QED BY Zenon, <4>1, <2>6 DEF Elems
    <3> QED BY <3>1, <3>2, <3>3, <2>1
  <2>9. ASSUME NEW i \in 1..(Len(q) - 1), NEW j \in 1..(Len(q) - 1), r[i] = r[j]
        PROVE  i = j
    <3>1. PICK m \in 1..Len(q) : r[i] = q[m] /\ m = (IF i < k THEN i ELSE i + 1)
      BY <2>1, <2>2
    <3>2. PICK n \in 1..Len(q) : r[j] = q[n] /\ n = (IF j < k THEN j ELSE j + 1)
      BY <2>1, <2>2
    <3>3. m = n
      BY <3>1, <3>2, <2>9 DEF Distinct
    <3> QED BY <3>1, <3>2, <3>3, <2>1
  <2> QED BY Zenon, <2>6, <2>7, <2>8, <2>9 DEF Distinct, r
<1> QED BY Zenon, <1>1, <1>2

-----------------------------------------------------------------------------
(* A step of task t, however it was called in. *)
Act(t) == read_lock(t) \/ write_lock(t) \/ Proceed(t) \/ StaleWakeup(t)

(* The initial lock is free. *)
LEMMA RwInit == Init => RwInv
<1> SUFFICES ASSUME Init PROVE RwInv
  BY Zenon
<1> USE DEF Init, rwlock_init
<1>1. pc = [t \in Tasks |-> "idle"] /\ \A t \in Tasks : pc[t] = "idle"
  BY Zenon
<1>2. TypeOK
  BY DEF TypeOK, PCs
<1>3. Readers = {} /\ Writers = {} /\ Waiting = {} /\ Cardinality({}) = 0
  BY Zenon, <1>1, FS_EmptySet DEF Readers, Writers, Waiting
<1>4. WordInv /\ CountInv
  BY <1>3 DEF WordInv, CountInv
<1>5. SectionInv
  BY Zenon, <1>1, NoTaskAssumption DEF SectionInv, InSection
<1>6. Distinct(<<>>) /\ Elems(<<>>) = {}
  BY DEF Distinct, Elems
<1>7. QueueInv
  BY Zenon, <1>6 DEF QueueInv
<1> QED
  BY Zenon, <1>1, <1>2, <1>4, <1>5, <1>7 DEF RwInv, SleepInv, NoStrandedReader,
     NoStrandedWriter

(* The sets that are counted are finite. *)
LEMMA Finite ==
    /\ IsFiniteSet(Readers) /\ Cardinality(Readers) \in Nat
    /\ IsFiniteSet(Waiting) /\ Cardinality(Waiting) \in Nat
BY Zenon, TasksAssumption, FS_Subset, FS_CardinalityType DEF Readers, Waiting

(* A task that reads is counted, and so is a writer that waits. *)
LEMMA Counted ==
    ASSUME RwInv, NEW t \in Tasks
    PROVE  /\ t \in Readers => readers > 0 /\ writer = 0
           /\ t \in Waiting => pending = 1 /\ writers_waiting > 0
<1>1. t \in Readers => Cardinality(Readers) # 0
  BY Zenon, Finite, FS_EmptySet
<1>2. t \in Waiting => Cardinality(Waiting) # 0
  BY Zenon, Finite, FS_EmptySet
<1> QED
  BY <1>1, <1>2 DEF RwInv, TypeOK, WordInv, CountInv

(* Only the acting task changes its label. *)
LEMMA OthersStay ==
    ASSUME RwInv, NEW t \in Tasks, Act(t)
    PROVE  /\ pc' \in [Tasks -> PCs]
           /\ \A u \in Tasks \ {t} : pc'[u] = pc[u]
BY DEF RwInv, TypeOK, PCs, Act, Proceed, Step, read_lock, read_lock_slow,
   read_sleep, read_unlock, read_unlock_wake, write_lock, write_lock_slow,
   write_try, write_retry, WriteCas, write_acquired, write_sleep, write_unlock,
   write_unlock_wake, task_sched, StaleWakeup

(* The holder of wait_lock is inside its section. *)
LEMMA SectionNext ==
    ASSUME RwInv, NEW t \in Tasks, Act(t)
    PROVE  SectionInv' /\ wait_lock' \in Tasks \cup {NoTask}
BY NoTaskAssumption, OthersStay DEF RwInv, TypeOK, SectionInv, InSection, Act,
   Proceed, Step, Enter, Leave, Pass, read_lock, read_lock_slow, read_sleep,
   read_unlock, read_unlock_wake, write_lock, write_lock_slow, write_try,
   write_retry, WriteCas, write_acquired, write_sleep, write_unlock,
   write_unlock_wake, task_sched, StaleWakeup

(* The queues hold sleepers of their kind, once each. *)
LEMMA WakeOneIs ==
    ASSUME NEW q \in Seq(Tasks), Distinct(q)
    PROVE  /\ WakeOne(q) \in Seq(Tasks) /\ Distinct(WakeOne(q))
           /\ Elems(WakeOne(q)) \subseteq Elems(q)
           /\ q # <<>> => Head(q) \in Elems(q) /\ Head(q) \notin Elems(WakeOne(q))
           /\ q = <<>> => WakeOne(q) = <<>>
<1>1. CASE q = <<>>
  BY Zenon, <1>1 DEF WakeOne
<1>2. CASE q # <<>>
  <2>1. Head(q) \in Elems(q)
    BY <1>2 DEF Elems
  <2>2. /\ list_remove_entry(q, Head(q)) \in Seq(Tasks)
        /\ Elems(list_remove_entry(q, Head(q))) = Elems(q) \ {Head(q)}
        /\ Distinct(list_remove_entry(q, Head(q)))
    BY Zenon, RemoveEntry
  <2> QED BY Zenon, <1>2, <2>1, <2>2 DEF WakeOne
<1> QED BY Zenon, <1>1, <1>2

(* The queues stay free of duplicates and hold sleepers only. *)
LEMMA QueueNext ==
    ASSUME RwInv, NEW t \in Tasks, Act(t)
    PROVE  /\ QueueInv'
           /\ reader_wait_list' \in Seq(Tasks) /\ writer_wait_list' \in Seq(Tasks)
<1> DEFINE R == reader_wait_list
           W == writer_wait_list
<1>1. /\ R \in Seq(Tasks) /\ Distinct(R) /\ Elems(R) \subseteq Tasks
      /\ W \in Seq(Tasks) /\ Distinct(W) /\ Elems(W) \subseteq Tasks
  BY Zenon, ElemsOf DEF RwInv, TypeOK, QueueInv
<1>2. \A u \in Tasks \ {t} : pc'[u] = pc[u]
  BY Zenon, OthersStay
<1>3. (\A u \in Elems(R) : pc[u] = "r_asleep") /\ (\A u \in Elems(W) : pc[u] = "w_asleep")
  BY Zenon DEF RwInv, QueueInv
<1> HIDE DEF R, W
<1>4. CASE read_sleep(t)
  <2>1. pc[t] = "r_sleep" /\ pc'[t] = "r_asleep" /\ R' = list_insert_tail(R, t) /\ W' = W
    BY Zenon, <1>4 DEF RwInv, TypeOK, read_sleep, Step, R, W
  <2>2. t \notin Elems(R) /\ t \notin Elems(W)
    BY Zenon, <2>1, <1>3
  <2>3. R' \in Seq(Tasks) /\ Elems(R') = Elems(R) \cup {t} /\ Distinct(R')
    BY <2>1, <2>2, <1>1, InsertTail
  <2>4. (\A u \in Elems(R') : pc'[u] = "r_asleep") /\ (\A u \in Elems(W') : pc'[u] = "w_asleep")
    BY Zenon, <2>1, <2>2, <2>3, <1>1, <1>2, <1>3
  <2>5. /\ R' \in Seq(Tasks) /\ Distinct(R')
        /\ W' \in Seq(Tasks) /\ Distinct(W')
    BY Zenon, <2>1, <2>3, <1>1
  <2> QED BY Zenon, <2>4, <2>5 DEF QueueInv, R, W
<1>5. CASE write_sleep(t)
  <2>1. pc[t] = "w_sleep" /\ pc'[t] = "w_asleep" /\ W' = list_insert_tail(W, t) /\ R' = R
    BY Zenon, <1>5 DEF RwInv, TypeOK, write_sleep, Step, R, W
  <2>2. t \notin Elems(R) /\ t \notin Elems(W)
    BY Zenon, <2>1, <1>3
  <2>3. W' \in Seq(Tasks) /\ Elems(W') = Elems(W) \cup {t} /\ Distinct(W')
    BY <2>1, <2>2, <1>1, InsertTail
  <2>4. (\A u \in Elems(R') : pc'[u] = "r_asleep") /\ (\A u \in Elems(W') : pc'[u] = "w_asleep")
    BY Zenon, <2>1, <2>2, <2>3, <1>1, <1>2, <1>3
  <2>5. /\ R' \in Seq(Tasks) /\ Distinct(R')
        /\ W' \in Seq(Tasks) /\ Distinct(W')
    BY Zenon, <2>1, <2>3, <1>1
  <2> QED BY Zenon, <2>4, <2>5 DEF QueueInv, R, W
<1>6. CASE StaleWakeup(t)
  <2>1. R' = list_remove_entry(R, t) /\ W' = list_remove_entry(W, t) /\ pc' = pc
    BY Zenon, <1>6 DEF StaleWakeup, R, W
  <2>2. /\ R' \in Seq(Tasks) /\ Distinct(R') /\ Elems(R') \subseteq Elems(R)
        /\ W' \in Seq(Tasks) /\ Distinct(W') /\ Elems(W') \subseteq Elems(W)
    BY <2>1, <1>1, RemoveEntry
  <2> QED BY Zenon, <2>1, <2>2, <1>3 DEF QueueInv, R, W
<1>7. CASE read_unlock_wake(t) \/ write_unlock_wake(t)
  <2>1. /\ pc[t] \in {"r_wake", "w_wake"}
        /\ R' \in {R, <<>>}
        /\ W' \in {W, WakeOne(W)}
    BY Zenon, <1>7 DEF read_unlock_wake, write_unlock_wake, Step, R, W
  <2>2. t \notin Elems(R) /\ t \notin Elems(W)
    BY Zenon, <2>1, <1>3
  <2>3. <<>> \in Seq(Tasks) /\ Distinct(<<>>) /\ Elems(<<>>) = {}
    BY DEF Distinct, Elems
  <2>4. /\ R' \in Seq(Tasks) /\ Distinct(R') /\ Elems(R') \subseteq Elems(R)
        /\ W' \in Seq(Tasks) /\ Distinct(W') /\ Elems(W') \subseteq Elems(W)
    <3>1. /\ WakeOne(W) \in Seq(Tasks) /\ Distinct(WakeOne(W))
          /\ Elems(WakeOne(W)) \subseteq Elems(W)
      BY Zenon, <1>1, WakeOneIs
    <3> QED BY Zenon, <2>1, <2>3, <3>1, <1>1
  <2>5. \A u \in Elems(R') : pc'[u] = "r_asleep"
    BY Zenon, <2>2, <2>4, <1>1, <1>2, <1>3
  <2>6. \A u \in Elems(W') : pc'[u] = "w_asleep"
    BY Zenon, <2>2, <2>4, <1>1, <1>2, <1>3
  <2> QED BY Zenon, <2>4, <2>5, <2>6 DEF QueueInv, R, W
<1>8. CASE task_sched(t)
  <2>1. R' = R /\ W' = W /\ t \notin Elems(R) /\ t \notin Elems(W)
    BY Zenon, <1>3, <1>8 DEF task_sched, Step, queues, R, W
  <2> QED BY Zenon, <2>1, <1>1, <1>2, <1>3 DEF QueueInv, R, W
<1>9. CASE \/ read_lock(t) \/ write_lock(t) \/ read_lock_slow(t) \/ read_unlock(t)
           \/ write_lock_slow(t) \/ write_try(t) \/ write_retry(t) \/ write_acquired(t)
           \/ write_unlock(t)
  <2>1. R' = R /\ W' = W /\ pc[t] \notin {"r_asleep", "w_asleep"}
    BY Zenon, <1>9 DEF read_lock, write_lock, read_lock_slow, read_unlock,
       write_lock_slow, write_try, write_retry, WriteCas, write_acquired,
       write_unlock, Step, queues, R, W
  <2>2. t \notin Elems(R) /\ t \notin Elems(W)
    BY Zenon, <2>1, <1>3
  <2> QED BY Zenon, <2>1, <2>2, <1>1, <1>2, <1>3 DEF QueueInv, R, W
<1> QED BY Zenon, <1>4, <1>5, <1>6, <1>7, <1>8, <1>9 DEF Act, Proceed

(* The word counts the readers and marks the one writer. *)
LEMMA WordNext ==
    ASSUME RwInv, NEW t \in Tasks, Act(t)
    PROVE  WordInv' /\ readers' \in Nat /\ writer' \in {0, 1}
<1>1. \A u \in Tasks \ {t} : pc'[u] = pc[u]
  BY Zenon, OthersStay
<1>2. /\ readers \in Nat /\ writer \in {0, 1} /\ pending \in {0, 1}
      /\ pc \in [Tasks -> PCs] /\ WordInv
  BY Zenon DEF RwInv, TypeOK
<1>3. CASE Step(t, "idle", "reading") \/ Step(t, "r_slow", "reading")
  <2>1. pc[t] # "reading" /\ pc[t] \notin {"w_won", "writing"} /\ pc'[t] = "reading"
    BY Zenon, <1>2, <1>3 DEF Step
  <2>2. Readers' = Readers \cup {t} /\ t \notin Readers /\ Writers' = Writers
    BY <2>1, <1>1 DEF Readers, Writers
  <2>3. Cardinality(Readers') = Cardinality(Readers) + 1
    BY Zenon, <2>2, Finite, FS_AddElement
  <2>4. readers' = readers + 1 /\ writer = 0 /\ writer' = 0
    BY Zenon, <1>2, <1>3, <2>1 DEF Act, Proceed, Step, TryRead, ReaderMayEnter,
       read_lock, read_lock_slow, read_sleep, read_unlock, read_unlock_wake,
       write_lock, write_lock_slow, write_try, write_retry, WriteCas,
       write_acquired, write_sleep, write_unlock, write_unlock_wake, task_sched,
       StaleWakeup
  <2> QED BY <1>2, <2>2, <2>3, <2>4 DEF WordInv
<1>4. CASE read_unlock(t)
  <2>1. pc[t] = "reading" /\ pc'[t] \in {"r_wake", "idle"} /\ readers' = readers - 1 /\ writer' = writer
    BY Zenon, <1>2, <1>4 DEF read_unlock, Step
  <2>2. Readers' = Readers \ {t} /\ t \in Readers /\ Writers' = Writers
    BY Zenon, <2>1, <1>1 DEF Readers, Writers
  <2>3. Cardinality(Readers') = Cardinality(Readers) - 1
    BY Zenon, <2>2, Finite, FS_RemoveElement
  <2>4. readers > 0 /\ writer = 0
    BY Zenon, <2>2, Counted
  <2> QED BY <1>2, <2>1, <2>2, <2>3, <2>4 DEF WordInv
<1>5. CASE /\ writer = 0 /\ readers = 0 /\ writer' = 1 /\ readers' = 0
           /\ pc[t] \in {"idle", "w_try", "w_again"} /\ pc'[t] \in {"w_won", "writing"}
  <2>1. Writers = {} /\ Writers' = {t} /\ Readers' = Readers
    BY <1>1, <1>2, <1>5 DEF WordInv, Writers, Readers
  <2> QED BY Zenon, <1>2, <1>5, <2>1 DEF WordInv
<1>6. CASE write_acquired(t)
  <2>1. Writers' = Writers /\ Readers' = Readers /\ writer' = writer /\ readers' = readers
    BY Zenon, <1>1, <1>2, <1>6 DEF write_acquired, Step, Writers, Readers
  <2> QED BY Zenon, <1>2, <2>1 DEF WordInv
<1>7. CASE write_unlock(t)
  <2>1. pc[t] = "writing" /\ pc'[t] = "w_wake" /\ writer' = 0 /\ readers' = readers
    BY Zenon, <1>2, <1>7 DEF write_unlock, Step
  <2>2. Writers' = {} /\ Readers' = Readers
    BY <1>1, <1>2, <2>1 DEF WordInv, Writers, Readers
  <2> QED BY <1>2, <2>1, <2>2 DEF WordInv
<1>8. CASE /\ UNCHANGED <<readers, writer>>
           /\ pc[t] \notin {"reading", "w_won", "writing"}
           /\ pc'[t] \notin {"reading", "w_won", "writing"}
  <2>1. Writers' = Writers /\ Readers' = Readers
    BY Zenon, <1>1, <1>8 DEF Writers, Readers
  <2> QED BY Zenon, <1>2, <1>8, <2>1 DEF WordInv
<1>9. CASE StaleWakeup(t)
  <2>1. Writers' = Writers /\ Readers' = Readers /\ UNCHANGED <<readers, writer>>
    BY Zenon, <1>9 DEF StaleWakeup, Writers, Readers, word
  <2> QED BY Zenon, <1>2, <2>1 DEF WordInv
<1>10. \/ Step(t, "idle", "reading") \/ Step(t, "r_slow", "reading")
       \/ read_unlock(t) \/ write_acquired(t) \/ write_unlock(t) \/ StaleWakeup(t)
       \/ /\ writer = 0 /\ readers = 0 /\ writer' = 1 /\ readers' = 0
          /\ pc[t] \in {"idle", "w_try", "w_again"} /\ pc'[t] \in {"w_won", "writing"}
       \/ /\ UNCHANGED <<readers, writer>>
          /\ pc[t] \notin {"reading", "w_won", "writing"}
          /\ pc'[t] \notin {"reading", "w_won", "writing"}
  BY <1>2 DEF Act, Proceed, Step, word, read_lock, read_lock_slow, read_sleep,
     read_unlock_wake, write_lock, write_lock_slow, write_try, write_retry,
     WriteCas, write_sleep, write_unlock_wake, task_sched
<1> QED BY Zenon, <1>3, <1>4, <1>5, <1>6, <1>7, <1>8, <1>9, <1>10

(* RW_PENDING is set exactly while writers are registered. *)
LEMMA CountNext ==
    ASSUME RwInv, NEW t \in Tasks, Act(t)
    PROVE  CountInv' /\ writers_waiting' \in Nat /\ pending' \in {0, 1}
<1>1. \A u \in Tasks \ {t} : pc'[u] = pc[u]
  BY Zenon, OthersStay
<1>2. /\ writers_waiting \in Nat /\ pending \in {0, 1}
      /\ pc \in [Tasks -> PCs] /\ CountInv
  BY Zenon DEF RwInv, TypeOK
<1>3. CASE write_lock_slow(t)
  <2>1. /\ pc[t] = "w_slow" /\ pc'[t] = "w_try"
        /\ writers_waiting' = writers_waiting + 1 /\ pending' = 1
    BY Zenon, <1>2, <1>3 DEF write_lock_slow, Step
  <2>2. Waiting' = Waiting \cup {t} /\ t \notin Waiting
    BY Zenon, <2>1, <1>1 DEF Waiting
  <2>3. Cardinality(Waiting') = Cardinality(Waiting) + 1
    BY Zenon, <2>2, Finite, FS_AddElement
  <2> QED BY <1>2, <2>1, <2>3 DEF CountInv
<1>4. CASE write_acquired(t)
  <2>1. /\ pc[t] = "w_won" /\ pc'[t] = "writing" /\ writers_waiting' = writers_waiting - 1
        /\ pending' = IF writers_waiting' = 0 THEN 0 ELSE pending
    BY Zenon, <1>2, <1>4 DEF write_acquired, Step
  <2>2. Waiting' = Waiting \ {t} /\ t \in Waiting
    BY Zenon, <2>1, <1>1 DEF Waiting
  <2>3. Cardinality(Waiting') = Cardinality(Waiting) - 1
    BY Zenon, <2>2, Finite, FS_RemoveElement
  <2>4. writers_waiting > 0 /\ pending = 1
    BY Zenon, <2>2, Counted
  <2> QED BY <1>2, <2>1, <2>3, <2>4 DEF CountInv
<1>5. CASE ~write_lock_slow(t) /\ ~write_acquired(t)
  <2>1. UNCHANGED <<writers_waiting, pending>> /\ (t \in Waiting' <=> t \in Waiting)
    BY Zenon, <1>2, <1>5 DEF Act, Proceed, Step, word, queues, TryRead, Waiting,
       read_lock, read_lock_slow, read_sleep, read_unlock, read_unlock_wake,
       write_lock, write_try, write_retry, WriteCas, write_sleep, write_unlock,
       write_unlock_wake, task_sched, StaleWakeup
  <2>2. Waiting' = Waiting
    BY Zenon, <1>1, <2>1 DEF Waiting
  <2> QED BY Zenon, <1>2, <2>1, <2>2 DEF CountInv
<1> QED BY Zenon, <1>3, <1>4, <1>5

(* The gate and the writer bit change only under wait_lock once closed. *)
LEMMA GateOpens ==
    ASSUME RwInv, NEW t \in Tasks, Act(t)
    PROVE  /\ ~ReaderMayEnter /\ ReaderMayEnter' => write_unlock(t)
           /\ writer = 1 /\ writer' = 0 => write_unlock(t)
<1>1. writer \in {0, 1} /\ pending \in {0, 1} /\ pc \in [Tasks -> PCs]
  BY Zenon DEF RwInv, TypeOK
<1>2. write_acquired(t) => writer = 1 /\ writer' = 1
  BY Zenon DEF write_acquired, Step, RwInv, WordInv, Writers
<1> QED
  BY <1>1, <1>2 DEF ReaderMayEnter, Act, Proceed, Step, word, TryRead,
     read_lock, read_lock_slow, read_sleep, read_unlock, read_unlock_wake,
     write_lock, write_lock_slow, write_try, write_retry, WriteCas, write_sleep,
     write_unlock_wake, task_sched, StaleWakeup

(* Nobody else passes through wait_lock while u is in a section. *)
LEMMA Blocked ==
    ASSUME RwInv, NEW t \in Tasks, NEW u \in Tasks, u # t, pc[u] \in InSection
    PROVE  /\ ~write_unlock(t) /\ ~read_unlock_wake(t)
           /\ pc[t] \notin InSection
BY Zenon, NoTaskAssumption
   DEF RwInv, SectionInv, write_unlock, read_unlock_wake, Enter, Pass

(* A task about to queue has a reason to sleep until it is queued. *)
LEMMA SleepNext ==
    ASSUME RwInv, NEW t \in Tasks, Act(t)
    PROVE  SleepInv'
<1>1. \A u \in Tasks \ {t} : pc'[u] = pc[u]
  BY Zenon, OthersStay
<1>2. /\ readers \in Nat /\ writer \in {0, 1} /\ pending \in {0, 1}
      /\ pc \in [Tasks -> PCs] /\ SleepInv
  BY Zenon DEF RwInv, TypeOK
<1>3. ASSUME NEW u \in Tasks, pc'[u] = "r_sleep" PROVE ~ReaderMayEnter'
  <2>1. CASE u = t
    <3>1. ~ReaderMayEnter /\ UNCHANGED word
      BY Zenon, <1>2, <1>3, <2>1 DEF RwInv, SleepInv, Act, Proceed, Step, word,
         read_lock, read_lock_slow, read_sleep, read_unlock, read_unlock_wake,
         write_lock, write_lock_slow, write_try, write_retry, WriteCas,
         write_acquired, write_sleep, write_unlock, write_unlock_wake,
         task_sched, StaleWakeup
    <3> QED BY Zenon, <3>1 DEF ReaderMayEnter, word
  <2>2. CASE u # t
    <3>1. pc[u] = "r_sleep"
      BY Zenon, <1>1, <1>3, <2>2
    <3>2. ~write_unlock(t)
      BY Zenon, <2>2, <3>1, Blocked DEF InSection
    <3>3. ~ReaderMayEnter
      BY Zenon, <3>1, <1>2 DEF SleepInv
    <3> QED BY Zenon, <3>2, <3>3, GateOpens
  <2> QED BY Zenon, <2>1, <2>2
<1>4. ASSUME NEW u \in Tasks, pc'[u] = "w_sleep", readers' = 0, writer' = 0
      PROVE  \E v \in Tasks : pc'[v] = "r_wake"
  <2>1. CASE u = t /\ pc[t] # "w_sleep"
    <3>1. WriteCas(t, "w_try") \/ WriteCas(t, "w_again")
      BY Zenon, <1>2, <1>4, <2>1 DEF Act, Proceed, Step, read_lock,
         read_lock_slow, read_sleep, read_unlock, read_unlock_wake, write_lock,
         write_lock_slow, write_try, write_retry, write_acquired, write_sleep,
         write_unlock, write_unlock_wake, task_sched, StaleWakeup
    <3>2. t \in Waiting
      BY Zenon, <3>1 DEF WriteCas, Step, Waiting
    <3>3. pending = 1
      BY Zenon, <3>2, Counted
    <3> QED BY Zenon, <1>2, <1>4, <2>1, <3>1, <3>3 DEF WriteCas, Step
  <2>2. CASE u = t /\ pc[t] = "w_sleep"
    <3>1. StaleWakeup(t)
      BY Zenon, <1>2, <1>4, <2>2 DEF Act, Proceed, Step, read_lock,
         read_lock_slow, read_sleep, read_unlock, read_unlock_wake, write_lock,
         write_lock_slow, write_try, write_retry, WriteCas, write_acquired,
         write_sleep, write_unlock, write_unlock_wake, task_sched
    <3> QED BY Zenon, <1>2, <1>4, <2>2, <3>1 DEF StaleWakeup, SleepInv, word
  <2>3. CASE u # t
    <3>1. pc[u] = "w_sleep" /\ u \in Waiting
      BY Zenon, <1>1, <1>4, <2>3 DEF Waiting
    <3>2. ~write_unlock(t) /\ ~read_unlock_wake(t)
      BY Zenon, <2>3, <3>1, Blocked DEF InSection
    <3>3. writer = 0 /\ pending = 1
      BY Zenon, <1>2, <1>4, <3>1, <3>2, GateOpens, Counted
    <3>4. CASE readers = 0
      <4>1. PICK v \in Tasks : pc[v] = "r_wake"
        BY Zenon, <3>1, <3>3, <3>4, <1>2 DEF SleepInv
      <4>2. pc'[v] = "r_wake"
        BY Zenon, <1>1, <1>2, <3>2, <4>1 DEF Act, Proceed, Step, read_lock,
           read_lock_slow, read_sleep, read_unlock, write_lock, write_lock_slow,
           write_try, write_retry, WriteCas, write_acquired, write_sleep,
           write_unlock, write_unlock_wake, task_sched, StaleWakeup
      <4> QED BY Zenon, <4>2
    <3>5. CASE readers # 0
      <4>1. read_unlock(t) /\ readers = 1
        BY <1>2, <1>4, <3>5 DEF Act, Proceed, Step, word, TryRead, read_lock,
           read_lock_slow, read_sleep, read_unlock, read_unlock_wake,
           write_lock, write_lock_slow, write_try, write_retry, WriteCas,
           write_acquired, write_sleep, write_unlock, write_unlock_wake,
           task_sched, StaleWakeup
      <4> QED BY Zenon, <1>2, <3>3, <4>1 DEF read_unlock, Step
    <3> QED BY Zenon, <3>4, <3>5
  <2> QED BY Zenon, <2>1, <2>2, <2>3
<1> QED BY Zenon, <1>3, <1>4 DEF SleepInv

(* No reader is left behind an open gate. *)
LEMMA ReaderNext ==
    ASSUME RwInv, NEW t \in Tasks, Act(t)
    PROVE  NoStrandedReader'
<1> SUFFICES ASSUME reader_wait_list' # <<>>, ReaderMayEnter'
             PROVE  \E u \in Tasks : pc'[u] = "w_wake"
  BY Zenon DEF NoStrandedReader
<1>1. /\ \A u \in Tasks \ {t} : pc'[u] = pc[u]
      /\ writer \in {0, 1} /\ pending \in {0, 1} /\ writers_waiting \in Nat
      /\ pc \in [Tasks -> PCs]
  BY Zenon, OthersStay DEF RwInv, TypeOK
<1>2. CASE write_unlock(t)
  BY Zenon, <1>1, <1>2 DEF write_unlock, Step
<1>3. CASE ~write_unlock(t)
  <2>1. ReaderMayEnter
    BY Zenon, <1>3, GateOpens
  <2>2. ~read_sleep(t)
    BY Zenon, <2>1 DEF read_sleep, Step, RwInv, SleepInv
  <2>3. CASE write_unlock_wake(t)
    <3>1. writers_waiting = 0
      BY <2>1, <1>1 DEF RwInv, CountInv, ReaderMayEnter
    <3> QED BY <2>3, <3>1 DEF write_unlock_wake
  <2>4. CASE ~write_unlock_wake(t)
    <3>1. reader_wait_list # <<>>
      <4>1. CASE StaleWakeup(t)
        BY <4>1 DEF StaleWakeup, list_remove_entry, Elems
      <4>2. CASE ~StaleWakeup(t)
        BY Zenon, <1>3, <2>2, <2>4, <4>2 DEF Act, Proceed, queues, read_lock,
           read_lock_slow, read_unlock, read_unlock_wake, write_lock,
           write_lock_slow, write_try, write_retry, WriteCas, write_acquired,
           write_sleep, task_sched
      <4> QED BY Zenon, <4>1, <4>2
    <3>2. PICK u \in Tasks : pc[u] = "w_wake"
      BY Zenon, <2>1, <3>1 DEF RwInv, NoStrandedReader
    <3>3. pc'[u] = "w_wake"
      BY Zenon, <1>1, <1>3, <2>2, <2>4, <3>2 DEF Act, Proceed, Step, read_lock,
         read_lock_slow, read_unlock, read_unlock_wake, write_lock,
         write_lock_slow, write_try, write_retry, WriteCas, write_acquired,
         write_sleep, task_sched, StaleWakeup
    <3> QED BY Zenon, <3>3
  <2> QED BY Zenon, <2>3, <2>4
<1> QED BY Zenon, <1>2, <1>3

(* No writer is left asleep on a word nobody uses. *)
LEMMA WriterNext ==
    ASSUME RwInv, NEW t \in Tasks, Act(t)
    PROVE  NoStrandedWriter'
<1> DEFINE W == writer_wait_list
<1> SUFFICES ASSUME W' # <<>>, readers' = 0, writer' = 0
             PROVE  \E u \in Tasks : WriterAwake(u)'
  BY Zenon DEF NoStrandedWriter
<1>1. /\ \A u \in Tasks \ {t} : pc'[u] = pc[u]
      /\ readers \in Nat /\ writer \in {0, 1} /\ pending \in {0, 1}
      /\ writers_waiting \in Nat /\ pc \in [Tasks -> PCs]
      /\ W \in Seq(Tasks) /\ Distinct(W)
      /\ \A u \in Elems(W) : pc[u] = "w_asleep"
  BY Zenon, OthersStay DEF RwInv, TypeOK, QueueInv
<1>2. W # <<>> => /\ Head(W) \in Tasks /\ pc[Head(W)] = "w_asleep"
                  /\ pending = 1 /\ writers_waiting > 0
  <2> SUFFICES ASSUME W # <<>> PROVE /\ Head(W) \in Tasks /\ pc[Head(W)] = "w_asleep"
                                     /\ pending = 1 /\ writers_waiting > 0
    BY Zenon
  <2>1. Head(W) \in Tasks /\ pc[Head(W)] = "w_asleep"
    BY <1>1, WakeOneIs
  <2>2. Head(W) \in Waiting
    BY Zenon, <2>1 DEF Waiting
  <2> QED BY Zenon, <2>1, <2>2, Counted
<1>3. ASSUME W # <<>>, W' = WakeOne(W), pc[t] # "w_asleep" PROVE \E u \in Tasks : WriterAwake(u)'
  <2>1. Head(W) \in Tasks /\ pc'[Head(W)] = "w_asleep" /\ Head(W) \notin Elems(W)'
    BY Zenon, <1>1, <1>2, <1>3, WakeOneIs
  <2> QED BY Zenon, <2>1 DEF WriterAwake
<1>4. CASE write_sleep(t)
  <2>1. pc[t] = "w_sleep" /\ readers = 0 /\ writer = 0
    BY Zenon, <1>4 DEF write_sleep, Step, word
  <2>2. PICK u \in Tasks : pc[u] = "r_wake"
    BY Zenon, <2>1 DEF RwInv, SleepInv
  <2>3. pc'[u] = "r_wake"
    BY Zenon, <1>1, <2>1, <2>2
  <2> QED BY Zenon, <2>3 DEF WriterAwake
<1>5. CASE StaleWakeup(t)
  <2>1. readers = 0 /\ writer = 0 /\ pc' = pc
    BY Zenon, <1>5 DEF StaleWakeup, word
  <2>2. W # <<>>
    BY <1>5 DEF StaleWakeup, list_remove_entry, Elems
  <2>3. PICK u \in Tasks : WriterAwake(u)
    BY Zenon, <2>1, <2>2 DEF RwInv, NoStrandedWriter
  <2>4. Elems(W)' \subseteq Elems(W)
    BY <1>1, <1>5, RemoveEntry DEF StaleWakeup
  <2>5. WriterAwake(u)'
    BY Zenon, <2>1, <2>3, <2>4 DEF WriterAwake
  <2> QED BY Zenon, <2>5
<1>6. CASE read_unlock_wake(t)
  <2>1. readers = 0 /\ writer = 0 /\ pc[t] = "r_wake"
    BY Zenon, <1>6 DEF read_unlock_wake, Step, word
  <2>2. W # <<>>
    BY Zenon, <1>6 DEF read_unlock_wake, WakeOne
  <2>3. W' = WakeOne(W)
    BY Zenon, <1>2, <1>6, <2>1, <2>2 DEF read_unlock_wake
  <2> QED BY Zenon, <1>3, <2>1, <2>2, <2>3
<1>7. CASE write_unlock_wake(t)
  <2>1. pc[t] = "w_wake"
    BY Zenon, <1>7 DEF write_unlock_wake, Step
  <2>2. W # <<>>
    BY Zenon, <1>7 DEF write_unlock_wake, WakeOne
  <2>3. W' = WakeOne(W)
    BY Zenon, <1>2, <1>7, <2>2 DEF write_unlock_wake
  <2> QED BY Zenon, <1>3, <2>1, <2>2, <2>3
<1>8. CASE write_unlock(t)
  <2>1. pc'[t] = "w_wake"
    BY Zenon, <1>1, <1>8 DEF write_unlock, Step
  <2> QED BY Zenon, <2>1 DEF WriterAwake
<1>9. CASE /\ ~write_sleep(t) /\ ~StaleWakeup(t) /\ ~read_unlock_wake(t)
           /\ ~write_unlock_wake(t) /\ ~write_unlock(t)
  <2>1. W' = W
    BY Zenon, <1>9 DEF Act, Proceed, queues, read_lock, read_lock_slow,
       read_sleep, read_unlock, write_lock, write_lock_slow, write_try,
       write_retry, WriteCas, write_acquired, task_sched
  <2>2. writer = 0
    BY Zenon, <1>1, <1>9, GateOpens
  <2>3. CASE readers # 0
    <3>1. read_unlock(t) /\ readers = 1
      <4>1. ~TryRead
        BY <1>1 DEF TryRead
      <4>2. read_unlock(t) \/ readers' = readers
        <5>1. \/ read_lock(t) \/ read_lock_slow(t) \/ read_sleep(t) \/ read_unlock(t)
              \/ write_lock(t) \/ write_lock_slow(t) \/ write_try(t) \/ write_retry(t)
              \/ write_acquired(t) \/ task_sched(t)
          BY Zenon, <1>9 DEF Act, Proceed
        <5>2. read_lock(t) \/ read_lock_slow(t) \/ read_sleep(t) => readers' = readers
          BY Zenon, <4>1 DEF word, read_lock, read_lock_slow, read_sleep
        <5>3. write_lock(t) \/ write_lock_slow(t) => readers' = readers
          BY Zenon DEF write_lock, write_lock_slow
        <5>4. write_try(t) \/ write_retry(t) => readers' = readers
          BY Zenon DEF write_try, write_retry, WriteCas
        <5>5. write_acquired(t) \/ task_sched(t) => readers' = readers
          BY Zenon DEF word, write_acquired, task_sched
        <5> QED BY Zenon, <5>1, <5>2, <5>3, <5>4, <5>5
      <4>3. read_unlock(t)
        BY Zenon, <2>3, <4>2
      <4> QED BY <1>1, <4>3 DEF read_unlock
    <3>2. pc'[t] = "r_wake"
      BY Zenon, <1>1, <1>2, <2>1, <2>2, <3>1 DEF read_unlock, Step
    <3> QED BY Zenon, <3>2 DEF WriterAwake
  <2>4. CASE readers = 0
    <3>1. PICK u \in Tasks : WriterAwake(u)
      BY Zenon, <2>1, <2>2, <2>4 DEF RwInv, NoStrandedWriter
    <3>2. CASE u # t
      <4>1. WriterAwake(u)'
        BY Zenon, <1>1, <2>1, <3>1, <3>2 DEF WriterAwake
      <4> QED BY Zenon, <4>1
    <3>3. CASE u = t
      <4>1. pending = 1 /\ (pc[t] = "w_won" => writer = 1)
        BY Zenon, <1>2, <2>1 DEF RwInv, WordInv, Writers
      <4>2. write_lock_slow(t) \/ task_sched(t)
        BY <1>1, <1>9, <2>2, <2>4, <3>1, <3>3, <4>1 DEF WriterAwake, Act,
           Proceed, Step, read_lock, read_lock_slow, read_sleep, read_unlock,
           write_lock, write_try, write_retry, WriteCas, write_acquired
      <4>3. pc'[t] \in {"w_try", "w_again"}
        BY Zenon, <1>1, <3>1, <3>3, <4>2 DEF WriterAwake, write_lock_slow,
           task_sched, Step
      <4> QED BY Zenon, <4>3 DEF WriterAwake
    <3> QED BY Zenon, <3>2, <3>3
  <2> QED BY Zenon, <2>3, <2>4
<1> QED BY Zenon, <1>4, <1>5, <1>6, <1>7, <1>8, <1>9

(* The invariant is inductive. *)
LEMMA RwNext == RwInv /\ [Next]_vars => RwInv'
<1> SUFFICES ASSUME RwInv, [Next]_vars PROVE RwInv'
  BY Zenon
<1>1. CASE UNCHANGED vars
  BY <1>1 DEF vars, RwInv, TypeOK, WordInv, CountInv, SectionInv, QueueInv,
     SleepInv, NoStrandedReader, NoStrandedWriter, WriterAwake, ReaderMayEnter,
     Readers, Writers, Waiting
<1>2. ASSUME NEW t \in Tasks, Act(t) PROVE RwInv'
  <2>1. TypeOK'
    BY Zenon, <1>2, OthersStay, SectionNext, QueueNext, WordNext, CountNext
       DEF TypeOK
  <2>2. WordInv' /\ CountInv' /\ SectionInv' /\ QueueInv' /\ SleepInv'
    BY Zenon, <1>2, WordNext, CountNext, SectionNext, QueueNext, SleepNext
  <2>3. NoStrandedReader' /\ NoStrandedWriter'
    BY Zenon, <1>2, ReaderNext, WriterNext
  <2> QED BY Zenon, <2>1, <2>2, <2>3 DEF RwInv
<1> QED BY Zenon, <1>1, <1>2 DEF Next, Act

(* RwInv holds in every reachable state. *)
THEOREM RwInvariant == Spec => []RwInv
BY RwInit, RwNext, PTL DEF Spec

(* The word, the counters and the queues of rwlock_t keep their types. *)
THEOREM RwTypes == Spec => []TypeOK
<1>1. RwInv => TypeOK
  BY Zenon DEF RwInv
<1> QED BY <1>1, RwInvariant, PTL

(* A writer that got through rwlock_write_lock is alone. *)
THEOREM RwExclusion == Spec => []Exclusion
<1>1. RwInv => Exclusion
  <2> SUFFICES ASSUME RwInv PROVE Exclusion
    BY Zenon
  <2>1. \A t, u \in Writers : t = u
    BY Zenon DEF RwInv, WordInv
  <2>2. ASSUME Writers # {} PROVE Readers = {}
    <3>1. Cardinality(Readers) = 0
      BY Zenon, <2>2 DEF RwInv, WordInv
    <3> QED BY Zenon, <3>1, Finite, FS_EmptySet
  <2> QED BY Zenon, <2>1, <2>2 DEF Exclusion
<1> QED BY <1>1, RwInvariant, PTL

(* No reader sleeps in rwlock_read_lock before a gate that is open, unless  *)
(* the writer that opened it is still to wake the readers.                  *)
THEOREM RwNoStrandedReader == Spec => []NoStrandedReader
<1>1. RwInv => NoStrandedReader
  BY Zenon DEF RwInv
<1> QED BY <1>1, RwInvariant, PTL

(* No writer sleeps in rwlock_write_lock on a word nobody uses, unless the  *)
(* one who left it is still to wake a writer or another writer is awake.    *)
THEOREM RwNoStrandedWriter == Spec => []NoStrandedWriter
<1>1. RwInv => NoStrandedWriter
  BY Zenon DEF RwInv
<1> QED BY <1>1, RwInvariant, PTL

(* rwlock_try_read admits no reader past a registered writer. *)
THEOREM RwWritersFirst == Spec => WritersFirst
<1> DEFINE Queued == \E t \in Tasks : pc[t] \in {"w_try", "w_again", "w_sleep", "w_asleep"}
<1>1. RwInv /\ [Next]_vars => [Queued => readers' <= readers]_vars
  <2> SUFFICES ASSUME RwInv, NEW t \in Tasks, Act(t),
                      NEW u \in Tasks, pc[u] \in {"w_try", "w_again", "w_sleep", "w_asleep"}
               PROVE  readers' <= readers
    BY Zenon DEF Next, Act
  <2>1. pending = 1 /\ readers \in Nat
    BY Zenon, Counted DEF Waiting, RwInv, TypeOK
  <2> QED
    BY <2>1 DEF Act, Proceed, word, TryRead, ReaderMayEnter, read_lock,
       read_lock_slow, read_sleep, read_unlock, read_unlock_wake, write_lock,
       write_lock_slow, write_try, write_retry, WriteCas, write_acquired,
       write_sleep, write_unlock, write_unlock_wake, task_sched, StaleWakeup
<1> QED BY <1>1, RwInvariant, PTL DEF Spec, WritersFirst
=============================================================================
