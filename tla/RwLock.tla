------------------------------- MODULE RwLock -------------------------------
(***************************************************************************)
(* rwlock_t (src/lib/impl/lock.c): one atomic word that holds the number   *)
(* of readers, the RW_WRITER bit and the RW_PENDING bit, and a queue each  *)
(* for sleeping readers and writers under wait_lock.  The word is changed  *)
(* outside wait_lock by the fast paths and by rwlock_read_unlock.  Steps   *)
(* are cut as in LockBase.  rwlock_try_read stops the kernel at 2^30 - 1   *)
(* readers, more than there are tasks.                                     *)
(***************************************************************************)
EXTENDS KList, FiniteSets, Integers

CONSTANTS Tasks,   \* the tasks that use the lock
          NoTask   \* a free wait_lock

ASSUME NoTaskAssumption == NoTask \notin Tasks
ASSUME TasksAssumption == IsFiniteSet(Tasks)

VARIABLES readers, writer, pending,  \* the three parts of rw->state
          writers_waiting,
          reader_wait_list, writer_wait_list,
          wait_lock,
          pc

word == <<readers, writer, pending>>
queues == <<writers_waiting, reader_wait_list, writer_wait_list>>
vars == <<readers, writer, pending, writers_waiting, reader_wait_list,
          writer_wait_list, wait_lock, pc>>

PCs == {"idle", "reading", "r_slow", "r_sleep", "r_asleep", "r_wake",
        "writing", "w_slow", "w_try", "w_again", "w_won", "w_sleep", "w_asleep",
        "w_wake"}

rwlock_init ==
    /\ readers = 0 /\ writer = 0 /\ pending = 0
    /\ writers_waiting = 0
    /\ reader_wait_list = <<>> /\ writer_wait_list = <<>>
    /\ wait_lock = NoTask

Init == rwlock_init /\ pc = [t \in Tasks |-> "idle"]

Step(t, from, to) == pc[t] = from /\ pc' = [pc EXCEPT ![t] = to]

Enter(t) == wait_lock = NoTask /\ wait_lock' = t   \* take wait_lock and keep it
Leave == wait_lock' = NoTask                     \* release it at the end
Pass == wait_lock = NoTask /\ UNCHANGED wait_lock  \* both within the step

(* Mutant: the readers' gate ignores waiting writers. *)
IgnorePending == writer = 0

(* Mutant: the readers' gate only looks at waiting writers. *)
IgnoreWriter == pending = 0

(* rwlock_try_read. *)
ReaderMayEnter == writer = 0 /\ pending = 0

TryRead == ReaderMayEnter /\ readers' = readers + 1 /\ UNCHANGED <<writer, pending>>

read_lock(t) ==
    /\ \/ TryRead /\ Step(t, "idle", "reading")
       \/ ~ReaderMayEnter /\ UNCHANGED word /\ Step(t, "idle", "r_slow")
    /\ UNCHANGED <<queues, wait_lock>>

read_lock_slow(t) ==
    /\ \/ TryRead /\ Pass /\ Step(t, "r_slow", "reading")
       \/ ~ReaderMayEnter /\ UNCHANGED word /\ Enter(t) /\ Step(t, "r_slow", "r_sleep")
    /\ UNCHANGED queues

read_sleep(t) ==
    /\ Step(t, "r_sleep", "r_asleep")
    /\ reader_wait_list' = list_insert_tail(reader_wait_list, t)
    /\ Leave
    /\ UNCHANGED <<word, writers_waiting, writer_wait_list>>

(* Mutant: the last reader leaves without waking the writer. *)
NeverWakeWriter(t) ==
    /\ Step(t, "reading", "idle")
    /\ readers' = readers - 1
    /\ UNCHANGED <<writer, pending, queues, wait_lock>>

(* Only the last reader that leaves a pending writer goes on to wake it. *)
read_unlock(t) ==
    /\ Step(t, "reading", IF readers = 1 /\ pending = 1 /\ writer = 0
                          THEN "r_wake" ELSE "idle")
    /\ readers' = readers - 1
    /\ UNCHANGED <<writer, pending, queues, wait_lock>>

WakeOne(q) == IF q = <<>> THEN q ELSE list_remove_entry(q, Head(q))

read_unlock_wake(t) ==
    /\ Step(t, "r_wake", "idle")
    /\ Pass
    /\ writer_wait_list' = IF readers = 0 /\ pending = 1 /\ writer = 0
                           THEN WakeOne(writer_wait_list) ELSE writer_wait_list
    /\ UNCHANGED <<word, writers_waiting, reader_wait_list>>

write_lock(t) ==
    /\ \/ /\ readers = 0 /\ writer = 0 /\ pending = 0
          /\ writer' = 1
          /\ Step(t, "idle", "writing")
       \/ /\ readers # 0 \/ writer = 1 \/ pending = 1
          /\ UNCHANGED writer
          /\ Step(t, "idle", "w_slow")
    /\ UNCHANGED <<readers, pending, queues, wait_lock>>

(* Mutant: the writer closes the gate but does not count itself. *)
CloseOnly(t) ==
    /\ Step(t, "w_slow", "w_try")
    /\ Enter(t)
    /\ pending' = 1
    /\ UNCHANGED <<readers, writer, queues>>

(* The slow path: close the readers' gate, then take the word or sleep. *)
write_lock_slow(t) ==
    /\ Step(t, "w_slow", "w_try")
    /\ Enter(t)
    /\ writers_waiting' = writers_waiting + 1
    /\ pending' = 1
    /\ UNCHANGED <<readers, writer, reader_wait_list, writer_wait_list>>

WriteCas(t, from) ==
    LET free == readers = 0 /\ writer = 0 /\ pending = 1
    IN  /\ Step(t, from, IF free THEN "w_won" ELSE "w_sleep")
        /\ writer' = IF free THEN 1 ELSE writer
        /\ UNCHANGED <<readers, pending, queues>>

write_try(t) == WriteCas(t, "w_try") /\ UNCHANGED wait_lock

write_retry(t) == WriteCas(t, "w_again") /\ Enter(t)

(* Mutant: the winner clears the gate although other writers wait. *)
OpenGate(t) ==
    /\ Step(t, "w_won", "writing")
    /\ writers_waiting' = writers_waiting - 1
    /\ pending' = 0
    /\ Leave
    /\ UNCHANGED <<readers, writer, reader_wait_list, writer_wait_list>>

write_acquired(t) ==
    /\ Step(t, "w_won", "writing")
    /\ writers_waiting' = writers_waiting - 1
    /\ pending' = IF writers_waiting' = 0 THEN 0 ELSE pending
    /\ Leave
    /\ UNCHANGED <<readers, writer, reader_wait_list, writer_wait_list>>

write_sleep(t) ==
    /\ Step(t, "w_sleep", "w_asleep")
    /\ writer_wait_list' = list_insert_tail(writer_wait_list, t)
    /\ Leave
    /\ UNCHANGED <<word, writers_waiting, reader_wait_list>>

write_unlock(t) ==
    /\ Step(t, "writing", "w_wake")
    /\ Enter(t)
    /\ writer' = 0
    /\ UNCHANGED <<readers, pending, queues>>

(* Mutant: one reader is woken where all should be. *)
WakeOneReader(t) ==
    /\ Step(t, "w_wake", "idle")
    /\ IF writers_waiting > 0
       THEN /\ writer_wait_list' = WakeOne(writer_wait_list)
            /\ UNCHANGED reader_wait_list
       ELSE /\ reader_wait_list' = WakeOne(reader_wait_list)
            /\ UNCHANGED writer_wait_list
    /\ Leave
    /\ UNCHANGED <<word, writers_waiting>>

write_unlock_wake(t) ==
    /\ Step(t, "w_wake", "idle")
    /\ IF writers_waiting > 0
       THEN /\ writer_wait_list' = WakeOne(writer_wait_list)
            /\ UNCHANGED reader_wait_list
       ELSE /\ reader_wait_list' = <<>>
            /\ UNCHANGED writer_wait_list
    /\ Leave
    /\ UNCHANGED <<word, writers_waiting>>

(* A sleeper runs again once it is on neither queue. *)
task_sched(t) ==
    /\ \/ t \notin Elems(reader_wait_list) /\ Step(t, "r_asleep", "r_slow")
       \/ t \notin Elems(writer_wait_list) /\ Step(t, "w_asleep", "w_again")
    /\ UNCHANGED <<word, queues, wait_lock>>

(* A wakeup that was meant for another wait of t. *)
StaleWakeup(t) ==
    /\ t \in Elems(reader_wait_list) \cup Elems(writer_wait_list)
    /\ reader_wait_list' = list_remove_entry(reader_wait_list, t)
    /\ writer_wait_list' = list_remove_entry(writer_wait_list, t)
    /\ UNCHANGED <<word, writers_waiting, wait_lock, pc>>

Proceed(t) ==
    \/ read_lock_slow(t) \/ read_sleep(t) \/ read_unlock(t) \/ read_unlock_wake(t)
    \/ write_lock_slow(t) \/ write_try(t) \/ write_retry(t) \/ write_acquired(t)
    \/ write_sleep(t) \/ write_unlock(t) \/ write_unlock_wake(t) \/ task_sched(t)

Next == \E t \in Tasks : read_lock(t) \/ write_lock(t) \/ Proceed(t) \/ StaleWakeup(t)

Spec == Init /\ [][Next]_vars

(* The steps that take wait_lock. *)
Spin(t) ==
    \/ read_lock_slow(t) \/ read_unlock_wake(t)
    \/ write_lock_slow(t) \/ write_retry(t) \/ write_unlock(t)

(* Tasks inside the lock keep running and leave it; a CPU that spins on     *)
(* wait_lock gets it if it is free again and again.                         *)
Fairness == \A t \in Tasks : WF_vars(Proceed(t)) /\ SF_vars(Spin(t))

FairSpec == Spec /\ Fairness

-----------------------------------------------------------------------------
(* The types of the state of one rwlock_t. *)
TypeOK ==
    /\ readers \in Nat /\ writer \in {0, 1} /\ pending \in {0, 1}
    /\ writers_waiting \in Nat
    /\ reader_wait_list \in Seq(Tasks) /\ writer_wait_list \in Seq(Tasks)
    /\ wait_lock \in Tasks \cup {NoTask}
    /\ pc \in [Tasks -> PCs]

(* A writer is alone: no reader and no other writer is past its lock call,  *)
(* although the fast paths and the last reader change the word without      *)
(* wait_lock.                                                               *)
Writers == {t \in Tasks : pc[t] \in {"w_won", "writing"}}
Readers == {t \in Tasks : pc[t] = "reading"}

Exclusion ==
    /\ \A t, u \in Writers : t = u
    /\ Writers # {} => Readers = {}

(* Somebody awake will look at the word or wake a writer. *)
WriterAwake(t) ==
    \/ pc[t] \in {"r_wake", "w_wake", "w_try", "w_again", "w_won"}
    \/ pc[t] = "w_asleep" /\ t \notin Elems(writer_wait_list)

(* A writer never sleeps on a word nobody uses unless the last reader, the  *)
(* last writer or another awake writer is still to act.                     *)
NoStrandedWriter ==
    writer_wait_list # <<>> /\ readers = 0 /\ writer = 0
        => \E t \in Tasks : WriterAwake(t)

(* A reader never sleeps before an open gate: a writer holds the word, or   *)
(* has it pending, or is about to wake the readers.                         *)
NoStrandedReader ==
    reader_wait_list # <<>> /\ ReaderMayEnter => \E t \in Tasks : pc[t] = "w_wake"

(* "once a writer is waiting, new readers queue behind it" (src/lib/lock.h): *)
(* no reader is admitted while a writer is between registering and taking   *)
(* the word.                                                                *)
WritersFirst ==
    [][(\E t \in Tasks : pc[t] \in {"w_try", "w_again", "w_sleep", "w_asleep"})
         => readers' <= readers]_vars

(* The lock keeps being handed to writers while a writer waits, and to      *)
(* writers while a reader waits: a waiter is only ever passed over for      *)
(* writers.                                                                 *)
HandedOut ==
    \A t \in Tasks :
        /\ <>[](pc[t] \in {"w_try", "w_again", "w_sleep", "w_asleep"})
               => []<>(\E u \in Tasks : pc[u] = "w_won")
        /\ <>[](pc[t] \in {"r_slow", "r_sleep", "r_asleep"})
               => []<>(\E u \in Tasks : pc[u] = "writing")

-----------------------------------------------------------------------------
(* The inductive invariant.  The word counts the readers and marks the one  *)
(* writer; RW_PENDING is set while writers are registered; wait_lock is     *)
(* held inside its sections only; sleepers are queued once, in their queue. *)
Waiting == {t \in Tasks : pc[t] \in {"w_try", "w_again", "w_won", "w_sleep", "w_asleep"}}

InSection == {"r_sleep", "w_try", "w_won", "w_sleep", "w_wake"}

WordInv ==
    /\ readers = Cardinality(Readers)
    /\ writer = 1 <=> Writers # {}
    /\ \A t, u \in Writers : t = u
    /\ writer = 1 => readers = 0

CountInv ==
    /\ writers_waiting = Cardinality(Waiting)
    /\ pending = 1 <=> writers_waiting # 0

SectionInv == \A t \in Tasks : wait_lock = t <=> pc[t] \in InSection

QueueInv ==
    /\ Distinct(reader_wait_list) /\ Distinct(writer_wait_list)
    /\ \A t \in Elems(reader_wait_list) : pc[t] = "r_asleep"
    /\ \A t \in Elems(writer_wait_list) : pc[t] = "w_asleep"

(* A reader about to queue has the gate closed before it; a writer about to *)
(* queue has the word in use, or the last reader behind it.                 *)
SleepInv ==
    /\ (\E t \in Tasks : pc[t] = "r_sleep") => ~ReaderMayEnter
    /\ (\E t \in Tasks : pc[t] = "w_sleep") /\ readers = 0 /\ writer = 0
           => \E t \in Tasks : pc[t] = "r_wake"

RwInv ==
    /\ TypeOK /\ WordInv /\ CountInv /\ SectionInv /\ QueueInv /\ SleepInv
    /\ NoStrandedReader /\ NoStrandedWriter
=============================================================================
