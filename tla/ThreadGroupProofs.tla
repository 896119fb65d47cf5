-------------------------- MODULE ThreadGroupProofs --------------------------
(***************************************************************************)
(* Proofs about ThreadGroup for any number of threads, CPUs and words.     *)
(*                                                                         *)
(* The invariant says which queues a task may be on at its place (PlaceInv *)
(* and QueueInv), what a teardown has achieved at its place (OwnerInv),    *)
(* that the owner of a teardown is never condemned while every condemned   *)
(* member has an owner other than itself (TeardownInv), and that the       *)
(* parent does not sleep beside a waitable child (NoLostChild).            *)
(***************************************************************************)
EXTENDS ThreadGroup, FiniteSetTheorems, TLAPS

(* The places of a task that runs code of its own no more. *)
Over == {"none", "exiting", "stopped", "dead", "zombie"}

(* Nothing but a stack in use is left of t. *)
Ended(t) ==
    /\ status[t] = "dying"
    /\ t \notin futex_waiters /\ t \notin timer_queue
    /\ t \notin in_vm /\ t \notin live_members

(* What the place of t says of its queues ... *)
PlaceInv(t) ==
    /\ pc[t] \notin Over => t \in live_members
    /\ pc[t] \in {"none", "dead", "zombie"} => t \notin on_cpu /\ Ended(t)
    /\ pc[t] = "exiting" => Ended(t) /\ (t \in members => t = Main)
    /\ pc[t] = "none" => t \notin members
    /\ pc[t] = "zombie" => t = Main
    /\ pc[t] = "stopped" => t \in terminate_requested

(* ... and a queue of the place of those on it. *)
QueueInv(t) ==
    /\ t \in dead_threads => pc[t] = "exiting" /\ t # Main
    /\ t \in in_vm => pc[t] = "vm"
    /\ t \in futex_waiters =>
          t \in members /\ t \notin woken /\ pc[t] \in {"sched", "resume", "stopped"}
    /\ t \in timer_queue =>
          /\ t \in members
          /\ pc[t] \in {"sched", "resume", "kill_sched", "kill_wake", "stopped"}

(* What holds of t while it tears the group down. *)
OwnerInv(t) ==
    /\ pc[t] \in Killing => teardown_owner = t
    /\ pc[t] = "collect" =>
          \A u \in members \ {t} :
             u \in terminate_requested /\ u \notin on_cpu /\ u \notin in_vm
    /\ pc[t] = "reap" =>
          \A u \in members \ {t} : u = Main /\ pc[u] \in {"dead", "zombie"}

(* The owner is alive and not condemned itself, and a condemned member that *)
(* has not been collected has an owner other than itself.                   *)
TeardownInv ==
    /\ teardown_owner # NoTask =>
          pc[teardown_owner] \in Killing /\ teardown_owner \notin terminate_requested
    /\ \A u \in members :
          u \in terminate_requested =>
             \/ pc[u] \in {"dead", "zombie"}
             \/ teardown_owner # NoTask /\ teardown_owner # u

MainInv == Main \in members \/ pc[Main] = "none"

GroupInv ==
    /\ TypeOK
    /\ \A t \in Tasks : PlaceInv(t)
    /\ \A t \in Tasks : QueueInv(t)
    /\ \A t \in Tasks : OwnerInv(t)
    /\ TeardownInv
    /\ MainInv
    /\ NoLostChild

(* The steps that A allows keep the invariant. *)
Preserves(A) == GroupInv /\ A => GroupInv'


-----------------------------------------------------------------------------
(* Steps of a task outside waits, transactions and teardowns that leave the *)
(* queues, the scheduler and the group as they are.                         *)
Plain(l) == l \notin Over \cup Killing \cup {"sched", "resume", "vm"}

PlainStep(t, l) ==
    /\ TypeOK' /\ Plain(pc[t]) /\ Plain(l) /\ pc' = [pc EXCEPT ![t] = l]
    /\ UNCHANGED <<schedVars, futex_waiters, woken, groupVars>>

LEMMA PlainInv ==
    ASSUME NEW t \in Tasks, NEW l
    PROVE  Preserves(PlainStep(t, l))
<1> SUFFICES ASSUME GroupInv, TypeOK', Plain(pc[t]), Plain(l), pc' = [pc EXCEPT ![t] = l],
                    UNCHANGED <<schedVars, futex_waiters, woken, groupVars>>
             PROVE  GroupInv'
  BY Zenon DEF Preserves, PlainStep
<1>a. PlaceInv(t) /\ QueueInv(t) /\ pc' \in [Tasks -> GroupLabels] /\ pc'[t] = l
  BY Zenon DEF GroupInv, TypeOK, schedVars, groupVars
<1>b. PlaceInv(t)'
  BY Zenon, <1>a DEF PlaceInv, Over, Plain, schedVars, groupVars
<1>c. QueueInv(t)'
  BY Zenon, <1>a DEF QueueInv, Over, Killing, Plain, schedVars, groupVars
<1>1. ASSUME NEW u \in Tasks PROVE PlaceInv(u)' /\ QueueInv(u)'
  <2>1. CASE u = t
    BY Zenon, <1>b, <1>c, <2>1 DEF schedVars, groupVars
  <2>2. CASE u # t
    <3>1. pc'[u] = pc[u] /\ PlaceInv(u) /\ QueueInv(u)
      BY <2>2 DEF GroupInv, schedVars, groupVars
    <3>. QED
      BY Zenon, <3>1 DEF PlaceInv, QueueInv, Ended, schedVars, groupVars
  <2>. QED BY Zenon, <2>1, <2>2
<1>2. ASSUME NEW u \in Tasks PROVE OwnerInv(u)'
  BY DEF GroupInv, OwnerInv, Plain, Over, Killing, schedVars, groupVars
<1>3. TeardownInv'
  BY DEF GroupInv, TeardownInv, Plain, Over, schedVars, groupVars
<1>4. MainInv' /\ NoLostChild'
  BY DEF GroupInv, MainInv, NoLostChild, Waitable, Plain, Over, schedVars,
     groupVars
<1>. QED
  BY Zenon, <1>1, <1>2, <1>3, <1>4 DEF GroupInv


(* do_clone: the new member starts alive and on no queue, also while a      *)
(* teardown runs.                                                           *)
LEMMA CloneInv ==
    ASSUME NEW t \in Tasks, NEW u \in Tasks
    PROVE  Preserves(do_clone(t, u))
<1> SUFFICES ASSUME GroupInv, do_clone(t, u) PROVE GroupInv'
  BY Zenon DEF Preserves
<1>1. TypeOK'
  BY Zenon DEF GroupInv, TypeOK, FutexVarsTypeOK, SchedTypeOK, Statuses,
     GroupLabels, Labels, do_clone
<1>2. ASSUME NEW v \in Tasks PROVE PlaceInv(v)'
  BY DEF GroupInv, TypeOK, PlaceInv, Ended, Over, do_clone
<1>3. ASSUME NEW v \in Tasks PROVE QueueInv(v)'
  BY Zenon DEF GroupInv, TypeOK, QueueInv, do_clone
<1>4. ASSUME NEW v \in Tasks PROVE OwnerInv(v)'
  BY Zenon DEF GroupInv, TypeOK, PlaceInv, OwnerInv, Killing, Over, do_clone
<1>5. TeardownInv'
  BY Zenon DEF GroupInv, TypeOK, TeardownInv, Killing, do_clone
<1>6. MainInv' /\ NoLostChild'
  BY Zenon, MainAssumption DEF GroupInv, TypeOK, MainInv, NoLostChild, Waitable,
     do_clone
<1>. QED
  BY Zenon, <1>1, <1>2, <1>3, <1>4, <1>5, <1>6 DEF GroupInv

(* vm_lock_enter: a fault opens a VM transaction. *)
LEMMA VmEnterInv ==
    ASSUME NEW t \in Tasks
    PROVE  Preserves(vm_lock_enter(t))
<1> SUFFICES ASSUME GroupInv, vm_lock_enter(t) PROVE GroupInv'
  BY Zenon DEF Preserves
<1>1. TypeOK'
  BY Zenon DEF GroupInv, TypeOK, FutexVarsTypeOK, SchedTypeOK, GroupLabels,
     vm_lock_enter, futexVars, groupVars, Step
<1>2. ASSUME NEW v \in Tasks PROVE PlaceInv(v)'
  BY DEF GroupInv, PlaceInv, Ended, Over, vm_lock_enter, futexVars, groupVars,
     Step
<1>3. ASSUME NEW v \in Tasks PROVE QueueInv(v)'
  BY Zenon DEF GroupInv, TypeOK, QueueInv, vm_lock_enter, futexVars, groupVars,
     Step
<1>4. ASSUME NEW v \in Tasks PROVE OwnerInv(v)'
  BY DEF GroupInv, OwnerInv, Killing, vm_lock_enter, futexVars, groupVars, Step
<1>5. TeardownInv'
  BY DEF GroupInv, TeardownInv, Killing, vm_lock_enter, futexVars, groupVars,
     Step
<1>6. MainInv' /\ NoLostChild'
  BY DEF GroupInv, MainInv, NoLostChild, Waitable, vm_lock_enter, futexVars,
     groupVars, Step
<1>. QED
  BY Zenon, <1>1, <1>2, <1>3, <1>4, <1>5, <1>6 DEF GroupInv

(* vm_lock_leave: the transaction ends where it began. *)
LEMMA VmLeaveInv ==
    ASSUME NEW t \in Tasks
    PROVE  Preserves(vm_lock_leave(t))
<1> SUFFICES ASSUME GroupInv, vm_lock_leave(t) PROVE GroupInv'
  BY Zenon DEF Preserves
<1>1. TypeOK'
  BY Zenon DEF GroupInv, TypeOK, FutexVarsTypeOK, SchedTypeOK, GroupLabels,
     Labels, vm_lock_leave, futexVars, groupVars, Step
<1>2. ASSUME NEW v \in Tasks PROVE PlaceInv(v)'
  BY DEF GroupInv, PlaceInv, Ended, Over, vm_lock_leave, futexVars, groupVars,
     Step
<1>3. ASSUME NEW v \in Tasks PROVE QueueInv(v)'
  BY DEF GroupInv, QueueInv, vm_lock_leave, futexVars, groupVars, Step
<1>4. ASSUME NEW v \in Tasks PROVE OwnerInv(v)'
  BY DEF GroupInv, OwnerInv, Killing, vm_lock_leave, futexVars, groupVars, Step
<1>5. TeardownInv'
  BY DEF GroupInv, TeardownInv, Killing, vm_lock_leave, futexVars, groupVars,
     Step
<1>6. MainInv' /\ NoLostChild'
  BY DEF GroupInv, MainInv, NoLostChild, Waitable, vm_lock_leave, futexVars,
     groupVars, Step
<1>. QED
  BY Zenon, <1>1, <1>2, <1>3, <1>4, <1>5, <1>6 DEF GroupInv

(* do_exit of a thread: it leaves the group and queues itself for the       *)
(* reaper.                                                                  *)
LEMMA ExitThreadInv ==
    ASSUME NEW t \in Tasks
    PROVE  Preserves(exit_thread(t))
<1> SUFFICES ASSUME GroupInv, exit_thread(t) PROVE GroupInv'
  BY Zenon DEF Preserves
<1>1. TypeOK'
  BY Zenon DEF GroupInv, TypeOK, FutexVarsTypeOK, SchedTypeOK, Statuses,
     GroupLabels, exit_thread, ExitThread, LastExit, timer_disarm_unsafe,
     futexVars, Step
<1>2. ASSUME NEW v \in Tasks PROVE PlaceInv(v)'
  BY Zenon DEF GroupInv, TypeOK, FutexVarsTypeOK, SchedTypeOK, PlaceInv,
     QueueInv, Ended, Over, exit_thread, ExitThread, LastExit,
     timer_disarm_unsafe, futexVars, Step
<1>3. ASSUME NEW v \in Tasks PROVE QueueInv(v)'
  BY Zenon DEF GroupInv, TypeOK, QueueInv, exit_thread, ExitThread, LastExit,
     timer_disarm_unsafe, futexVars, Step
<1>4. ASSUME NEW v \in Tasks PROVE OwnerInv(v)'
  BY DEF GroupInv, OwnerInv, Killing, exit_thread, ExitThread, LastExit,
     timer_disarm_unsafe, futexVars, Step
<1>5. TeardownInv'
  BY DEF GroupInv, TeardownInv, Killing, exit_thread, ExitThread, LastExit,
     timer_disarm_unsafe, futexVars, Step
<1>6. MainInv' /\ NoLostChild'
  BY Zenon, MainAssumption DEF GroupInv, TypeOK, MainInv, NoLostChild, Waitable,
     exit_thread, ExitThread, LastExit, timer_disarm_unsafe, futexVars, Step
<1>. QED
  BY Zenon, <1>1, <1>2, <1>3, <1>4, <1>5, <1>6 DEF GroupInv

(* do_exit of Main: it stays a member, dying, until waitpid or a teardown. *)
LEMMA ExitMainInv ==
    Preserves(exit_main)
<1> SUFFICES ASSUME GroupInv, exit_main PROVE GroupInv'
  BY Zenon DEF Preserves
<1>1. TypeOK'
  BY Zenon DEF GroupInv, TypeOK, FutexVarsTypeOK, SchedTypeOK, Statuses,
     GroupLabels, exit_main, timer_disarm_unsafe, futexVars, Step
<1>2. ASSUME NEW v \in Tasks PROVE PlaceInv(v)'
  BY Zenon DEF GroupInv, TypeOK, FutexVarsTypeOK, SchedTypeOK, PlaceInv,
     QueueInv, Ended, Over, exit_main, timer_disarm_unsafe, futexVars, Step
<1>3. ASSUME NEW v \in Tasks PROVE QueueInv(v)'
  BY DEF GroupInv, QueueInv, exit_main, timer_disarm_unsafe, futexVars, Step
<1>4. ASSUME NEW v \in Tasks PROVE OwnerInv(v)'
  BY DEF GroupInv, OwnerInv, Killing, exit_main, timer_disarm_unsafe, futexVars,
     Step
<1>5. TeardownInv'
  BY DEF GroupInv, TeardownInv, Killing, exit_main, timer_disarm_unsafe,
     futexVars, Step
<1>6. MainInv' /\ NoLostChild'
  BY Zenon DEF GroupInv, MainInv, NoLostChild, Waitable, exit_main,
     timer_disarm_unsafe, futexVars, Step
<1>. QED
  BY Zenon, <1>1, <1>2, <1>3, <1>4, <1>5, <1>6 DEF GroupInv

(* ps_reap_dead_threads: only a thread that is off its CPU is freed. *)
LEMMA ReapInv ==
    ASSUME NEW t \in Tasks
    PROVE  Preserves(ps_reap_dead_threads(t))
<1> SUFFICES ASSUME GroupInv, ps_reap_dead_threads(t) PROVE GroupInv'
  BY Zenon DEF Preserves
<1>1. TypeOK'
  BY Zenon DEF GroupInv, TypeOK, FutexVarsTypeOK, SchedTypeOK, GroupLabels,
     ps_reap_dead_threads, Reap, schedVars, futexVars
<1>2. ASSUME NEW v \in Tasks PROVE PlaceInv(v)'
  BY DEF GroupInv, PlaceInv, QueueInv, Ended, Over, ps_reap_dead_threads, Reap,
     schedVars, futexVars
<1>3. ASSUME NEW v \in Tasks PROVE QueueInv(v)'
  BY DEF GroupInv, QueueInv, ps_reap_dead_threads, Reap, schedVars, futexVars
<1>4. ASSUME NEW v \in Tasks PROVE OwnerInv(v)'
  BY DEF GroupInv, QueueInv, OwnerInv, Killing, ps_reap_dead_threads, Reap,
     schedVars, futexVars
<1>5. TeardownInv'
  BY DEF GroupInv, QueueInv, TeardownInv, Killing, ps_reap_dead_threads, Reap,
     schedVars, futexVars
<1>6. MainInv' /\ NoLostChild'
  BY DEF GroupInv, MainInv, NoLostChild, Waitable, ps_reap_dead_threads, Reap,
     schedVars, futexVars
<1>. QED
  BY Zenon, <1>1, <1>2, <1>3, <1>4, <1>5, <1>6 DEF GroupInv

(* smp_check_stop: a condemned thread stops where it enters or leaves the   *)
(* kernel.                                                                  *)
LEMMA StopInv ==
    ASSUME NEW t \in Tasks
    PROVE  Preserves(smp_check_stop(t))
<1> SUFFICES ASSUME GroupInv, smp_check_stop(t) PROVE GroupInv'
  BY Zenon DEF Preserves
<1>1. TypeOK'
  BY Zenon DEF GroupInv, TypeOK, FutexVarsTypeOK, SchedTypeOK, Statuses,
     GroupLabels, smp_check_stop, futexVars, Step
<1>2. ASSUME NEW v \in Tasks PROVE PlaceInv(v)'
  BY DEF GroupInv, TypeOK, PlaceInv, Ended, Over, smp_check_stop, futexVars,
     Step
<1>3. ASSUME NEW v \in Tasks PROVE QueueInv(v)'
  BY DEF GroupInv, QueueInv, smp_check_stop, futexVars, Step
<1>4. ASSUME NEW v \in Tasks PROVE OwnerInv(v)'
  BY DEF GroupInv, PlaceInv, OwnerInv, Killing, smp_check_stop, futexVars, Step
<1>5. TeardownInv'
  BY DEF GroupInv, PlaceInv, TeardownInv, smp_check_stop, futexVars, Step
<1>6. MainInv' /\ NoLostChild'
  BY DEF GroupInv, PlaceInv, MainInv, NoLostChild, Waitable, smp_check_stop,
     futexVars, Step
<1>. QED
  BY Zenon, <1>1, <1>2, <1>3, <1>4, <1>5, <1>6 DEF GroupInv

(* ps_kill_thread_group claims the teardown and condemns the siblings. *)
LEMMA KillBeginInv ==
    ASSUME NEW t \in Tasks, NEW call \in {"exit_group", "exec"}
    PROVE  Preserves(kill_begin(t, call))
<1> SUFFICES ASSUME GroupInv, kill_begin(t, call) PROVE GroupInv'
  BY Zenon DEF Preserves
<1>1. TypeOK'
  BY Zenon DEF GroupInv, TypeOK, FutexVarsTypeOK, SchedTypeOK, GroupLabels,
     Killing, kill_begin, futexVars, Step
<1>2. ASSUME NEW v \in Tasks PROVE PlaceInv(v)'
  BY Zenon DEF GroupInv, TypeOK, PlaceInv, Ended, Over, kill_begin, futexVars,
     Step
<1>3. ASSUME NEW v \in Tasks PROVE QueueInv(v)'
  BY Zenon DEF GroupInv, TypeOK, QueueInv, kill_begin, futexVars, Step
<1>4. ASSUME NEW v \in Tasks PROVE OwnerInv(v)'
  BY NoTaskAssumption DEF GroupInv, TypeOK, OwnerInv, kill_begin, futexVars,
     Step
<1>5. TeardownInv'
  BY DEF GroupInv, TypeOK, TeardownInv, Killing, kill_begin, futexVars, Step
<1>6. MainInv' /\ NoLostChild'
  BY Zenon, MainAssumption DEF GroupInv, TypeOK, MainInv, NoLostChild, Waitable,
     kill_begin, futexVars, Step
<1>. QED
  BY Zenon, <1>1, <1>2, <1>3, <1>4, <1>5, <1>6 DEF GroupInv

(* The owner looks at its siblings and collects or sleeps for a tick. *)
LEMMA ScanInv ==
    ASSUME NEW t \in Tasks
    PROVE  Preserves(kill_scan(t))
<1> SUFFICES ASSUME GroupInv, kill_scan(t) PROVE GroupInv'
  BY Zenon DEF Preserves
<1>1. TypeOK'
  BY DEF GroupInv, TypeOK, FutexVarsTypeOK, SchedTypeOK, Statuses, GroupLabels,
     Killing, kill_scan, Scan, ps_put_to_wait_queue_unsafe, futexVars,
     groupVars, Step, Siblings
<1>2. ASSUME NEW v \in Tasks PROVE PlaceInv(v)'
  BY DEF GroupInv, TypeOK, FutexVarsTypeOK, SchedTypeOK, PlaceInv, Ended, Over,
     kill_scan, Scan, ps_put_to_wait_queue_unsafe, futexVars, groupVars, Step,
     Siblings
<1>3. ASSUME NEW v \in Tasks PROVE QueueInv(v)'
  BY DEF GroupInv, TypeOK, PlaceInv, QueueInv, Over, kill_scan, Scan,
     ps_put_to_wait_queue_unsafe, futexVars, groupVars, Step, Siblings
<1>4. ASSUME NEW v \in Tasks PROVE OwnerInv(v)'
  BY DEF GroupInv, TypeOK, OwnerInv, Killing, kill_scan, Scan,
     ps_put_to_wait_queue_unsafe, futexVars, groupVars, Step, Siblings
<1>5. TeardownInv'
  BY Zenon, NoTaskAssumption DEF GroupInv, TypeOK, OwnerInv, TeardownInv,
     Killing, kill_scan, Scan, ps_put_to_wait_queue_unsafe, futexVars,
     groupVars, Step, Siblings
<1>6. MainInv' /\ NoLostChild'
  BY Zenon, MainAssumption DEF GroupInv, TypeOK, MainInv, NoLostChild, Waitable,
     kill_scan, Scan, ps_put_to_wait_queue_unsafe, futexVars, groupVars, Step,
     Siblings
<1>. QED
  BY Zenon, <1>1, <1>2, <1>3, <1>4, <1>5, <1>6 DEF GroupInv

(* The owner wakes and disarms its tick. *)
LEMMA FinishInv ==
    ASSUME NEW t \in Tasks
    PROVE  Preserves(ps_finish_timed_wait(t))
<1> SUFFICES ASSUME GroupInv, ps_finish_timed_wait(t) PROVE GroupInv'
  BY Zenon DEF Preserves
<1>1. TypeOK'
  BY Zenon DEF GroupInv, TypeOK, FutexVarsTypeOK, SchedTypeOK, GroupLabels,
     Killing, ps_finish_timed_wait, timer_disarm_unsafe, futexVars, groupVars,
     Step
<1>2. ASSUME NEW v \in Tasks PROVE PlaceInv(v)'
  BY DEF GroupInv, PlaceInv, Ended, Over, ps_finish_timed_wait,
     timer_disarm_unsafe, futexVars, groupVars, Step
<1>3. ASSUME NEW v \in Tasks PROVE QueueInv(v)'
  BY DEF GroupInv, QueueInv, ps_finish_timed_wait, timer_disarm_unsafe,
     futexVars, groupVars, Step
<1>4. ASSUME NEW v \in Tasks PROVE OwnerInv(v)'
  BY DEF GroupInv, OwnerInv, Killing, ps_finish_timed_wait, timer_disarm_unsafe,
     futexVars, groupVars, Step
<1>5. TeardownInv'
  BY DEF GroupInv, TeardownInv, Killing, ps_finish_timed_wait,
     timer_disarm_unsafe, futexVars, groupVars, Step
<1>6. MainInv' /\ NoLostChild'
  BY DEF GroupInv, MainInv, NoLostChild, Waitable, ps_finish_timed_wait,
     timer_disarm_unsafe, futexVars, groupVars, Step
<1>. QED
  BY Zenon, <1>1, <1>2, <1>3, <1>4, <1>5, <1>6 DEF GroupInv

(* The owner unlinks the stopped siblings, which OwnerInv says nobody runs. *)
LEMMA CollectInv ==
    ASSUME NEW t \in Tasks
    PROVE  Preserves(collect(t))
<1> SUFFICES ASSUME GroupInv, collect(t) PROVE GroupInv'
  BY Zenon DEF Preserves
<1>1. TypeOK'
  BY Zenon DEF GroupInv, TypeOK, FutexVarsTypeOK, SchedTypeOK, Statuses,
     GroupLabels, Killing, collect, Collect, Siblings
<1>2. ASSUME NEW v \in Tasks PROVE PlaceInv(v)'
  BY Zenon DEF GroupInv, OwnerInv, PlaceInv, Ended, Over, collect, Collect,
     Siblings
<1>3. ASSUME NEW v \in Tasks PROVE QueueInv(v)'
  BY Zenon DEF GroupInv, OwnerInv, PlaceInv, QueueInv, collect, Collect,
     Siblings
<1>4. ASSUME NEW v \in Tasks PROVE OwnerInv(v)'
  BY Zenon DEF GroupInv, TypeOK, OwnerInv, Killing, collect, Collect, Siblings
<1>5. TeardownInv'
  BY Zenon DEF GroupInv, TypeOK, OwnerInv, TeardownInv, Killing, collect,
     Collect, Siblings
<1>6. MainInv' /\ NoLostChild'
  BY Zenon, MainAssumption DEF GroupInv, PlaceInv, MainInv, NoLostChild,
     Waitable, Over, collect, Collect, Siblings
<1>. QED
  BY Zenon, <1>1, <1>2, <1>3, <1>4, <1>5, <1>6 DEF GroupInv

(* ps_reap_group_thread frees a collected sibling. *)
LEMMA ReapGroupInv ==
    ASSUME NEW t \in Tasks, NEW u \in Tasks
    PROVE  Preserves(ps_reap_group_thread(t, u))
<1> SUFFICES ASSUME GroupInv, ps_reap_group_thread(t, u) PROVE GroupInv'
  BY Zenon DEF Preserves
<1>1. TypeOK'
  BY Zenon DEF GroupInv, TypeOK, FutexVarsTypeOK, SchedTypeOK, GroupLabels,
     ps_reap_group_thread, schedVars, futexVars
<1>2. ASSUME NEW v \in Tasks PROVE PlaceInv(v)'
  BY DEF GroupInv, OwnerInv, PlaceInv, Ended, Over, ps_reap_group_thread,
     schedVars, futexVars
<1>3. ASSUME NEW v \in Tasks PROVE QueueInv(v)'
  BY DEF GroupInv, QueueInv, ps_reap_group_thread, schedVars, futexVars
<1>4. ASSUME NEW v \in Tasks PROVE OwnerInv(v)'
  BY DEF GroupInv, OwnerInv, Killing, ps_reap_group_thread, schedVars, futexVars
<1>5. TeardownInv'
  BY DEF GroupInv, OwnerInv, TeardownInv, Killing, ps_reap_group_thread,
     schedVars, futexVars
<1>6. MainInv' /\ NoLostChild'
  BY DEF GroupInv, PlaceInv, MainInv, NoLostChild, Waitable, Over,
     ps_reap_group_thread, schedVars, futexVars
<1>. QED
  BY Zenon, <1>1, <1>2, <1>3, <1>4, <1>5, <1>6 DEF GroupInv

(* The owner gives the teardown up once no sibling is left to reap. *)
LEMMA KillEndInv ==
    ASSUME NEW t \in Tasks, NEW to \in {"exit", "user"}
    PROVE  Preserves(kill_end(t, to))
<1> SUFFICES ASSUME GroupInv, kill_end(t, to) PROVE GroupInv'
  BY Zenon DEF Preserves
<1>1. TypeOK'
  BY Zenon DEF GroupInv, TypeOK, FutexVarsTypeOK, SchedTypeOK, GroupLabels,
     Labels, KernelCalls, kill_end, schedVars, futexVars, Step
<1>2. ASSUME NEW v \in Tasks PROVE PlaceInv(v)'
  <2>1. /\ PlaceInv(v) /\ PlaceInv(t)
        /\ pc[t] = "reap" /\ pc'[t] = to /\ (v # t => pc'[v] = pc[v])
    BY Zenon DEF GroupInv, TypeOK, kill_end, schedVars, futexVars, Step
  <2>2. UNCHANGED <<status, futex_waiters, timer_queue, in_vm, live_members, on_cpu,
                    members, terminate_requested>>
    BY Zenon DEF kill_end, schedVars, futexVars, Step
  <2>3. CASE v = t
    BY Zenon, <2>1, <2>2, <2>3 DEF PlaceInv, Over, kill_end, schedVars,
       futexVars, Step
  <2>4. CASE v # t
    BY Zenon, <2>1, <2>2, <2>4 DEF PlaceInv, Ended, Over, kill_end, schedVars,
       futexVars, Step
  <2>. QED BY Zenon, <2>3, <2>4
<1>3. ASSUME NEW v \in Tasks PROVE QueueInv(v)'
  BY DEF GroupInv, QueueInv, kill_end, schedVars, futexVars, Step
<1>4. ASSUME NEW v \in Tasks PROVE OwnerInv(v)'
  BY DEF GroupInv, TypeOK, OwnerInv, Killing, kill_end, schedVars, futexVars,
     Step
<1>5. TeardownInv'
  BY DEF GroupInv, OwnerInv, TeardownInv, Killing, kill_end, schedVars,
     futexVars, Step
<1>6. MainInv' /\ NoLostChild'
  BY DEF GroupInv, MainInv, NoLostChild, Waitable, kill_end, schedVars,
     futexVars, Step
<1>. QED
  BY Zenon, <1>1, <1>2, <1>3, <1>4, <1>5, <1>6 DEF GroupInv

(* With no live member left, Main has left every queue: a stopped Main has  *)
(* an owner, which is live.                                                 *)
LEMMA MainEnded ==
    ASSUME GroupInv, live_members = {}
    PROVE  Ended(Main) /\ Main \notin dead_threads
<1>1. PlaceInv(Main) /\ QueueInv(Main) /\ TeardownInv /\ MainInv
  BY Zenon, MainAssumption DEF GroupInv
<1>2. pc[Main] # "stopped"
  <2>. SUFFICES ASSUME pc[Main] = "stopped" PROVE FALSE
    BY Zenon
  <2>1. teardown_owner # NoTask
    BY Zenon, <1>1 DEF PlaceInv, TeardownInv, MainInv
  <2>2. teardown_owner \in Tasks /\ pc[teardown_owner] \in Killing
    BY Zenon, <1>1, <2>1 DEF GroupInv, TypeOK, TeardownInv
  <2>. QED
    BY Zenon, <2>2 DEF GroupInv, PlaceInv, Over, Killing
<1>3. pc[Main] \in {"none", "exiting", "dead", "zombie"}
  BY Zenon, <1>1, <1>2 DEF PlaceInv, Over
<1>. QED
  BY Zenon, <1>1, <1>3 DEF PlaceInv, QueueInv


(* do_waitpid: the parent frees Main, which MainEnded says is on no queue,  *)
(* or sleeps.                                                               *)
LEMMA WaitpidInv ==
    Preserves(do_waitpid)
<1> SUFFICES ASSUME GroupInv, do_waitpid PROVE GroupInv'
  BY Zenon DEF Preserves
<1>1. TypeOK'
  BY Zenon DEF GroupInv, TypeOK, FutexVarsTypeOK, SchedTypeOK, GroupLabels,
     do_waitpid, Waitable, schedVars, futexVars
<1>2. ASSUME NEW v \in Tasks PROVE PlaceInv(v)'
  BY Zenon, MainEnded DEF GroupInv, TypeOK, PlaceInv, Ended, Over, do_waitpid,
     Waitable, schedVars, futexVars
<1>3. ASSUME NEW v \in Tasks PROVE QueueInv(v)'
  BY Zenon, MainEnded DEF GroupInv, TypeOK, QueueInv, Ended, do_waitpid,
     Waitable, schedVars, futexVars
<1>4. ASSUME NEW v \in Tasks PROVE OwnerInv(v)'
  BY Zenon DEF GroupInv, TypeOK, OwnerInv, Killing, do_waitpid, Waitable,
     schedVars, futexVars
<1>5. TeardownInv'
  BY Zenon DEF GroupInv, TypeOK, PlaceInv, TeardownInv, Killing, Over,
     do_waitpid, Waitable, schedVars, futexVars
<1>6. MainInv' /\ NoLostChild'
  BY Zenon DEF GroupInv, TypeOK, MainInv, NoLostChild, do_waitpid, Waitable,
     schedVars, futexVars
<1>. QED
  BY Zenon, <1>1, <1>2, <1>3, <1>4, <1>5, <1>6 DEF GroupInv

(* FUTEX_WAIT links the waiter and its deadline. *)
LEMMA WaitQueueInv ==
    ASSUME NEW t \in Tasks
    PROVE  Preserves(wait_queue(t) /\ UNCHANGED groupVars)
<1> SUFFICES ASSUME GroupInv, wait_queue(t), UNCHANGED groupVars PROVE GroupInv'
  BY Zenon DEF Preserves
<1>1. TypeOK'
  BY Zenon DEF GroupInv, TypeOK, FutexVarsTypeOK, SchedTypeOK, Statuses,
     GroupLabels, Labels, wait_queue, Queue, ps_put_to_wait_queue_unsafe,
     groupVars, Step
<1>2. ASSUME NEW v \in Tasks PROVE PlaceInv(v)'
  BY DEF GroupInv, PlaceInv, Ended, Over, wait_queue, Queue,
     ps_put_to_wait_queue_unsafe, groupVars, Step
<1>3. ASSUME NEW v \in Tasks PROVE QueueInv(v)'
  BY Zenon DEF GroupInv, TypeOK, PlaceInv, QueueInv, Over, wait_queue, Queue,
     ps_put_to_wait_queue_unsafe, groupVars, Step
<1>4. ASSUME NEW v \in Tasks PROVE OwnerInv(v)'
  BY DEF GroupInv, OwnerInv, Killing, wait_queue, Queue,
     ps_put_to_wait_queue_unsafe, groupVars, Step
<1>5. TeardownInv'
  BY DEF GroupInv, TeardownInv, Killing, wait_queue, Queue,
     ps_put_to_wait_queue_unsafe, groupVars, Step
<1>6. MainInv' /\ NoLostChild'
  BY DEF GroupInv, MainInv, NoLostChild, Waitable, wait_queue, Queue,
     ps_put_to_wait_queue_unsafe, groupVars, Step
<1>. QED
  BY Zenon, <1>1, <1>2, <1>3, <1>4, <1>5, <1>6 DEF GroupInv

(* FUTEX_WAIT unlinks the waiter, unless its waker did, and its deadline. *)
LEMMA ResumeInv ==
    ASSUME NEW t \in Tasks
    PROVE  Preserves(wait_resume(t) /\ UNCHANGED groupVars)
<1> SUFFICES ASSUME GroupInv, wait_resume(t), UNCHANGED groupVars PROVE GroupInv'
  BY Zenon DEF Preserves
<1>1. TypeOK'
  BY Zenon DEF GroupInv, TypeOK, FutexVarsTypeOK, SchedTypeOK, GroupLabels,
     Labels, wait_resume, Resume, Return, GoOn, timer_disarm_unsafe, groupVars,
     Step
<1>2. ASSUME NEW v \in Tasks PROVE PlaceInv(v)'
  BY Zenon DEF GroupInv, TypeOK, PlaceInv, Ended, Over, wait_resume, Resume,
     Return, GoOn, timer_disarm_unsafe, groupVars, Step
<1>3. ASSUME NEW v \in Tasks PROVE QueueInv(v)'
  BY DEF GroupInv, TypeOK, QueueInv, wait_resume, Resume, Return, GoOn,
     timer_disarm_unsafe, groupVars, Step
<1>4. ASSUME NEW v \in Tasks PROVE OwnerInv(v)'
  BY Zenon DEF GroupInv, TypeOK, OwnerInv, Killing, wait_resume, Resume, Return,
     GoOn, timer_disarm_unsafe, groupVars, Step
<1>5. TeardownInv'
  BY Zenon DEF GroupInv, TypeOK, TeardownInv, Killing, wait_resume, Resume,
     Return, GoOn, timer_disarm_unsafe, groupVars, Step
<1>6. MainInv' /\ NoLostChild'
  BY Zenon, MainAssumption DEF GroupInv, TypeOK, MainInv, NoLostChild, Waitable,
     wait_resume, Resume, Return, GoOn, timer_disarm_unsafe, groupVars, Step
<1>. QED
  BY Zenon, <1>1, <1>2, <1>3, <1>4, <1>5, <1>6 DEF GroupInv

(* FUTEX_WAKE unlinks the waiters it wakes; a dying task is not made ready. *)
LEMMA WakeInv ==
    ASSUME NEW t \in Tasks
    PROVE  Preserves(futex_wake(t) /\ UNCHANGED groupVars)
<1> SUFFICES ASSUME GroupInv, futex_wake(t), UNCHANGED groupVars PROVE GroupInv'
  BY Zenon DEF Preserves
<1>1. TypeOK'
  BY Zenon DEF GroupInv, TypeOK, FutexVarsTypeOK, SchedTypeOK, Statuses,
     GroupLabels, Labels, futex_wake, futex_wake_mask_unsafe, Waiters, Wakable,
     ps_put_to_ready_queue_unsafe, Return, groupVars, Step
<1>2. ASSUME NEW v \in Tasks PROVE PlaceInv(v)'
  BY DEF GroupInv, PlaceInv, Ended, Over, futex_wake, futex_wake_mask_unsafe,
     Waiters, Wakable, ps_put_to_ready_queue_unsafe, Return, groupVars, Step
<1>3. ASSUME NEW v \in Tasks PROVE QueueInv(v)'
  BY DEF GroupInv, QueueInv, futex_wake, futex_wake_mask_unsafe, Waiters,
     Wakable, ps_put_to_ready_queue_unsafe, Return, groupVars, Step
<1>4. ASSUME NEW v \in Tasks PROVE OwnerInv(v)'
  BY DEF GroupInv, OwnerInv, Killing, futex_wake, futex_wake_mask_unsafe,
     Waiters, Wakable, ps_put_to_ready_queue_unsafe, Return, groupVars, Step
<1>5. TeardownInv'
  BY DEF GroupInv, TeardownInv, Killing, futex_wake, futex_wake_mask_unsafe,
     Waiters, Wakable, ps_put_to_ready_queue_unsafe, Return, groupVars, Step
<1>6. MainInv' /\ NoLostChild'
  BY DEF GroupInv, MainInv, NoLostChild, Waitable, futex_wake,
     futex_wake_mask_unsafe, Waiters, Wakable, ps_put_to_ready_queue_unsafe,
     Return, groupVars, Step
<1>. QED
  BY Zenon, <1>1, <1>2, <1>3, <1>4, <1>5, <1>6 DEF GroupInv

(* A signal makes an interruptible waiter ready and leaves the queues       *)
(* alone.                                                                   *)
LEMMA SignalInv ==
    ASSUME NEW t \in Tasks
    PROVE  Preserves(Signal(t) /\ UNCHANGED groupVars)
<1> SUFFICES ASSUME GroupInv, Signal(t), UNCHANGED groupVars PROVE GroupInv'
  BY Zenon DEF Preserves
<1>1. TypeOK'
  BY Zenon DEF GroupInv, TypeOK, FutexVarsTypeOK, SchedTypeOK, Statuses, Signal,
     queue_signal, Wakable, ps_put_to_ready_queue_unsafe, groupVars
<1>2. ASSUME NEW v \in Tasks PROVE PlaceInv(v)'
  BY Zenon DEF GroupInv, PlaceInv, Ended, Signal, queue_signal, Wakable,
     ps_put_to_ready_queue_unsafe, groupVars
<1>3. ASSUME NEW v \in Tasks PROVE QueueInv(v)'
  BY Zenon DEF GroupInv, QueueInv, Signal, queue_signal, Wakable,
     ps_put_to_ready_queue_unsafe, groupVars
<1>4. ASSUME NEW v \in Tasks PROVE OwnerInv(v)'
  BY Zenon DEF GroupInv, OwnerInv, Signal, queue_signal, Wakable,
     ps_put_to_ready_queue_unsafe, groupVars
<1>5. TeardownInv'
  BY Zenon DEF GroupInv, TeardownInv, Signal, queue_signal, Wakable,
     ps_put_to_ready_queue_unsafe, groupVars
<1>6. MainInv' /\ NoLostChild'
  BY Zenon DEF GroupInv, MainInv, NoLostChild, Waitable, Signal, queue_signal,
     Wakable, ps_put_to_ready_queue_unsafe, groupVars
<1>. QED
  BY Zenon, <1>1, <1>2, <1>3, <1>4, <1>5, <1>6 DEF GroupInv

(* A switch puts at most one task on the CPU it takes one from. *)
LEMMA CpuCount ==
    ASSUME SchedTypeOK, NEW p, NEW n, OnCPU(p),
           on_cpu' = ((on_cpu \ {p}) \cup {n}) \ {Idle}
    PROVE  Cardinality(on_cpu') <= NCPU
<1>1. IsFiniteSet(on_cpu) /\ Cardinality(on_cpu) \in Nat
  BY Zenon, TasksAssumption, FS_Subset, FS_CardinalityType DEF SchedTypeOK
<1> DEFINE C == on_cpu \ {p}
<1>2. IsFiniteSet(C) /\ Cardinality(C) \in Nat /\ Cardinality(C) + 1 <= NCPU
  <2>1. CASE p \in on_cpu
    <3>1. IsFiniteSet(C) /\ Cardinality(C) = Cardinality(on_cpu) - 1
      BY Zenon, <1>1, <2>1, FS_RemoveElement
    <3>2. Cardinality(C) \in Nat
      BY Zenon, <3>1, FS_CardinalityType
    <3>3. Cardinality(on_cpu) <= NCPU
      BY Zenon DEF SchedTypeOK
    <3>. HIDE DEF C
    <3>. QED
      BY <1>1, <3>1, <3>2, <3>3, NCPUAssumption
  <2>2. CASE p \notin on_cpu
    <3>1. C = on_cpu /\ Cardinality(on_cpu) < NCPU
      BY Zenon, <2>2 DEF OnCPU
    <3>. QED
      BY <1>1, <3>1, NCPUAssumption
  <2>. QED
    BY Zenon, <2>1, <2>2
<1> HIDE DEF C
<1>3. /\ IsFiniteSet(C \cup {n}) /\ Cardinality(C \cup {n}) \in Nat
      /\ Cardinality(C \cup {n}) <= Cardinality(C) + 1
  <2>1. /\ IsFiniteSet(C \cup {n})
        /\ Cardinality(C \cup {n}) = IF n \in C THEN Cardinality(C) ELSE Cardinality(C) + 1
    BY Zenon, <1>2, FS_AddElement
  <2>. QED
    BY <1>2, <2>1
<1>4. on_cpu' \subseteq C \cup {n}
  BY Zenon DEF C
<1>5. Cardinality(on_cpu') <= Cardinality(C \cup {n}) /\ Cardinality(on_cpu') \in Nat
  BY Zenon, <1>3, <1>4, FS_Subset, FS_CardinalityType
<1>. QED
  BY <1>2, <1>3, <1>5, NCPUAssumption

(* task_sched, with the deadlines it fires and the end of the switch. *)
LEMMA SchedInv ==
    ASSUME NEW p \in on_cpu \cup {Idle}, NEW n \in Tasks \cup {Idle}, NEW F \in SUBSET timer_queue
    PROVE  Preserves(GroupSchedule(p, n, F))
<1> SUFFICES ASSUME GroupInv, GroupSchedule(p, n, F) PROVE GroupInv'
  BY Zenon DEF Preserves
<1>a. /\ OnCPU(p) /\ ps_get_next_task_unsafe(p, n, F)
      /\ on_cpu' = ((on_cpu \ {p}) \cup {n}) \ {Idle}
  BY Zenon DEF GroupSchedule, schedule, task_sched, futexVars
<1>b. status' = [t \in Tasks |-> IF t = n THEN "running"
                                 ELSE IF t \in ReadyQueue(p, F) THEN "ready" ELSE status[t]]
  BY Zenon DEF GroupSchedule, schedule, task_sched, futexVars
<1>c. pc' = [t \in Tasks |-> IF t = p THEN Resumed(pc[t]) ELSE pc[t]]
  BY Zenon DEF GroupSchedule, schedule, futexVars
<1>d. /\ timer_queue' = timer_queue \ F /\ wait_interruptible' = wait_interruptible \ Wakable(F)
      /\ UNCHANGED <<terminate_requested, in_vm>>
  BY Zenon DEF GroupSchedule, schedule, task_sched, futexVars
<1>e. /\ UNCHANGED <<members, live_members, exit_ready, teardown_owner, dead_threads>>
      /\ UNCHANGED dead_reaper_waiting
      /\ ps_switch_finish(p, n)
  BY Zenon DEF GroupSchedule
<1>f. UNCHANGED <<word, futex_waiters, woken, deadline, signals, uaddr>>
  BY Zenon DEF GroupSchedule, schedule, futexVars
<1>g. TypeOK /\ TeardownInv /\ MainInv /\ NoLostChild
  BY Zenon DEF GroupInv
<1>h. \A t \in Tasks : pc'[t] = pc[t] \/ (pc[t] \in {"sched", "kill_sched"} /\ pc'[t] = Resumed(pc[t]))
  BY Zenon, <1>c DEF Resumed
<1>1. TypeOK'
  <2>1. SchedTypeOK
    BY Zenon, <1>g DEF TypeOK, FutexVarsTypeOK
  <2>2. Cardinality(on_cpu') <= NCPU
    BY Zenon, <1>a, <2>1, CpuCount
  <2>3. status' \in [Tasks -> Statuses]
    BY Zenon, <1>b, <2>1 DEF SchedTypeOK, Statuses
  <2>4. on_cpu' \subseteq Tasks
    BY Zenon, <1>a, <2>1 DEF SchedTypeOK
  <2>5. SchedTypeOK'
    BY Zenon, <1>d, <2>1, <2>2, <2>3, <2>4 DEF SchedTypeOK
  <2>6. pc' \in [Tasks -> GroupLabels]
    BY Zenon, <1>c, <1>g DEF TypeOK, Resumed, GroupLabels, Labels, Killing
  <2>7. parent_waiting' \in BOOLEAN
    BY Zenon, <1>e DEF ps_switch_finish
  <2>. QED
    BY Zenon, <1>e, <1>f, <1>g, <2>5, <2>6, <2>7 DEF TypeOK, FutexVarsTypeOK
<1>2. ASSUME NEW v \in Tasks PROVE PlaceInv(v)'
  <2>1. PlaceInv(v) /\ QueueInv(v)
    BY Zenon DEF GroupInv
  <2>2. status[v] = "dying" => status'[v] = "dying" /\ v # n
    BY Zenon, <1>a, <1>b, IdleAssumption DEF ps_get_next_task_unsafe, Available,
       ReadyQueue, Wakable
  <2>3. Ended(v) => Ended(v)'
    BY Zenon, <1>d, <1>e, <1>f, <2>2 DEF Ended
  <2>4. /\ pc'[v] \in Over \/ pc[v] \in Over => pc'[v] = pc[v]
        /\ pc'[v] \in GroupLabels
    BY Zenon, <1>1, <1>h DEF TypeOK, Resumed, Over
  <2>5. Ended(v) /\ v \notin on_cpu => v \notin on_cpu'
    BY Zenon, <1>a, <2>2 DEF Ended
  <2>. QED
    BY Zenon, <1>d, <1>e, <2>1, <2>3, <2>4, <2>5 DEF PlaceInv, Over
<1>3. ASSUME NEW v \in Tasks PROVE QueueInv(v)'
  <2>1. QueueInv(v)
    BY Zenon DEF GroupInv
  <2>. QED
    BY Zenon, <1>d, <1>e, <1>f, <1>h, <2>1 DEF QueueInv, Resumed
<1>4. ASSUME NEW v \in Tasks PROVE OwnerInv(v)'
  <2>1. OwnerInv(v)
    BY Zenon DEF GroupInv
  <2>2. /\ pc'[v] \in Killing <=> pc[v] \in Killing
        /\ pc'[v] \in {"collect", "reap"} => pc'[v] = pc[v]
    BY Zenon, <1>h DEF Resumed, Killing
  <2>3. ASSUME NEW u \in Tasks, u \in terminate_requested, u \notin in_vm,
               u \notin on_cpu
        PROVE  u \notin on_cpu'
    BY Zenon, <1>a, <2>3 DEF ps_get_next_task_unsafe, Available,
       ps_task_available
  <2>4. ASSUME NEW u \in Tasks, pc[u] \in {"dead", "zombie"} PROVE pc'[u] = pc[u]
    BY Zenon, <1>h, <2>4
  <2>5. members \subseteq Tasks
    BY Zenon, <1>g DEF TypeOK
  <2>. QED
    BY Zenon, <1>d, <1>e, <2>1, <2>2, <2>3, <2>4, <2>5 DEF OwnerInv
<1>5. TeardownInv'
  <2>1. \A t \in Tasks : /\ pc[t] \in Killing => pc'[t] \in Killing
                         /\ pc[t] \in {"dead", "zombie"} => pc'[t] = pc[t]
    BY Zenon, <1>h DEF Killing, Resumed
  <2>2. members \subseteq Tasks /\ teardown_owner \in Tasks \cup {NoTask}
    BY Zenon, <1>g DEF TypeOK
  <2>. QED
    BY Zenon, <1>d, <1>e, <1>g, <2>1, <2>2 DEF TeardownInv
<1>6. MainInv' /\ NoLostChild'
  <2>1. MainInv'
    BY Zenon, <1>e, <1>g, <1>h, MainAssumption DEF MainInv
  <2>2. ASSUME parent_waiting', Waitable' PROVE FALSE
    <3>1. parent_waiting /\ exit_ready /\ live_members = {} /\ Main \notin on_cpu'
      BY Zenon, <1>e, <2>2 DEF Waitable, ps_switch_finish
    <3>2. status[Main] = "dying"
      BY Zenon, <3>1, MainEnded DEF Ended
    <3>3. Main \in on_cpu
      BY Zenon, <1>g, <3>1 DEF NoLostChild, Waitable
    <3>4. p = Main /\ n # Main
      BY Zenon, <1>a, <3>1, <3>3, MainAssumption, IdleAssumption
    <3>. QED
      BY Zenon, <1>e, <2>2, <3>2, <3>4, MainAssumption DEF ps_switch_finish
  <2>. QED
    BY Zenon, <2>1, <2>2 DEF NoLostChild
<1>. QED
  BY Zenon, <1>1, <1>2, <1>3, <1>4, <1>5, <1>6 DEF GroupInv

(* A count in its range may be taken from if positive, added to if below    *)
(* the bound.                                                               *)
LEMMA CountRange ==
    ASSUME NEW c \in 0..MaxCount
    PROVE  /\ c > 0 => c - 1 \in 0..MaxCount
           /\ c < MaxCount => c + 1 \in 0..MaxCount
  BY MaxCountAssumption

(* The count sem_take and sem_post leave stays in its range. *)
LEMMA WordRange ==
    ASSUME NEW t \in Tasks, word \in [Words -> 0..MaxCount], uaddr \in [Tasks -> Words]
    PROVE  /\ sem_take(t) => word' \in [Words -> 0..MaxCount]
           /\ \A w \in Words : sem_post(t, w) => word' \in [Words -> 0..MaxCount]
<1>1. ASSUME sem_take(t) PROVE word' \in [Words -> 0..MaxCount]
  <2>1. word[uaddr[t]] - 1 \in 0..MaxCount
    BY Zenon, <1>1, CountRange DEF sem_take, schedVars, Step
  <2>. QED
    BY Zenon, <1>1, <2>1 DEF sem_take, schedVars, Step
<1>2. ASSUME NEW w \in Words, sem_post(t, w) PROVE word' \in [Words -> 0..MaxCount]
  <2>1. word[w] + 1 \in 0..MaxCount
    BY Zenon, <1>2, CountRange DEF sem_post, schedVars, Step
  <2>. QED
    BY Zenon, <1>2, <2>1 DEF sem_post, schedVars, Step
<1>. QED
  BY Zenon, <1>1, <1>2

(* The steps that PlainInv covers, and those that change no queue at all.   *)
PlainSteps(t) ==
    \/ \E call \in KernelCalls : enter(t, call)
    \/ clone_fails(t)
    \/ /\ UNCHANGED groupVars
       /\ \/ \E w \in Words : sem_wait(t, w) \/ sem_post(t, w)
          \/ sem_take(t) \/ \E d \in {"none", "future"} : futex_wait(t, d)
          \/ wait_again(t) \/ wait_return(t) \/ wait_unwoken(t)

LEMMA PlainStepsInv ==
    ASSUME NEW t \in Tasks
    PROVE  Preserves(PlainSteps(t))
<1> SUFFICES ASSUME GroupInv, PlainSteps(t) PROVE GroupInv'
  BY Zenon DEF Preserves
<1>1. TypeOK'
  <2>1. pc' \in [Tasks -> GroupLabels]
    BY Zenon DEF GroupInv, TypeOK, GroupLabels, Labels, PlainSteps, KernelCalls,
       Return, GoOn, enter, clone_fails, sem_wait, sem_post, sem_take,
       futex_wait, wait_again, wait_return, wait_unwoken, schedVars, futexVars,
       groupVars, Step
  <2>2. word' \in [Words -> 0..MaxCount]
    <3>1. word \in [Words -> 0..MaxCount] /\ uaddr \in [Tasks -> Words]
      BY Zenon DEF GroupInv, TypeOK, FutexVarsTypeOK, PlainSteps, KernelCalls,
         Return, GoOn, enter, clone_fails, sem_wait, sem_post, sem_take,
         futex_wait, wait_again, wait_return, wait_unwoken, schedVars,
         futexVars, groupVars, Step
    <3>2. sem_take(t) => word' \in [Words -> 0..MaxCount]
      BY Zenon, <3>1, WordRange DEF PlainSteps, KernelCalls, Return, GoOn,
         enter, clone_fails, sem_wait, sem_post, sem_take, futex_wait,
         wait_again, wait_return, wait_unwoken, schedVars, futexVars, groupVars,
         Step
    <3>3. ASSUME NEW w \in Words, sem_post(t, w) PROVE word' \in [Words -> 0..MaxCount]
      BY Zenon, <3>1, <3>3, WordRange DEF PlainSteps, KernelCalls, Return, GoOn,
         enter, clone_fails, sem_wait, sem_post, sem_take, futex_wait,
         wait_again, wait_return, wait_unwoken, schedVars, futexVars, groupVars,
         Step
    <3>4. CASE UNCHANGED word
      BY Zenon, <3>1, <3>4 DEF PlainSteps, KernelCalls, Return, GoOn, enter,
         clone_fails, sem_wait, sem_post, sem_take, futex_wait, wait_again,
         wait_return, wait_unwoken, schedVars, futexVars, groupVars, Step
    <3>. QED
      BY Zenon, <3>2, <3>3, <3>4 DEF PlainSteps, KernelCalls, Return, GoOn,
         enter, clone_fails, sem_wait, sem_post, sem_take, futex_wait,
         wait_again, wait_return, wait_unwoken, schedVars, futexVars, groupVars,
         Step
  <2>3. deadline' \in [Tasks -> {"none", "future", "past"}]
    BY Zenon DEF GroupInv, TypeOK, FutexVarsTypeOK, PlainSteps, KernelCalls,
       Return, GoOn, enter, clone_fails, sem_wait, sem_post, sem_take,
       futex_wait, wait_again, wait_return, wait_unwoken, schedVars, futexVars,
       groupVars, Step
  <2>4. uaddr' \in [Tasks -> Words]
    <3>1. uaddr \in [Tasks -> Words]
      BY Zenon DEF GroupInv, TypeOK, FutexVarsTypeOK, PlainSteps, KernelCalls,
         Return, GoOn, enter, clone_fails, sem_wait, sem_post, sem_take,
         futex_wait, wait_again, wait_return, wait_unwoken, schedVars,
         futexVars, groupVars, Step
    <3>2. UNCHANGED uaddr \/ \E w \in Words : uaddr' = [uaddr EXCEPT ![t] = w]
      BY Zenon DEF PlainSteps, KernelCalls, Return, GoOn, enter, clone_fails,
         sem_wait, sem_post, sem_take, futex_wait, wait_again, wait_return,
         wait_unwoken, schedVars, futexVars, groupVars, Step
    <3>. QED
      BY Zenon, <3>1, <3>2 DEF PlainSteps, KernelCalls, Return, GoOn, enter,
         clone_fails, sem_wait, sem_post, sem_take, futex_wait, wait_again,
         wait_return, wait_unwoken, schedVars, futexVars, groupVars, Step
  <2>5. signals' \subseteq Tasks
    BY Zenon DEF GroupInv, TypeOK, FutexVarsTypeOK, PlainSteps, KernelCalls,
       Return, GoOn, enter, clone_fails, sem_wait, sem_post, sem_take,
       futex_wait, wait_again, wait_return, wait_unwoken, schedVars, futexVars,
       groupVars, Step
  <2>. QED
    BY Zenon, <2>1, <2>2, <2>3, <2>4, <2>5 DEF GroupInv, TypeOK,
       FutexVarsTypeOK, SchedTypeOK, PlainSteps, KernelCalls, Return, GoOn,
       enter, clone_fails, sem_wait, sem_post, sem_take, futex_wait, wait_again,
       wait_return, wait_unwoken, schedVars, futexVars, groupVars, Step
<1>2. PICK l : Plain(pc[t]) /\ Plain(l) /\ pc' = [pc EXCEPT ![t] = l]
  BY Zenon DEF Plain, Over, Killing, PlainSteps, KernelCalls, Return, GoOn,
     enter, clone_fails, sem_wait, sem_post, sem_take, futex_wait, wait_again,
     wait_return, wait_unwoken, schedVars, futexVars, groupVars, Step
<1>3. UNCHANGED <<schedVars, futex_waiters, woken, groupVars>>
  BY Zenon DEF PlainSteps, KernelCalls, Return, GoOn, enter, clone_fails,
     sem_wait, sem_post, sem_take, futex_wait, wait_again, wait_return,
     wait_unwoken, schedVars, futexVars, groupVars, Step
<1>. QED
  BY Zenon, <1>1, <1>2, <1>3, PlainInv DEF Preserves, PlainStep

(* The clock, and the reaper going to sleep. *)
QuietStep ==
    \/ \E t \in Tasks : expire(t) /\ UNCHANGED groupVars
    \/ ps_dead_reaper
    \/ UNCHANGED allVars

LEMMA QuietInv == Preserves(QuietStep)
<1> SUFFICES ASSUME GroupInv, QuietStep PROVE GroupInv'
  BY Zenon DEF Preserves
<1>1. TypeOK'
  BY Zenon DEF GroupInv, TypeOK, FutexVarsTypeOK, SchedTypeOK, QuietStep,
     expire, ps_dead_reaper, allVars, schedVars, futexVars, groupVars
<1>2. ASSUME NEW v \in Tasks PROVE PlaceInv(v)' /\ QueueInv(v)' /\ OwnerInv(v)'
  BY Zenon DEF GroupInv, PlaceInv, QueueInv, OwnerInv, Ended, QuietStep, expire,
     ps_dead_reaper, allVars, schedVars, futexVars, groupVars
<1>3. TeardownInv' /\ MainInv' /\ NoLostChild'
  BY DEF GroupInv, TeardownInv, MainInv, NoLostChild, Waitable, QuietStep,
     expire, ps_dead_reaper, allVars, schedVars, futexVars, groupVars
<1>. QED
  BY Zenon, <1>1, <1>2, <1>3 DEF GroupInv

-----------------------------------------------------------------------------
(* GroupInv is inductive. *)
LEMMA GroupInit == Init => GroupInv
<1>. SUFFICES ASSUME Init PROVE GroupInv
  BY Zenon
<1>1. TypeOK
  <2>1. Cardinality(on_cpu) <= NCPU
    BY FS_EmptySet, NCPUAssumption DEF Init, FutexVarsInit
  <2>2. word \in [Words -> 0..MaxCount]
    BY MaxCountAssumption DEF Init, FutexVarsInit
  <2>3. status \in [Tasks -> Statuses] /\ pc \in [Tasks -> GroupLabels]
    BY Zenon DEF Statuses, GroupLabels, Labels, Init, FutexVarsInit
  <2>. QED
    BY Zenon, MainAssumption, <2>1, <2>2, <2>3 DEF TypeOK, FutexVarsTypeOK,
       SchedTypeOK, Init, FutexVarsInit
<1>2. ASSUME NEW t \in Tasks PROVE PlaceInv(t) /\ QueueInv(t) /\ OwnerInv(t)
  BY Zenon DEF PlaceInv, QueueInv, OwnerInv, Ended, Over, Killing, Init,
     FutexVarsInit
<1>3. TeardownInv /\ MainInv /\ NoLostChild
  BY Zenon DEF TeardownInv, MainInv, NoLostChild, Init, FutexVarsInit
<1>. QED
  BY Zenon, <1>1, <1>2, <1>3 DEF GroupInv

LEMMA GroupNext == GroupInv /\ [Next]_allVars => GroupInv'
<1>. SUFFICES ASSUME GroupInv, [Next]_allVars PROVE GroupInv'
  BY Zenon
<1>1. ASSUME NEW t \in Tasks, GroupProceed(t) PROVE GroupInv'
  <2>1. CASE Proceed(t) /\ UNCHANGED groupVars
    BY <2>1, PlainStepsInv, WaitQueueInv, ResumeInv, WakeInv, Zenon DEF Proceed,
       PlainSteps, Preserves, groupVars
  <2>2. CASE ps_kill_thread_group(t)
    BY <2>2, KillBeginInv, ScanInv, FinishInv, CollectInv, ReapGroupInv,
       KillEndInv, Zenon DEF ps_kill_thread_group, Preserves, groupVars
  <2>3. CASE \/ \E u \in Tasks : do_clone(t, u)
             \/ clone_fails(t) \/ vm_lock_enter(t) \/ vm_lock_leave(t)
             \/ exit_thread(t) \/ (t = Main /\ exit_main)
    BY <2>3, CloneInv, PlainStepsInv, VmEnterInv, VmLeaveInv, ExitThreadInv,
       ExitMainInv, Zenon DEF PlainSteps, Preserves, groupVars
  <2>. QED
    BY Zenon, <1>1, <2>1, <2>2, <2>3 DEF GroupProceed, groupVars
<1>2. ASSUME NEW t \in Tasks,
             \/ \E call \in KernelCalls : enter(t, call)
             \/ Begin(t) /\ UNCHANGED groupVars
             \/ smp_check_stop(t) \/ ps_reap_dead_threads(t)
             \/ expire(t) /\ UNCHANGED groupVars
             \/ Signal(t) /\ UNCHANGED groupVars
      PROVE  GroupInv'
  BY <1>2, PlainStepsInv, StopInv, ReapInv, QuietInv, SignalInv, Zenon
     DEF Begin, PlainSteps, QuietStep, Preserves, groupVars
<1>3. ASSUME NEW p \in on_cpu \cup {Idle}, NEW n \in Tasks \cup {Idle},
             NEW F \in SUBSET timer_queue, GroupSchedule(p, n, F)
      PROVE  GroupInv'
  BY <1>3, SchedInv, Zenon DEF Preserves, groupVars
<1>4. CASE ps_dead_reaper \/ do_waitpid \/ UNCHANGED allVars
  BY <1>4, QuietInv, WaitpidInv, Zenon DEF QuietStep, Preserves, groupVars
<1>. QED
  BY Zenon, <1>1, <1>2, <1>3, <1>4 DEF Next

(* GroupInv holds in every reachable state. *)
THEOREM GroupInvariant == Spec => []GroupInv
  BY GroupInit, GroupNext, PTL DEF Spec

(* The variables keep their types; at most NCPU tasks are on a CPU and only *)
(* members of the group are live.                                           *)
THEOREM GroupTypes == Spec => []TypeOK
<1>1. GroupInv => TypeOK
  BY Zenon DEF GroupInv
<1>. QED
  BY <1>1, GroupInvariant, PTL

(* The futex queue and the deadline tree hold only members inside the wait  *)
(* that linked them, whatever exit, clone and teardowns do around them.     *)
THEOREM GroupQueues == Spec => []QueuesHoldSleepers
<1>1. GroupInv => QueuesHoldSleepers
  BY Zenon DEF GroupInv, TypeOK, FutexVarsTypeOK, SchedTypeOK, QueueInv,
     QueuesHoldSleepers
<1>. QED
  BY <1>1, GroupInvariant, PTL

(* No task is freed while a CPU, a queue or a VM transaction uses it. *)
THEOREM GroupFreedUnused == Spec => []FreedUnused
<1>1. GroupInv => FreedUnused
  BY Zenon DEF GroupInv, PlaceInv, QueueInv, Ended, FreedUnused
<1>. QED
  BY <1>1, GroupInvariant, PTL

(* A teardown collects its siblings only once all are condemned and off     *)
(* every CPU and transaction, and there is one teardown at a time.          *)
THEOREM GroupSiblingsStopped == Spec => []SiblingsStopped
<1>1. GroupInv => SiblingsStopped
  BY Zenon DEF GroupInv, OwnerInv, SiblingsStopped, Siblings
<1>. QED
  BY <1>1, GroupInvariant, PTL

(* The parent never sleeps in waitpid beside a waitable child. *)
THEOREM GroupNoLostChild == Spec => []NoLostChild
<1>1. GroupInv => NoLostChild
  BY Zenon DEF GroupInv
<1>. QED
  BY <1>1, GroupInvariant, PTL

-----------------------------------------------------------------------------
(* Futex by itself: a group that nobody leaves.                             *)

(* Who waits and who attends to a word; the linked waiter records belong to *)
(* tasks inside the wait that have not been woken.                          *)
FutexInv ==
    /\ word \in [Words -> 0..MaxCount]
    /\ uaddr \in [Tasks -> Words]
    /\ pc \in [Tasks -> Labels]
    /\ futex_waiters \subseteq Tasks
    /\ \A t \in futex_waiters : Waiting(t) /\ t \notin woken
    /\ NoLostWakeup

(* One unit of the count and one task that attends to it go together. *)
LEMMA Units ==
    ASSUME NEW A \in SUBSET Tasks, NEW B \in SUBSET Tasks, NEW t \in A, A \ {t} \subseteq B
    PROVE  /\ Cardinality(A) \in Nat /\ Cardinality(B) \in Nat
           /\ Cardinality(A) - 1 <= Cardinality(B)
           /\ A \subseteq B => Cardinality(A) <= Cardinality(B)
           /\ \A u \in B \ A : Cardinality(A) <= Cardinality(B)
<1>1. IsFiniteSet(A) /\ IsFiniteSet(B)
  BY Zenon, TasksAssumption, FS_Subset
<1>2. IsFiniteSet(A \ {t}) /\ Cardinality(A \ {t}) = Cardinality(A) - 1
  BY Zenon, <1>1, FS_RemoveElement
<1>3. Cardinality(A) \in Nat /\ Cardinality(B) \in Nat
  BY Zenon, <1>1, FS_CardinalityType
<1>4. Cardinality(A \ {t}) <= Cardinality(B)
  BY Zenon, <1>1, FS_Subset
<1>5. ASSUME A \subseteq B PROVE Cardinality(A) <= Cardinality(B)
  BY Zenon, <1>1, <1>5, FS_Subset
<1>6. ASSUME NEW u \in B \ A PROVE Cardinality(A) <= Cardinality(B)
  <2> DEFINE R == A \ {t}
  <2>0. u \notin R /\ IsFiniteSet(R) /\ Cardinality(R) = Cardinality(A) - 1
    BY Zenon, <1>2
  <2> HIDE DEF R
  <2>1. Cardinality(R \cup {u}) = Cardinality(R) + 1
    BY Zenon, <2>0, FS_AddElement
  <2>2. R \cup {u} \in SUBSET B
    BY Zenon DEF R
  <2>3. Cardinality(R \cup {u}) <= Cardinality(B)
    BY Zenon, <2>2, <1>1, FS_Subset
  <2> QED BY <2>0, <2>1, <2>3, <1>3
<1> QED BY Zenon, <1>2, <1>3, <1>4, <1>5, <1>6

(* The word that counts: nothing is left behind its waiters. *)
Covered(w) == Waiters(w) # {} => word[w] <= Cardinality(Attending(w))

(* A step that gives w no new waiter, does not add to it and takes nobody   *)
(* from it.                                                                 *)
LEMMA StillCovered ==
    ASSUME FutexInv, NEW w \in Words, word'[w] <= word[w], word'[w] \in Nat,
           Waiters(w)' \subseteq Waiters(w), Attending(w) \subseteq Attending(w)'
    PROVE  Covered(w)'
<1>1. Attending(w) \in SUBSET Tasks /\ Attending(w)' \in SUBSET Tasks
  BY Zenon DEF Attending
<1>2. IsFiniteSet(Attending(w)') /\ IsFiniteSet(Attending(w))
  BY Zenon, <1>1, TasksAssumption, FS_Subset
<1>3. Cardinality(Attending(w)) <= Cardinality(Attending(w)')
  BY Zenon, <1>1, <1>2, FS_Subset
<1>4. /\ Cardinality(Attending(w)) \in Nat /\ Cardinality(Attending(w)') \in Nat
      /\ word[w] \in Nat
  BY <1>2, FS_CardinalityType, MaxCountAssumption DEF FutexInv
<1>5. ASSUME Waiters(w)' # {} PROVE word'[w] <= Cardinality(Attending(w)')
  <2>1. word[w] <= Cardinality(Attending(w))
    BY Zenon, <1>5 DEF FutexInv, NoLostWakeup
  <2> QED BY <2>1, <1>3, <1>4
<1> QED BY Zenon, <1>5 DEF Covered

(* A word that is 0 is covered. *)
LEMMA ZeroCovered ==
    ASSUME NEW w \in Words, word'[w] = 0
    PROVE  Covered(w)'
<1>1. Attending(w)' \in SUBSET Tasks
  BY Zenon DEF Attending
<1>2. Cardinality(Attending(w)') \in Nat
  BY Zenon, <1>1, TasksAssumption, FS_Subset, FS_CardinalityType
<1> QED BY <1>2 DEF Covered

LEMMA FutexInitially == FutexInit => FutexInv
<1> SUFFICES ASSUME FutexInit PROVE FutexInv
  BY Zenon
<1>1. pc \in [Tasks -> Labels]
  BY Zenon DEF FutexInit, Labels
<1>2. \A w \in Words : Waiters(w) = {}
  BY Zenon DEF FutexInit, FutexVarsInit, Waiters
<1> QED BY <1>1, <1>2, MaxCountAssumption DEF FutexInit, FutexVarsInit, FutexInv, NoLostWakeup

(* What a step has to show. *)
LEMMA FutexHolds ==
    ASSUME word' \in [Words -> 0..MaxCount], uaddr' \in [Tasks -> Words],
           pc' \in [Tasks -> Labels], futex_waiters' \subseteq Tasks,
           \A u \in futex_waiters' : Waiting(u)' /\ u \notin woken',
           \A v \in Words : Covered(v)'
    PROVE  FutexInv'
BY Zenon DEF FutexInv, NoLostWakeup, Covered

(* The steps of the semaphore in user mode. *)
LEMMA SemaphoreKeeps ==
    ASSUME FutexInv, NEW t \in Tasks, Begin(t) \/ sem_take(t)
    PROVE  FutexInv'
<1>1. \A w \in Words : word[w] \in Nat
  BY MaxCountAssumption DEF FutexInv
<1>2. ASSUME NEW w \in Words, sem_wait(t, w) PROVE FutexInv'
  <2>1. /\ word' = word /\ uaddr' \in [Tasks -> Words] /\ pc' \in [Tasks -> Labels]
        /\ futex_waiters' = futex_waiters /\ woken' = woken
        /\ pc[t] = "user" /\ t \notin futex_waiters
        /\ \A u \in Tasks \ {t} : pc'[u] = pc[u] /\ uaddr'[u] = uaddr[u]
    BY Zenon, <1>2 DEF sem_wait, FutexInv, Labels, Waiting, schedVars, Step
  <2>2. ASSUME NEW v \in Words PROVE Covered(v)'
    <3>1. Waiters(v)' \subseteq Waiters(v) /\ Attending(v) \subseteq Attending(v)'
      BY Zenon, <2>1 DEF FutexInv, Waiters, Attending, Waiting
    <3>2. word'[v] <= word[v] /\ word'[v] \in Nat
      BY <1>1, <2>1
    <3> QED BY Zenon, <3>1, <3>2, StillCovered
  <2>3. \A u \in futex_waiters' : Waiting(u)' /\ u \notin woken'
    BY Zenon, <2>1 DEF FutexInv, Waiting
  <2>4. word' \in [Words -> 0..MaxCount] /\ futex_waiters' \subseteq Tasks
    BY Zenon, <2>1 DEF FutexInv
  <2> QED BY Zenon, <2>1, <2>2, <2>3, <2>4, FutexHolds
<1>3. ASSUME NEW w \in Words, sem_post(t, w) PROVE FutexInv'
  <2>1. /\ uaddr' \in [Tasks -> Words] /\ pc' \in [Tasks -> Labels]
        /\ futex_waiters' = futex_waiters /\ woken' = woken
        /\ pc[t] = "user" /\ t \notin futex_waiters
        /\ pc'[t] = "wake" /\ uaddr'[t] = w
        /\ \A u \in Tasks \ {t} : pc'[u] = pc[u] /\ uaddr'[u] = uaddr[u]
    BY Zenon, <1>3 DEF sem_post, FutexInv, Labels, Waiting, schedVars, Step
  <2>2. /\ word' \in [Words -> 0..MaxCount] /\ word'[w] = word[w] + 1
        /\ \A v \in Words \ {w} : word'[v] = word[v]
    BY <1>3, MaxCountAssumption DEF sem_post, FutexInv, schedVars, Step
  <2>3. \A v \in Words : Waiters(v)' \subseteq Waiters(v) /\ Attending(v) \subseteq Attending(v)'
    BY Zenon, <2>1 DEF FutexInv, Waiters, Attending, Waiting
  <2>4. Covered(w)'
    <3>1. t \in Attending(w)' \ Attending(w)
      BY Zenon, <2>1 DEF Attending, Waiting
    <3>2. Attending(w) \in SUBSET Tasks /\ Attending(w)' \in SUBSET Tasks
      BY Zenon DEF Attending
    <3>3. Attending(w)' \ {t} \in SUBSET Tasks /\ Attending(w) \subseteq Attending(w)' \ {t}
      BY Zenon, <3>1, <3>2, <2>3
    <3>4. /\ Cardinality(Attending(w)' \ {t}) = Cardinality(Attending(w)') - 1
          /\ Cardinality(Attending(w)) <= Cardinality(Attending(w)' \ {t})
      BY Zenon, <3>1, <3>2, <3>3, TasksAssumption, FS_Subset, FS_RemoveElement
    <3>5. Cardinality(Attending(w)) \in Nat /\ Cardinality(Attending(w)') \in Nat
      BY Zenon, <3>2, TasksAssumption, FS_Subset, FS_CardinalityType
    <3> QED BY <3>4, <3>5, <2>2, <2>3, <1>1 DEF FutexInv, NoLostWakeup, Covered
  <2>5. ASSUME NEW v \in Words \ {w} PROVE Covered(v)'
    <3>1. word'[v] <= word[v] /\ word'[v] \in Nat
      BY <1>1, <2>2
    <3>2. Waiters(v)' \subseteq Waiters(v) /\ Attending(v) \subseteq Attending(v)'
      BY Zenon, <2>3
    <3> QED BY Zenon, <3>1, <3>2, StillCovered
  <2>6. \A u \in futex_waiters' : Waiting(u)' /\ u \notin woken'
    BY Zenon, <2>1 DEF FutexInv, Waiting
  <2>7. uaddr' \in [Tasks -> Words] /\ futex_waiters' \subseteq Tasks
    BY Zenon, <2>1 DEF FutexInv
  <2>8. \A v \in Words : Covered(v)'
    BY Zenon, <2>4, <2>5
  <2> QED BY Zenon, <2>1, <2>2, <2>6, <2>7, <2>8, FutexHolds
<1>4. ASSUME sem_take(t) PROVE FutexInv'
  <2> DEFINE w == uaddr[t]
  <2>1. /\ uaddr' = uaddr /\ w \in Words /\ pc' \in [Tasks -> Labels]
        /\ futex_waiters' = futex_waiters /\ woken' = woken
        /\ pc[t] = "down" /\ t \notin futex_waiters
        /\ \A u \in Tasks \ {t} : pc'[u] = pc[u]
    BY Zenon, <1>4 DEF sem_take, FutexInv, Labels, Waiting, schedVars, Step
  <2>2. /\ word' \in [Words -> 0..MaxCount] /\ word'[w] = word[w] - 1
        /\ \A v \in Words \ {w} : word'[v] = word[v]
    <3>1. /\ word \in [Words -> 0..MaxCount] /\ word[w] > 0
          /\ word' = [word EXCEPT ![w] = word[w] - 1]
      BY Zenon, <1>4 DEF sem_take, FutexInv, Step
    <3>2. word[w] - 1 \in 0..MaxCount
      BY <2>1, <3>1, CountRange
    <3>. QED
      BY Zenon, <2>1, <3>1, <3>2
  <2>3. \A v \in Words : /\ Waiters(v)' \subseteq Waiters(v)
                         /\ Attending(v) \ {t} \subseteq Attending(v)'
                         /\ v # w => t \notin Attending(v)
    BY Zenon, <2>1 DEF FutexInv, Waiters, Attending, Waiting
  <2>4. Covered(w)'
    <3>1. t \in Attending(w)
      BY Zenon, <2>1 DEF Attending
    <3>2. Attending(w) \in SUBSET Tasks /\ Attending(w)' \in SUBSET Tasks
      BY Zenon DEF Attending
    <3>3. /\ Cardinality(Attending(w)) \in Nat /\ Cardinality(Attending(w)') \in Nat
          /\ Cardinality(Attending(w)) - 1 <= Cardinality(Attending(w)')
      BY Zenon, <3>1, <3>2, <2>1, <2>3, Units
    <3> QED BY <3>3, <2>1, <2>2, <2>3, <1>1 DEF FutexInv, NoLostWakeup, Covered
  <2>5. ASSUME NEW v \in Words \ {w} PROVE Covered(v)'
    <3>1. word'[v] <= word[v] /\ word'[v] \in Nat
      BY <1>1, <2>2
    <3>2. Waiters(v)' \subseteq Waiters(v) /\ Attending(v) \subseteq Attending(v)'
      BY Zenon, <2>3
    <3> QED BY Zenon, <3>1, <3>2, StillCovered
  <2>6. \A u \in futex_waiters' : Waiting(u)' /\ u \notin woken'
    BY Zenon, <2>1 DEF FutexInv, Waiting
  <2>7. uaddr' \in [Tasks -> Words] /\ futex_waiters' \subseteq Tasks
    BY Zenon, <2>1 DEF FutexInv
  <2>8. \A v \in Words : Covered(v)'
    BY Zenon, <2>1, <2>4, <2>5
  <2> QED BY Zenon, <2>1, <2>2, <2>6, <2>7, <2>8, FutexHolds
<1> QED BY Zenon, <1>2, <1>3, <1>4 DEF Begin

(* The steps of FUTEX_WAIT.  A waiter links its record when it has seen 0,  *)
(* and gives up its interest in a word only then.                           *)
LEMMA FutexWaitKeeps ==
    ASSUME FutexInv, NEW t \in Tasks,
           \/ \E d \in {"none", "future"} : futex_wait(t, d)
           \/ wait_again(t) \/ wait_return(t) \/ wait_queue(t)
           \/ wait_resume(t) \/ wait_unwoken(t)
    PROVE  FutexInv'
<1>1. \A w \in Words : word[w] \in Nat
  BY MaxCountAssumption DEF FutexInv
<1>2. /\ word' = word /\ uaddr' = uaddr /\ pc' \in [Tasks -> Labels]
      /\ \A u \in Tasks \ {t} : pc'[u] = pc[u]
      /\ \A u \in Tasks \ {t} : u \in futex_waiters' <=> u \in futex_waiters
      /\ \A u \in Tasks \ {t} : u \in woken' <=> u \in woken
      /\ futex_waiters' \subseteq Tasks
  BY Zenon DEF futex_wait, wait_again, wait_return, wait_queue, wait_resume,
     wait_unwoken, Queue, Resume, Return, GoOn, FutexInv, Labels, schedVars,
     Step
<1>3. /\ t \in futex_waiters' => t \notin woken' /\ pc'[t] \in {"sched", "resume"}
      /\ t \in futex_waiters' => t \in futex_waiters \/ word[uaddr[t]] = 0
  BY Zenon DEF futex_wait, wait_again, wait_return, wait_queue, wait_resume,
     wait_unwoken, Queue, Resume, Return, GoOn, FutexInv, Labels, Waiting,
     schedVars, Step
<1>4. \/ word[uaddr[t]] = 0
      \/ pc'[t] = "down"
      \/ pc[t] \notin {"down", "wake"} /\ ~(Waiting(t) /\ t \in woken)
  BY Zenon DEF futex_wait, wait_again, wait_return, wait_queue, wait_resume,
     wait_unwoken, Queue, Resume, Return, GoOn, FutexInv, Labels, Waiting,
     schedVars, Step
<1>5. ASSUME NEW w \in Words PROVE Covered(w)'
  <2>1. CASE word[w] = 0
    BY Zenon, <1>2, <2>1, ZeroCovered
  <2>2. CASE word[w] # 0
    <3>1. Waiters(w)' \subseteq Waiters(w)
      BY Zenon, <1>2, <1>3, <2>2 DEF Waiters, FutexInv
    <3>2. Attending(w) \subseteq Attending(w)'
      BY Zenon, <1>2, <1>4, <2>2 DEF Attending, Waiting, FutexInv
    <3>3. word'[w] <= word[w] /\ word'[w] \in Nat
      BY <1>1, <1>2
    <3> QED BY Zenon, <3>1, <3>2, <3>3, StillCovered
  <2> QED BY Zenon, <2>1, <2>2
<1>6. \A u \in futex_waiters' : Waiting(u)' /\ u \notin woken'
  BY Zenon, <1>2, <1>3 DEF FutexInv, Waiting
<1>7. word' \in [Words -> 0..MaxCount] /\ uaddr' \in [Tasks -> Words]
  BY Zenon, <1>2 DEF FutexInv
<1> QED BY Zenon, <1>2, <1>5, <1>6, <1>7, FutexHolds

(* FUTEX_WAKE passes the attention of its caller on to the task it wakes. *)
LEMMA FutexWakeKeeps ==
    ASSUME FutexInv, NEW t \in Tasks, futex_wake(t)
    PROVE  FutexInv'
<1> DEFINE w == uaddr[t]
<1>1. \A v \in Words : word[v] \in Nat
  BY MaxCountAssumption DEF FutexInv
<1>2. PICK S \in SUBSET Waiters(w) :
         /\ Cardinality(S) = 1 \/ (Cardinality(S) < 1 /\ S = Waiters(w))
         /\ futex_waiters' = futex_waiters \ S
         /\ woken' = woken \cup S
  BY Zenon DEF futex_wake, futex_wake_mask_unsafe
<1>3. /\ word' = word /\ uaddr' = uaddr /\ w \in Words /\ pc' \in [Tasks -> Labels]
      /\ pc[t] = "wake"
      /\ \A u \in Tasks \ {t} : pc'[u] = pc[u]
  BY Zenon DEF futex_wake, Return, FutexInv, Labels, Step
<1>4. S \subseteq futex_waiters /\ t \notin futex_waiters /\ S \subseteq Tasks
  BY Zenon, <1>2, <1>3 DEF Waiters, FutexInv, Waiting
<1>5. \A v \in Words : /\ Waiters(v)' \subseteq Waiters(v)
                       /\ Attending(v) \ {t} \subseteq Attending(v)'
                       /\ v # w => t \notin Attending(v)
  BY Zenon, <1>2, <1>3, <1>4 DEF Waiters, Attending, Waiting, FutexInv
<1>6. Covered(w)'
  <2>1. CASE S = {}
    <3>1. Waiters(w) = {}
      BY <1>2, <2>1, FS_EmptySet
    <3> QED BY Zenon, <3>1, <1>5, <1>3 DEF Covered
  <2>2. CASE S # {}
    <3>1. PICK u \in S : TRUE
      BY Zenon, <2>2
    <3>2. u \in Attending(w)' \ Attending(w) /\ t \in Attending(w)
      BY Zenon, <3>1, <1>2, <1>3, <1>4 DEF Waiters, Attending, Waiting, FutexInv
    <3>3. Attending(w) \in SUBSET Tasks /\ Attending(w)' \in SUBSET Tasks
      BY Zenon DEF Attending
    <3>4. /\ Cardinality(Attending(w)) \in Nat /\ Cardinality(Attending(w)') \in Nat
          /\ Cardinality(Attending(w)) <= Cardinality(Attending(w)')
      BY Zenon, <3>2, <3>3, <1>3, <1>5, Units
    <3> QED BY <3>4, <1>1, <1>3, <1>5 DEF FutexInv, NoLostWakeup, Covered
  <2> QED BY Zenon, <2>1, <2>2
<1>7. ASSUME NEW v \in Words \ {w} PROVE Covered(v)'
  <2>1. word'[v] <= word[v] /\ word'[v] \in Nat
    BY <1>1, <1>3
  <2>2. Waiters(v)' \subseteq Waiters(v) /\ Attending(v) \subseteq Attending(v)'
    BY Zenon, <1>5
  <2> QED BY Zenon, <2>1, <2>2, StillCovered
<1>8. \A u \in futex_waiters' : Waiting(u)' /\ u \notin woken'
  BY Zenon, <1>2, <1>3, <1>4 DEF FutexInv, Waiting
<1>9. /\ futex_waiters' \subseteq Tasks
      /\ word' \in [Words -> 0..MaxCount] /\ uaddr' \in [Tasks -> Words]
  BY Zenon, <1>2, <1>3 DEF FutexInv
<1>10. \A v \in Words : Covered(v)'
  BY Zenon, <1>3, <1>6, <1>7
<1> QED BY Zenon, <1>3, <1>8, <1>9, <1>10, FutexHolds

(* The scheduler, signals and the clock move no record and no count. *)
LEMMA FutexFrame ==
    ASSUME FutexInv, UNCHANGED <<word, futex_waiters, woken, uaddr>>, pc' \in [Tasks -> Labels],
           \A t \in Tasks : pc'[t] = pc[t] \/ (pc[t] = "sched" /\ pc'[t] = "resume")
    PROVE  FutexInv'
<1>1. ASSUME NEW w \in Words PROVE Waiters(w)' = Waiters(w) /\ Attending(w)' = Attending(w)
  BY Zenon DEF Waiters, Attending, Waiting
<1>2. \A u \in futex_waiters' : Waiting(u)' /\ u \notin woken'
  BY Zenon DEF FutexInv, Waiting
<1> QED BY Zenon, <1>1, <1>2 DEF FutexInv, NoLostWakeup

LEMMA FutexNextKeeps == FutexInv /\ [FutexNext]_vars => FutexInv'
<1> SUFFICES ASSUME FutexInv, [FutexNext]_vars PROVE FutexInv'
  BY Zenon
<1>1. ASSUME NEW t \in Tasks, Begin(t) \/ Proceed(t) PROVE FutexInv'
  BY Zenon, <1>1, SemaphoreKeeps, FutexWaitKeeps, FutexWakeKeeps DEF Proceed
<1>2. ASSUME NEW t \in Tasks, expire(t) \/ queue_signal(t, FALSE) PROVE FutexInv'
  <2>1. UNCHANGED <<word, futex_waiters, woken, uaddr>> /\ pc' = pc
    BY Zenon, <1>2 DEF expire, queue_signal, schedVars
  <2> QED BY Zenon, <2>1, FutexFrame DEF FutexInv
<1>3. ASSUME NEW p \in on_cpu \cup {Idle}, NEW n \in Tasks \cup {Idle},
             NEW F \in SUBSET timer_queue, schedule(p, n, F)
      PROVE  FutexInv'
  <2>1. UNCHANGED <<word, futex_waiters, woken, uaddr>>
    BY Zenon, <1>3 DEF schedule, futexVars
  <2>2. /\ pc' \in [Tasks -> Labels]
        /\ \A t \in Tasks : pc'[t] = pc[t] \/ (pc[t] = "sched" /\ pc'[t] = "resume")
    BY Zenon, <1>3 DEF schedule, Resumed, FutexInv, Labels, futexVars
  <2> QED BY Zenon, <2>1, <2>2, FutexFrame
<1>4. CASE UNCHANGED vars
  <2>1. UNCHANGED <<word, futex_waiters, woken, uaddr>> /\ pc' = pc
    BY Zenon, <1>4 DEF vars, schedVars, futexVars
  <2> QED BY Zenon, <2>1, FutexFrame DEF FutexInv
<1> QED BY Zenon, <1>1, <1>2, <1>3, <1>4 DEF FutexNext, Schedule

(* FUTEX_WAIT tests the word under ps_lock and FUTEX_WAKE picks one waiter: *)
(* a count is never left behind sleeping waiters without somebody who is    *)
(* about to wake one or to look again, whatever signals, deadlines and the  *)
(* scheduler do.                                                            *)
THEOREM FutexNoLostWakeup == FutexSpec => []NoLostWakeup
<1>1. FutexInv => NoLostWakeup
  BY Zenon DEF FutexInv
<1> QED BY <1>1, FutexInitially, FutexNextKeeps, PTL DEF FutexSpec

=============================================================================
