---------------------------- MODULE ThreadGroup ----------------------------
(***************************************************************************)
(* The threads of one process over Futex and Sched, and the parent that    *)
(* waits for it: clone, exit, exit_group, exec and waitpid                 *)
(* (src/ps/impl/ps_clone.c, ps_syscall.c, src/arch/x64/ps/impl/smp.c).     *)
(*                                                                         *)
(* exit_group, and exec, condemn the other threads, wait until none of     *)
(* them is on a CPU or inside a VM transaction, unlink them from every     *)
(* queue and free them, wherever in the kernel they were.  The first       *)
(* thread, Main, is the process to its parent: it stays behind as a zombie *)
(* that waitpid frees.  A task at "none" is free memory, and clone may     *)
(* use it again.  Threads are cloned without CLONE_CHILD_CLEARTID and have *)
(* no robust list, and nothing enumerates the tasks.                       *)
(***************************************************************************)
EXTENDS Futex

CONSTANTS Main,    \* the task that is not a FORK_FLAG_THREAD
          NoTask   \* no owner of the teardown

ASSUME MainAssumption == Main \in Tasks
ASSUME NoTaskAssumption == NoTask \notin Tasks

VARIABLES members,             \* thread->members
          live_members,        \* the members with live_member set
          exit_ready,          \* Main's life->exit_ready
          teardown_owner,      \* who is in ps_kill_thread_group, or NoTask
          dead_threads,        \* exited threads the reaper has to free
          dead_reaper_waiting,
          parent_waiting       \* the parent sleeps in waitpid

groupVars == <<members, live_members, exit_ready, teardown_owner, dead_threads,
               dead_reaper_waiting, parent_waiting>>
allVars == <<schedVars, futexVars, pc, groupVars>>

KernelCalls == {"clone", "exit", "exit_group", "exec", "fault"}
Killing == {"kill", "kill_sched", "kill_wake", "collect", "reap"}
GroupLabels == Labels \cup KernelCalls \cup Killing
               \cup {"none", "vm", "exiting", "stopped", "dead", "zombie"}

Init ==
    /\ FutexVarsInit
    /\ status = [t \in Tasks |-> IF t = Main THEN "ready" ELSE "dying"]
    /\ pc = [t \in Tasks |-> IF t = Main THEN "user" ELSE "none"]
    /\ members = {Main} /\ live_members = {Main} /\ exit_ready = FALSE
    /\ teardown_owner = NoTask
    /\ dead_threads = {} /\ dead_reaper_waiting = FALSE
    /\ parent_waiting = FALSE

(* A system call or a fault, let in by smp_check_stop.  Only Main may exec  *)
(* with the teardown of its threads.                                        *)
enter(t, call) ==
    /\ call \in Calls[t] \cap KernelCalls
    /\ call = "exec" => t = Main
    /\ Admitted(t)
    /\ Step(t, "user", call)
    /\ UNCHANGED <<schedVars, futexVars, groupVars>>

(* do_clone for a thread: a fresh task u becomes ready and a member in one  *)
(* section.                                                                 *)
do_clone(t, u) ==
    /\ t \in on_cpu /\ pc[t] = "clone"
    /\ pc[u] = "none" /\ u # Main
    /\ pc' = [pc EXCEPT ![t] = "user", ![u] = "user"]
    /\ status' = [status EXCEPT ![u] = "ready"]
    /\ members' = members \cup {u}
    /\ live_members' = live_members \cup {u}
    /\ wait_interruptible' = wait_interruptible \ {u}
    /\ terminate_requested' = terminate_requested \ {u}
    /\ signals' = signals \ {u}
    /\ woken' = woken \ {u}
    /\ deadline' = [deadline EXCEPT ![u] = "none"]
    /\ UNCHANGED <<on_cpu, timer_queue, in_vm, word, futex_waiters, uaddr, exit_ready,
                   teardown_owner, dead_threads, dead_reaper_waiting, parent_waiting>>

(* fork_alloc_child or what follows it fails. *)
clone_fails(t) ==
    /\ Step(t, "clone", "user")
    /\ UNCHANGED <<schedVars, futexVars, groupVars>>

(* vm_lock_enter and vm_lock_leave; how the lock is waited for is Mutex's.  *)
vm_lock_enter(t) ==
    /\ in_vm = {}
    /\ Step(t, "fault", "vm")
    /\ in_vm' = in_vm \cup {t}
    /\ UNCHANGED <<status, on_cpu, timer_queue, wait_interruptible,
                   terminate_requested, futexVars, groupVars>>

vm_lock_leave(t) ==
    /\ Step(t, "vm", "user")
    /\ in_vm' = in_vm \ {t}
    /\ UNCHANGED <<status, on_cpu, timer_queue, wait_interruptible,
                   terminate_requested, futexVars, groupVars>>

-----------------------------------------------------------------------------
(* do_exit, up to its last task_sched. *)

(* What becomes of the live members, the reaper's sleep and the parent's    *)
(* when a thread exits.                                                     *)
ExitThread(t, live, reaper, parent) ==
    /\ t # Main
    /\ Step(t, "exit", "exiting")
    /\ members' = members \ {t}
    /\ live_members' = live
    /\ status' = [status EXCEPT ![t] = "dying"]
    /\ timer_disarm_unsafe(t)
    /\ dead_threads' = dead_threads \cup {t}
    /\ dead_reaper_waiting' = reaper
    /\ parent_waiting' = parent
    /\ UNCHANGED <<on_cpu, wait_interruptible, terminate_requested, in_vm,
                   futexVars, exit_ready, teardown_owner>>

LastExit(t) == live_members \subseteq {t} /\ exit_ready

(* Mutants: the last thread does not tell the parent; the reaper is not     *)
(* notified.                                                                *)
ExitQuietly(t) == ExitThread(t, live_members \ {t}, FALSE, parent_waiting)
ExitUnnoticed(t) ==
    ExitThread(t, live_members \ {t}, dead_reaper_waiting, parent_waiting /\ ~LastExit(t))

(* A thread.  The last one wakes the parent of a process whose Main has     *)
(* exited before, and all wake the reaper.                                  *)
exit_thread(t) == ExitThread(t, live_members \ {t}, FALSE, parent_waiting /\ ~LastExit(t))

(* ps_put_to_dying_queue_unsafe: Main can be waited for. *)
exit_main ==
    /\ Step(Main, "exit", "exiting")
    /\ live_members' = live_members \ {Main}
    /\ status' = [status EXCEPT ![Main] = "dying"]
    /\ timer_disarm_unsafe(Main)
    /\ exit_ready' = TRUE
    /\ UNCHANGED <<on_cpu, wait_interruptible, terminate_requested, in_vm, futexVars,
                   members, teardown_owner, dead_threads, dead_reaper_waiting, parent_waiting>>

(* The reaper task frees an exited thread of S ... *)
Reap(u, S) ==
    /\ ~dead_reaper_waiting
    /\ u \in S
    /\ dead_threads' = dead_threads \ {u}
    /\ pc' = [pc EXCEPT ![u] = "none"]
    /\ UNCHANGED <<schedVars, futexVars, members, live_members, exit_ready, teardown_owner,
                   dead_reaper_waiting, parent_waiting>>

(* Mutant: the reaper does not look whether the stack is in use. *)
ReapAtOnce(u) == Reap(u, dead_threads)

ps_reap_dead_threads(u) == Reap(u, dead_threads \ on_cpu)

(* ... and sleeps when there is none; with some left it looks again. *)
ps_dead_reaper ==
    /\ ~dead_reaper_waiting
    /\ dead_threads = {}
    /\ dead_reaper_waiting' = TRUE
    /\ UNCHANGED <<schedVars, futexVars, pc, members, live_members, exit_ready,
                   teardown_owner, dead_threads, parent_waiting>>

(* smp_check_stop in an interrupt, and the end of a second exit_group:      *)
(* ps_stop_terminated_task unlinks t from the list its ps_list is on.       *)
smp_check_stop(t) ==
    /\ t \in terminate_requested \ in_vm
    /\ pc[t] # "stopped"
    /\ Step(t, pc[t], "stopped")
    /\ status' = [status EXCEPT ![t] = "stopped"]
    /\ dead_threads' = dead_threads \ {t}
    /\ UNCHANGED <<on_cpu, timer_queue, wait_interruptible, terminate_requested, in_vm,
                   futexVars, members, live_members, exit_ready, teardown_owner,
                   dead_reaper_waiting, parent_waiting>>

-----------------------------------------------------------------------------
(* ps_kill_thread_group. *)

kill_begin(t, call) ==
    /\ IF teardown_owner \in {NoTask, t}
       THEN /\ Step(t, call, "kill")
            /\ teardown_owner' = t
            /\ terminate_requested' = terminate_requested \ {t}
       ELSE /\ t \notin terminate_requested
            /\ Step(t, call, call)
            /\ terminate_requested' = terminate_requested \cup {t}
            /\ UNCHANGED teardown_owner
    /\ UNCHANGED <<status, on_cpu, timer_queue, wait_interruptible, in_vm, futexVars, members,
                   live_members, exit_ready, dead_threads, dead_reaper_waiting, parent_waiting>>

Siblings(t) == members \ {t}

(* One round of the wait loop, with the time_wait(1) of an unfinished one.  *)
Scan(t, busy) ==
    /\ terminate_requested' = terminate_requested \cup Siblings(t)
    /\ IF Siblings(t) \cap busy # {}
       THEN /\ Step(t, "kill", "kill_sched")
            /\ ps_put_to_wait_queue_unsafe(t, TRUE, FALSE)
       ELSE /\ Step(t, "kill", "collect")
            /\ UNCHANGED <<status, timer_queue, wait_interruptible>>
    /\ UNCHANGED <<on_cpu, in_vm, futexVars, groupVars>>

(* Mutant: the scan does not wait for VM transactions. *)
ScanCPUs(t) == Scan(t, on_cpu)

kill_scan(t) == Scan(t, on_cpu \cup in_vm)

ps_finish_timed_wait(t) ==
    /\ Step(t, "kill_wake", "kill")
    /\ timer_disarm_unsafe(t)
    /\ UNCHANGED <<status, on_cpu, wait_interruptible, terminate_requested,
                   in_vm, futexVars, groupVars>>

(* The siblings leave the scheduler, the deadline tree and the futex queue. *)
Collect(t, waiters) ==
    LET S == Siblings(t) IN
    /\ t \in on_cpu /\ pc[t] = "collect"
    /\ pc' = [u \in Tasks |-> IF u = t THEN "reap" ELSE IF u \in S THEN "dead" ELSE pc[u]]
    /\ status' = [u \in Tasks |-> IF u \in S THEN "dying" ELSE status[u]]
    /\ timer_queue' = timer_queue \ S
    /\ futex_waiters' = waiters
    /\ members' = members \ (S \ {Main})
    /\ live_members' = live_members \ S
    /\ UNCHANGED <<on_cpu, wait_interruptible, terminate_requested, in_vm, word,
                   woken, deadline, signals, uaddr, exit_ready, teardown_owner,
                   dead_threads, dead_reaper_waiting, parent_waiting>>

(* Mutant: the waiter records of the siblings stay linked. *)
CollectNoFutex(t) == Collect(t, futex_waiters)

collect(t) == Collect(t, futex_waiters \ Siblings(t))

(* One of the collected: Main becomes a zombie (ps_put_to_dying_queue,      *)
(* which cannot be the last exit while t lives), a thread is freed.         *)
ps_reap_group_thread(t, u) ==
    /\ t \in on_cpu /\ pc[t] = "reap"
    /\ pc[u] = "dead"
    /\ pc' = [pc EXCEPT ![u] = IF u = Main THEN "zombie" ELSE "none"]
    /\ exit_ready' = (exit_ready \/ u = Main)
    /\ UNCHANGED <<schedVars, futexVars, members, live_members, teardown_owner,
                   dead_threads, dead_reaper_waiting, parent_waiting>>

(* do_group_exit goes on with do_exit; execve, in Main, with the new image. *)
kill_end(t, to) ==
    /\ \A u \in Tasks : pc[u] # "dead"
    /\ to = "user" => t = Main
    /\ Step(t, "reap", to)
    /\ teardown_owner' = NoTask
    /\ UNCHANGED <<schedVars, futexVars, members, live_members, exit_ready,
                   dead_threads, dead_reaper_waiting, parent_waiting>>

-----------------------------------------------------------------------------
(* The parent, and the end of a switch. *)

Waitable == exit_ready /\ Main \notin on_cpu /\ live_members = {}

(* do_waitpid. *)
do_waitpid ==
    /\ ~parent_waiting
    /\ Main \in members
    /\ IF Waitable
       THEN /\ pc' = [pc EXCEPT ![Main] = "none"]
            /\ members' = members \ {Main}
            /\ UNCHANGED parent_waiting
       ELSE /\ parent_waiting' = TRUE
            /\ UNCHANGED <<pc, members>>
    /\ UNCHANGED <<schedVars, futexVars, live_members, exit_ready, teardown_owner,
                   dead_threads, dead_reaper_waiting>>

(* ps_switch_finish for p, which n has replaced: an ended process has left  *)
(* its stack, which wakes the parent.  An ended thread has lost its psid in *)
(* do_exit and wakes nobody.                                                *)
ps_switch_finish(p, n) ==
    LET ended == p = Main /\ p # n /\ status[p] = "dying"
    IN  parent_waiting' = (parent_waiting /\ ~ended)

GroupSchedule(p, n, F) ==
    /\ schedule(p, n, F)
    /\ ps_switch_finish(p, n)
    /\ UNCHANGED <<members, live_members, exit_ready, teardown_owner, dead_threads,
                   dead_reaper_waiting>>

-----------------------------------------------------------------------------
ps_kill_thread_group(t) ==
    \/ \E call \in {"exit_group", "exec"} : kill_begin(t, call)
    \/ kill_scan(t) \/ ps_finish_timed_wait(t) \/ collect(t)
    \/ \E u \in Tasks : ps_reap_group_thread(t, u)
    \/ \E to \in {"exit", "user"} : kill_end(t, to)

GroupProceed(t) ==
    \/ Proceed(t) /\ UNCHANGED groupVars
    \/ \E u \in Tasks : do_clone(t, u)
    \/ clone_fails(t) \/ vm_lock_enter(t) \/ vm_lock_leave(t)
    \/ exit_thread(t) \/ (t = Main /\ exit_main)
    \/ ps_kill_thread_group(t)

(* Signals reach the members of the group, stopped ones too. *)
Signal(t) ==
    /\ t \in members
    /\ InFutex(t) \/ pc[t] = "stopped"
    /\ queue_signal(t, TRUE)

Next ==
    \/ \E t \in Tasks : \/ \E call \in KernelCalls : enter(t, call)
                        \/ Begin(t) /\ UNCHANGED groupVars
                        \/ GroupProceed(t)
                        \/ smp_check_stop(t)
                        \/ ps_reap_dead_threads(t)
                        \/ expire(t) /\ UNCHANGED groupVars
                        \/ Signal(t) /\ UNCHANGED groupVars
    \/ \E p \in on_cpu \cup {Idle}, n \in Tasks \cup {Idle} :
           \E F \in SUBSET timer_queue : GroupSchedule(p, n, F)
    \/ ps_dead_reaper
    \/ do_waitpid

Spec == Init /\ [][Next]_allVars

(* As for Futex; also, the timer interrupt finds a condemned task outside   *)
(* VM transactions, a task that has ended leaves its CPU, the reaper runs   *)
(* and the parent waits.                                                    *)
GroupDispatch(t) == t \notin on_cpu /\ \E p \in on_cpu \cup {Idle} : GroupSchedule(p, t, {})
GroupFire(t) ==
    /\ t \in timer_queue
    /\ \E p \in on_cpu \cup {Idle}, n \in Tasks \cup {Idle} : GroupSchedule(p, n, {t})
Leave(t) ==
    /\ pc[t] \in {"sched", "kill_sched", "exiting", "stopped"}
    /\ \E n \in Tasks \cup {Idle} : GroupSchedule(t, n, {})

Fairness ==
    /\ \A t \in Tasks :
        /\ WF_allVars(GroupDispatch(t))
        /\ WF_allVars(GroupFire(t))
        /\ WF_allVars(Leave(t))
        /\ SF_allVars(GroupProceed(t))
        /\ SF_allVars(smp_check_stop(t))
        /\ WF_allVars(ps_reap_dead_threads(t))
    /\ WF_allVars(do_waitpid)

FairSpec == Spec /\ Fairness

-----------------------------------------------------------------------------
(* The types of the state of one process; only members are live, and no     *)
(* more tasks are on a CPU than there are CPUs.                             *)
TypeOK ==
    /\ FutexVarsTypeOK
    /\ pc \in [Tasks -> GroupLabels]
    /\ members \subseteq Tasks /\ live_members \subseteq members
    /\ dead_threads \subseteq Tasks
    /\ teardown_owner \in Tasks \cup {NoTask}
    /\ exit_ready \in BOOLEAN
    /\ dead_reaper_waiting \in BOOLEAN /\ parent_waiting \in BOOLEAN

(* The futex queue and the deadline tree point into kernel stacks: they     *)
(* hold only members that are inside the wait that linked them, or were     *)
(* stopped there, also while other threads leave the group or are torn      *)
(* down wherever they sleep.                                                *)
QueuesHoldSleepers ==
    /\ \A t \in futex_waiters : t \in members /\ pc[t] \in {"sched", "resume", "stopped"}
    /\ \A t \in timer_queue :
          t \in members /\ pc[t] \in {"sched", "resume", "kill_sched", "kill_wake", "stopped"}

(* A task is freed, by the reaper, a teardown or waitpid, only when no CPU  *)
(* uses its stack and no queue holds it, and it can become ready no more.   *)
FreedUnused ==
    \A t \in Tasks : pc[t] \in {"dead", "none"} =>
        /\ t \notin on_cpu \cup futex_waiters \cup timer_queue \cup in_vm
        /\ t \notin dead_threads \cup live_members
        /\ status[t] = "dying"

(* When the siblings are collected, each of them has been condemned and has *)
(* left its CPU and its VM transaction, threads cloned meanwhile included,  *)
(* and one task at a time is in the teardown.                               *)
SiblingsStopped ==
    \A t \in Tasks :
        /\ pc[t] \in Killing => teardown_owner = t
        /\ pc[t] = "collect" => /\ Siblings(t) \subseteq terminate_requested
                                /\ Siblings(t) \cap (on_cpu \cup in_vm) = {}

(* A parent does not sleep in waitpid beside a child it could reap, in      *)
(* whatever order Main and its threads exit, leave their CPUs and are torn  *)
(* down.                                                                    *)
NoLostChild == parent_waiting => ~Waitable

(* exit_group and exec come to an end, for the caller that tears the group  *)
(* down and for those that are torn down with it.                           *)
TeardownEnds ==
    LET In(t) == pc[t] \in Killing \cup {"exit_group", "exec"}
    IN  \A t \in Tasks : []<>~In(t)

(* A thread that has exited does not wait for the reaper for ever: it is    *)
(* freed, unless a teardown stops it on its way off the CPU.                *)
ReaperAwake == \A t \in Tasks \ {Main} : []<>(pc[t] # "exiting")

(* "Exited thread resources are destroyed by an independent kernel reaper   *)
(* task" (doc/locks.md).                                                    *)
ExitedThreadsReaped ==
    \A t \in Tasks : pc[t] = "exiting" /\ t # Main ~> pc[t] = "none"
=============================================================================
