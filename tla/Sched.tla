------------------------------- MODULE Sched -------------------------------
(***************************************************************************)
(* The scheduler (src/ps/impl/alg/ps_alg_rr.c, sched/ps_switch.c): task    *)
(* states, the deadline tree and the switch, all under ps_lock, so that    *)
(* each operation here is part of one step.                                *)
(*                                                                         *)
(* A task is on a ready queue exactly while its status is "ready" or       *)
(* "running": a running task keeps its place.  Priorities and the round    *)
(* robin order become a free choice among the tasks the code could pick,   *)
(* and time becomes the moment at which a deadline fires.  CPUs differ     *)
(* only in affinity masks and are counted, each with its idle task.        *)
(***************************************************************************)
EXTENDS Naturals, FiniteSets

CONSTANTS Tasks,   \* the threads that may exist
          NCPU,    \* the number of CPUs
          Idle     \* the idle task of whichever CPU

ASSUME NCPUAssumption == NCPU \in Nat \ {0}
ASSUME IdleAssumption == Idle \notin Tasks
ASSUME TasksAssumption == IsFiniteSet(Tasks)

VARIABLES status,              \* sched->status
          on_cpu,              \* the tasks whose stack a CPU is using
          timer_queue,         \* the tasks with an armed deadline
          wait_interruptible,  \* the tasks a signal may wake
          terminate_requested, \* the tasks a group exit has condemned
          in_vm                \* the tasks with vm_lock_depth above zero

schedVars == <<status, on_cpu, timer_queue, wait_interruptible,
               terminate_requested, in_vm>>

Statuses == {"ready", "running", "waiting", "stopped", "dying"}

SchedTypeOK ==
    /\ status \in [Tasks -> Statuses]
    /\ on_cpu \subseteq Tasks /\ Cardinality(on_cpu) <= NCPU
    /\ timer_queue \subseteq Tasks
    /\ wait_interruptible \subseteq Tasks
    /\ terminate_requested \subseteq Tasks
    /\ in_vm \subseteq Tasks

(* ps_put_to_ready_queue_unsafe for the tasks of S: a dying one stays so. *)
Wakable(S) == {t \in S : status[t] # "dying"}

ps_put_to_ready_queue_unsafe(S) ==
    /\ status' = [t \in Tasks |-> IF t \in Wakable(S) THEN "ready" ELSE status[t]]
    /\ wait_interruptible' = wait_interruptible \ Wakable(S)

(* ps_put_to_wait_queue_unsafe, and what its callers do before they drop    *)
(* ps_lock: arm the deadline and allow signals to end the wait.             *)
ps_put_to_wait_queue_unsafe(t, timed, interruptible) ==
    /\ status' = [status EXCEPT ![t] = "waiting"]
    /\ timer_queue' = IF timed THEN timer_queue \cup {t} ELSE timer_queue
    /\ wait_interruptible' = IF interruptible THEN wait_interruptible \cup {t}
                             ELSE wait_interruptible \ {t}

timer_disarm_unsafe(t) == timer_queue' = timer_queue \ {t}

-----------------------------------------------------------------------------
(* task_sched on a CPU that runs p, with ps_switch_finish. *)

(* The ready queues once p has been preempted and the deadlines of F fired. *)
ReadyQueue(p, F) ==
    {t \in Tasks : \/ status[t] = "ready"
                   \/ status[t] = "running" /\ t = p
                   \/ t \in Wakable(F)}

(* Mutant: a condemned task is not picked even inside a VM transaction. *)
AvailableUncondemned(t, p) == t \notin terminate_requested /\ (t \notin on_cpu \/ t = p)

ps_task_available(t, p) ==
    /\ t \notin terminate_requested \/ t \in in_vm
    /\ t \notin on_cpu \/ t = p

Available(p, F) == {t \in ReadyQueue(p, F) : ps_task_available(t, p)}

(* A CPU whose task is p: idle CPUs are those no task is on. *)
OnCPU(p) == p \in on_cpu \/ (p = Idle /\ Cardinality(on_cpu) < NCPU)

(* The idle task has the lowest priority. *)
ps_get_next_task_unsafe(p, n, F) ==
    n \in Available(p, F) \/ (n = Idle /\ Available(p, F) = {})

task_sched(p, n, F) ==
    /\ OnCPU(p)
    /\ F \subseteq timer_queue
    /\ ps_get_next_task_unsafe(p, n, F)
    /\ on_cpu' = ((on_cpu \ {p}) \cup {n}) \ {Idle}
    /\ status' = [t \in Tasks |-> IF t = n THEN "running"
                                  ELSE IF t \in ReadyQueue(p, F) THEN "ready"
                                  ELSE status[t]]
    /\ timer_queue' = timer_queue \ F
    /\ wait_interruptible' = wait_interruptible \ Wakable(F)
    /\ UNCHANGED <<terminate_requested, in_vm>>
=============================================================================
