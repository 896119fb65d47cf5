# A TLA+ verification of the mos kernel

mos is a multiprocessor x86 kernel in C that runs Linux programmes. This
directory holds TLA+ models of its concurrent core, TLC configurations that
check them on small instances, and TLAPS proofs for every number of tasks,
CPUs, bytes, words, open files and locked ranges. `PROJECT.json` relates every
definition to the lines of the source it models and lists the runs, the mutants
that show each property can fail, the hazards and the theorems.

    tlc -workers 2 -config MCMutex.cfg MCMutex       # a run
    tlapm MutexProofs.tla                            # the proofs of a module

## 1. Inventory

Where the kernel's state lives, what changes it and what is hard about it.
The last column names the modules; the rest is left for later (section 7) or
left out (section 8).

| Part (under `src/src/` unless noted) | State | Operations | Talks to | What is hard | Modelled |
|---|---|---|---|---|---|
| Lists, `lib/impl/list.c` | intrusive double links | insert, remove | every queue | an entry is on one list at a time | `KList` |
| Sleeping locks, `lib/impl/lock.c` | lock word, waiter count, wait list, holder, depth; one word and two lists for `rwlock_t` | lock, unlock, wait, notify, reset | scheduler, signals | release and last-reader paths outside `wait_lock`, interrupted waiters, stale wakeups | `LockBase`, `Mutex`, `Cond`, `RwLock` |
| Cyclic buffer and pipes, `lib/impl/cyclebuf.c`, `fs/impl/pipe.c` | ring, two events, counts of ends, reference count | put, put record, get, flush, open, close | events, signals | events fired outside the spinlock, close against wait, wrap-around | `Cyclebuf` |
| Scheduler, `ps/impl/alg/ps_alg_rr.c`, `ps/impl/sched/ps_switch.c` | task states, ready, wait and deadline queues, `on_cpu` | wait, wake, fire deadlines, switch | everything | a task on a queue that still runs on its stack | `Sched` |
| Futexes, `ps/impl/ps_futex.c` | waiter records on kernel stacks | `FUTEX_WAIT`, `FUTEX_WAKE` | scheduler, signals, user memory | wakeup against deadline against signal | `Futex` |
| Thread groups, exit and wait, `ps/impl/ps_clone.c`, `ps/impl/ps_syscall.c`, `arch/x64/ps/impl/smp.c` | members, live tasks, teardown owner, dead threads, zombies | clone, exit, exit_group, exec, waitpid, the reaper task | all of the above | tearing threads down wherever they are, freeing a stack in use, losing an exit | `ThreadGroup` |
| Process table, `ps/impl/ps.c`, `ps_fork.c`, `ps_namespace.c` | identifiers, parent links, table | fork, reparent, find, enumerate | exit, signals | identifier wrap, reparenting against exit | not yet |
| Signals and timers, `ps/impl/ps_signal.c`, `ps_alarm.c`, `ps_periodic.c` | pending sets, queues, masks | send, take, arm | every interruptible wait | coalescing, delivery against sleep | what a sleeper sees of a signal; the service task for timerfds |
| Deferred routines, `int/impl/dsr.c` | queue, node cache, worker | add, drain | interrupts | loss when the cache is empty | not yet |
| Readiness, `fs/impl/poll.c`, `select.c`, `epoll.c`, `eventfd.c`, `timerfd.c` and open files in `fs/impl/fs.c` | subscriptions, ready lists, counters, timers, references | register, check, sleep, notify, deliver, close | scheduler, clock, signals | check, register and sleep are three steps; edges; files closed under waiters | `PollWait`, `Timerfd`, `Eventfd`, `Epoll`, `Readiness` |
| File locks, `fs/impl/posix_lock.c`, `fs/impl/fs.c`, `syscall/impl/syscall_fs.c` | ranges per file, shared and exclusive holders, waiters | lock, unlock, convert, close | scheduler | splitting ranges; queues moved without `ps_lock` | `FileLocks` |
| System V IPC, `syscall/impl/sys_ipc.c` | segments, attachments | attach, detach, remove | memory | segment used after the lock is dropped | not yet |
| Physical memory, `mm/impl/phymm.c` | free lists by order, reference counts | allocate, free, count | everything | splitting and merging over long histories | `Phymm` |
| Page tables and TLB shootdown, `arch/x64/mm/impl/mm.c`, `arch/x64/ps/impl/smp.c` | entries, cached translations, request and acknowledgements | map, unmap, narrow, flush, poll | all CPUs | CPUs that wait for each other with interrupts off | `PageTables`, `Tlb` |
| Address spaces, `mm/impl/mmap.c`, `pagefault.c`, `cache.c`, `ps/impl/ps_fork.c`, `ps_context.c` | regions, shared anonymous pages, contents | fault, mmap, munmap, mprotect, fork, exit | page tables, frames | copy on write under other threads, a fork that fails half way | `AddressSpace`, `Memory` |
| Heap, `lib/impl/kmalloc.c` | blocks | allocate, free | everything | merging over long histories | no |
| VFS, synthetic file systems, sockets, terminals, device model and drivers, loader, system call table | trees, open files, registers | many | | mostly sequential under one lock, or register I/O | not modelled |

The correctness properties wanted of the core, most important first: nobody
sleeps for ever beside the thing it waits for; at most one owner (or writer) at
a time; memory is freed once, and only when no CPU, queue or transaction uses
it; a group exit ends; bytes leave a pipe in order; signals and deadlines end
waits; an exit reaches the parent; readiness reaches the one who polls for it;
a byte range has one owner; a process sees its own memory and nobody else's.

## 2. Modules

| Module | Models | Built on |
|---|---|---|
| `KList` | `list_entry` queues as sequences | |
| `LockBase` | `lock_base` and its wait queue | `KList` |
| `AbsMutex` / `Mutex` | promise / code of `mutex_t` and `rmutex_t` | `LockBase` |
| `AbsCond` / `Cond` | promise / code of `cond_t`, an auto-reset event | `LockBase` |
| `RwLock` | `rwlock_t` | `KList` |
| `AbsFifo` / `Cyclebuf` | promise / code of `cy_buf` with its readers and writers | the events of `AbsCond` |
| `Sched` | task states, deadlines and the context switch | |
| `Futex` | `FUTEX_WAIT` / `FUTEX_WAKE` under a semaphore | `Sched` |
| `ThreadGroup` | clone, exit, teardown, reaper, waitpid | `Futex`, `Sched` |
| `TaskWait` | a task that sleeps in a system call: status, deadline, signals | |
| `PollWait` | open files, subscriptions, `poll_notify`, `poll_wait_loop` | `TaskWait` |
| `Timerfd` | `timerfd.c`, the clocks | `PollWait` |
| `Eventfd` | `eventfd.c`; reads, writes, poll and select over both kinds of file | `Timerfd` |
| `Epoll` | `epoll.c` | `Eventfd`, `KList` |
| `Readiness` | the calls and steps of these together | `Epoll` |
| `FileLocks` | `posix_lock.c` and `flock` | `TaskWait` |
| `Files` | tasks that make calls of `Readiness` and `FileLocks` | both |
| `Phymm` | buddy allocator and reference counts | `KList` |
| `Tlb` | translation caches and their shootdown | |
| `PageTables` | entries written under `mm_lock` | `Phymm`, `Tlb` |
| `AddressSpace` | regions, faults, copy on write, shared pages, fork, exit | `PageTables` |
| `AbsMemory` / `Memory` | promise / code of memory as threads see it | `AddressSpace` |
| `MC*` | instances for TLC | |
| `*Proofs` | theorems of the module they are named after; `ThreadGroupProofs` also those of `Futex` | |

`Cyclebuf` takes its two events from `AbsCond`, and `Cond` is shown to
implement `AbsCond`: the step from the code of an event to its promise is made
once. `ThreadGroup` runs the futex calls of `Futex` and the scheduler of
`Sched` unchanged and adds the ways a thread can come and go around them.
`Files` joins two families of calls over one kind of sleeping task. `Memory`
joins four layers: what a thread reads and writes goes through the cached
translations of its CPU, these come from the page tables, the entries name
frames, and the frames come from the allocator that also serves the kernel.

### State and actions

Variables carry the names of the fields they stand for (`lock`, `waiters`,
`wait_list`, `writers_waiting`, `read_idx`, `ref_count`, `futex_waiters`,
`terminate_requested`, `dead_threads`, ...). `pc[t]` is the place of task `t`
inside the code of the module. Actions carry the names of the functions
(`register`, `read_unlock`, `cyb_copy_in`, `wait_resume`, `collect`,
`ps_reap_dead_threads`); where a function makes several steps, each has a
name of its own and the map gives its lines. Definitions marked *Mutant* are
plausible mistakes; each replaces the definition after it in one mutant run and
must break one property.

### How the code is cut into steps

* `LockBase`, `Mutex`, `Cond`, `RwLock`: one access to shared memory is one
  step. Taking `wait_lock` belongs to the first access made under it and
  releasing it to the last; a section with one access is one step. `ps_lock`
  only ever covers one access to a queue here. Memory is sequentially
  consistent. This is an assumption of the models, with this reason: on x86 a
  store can only be passed by a later load of the same CPU. Where that matters
  in `lock.c`, clearing the word and then loading `waiters`
  (`lock_base_release`), both are `__ATOMIC_SEQ_CST`, and the other side
  registers with a locked instruction. The remaining updates of the words are
  locked instructions too, except the relaxed store of `cond_reset` and those
  of `holder`, which only its owner compares with itself.
* `Cyclebuf`: a section under `b->lock`, an access to a counter, or a call on
  an event is one step.
* `Futex`, `ThreadGroup`: a section under `ps_lock` or an access outside it is
  one step. A task makes a step only while it is on a CPU, and may be
  preempted between any two.
* `PollWait` to `Readiness`: a section under a producer's spinlock, `ps_lock`
  or the locks of `epoll.c` is one step. Only a notification holds a lock over
  several steps: it calls into epoll sets, which notify their own waiters under
  their own lock, and the stack of these calls is state (`frames`). The steps
  inside a check (`sub`) interleave with everything, since `epoll_mutex` sleeps.
* `FileLocks`: a section under `range_lock` or `i_flock_lock`; `wake_waiters`,
  which unlinks a waiter without `ps_lock` and takes `ps_lock` to make it ready,
  is two steps per waiter, and a signal may come between any two of them.
* `PageTables`, `AddressSpace`, `Memory`: a section under a spinlock, an atomic
  change of a count, or one pass over the memory of a page is one step; a user
  access is one step, through a cached translation or a page walk.

### What is abstracted

Tasks, bytes and words are model values. Spinlocks are assumed to exclude.
In `Sched` the ready queues are sets: priorities, round robin order and
affinity become a free choice among the tasks the code could pick, so no safety
property rests on them; time is the moment a deadline fires. `Futex` leaves
open which matching waiter is woken. In `ThreadGroup` a task is one stack and
one task structure; what else an exit releases (files, memory) is not state,
and a VM transaction is one step in and one step out under an exclusive lock.
A wakeup meant for another wait (`StaleWakeup`) may hit any sleeper of a lock
at any time: a poll subscription or deadline that is still armed does that.

Readiness: `EVENTFD_MAX` and `UINT64_MAX` are small constants with the same
saturation. A list of subscriptions is a set, so the order of wakeups is open.
Poll tables are as large as a call needs. There is at most one timerfd, so that
`timerfd_lock` is its producer lock, and the clock runs only while a timer is
armed. `first`, `taken` and `owed` are history: the deadline a timer was armed
for, the expirations read since, and the interests with a report due.

Locks on files: offsets are small integers with the arithmetic of the code;
the list of ranges is a set; one regular file stands for all.

Memory: a region is one page and `mmap` names its page. Contents are small
values. The loops that split and merge buddies are written as what they leave
behind. Pages that hold page tables are not frames of the model; that one
cannot be had is. Generations of a shootdown are the set of CPUs that still
have to answer. A thread is switched out only in user mode. `vm_alloc` takes
and counts its frames in one step, and dropping the last reference frees the
frame in the same step.

## 3. Runs

| Run | Instance | Checks | Distinct states |
|---|---|---|---|
| `mutex` | 4 tasks, both kinds, nesting to 2 | `Exclusion`, `NoLostWakeup`, `HandedOut`, `ImplementsAbsMutex` | 23,568 |
| `cond` | 3 tasks that wait, notify, reset, are signalled | `NoLostWakeup`, `ImplementsAbsCond`, `SignalEndsWait` | 80,750 |
| `rwlock` | 4 tasks | `TypeOK`, `Exclusion`, `NoStrandedWriter`, `NoStrandedReader`, `WritersFirst`, `HandedOut` | 29,400 |
| `cyclebuf` | ring of 2, one reader, one writer, calls of 1 to 3 bytes, 2 byte values | `TypeOK`, `NoUseAfterFree`, `ImplementsAbsFifo`, `ReaderReturns`, `WriterReturns` | 180,376 |
| `cyclebuf_shared` | two readers, one writer | violates `ReaderReturns` | 111,404 |
| `futex` | 2 waiters, a poster, 2 CPUs, signals, deadlines | `NoLostWakeup`, `WaiterReturns`, `WaitEnds` | 10,036 |
| `threadgroup` | 3 threads, 2 CPUs: clone, exec, a timed wait, faults, exit, exit_group, signals | `QueuesHoldSleepers`, `FreedUnused`, `SiblingsStopped`, `NoLostChild`, `TeardownEnds`, `ReaperAwake` | 28,086 |
| `threadgroup_leak` | the same without the timed wait and the signals | violates `ExitedThreadsReaped` | 7,964 |
| `files` | 3 tasks, 2 eventfds (one a semaphore), a timerfd, an epoll set, 2 open files of a locked file; 22 programs | `NoLostWakeup`, `InterestTracked`, `TicksExact`, `NoUseAfterFree`, `LocksExact`, `FlocksExact`, `NoStrandedLocker`, `CallReturns`, `EveryInterestServed` | 59,252 |
| `select_leak` | one program: a descriptor of a select is closed while the call registers | violates `SubscriptionsTemporary` | 291 |
| `memory` | 3 CPUs, 2 address spaces, 2 pages, 4 frames; 6 programs | `FramesExact`, `NoStaleTranslation`, `ImplementsAbsMemory`, `CallsEnd` | 52,353 |
| `memory_shared` | one program: two threads and a shared region that may only be read | violates `SharedMappedReadOnly` | 39 |

What the two large runs ask:

* `files`. `NoLostWakeup`: no task sleeps beside news on a file it is subscribed
  to unless a notification is on its way. `InterestTracked`: an armed interest
  with a report due is on the ready list or about to be put there, although the
  list is emptied while producers go on. `TicksExact`: what was read from a
  timerfd and what is pending are exactly the deadlines before the next one,
  whoever brought the timer up to date and however late. `NoUseAfterFree`: no
  list, notification or check leads to a freed file, interest or table.
  `LocksExact`, `FlocksExact`: the ranges of an owner are exactly the bytes its
  calls locked, checked byte by byte; shared and exclusive holders are counted
  exactly. `NoStrandedLocker`: no task sleeps for a range that nobody else has,
  once the wakeups are over, nor for an exclusive whole-file lock that nothing
  keeps it from taking. It ends where the build leaves open what happens
  (`undefined`, section 6). `CallReturns`: a call that can return does; of the
  calls that may sleep for a lock, only those the kernel does wake and only
  while the lists of waiters are whole. `EveryInterestServed`:
  with room for one report per call, no ready interest is passed over for ever.
* `memory`. `FramesExact`: each frame is free in one block or counted by exactly
  its users, at every step of every call. `NoStaleTranslation`: a cached
  translation names a frame that is still behind the page, or the one a copy is
  just replacing, and is writable only if the entry is or its flush is under
  way. `ImplementsAbsMemory`: processes see private pages of their own, shared
  pages in common, zeroes at first and a fork's snapshot. It bounds loads as
  well as stores: in every state, what a CPU could load through the translation
  it has cached or through the page table is what the page holds (`LoadsRight`),
  and a store happens only in a region that may be written. Frames start with
  contents that are not zero, so a page that is not cleared shows. `CallsEnd`:
  the calls inside the kernel are never the same ones for ever, so there is no
  circle of CPUs that wait for locks and for answers to a shootdown.

Deadlock is checked except for the cyclic buffer and memory, which really end:
once a pipe is freed nobody can open it again, and once every thread has left
nothing runs. In `files` it is checked: the programs in which tasks can wait in
a circle, which the code allows (section 6), have a signal or a third task that
ends it, and the poll of a timerfd that another task closes has a timeout.

### Why the bounds are enough

* Locks: a lost wakeup needs a releaser, a sleeper and a task that barges in
  between; the fourth task lets a second sleeper be passed over. `MaxDepth` = 2
  distinguishes an inner unlock from the outermost one. An event needs one
  waiter that is picked and then leaves on a signal, one that should get the
  wakeup instead, and a notifier.
* `cyclebuf`: with `Size` = 2 and `MaxLen` = 3, transfers fill the ring, cross
  its end, are cut short and take several rounds; two byte values show order.
* `futex`: two waiters so that a wakeup can go to the wrong one; `MaxCount` = 2
  so that a unit may be left over; three tasks on 2 CPUs so that somebody is
  always preempted.
* `threadgroup`: the owner of a teardown, a sibling that is stopped and a third
  that clones or tries to tear the group down itself. `Calls` gives each thread
  a part, so that the state space stays small; between them they make every
  call the module adds to `Futex`; of the futex calls one timed wait is enough
  for a waiter record on the stack of a killed thread, and `futex` checks the
  others.
* `files`: a program gives each of three tasks the calls it may make, again and
  again and in any order. One waits, one produces, the third changes, closes or
  interrupts. `EVENTFD_MAX` = 2 and writes of 2 make a counter full; two
  eventfds and one slot for reports make reports compete. `UINT64_MAX` = 3 lets
  a timer of period 1 or 2 be several deadlines late and run into the end of
  time; the wall clock is set once (`MaxSets` = 1), forwards or back. Locked
  ranges lie in bytes 0 to `INT64_MAX` = 3, so that a range can be split in the
  middle, end at the last byte and be named from its end.
* `memory`: three CPUs so that one waits for the lock of a shootdown while two
  others take part in it. Two spaces for a parent and a child. Four frames, one
  of them the zero page: a copy on write, a shared page and a kernel block
  compete for three, so that allocation fails and buddies merge.

The safety properties of locks, buffer, futexes, thread groups and file locks
are proved for all sizes (section 5).

## 4. Fairness

Nothing has to call into the kernel, send a signal or wake somebody by mistake.

* Locks and events: a task inside `lock.c` keeps running (`WF` on `Proceed`):
  spinlock sections mask interrupts, and the scheduler is round robin.
  `spinlock_lock` is not a queue lock, so in `Cond` and `RwLock` a CPU that
  finds `wait_lock` free again and again is assumed to get it once (`SF` on
  `Spin`). In `Mutex` the guarded section ends: the outermost unlock is
  strongly fair, since nested locking could put it off for ever otherwise.
* `Cyclebuf`: `WF` on `Proceed`; the events keep the promise of `AbsCond`,
  which `Cond` is checked to keep.
* `Futex`, `ThreadGroup`: a ready task gets a CPU (`WF` on `Dispatch`: a picked
  task goes to the tail of its queue and the timer interrupt preempts), an
  armed deadline fires (each decision of the scheduler looks at the tree), a
  task that has called `task_sched` leaves its CPU, and a task that gets a CPU
  again and again executes (`SF` on `Proceed`, since it may be preempted
  between). The timer interrupt finds a condemned task that keeps running
  (`SF` on `smp_check_stop`), and reaper and parent run.
* `Files`: a task inside a call keeps running (`SF` on `Proceed`): spinlocks and
  `epoll_mutex` are free again and again, and are taken at last. The service
  task goes on ticking, since a deadline of its own wakes it every `TICK_MS`.
  Deadlines of calls are met (`WF` on `Clock`). No time has to pass for
  timerfds, nobody has to call and no signal has to come.
* `Memory`: a CPU inside the kernel goes on when it can (`WF` on `Kernel`), and
  a target of a shootdown answers, from the interrupt or while it spins (`WF` on
  `Shootdown`). No fairness of a lock is assumed: `mapping_lock` and the fault
  locks are `rmutex_t`, whose waiters can be passed over (`lock.c` lines 131 and
  153, and `HandedOut` of `Mutex`), and a spinlock goes to whoever finds it
  free. So `CallsEnd` does not promise a turn to each call: one may wait for as
  long as calls of others end and come again. No thread has to do anything in
  user mode.

## 5. What is proved

TLAPS checks these for every finite set of tasks and every value of the other
constants that meets the assumptions named in the modules: `NoTask` and `Idle`
are not tasks, `Main` is one, `NCPU`, `Size`, `MaxLen` and `MaxDepth` are
positive, readers and writers are different tasks; for files, that every task
has a process, that there are finitely many open files (`LocksAssumption`) and
that programs make well-formed calls (`ProgramsAssumption`).

| Theorem | Says |
|---|---|
| `MutexTypes`, `MutexExclusion`, `MutexNoLostWakeup` | invariants of the run `mutex` |
| `MutexImplementsAbsMutex` | every step of a mutex is a step of `AbsMutex` or none |
| `CondTypes`, `CondNoLostWakeup` | invariants of the run `cond` |
| `CondImplementsAbsCond` | every step of an event is a step of `AbsCond` or none |
| `RwTypes`, `RwExclusion`, `RwNoStrandedReader`, `RwNoStrandedWriter`, `RwWritersFirst` | invariants and the step property of the run `rwlock` |
| `CycTypes`, `CycNoUseAfterFree`, `CycImplementsAbsFifo` | invariants and refinement of the run `cyclebuf` |
| `FutexNoLostWakeup` | the invariant of the run `futex` |
| `GroupTypes`, `GroupQueues`, `GroupFreedUnused`, `GroupSiblingsStopped`, `GroupNoLostChild` | invariants of the run `threadgroup`, and its types |
| `LocksExactAlways`, `FlocksExactAlways`, `NoStrandedLockerAlways` | invariants of the run `files` about locks, beside any readiness calls |
| `NextDeadline` | `timerfd_update` skips no deadline and repeats none, for every period and delay |

None of the invariants is inductive as it stands. What had to be added:

* `LockInv`, shared by `Mutex` and `Cond` (`LockBaseProofs`): `waiters` counts
  exactly the registered tasks, so a releaser that reads 0 strands nobody; the
  task in the `wait_lock` section is the one whose place says so; and a task
  about to queue on a word that has become free has a releaser behind it, which
  needs `wait_lock` and so cannot pass before the task is queued. `MutexInv`
  adds that the word is taken while a task owns the lock and that a held
  `rmutex_t` has a positive depth, `CondInv` the types of the flags.
* `RwInv`: the reader part of the word counts the readers, `RW_PENDING` is set
  exactly while writers wait, and a task about to queue still has a reason to:
  the gate is closed before a reader, and the word is in use, or its last
  reader on the way to wake, before a writer.
* `CycInv`: the write index is where the queue ends, and `ref_count` counts the
  ends that are open or being closed, and the device. The refinement maps the
  ring to the sequence that starts at `read_idx`.
* `GroupInv`: which queues a task can be on at its place in the code, what a
  teardown has achieved at its place, that its owner is not condemned, and that
  every condemned member not yet collected has an owner other than itself. The
  last two make sure that no two threads tear each other down.

* `FutexInv`: a linked waiter record belongs to a task inside its wait that has
  not been woken. With it `NoLostWakeup` is inductive: a waiter links its record
  only where it has seen 0, each post brings one task that attends to the word,
  and a wakeup passes the attention of its caller on to the task it wakes.
* `LocksInv` (`FileLocksProofs`): the ranges of one owner are disjoint and
  well-formed, which is why the replacing loop may stop at the first range it
  splits; a task between two sections of a call names the request it came with;
  a sleeper is on the list of the file it waits for, or the one `wake_waiters`
  has just taken off it, and is linked before the lock it waits for can be given
  up. What is said of sleepers holds until `undefined`; what is said of ranges,
  bytes and holders holds always. `FilesProofs` adds that no step of a
  readiness call, the service task or the clock touches any of this
  (`OtherFrame`, `ReadinessStepFrame`), and composes.

The lemmas about queues that the proofs of the locks cite stand at the head of
`LockBaseProofs` and `RwLockProofs`.

Only model-checked: all liveness (`HandedOut`, `SignalEndsWait`,
`ReaderReturns`, `WriterReturns`, `WaiterReturns`, `WaitEnds`, `TeardownEnds`,
`ReaperAwake`, `CallReturns`, `EveryInterestServed`, `CallsEnd`) and the
fairness part of `AbsCond`, which are out of the prover's reach. Of the safety
properties: those of readiness (`NoLostWakeup`, `InterestTracked`,
`NoUseAfterFree`, `TicksExact`) and of memory (`FramesExact`,
`NoStaleTranslation`, `ImplementsAbsMemory`). Their inductive invariants have to
describe every place of every call, and counting users of a frame over sets that
change in several places needs induction over data that the prover lacks.

## 6. Where code and documentation part

Four runs show a disagreement; `PROJECT.json` has the lines.

* `cyclebuf_shared`: `cyclebuf.h` says that a read ends once no writer remains.
  With two readers asleep, the last `cyb_writer_close` fires an auto-reset event
  once. One reader takes it, returns and does not pass it on, and the other
  sleeps. With one reader (`cyclebuf`) the property holds.
* `threadgroup_leak`: `doc/locks.md` says that exited threads are destroyed by
  the reaper. A condemned thread that has queued itself for the reaper, and is
  stopped by an interrupt before it leaves its CPU, is taken off that queue
  again; it is a member no more, so the teardown does not free it either.
  `ReaperAwake` states what holds instead.
* `select_leak`: `doc/poll.md` gives the wait loop a cleanup and the tables of a
  call temporary storage. A select that meets a closed descriptor while it
  registers returns without the cleanup: its earlier subscriptions stay linked
  in the lists of their files. Poll passes over such a descriptor and is not
  affected; the programs of `files` hold with it.
* `memory_shared`: comments in `pagefault.c` (lines 314 to 317, 339 and 347) and
  `doc/mm_virtual.md` line 206 say that a shared anonymous page is mapped
  read-only first, so that a write fault checks the region. Line 360 maps it
  writable, whatever the protection: after a load of a page in a `PROT_READ`
  region, a store to it succeeds. `AbsMemory` does not allow that store; the
  programs of `memory` keep the promise because their shared regions may be
  written.

Met while modelling, where the models follow the code:

* `doc/locks.md` lines 129 and 286 say that the word is cleared and a waiter
  woken in one `wait_lock` section. `lock_base_release` clears the word before
  it takes `wait_lock`, and takes it only if a waiter is registered. The
  property the document wants, no lost wakeup, holds all the same and is proved.
* `doc/locks.md` line 164 says that `wait_lock` protects all of a reader-writer
  lock; readers enter and leave with atomic operations on the word outside it.
* `doc/locks.md` lines 10 to 12 say that lock waiters are selected and made ready
  under `ps_lock`. `posix_lock.c` line 39 takes a waiter off its list without it,
  and `fs.c` line 796 changes its list and the ready queue without it. A signal,
  or for `fs.c` anything that has `ps_lock` on another CPU, may change the same
  links at that time. The model lets the wakeups happen in order, or sets
  `undefined` and loses some of them; what holds of sleepers holds up to there.
* `sys_flock` takes no reference to its file: a close by another thread may free
  it under a sleeper (`Unreferenced`), which sets `undefined` too.
* `sys_flock` wakes nobody when an exclusive lock becomes shared. The waiters
  for a shared lock that could go on then sleep until the next release. So
  `NoStrandedLocker` and `CallReturns` say nothing of a shared waiter. Two shared holders that both ask for the exclusive lock wait for each
  other.
* A record lock that a request takes after a sibling has closed the descriptor
  stays until the process ends; `F_SETLKW` looks for no cycle of waiters.
* The first touch of a page maps it writable before it is cleared
  (`pagefault.c` lines 360 to 376): another thread may read what the frame held
  or lose a store meanwhile. `AbsMemory` says so (`filling`).
* A copy on write replaces the entry before it flushes (lines 554 to 556): until
  the CPUs have answered, one thread may use the copy while another still reads
  the old frame. `NoStaleTranslation` allows that and bounds it, and `AbsMemory`
  lets such a load return the value from before the copy and no other (`stale`).
* `doc/ps.md` line 127 says that `task_sched` reaps dead threads; a task of its
  own does.

`QueuesHoldSleepers` covers the fault that `doc/bugfix_journal.md` (lines 2041
on) reports and repairs: waiter records on the stacks of killed threads. Its
mutant takes the repair out of the teardown.

## 7. Plan

Done: locks, buffer, scheduler and futexes, thread groups; then readiness, file
locks, timers, and memory from the frames to what a process sees, so that each
module stands on checked ones. Next, most important first:

1. Thread teardown joined with the sleeping locks: a condemned thread that holds
   a mutex without `vm_lock_depth`, or has been handed its wakeup (a hazard
   without a property so far).
2. `clear_child_tid` and robust lists in `ThreadGroup`: the joiner of a thread
   that exits or is torn down.
3. System V segments over `Memory`: attach against removal, and two first
   attachments at once.
4. The process table: identifiers, fork, reparenting and `waitid` around
   `ThreadGroup`'s single parent; wrap of the identifier counter.
5. `dsr.c`: the queue of deferred routines, its node cache and worker.
6. File mappings and their cache in `AddressSpace`; nested epoll sets, signalfd
   and pipes as sources of readiness.
7. An inductive invariant for `NoLostWakeup` of `Readiness` and for
   `FramesExact`.

## 8. Not modelled

* Spinlocks are taken to exclude, and `sem_t` of `lock.c` has no caller. The
  interrupt-context variants of the events poll and are left out. The reader
  count of `rwlock_t` is unbounded, where the code stops at 2^30 readers.
* Of pipes: splice, poll subscriptions, the handshake of opening a FIFO.
* Of the scheduler: priorities, affinity, time slices, the values of the clock.
* Of futexes: shared keys, bitsets, `clear_child_tid`, robust lists.
* Of thread groups: several processes, reparenting, job control, and what an
  exit frees besides its task.
* Of readiness: epoll sets inside epoll sets, signalfd, inotify, pipes and
  sockets as sources, the cancellation of a wait by exit, the capacity of poll
  tables, `dup`. More than one timerfd: then `timerfd_lock` would also order
  their notifications.
* Of file locks: the inventory behind `/proc/locks`, release on exit, the
  unsynchronised initialisation of an inode's lock, message queues.
* Of memory: file mappings and their cache, reclaim, `mremap`, `madvise`, stack
  growth, `PROT_NONE` and execute permission, `ptrace`, pages of page tables,
  DMA and page-cache allocation, the heap. A fault that cannot be handled raises
  `SIGSEGV` (`ps_fault_signal`): the handler runs and returns, or the thread
  leaves its space; that the rest of its group ends too is `ThreadGroup`.
* The queues of signals and job control. System V IPC, the process table and
  deferred routines: see section 7.
* Drivers, the device model and the loader: register-level I/O and sequential
  parsing. The network protocols are an external library. The virtual and
  synthetic file systems, terminals and the system call table are mostly
  sequential code under one lock; reference counts of nodes and local sockets
  are candidates after the plan.

The map covers 4,406 of 97,601 lines of the implementation, 4.5%. Drivers,
the device model, the network glue and `/proc` are 46,000 of them, and for most
of that code the repository does not describe the other side (the device, the
protocol). The rest is not out of reach: the plan above, the virtual file
system, local sockets and terminals could be modelled in the same way and have
not been. What was taken first is the code other code relies on and tests reach
least, so the models are deep on few files rather than wide.

`PROJECT.json` lists every part with its sources, and every hazard with the
properties that cover it or the reason why none does yet.
