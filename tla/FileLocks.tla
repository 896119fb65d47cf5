----------------------------- MODULE FileLocks -----------------------------
(***************************************************************************)
(* Advisory locks on one regular file: byte ranges owned by processes      *)
(* (src/fs/impl/posix_lock.c) and whole-file locks owned by open files     *)
(* (sys_flock, src/syscall/impl/syscall_fs.c, and src/fs/impl/fs.c).       *)
(*                                                                         *)
(* A step is one section under range_lock or i_flock_lock, but for         *)
(* wake_waiters, which meets signals between any two of its steps.  The    *)
(* list of ranges is a set: its order decides only which ranges the        *)
(* replacing loop has passed when it stops.  The fields behind /proc/locks *)
(* follow f_flock and are left out, and so is the initialisation of the    *)
(* inode's lock by the first caller.                                       *)
(***************************************************************************)
EXTENDS TaskWait, Integers

CONSTANTS Owners,     \* processes
          Group,      \* the process of each task
          OpenFiles,  \* open files of the inode
          NoFile,     \* no open file
          INT64_MAX   \* the last byte a range can name

ASSUME LocksAssumption ==
    /\ Group \in [Tasks -> Owners]
    /\ INT64_MAX \in Nat
    /\ NoFile \notin OpenFiles
    /\ IsFiniteSet(OpenFiles)

VARIABLES ranges,            \* the list of posix_range
          range_wait,        \* tasks asleep for a range
          posix_locks_used,  \* processes that have asked for ranges
          request,           \* per task: type, start and end in fs_posix_lock
          f_flock,           \* per open file: the whole-file lock it has
          i_flock_sh,        \* how many open files share the lock
          i_flock_ex_owner,  \* the open file that has it alone
          flock_wait,        \* tasks asleep for the whole-file lock
          holders,           \* per open file: processes with a descriptor
          bytes,             \* per owner and byte: what its calls amount to
          range_lock,        \* held across the loop of wake_waiters
          unlinked,          \* taken off range_wait and not yet made ready
          undefined          \* the build leaves open what happens from here

rangeVars == <<ranges, range_wait, posix_locks_used, request, bytes, range_lock, unlinked>>
flockVars == <<f_flock, i_flock_sh, i_flock_ex_owner, flock_wait>>
lockVars == <<rangeVars, flockVars, holders, undefined>>

Types == {"RDLCK", "WRLCK", "UNLCK"}
Offsets == 0..INT64_MAX
Request == [type : Types, start : Offsets, end : Offsets]
NoRequest == [type |-> "UNLCK", start |-> 0, end |-> 0]

-----------------------------------------------------------------------------
(* The range a call names.  A sum that leaves the 64 bits is an error.      *)

First(c) == c.base + c.l_start

start(c) == IF c.l_len < 0 THEN First(c) + c.l_len ELSE First(c)
end(c) == IF c.l_len > 0 THEN First(c) + c.l_len - 1
          ELSE IF c.l_len < 0 THEN First(c) - 1 ELSE INT64_MAX

Accepted(c) ==
    /\ c.type \in (IF c.op = "getlk" THEN {"RDLCK", "WRLCK"} ELSE Types)
    /\ First(c) <= INT64_MAX
    /\ end(c) <= INT64_MAX
    /\ start(c) >= 0
    /\ c.l_len < 0 => First(c) > 0

-----------------------------------------------------------------------------
(* Ranges. *)

Overlaps(r, q) == q.start <= r.end /\ q.end >= r.start
Conflict(r, o, q) ==
    /\ r.owner # o
    /\ Overlaps(r, q)
    /\ q.type = "WRLCK" \/ r.type = "WRLCK"

Conflicts(o, q) == {r \in ranges : Conflict(r, o, q)}

(* The portions of r outside the request. *)
Rest(r, q) ==
    (IF r.start < q.start THEN {[r EXCEPT !.end = q.start - 1]} ELSE {})
    \cup (IF r.end > q.end THEN {[r EXCEPT !.start = q.end + 1]} ELSE {})

Splits(r, q) == r.start < q.start /\ r.end > q.end

Mine(o, q) == {r \in ranges : r.owner = o /\ Overlaps(r, q)}

(* What the replacing loop has passed when it stops: everything, or one     *)
(* range that it splits and those before it on the list.                    *)
Passed(o, q) ==
    {V \in SUBSET Mine(o, q) :
        IF \E r \in Mine(o, q) : Splits(r, q)
        THEN \E r \in V : \A x \in V : Splits(x, q) <=> x = r
        ELSE V = Mine(o, q)}

Fresh(o, q) ==
    IF q.type = "UNLCK" THEN {}
    ELSE {[owner |-> o, type |-> q.type, start |-> q.start, end |-> q.end]}

(* Mutant: a range that starts before the request is only cut short. *)
ReplaceUnsplit(o, q) ==
    \E V \in Passed(o, q) :
        ranges' = (ranges \ V) \cup Fresh(o, q) \cup
            UNION {IF Splits(r, q) THEN {[r EXCEPT !.end = q.start - 1]} ELSE Rest(r, q) : r \in V}

Replace(o, q) ==
    \E V \in Passed(o, q) :
        ranges' = (ranges \ V) \cup (UNION {Rest(r, q) : r \in V}) \cup Fresh(o, q)

(* What the call means, byte by byte. *)
Assign(o, q) ==
    bytes' = [bytes EXCEPT ![o] =
        [b \in Offsets |-> IF b \in q.start..q.end THEN q.type ELSE bytes[o][b]]]

(* The caller has range_lock.  A waiter is unlinked without ps_lock, which  *)
(* is taken only to make it ready; a signal may come in between, and the    *)
(* waiter may have gone on to sleep elsewhere.                              *)
wake_waiters(t) ==
    /\ pc[t] = "wake_ranges"
    /\ \/ /\ unlinked = {}
          /\ \E u \in range_wait : unlinked' = {u} /\ range_wait' = range_wait \ {u}
          /\ UNCHANGED <<pc, status, wait_interruptible, range_lock, flock_wait>>
       \/ /\ unlinked # {}
          /\ ps_put_to_ready_queue(unlinked)
          /\ unlinked' = {}
          /\ flock_wait' = flock_wait \ unlinked
          /\ UNCHANGED <<pc, range_wait, range_lock>>
       \/ /\ unlinked = {} /\ range_wait = {}
          /\ Step(t, "wake_ranges", "fs_put_file")
          /\ range_lock' = FALSE
          /\ UNCHANGED <<status, wait_interruptible, range_wait, unlinked, flock_wait>>
    /\ UNCHANGED <<call, timer_queue, deadline, signals, ranges, posix_locks_used, request, bytes,
                   f_flock, i_flock_sh, i_flock_ex_owner, holders, undefined>>

-----------------------------------------------------------------------------
(* fs_posix_lock *)

(* A process that has a descriptor of f. *)
Holds(t, f) == Group[t] \in holders[f]

(* Up to the first section: the range is computed, and the process is       *)
(* marked before range_lock is taken.  The call holds its open file.        *)
posix_request(t, c) ==
    /\ Holds(t, c.file)
    /\ Accepted(c)
    /\ Step(t, "user", "range")
    /\ call' = [call EXCEPT ![t] = c]
    /\ request' = [request EXCEPT ![t] = [type |-> c.type, start |-> start(c), end |-> end(c)]]
    /\ posix_locks_used' = IF c.op = "getlk" THEN posix_locks_used
                           ELSE posix_locks_used \cup {Group[t]}
    /\ UNCHANGED <<taskVars, ranges, range_wait, bytes, range_lock, unlinked, flockVars, holders,
                   undefined>>

(* F_GETLK reports, and a conflict ends F_SETLK or a signal F_SETLKW.       *)
posix_refused(t) ==
    /\ pc[t] = "range"
    /\ ~range_lock
    /\ \/ call[t].op = "getlk"
       \/ /\ request[t].type # "UNLCK"
          /\ Conflicts(Group[t], request[t]) # {}
          /\ call[t].op = "setlk" \/ t \in signals
    /\ Step(t, "range", "fs_put_file")
    /\ UNCHANGED <<call, taskVars, lockVars>>

posix_sleep(t) ==
    /\ Step(t, "range", "range_sleep")
    /\ ~range_lock
    /\ call[t].op = "setlkw"
    /\ request[t].type # "UNLCK"
    /\ Conflicts(Group[t], request[t]) # {}
    /\ ps_prepare_interruptible_wait(t, FALSE)
    /\ range_wait' = range_wait \cup {t}
    /\ UNCHANGED <<call, deadline, signals, ranges, posix_locks_used, request, bytes, range_lock,
                   unlinked, flockVars, holders, undefined>>

posix_resume(t) ==
    /\ pc[t] = "range_sleep"
    /\ status[t] = "running"
    /\ Step(t, "range_sleep", IF t \in signals THEN "fs_put_file" ELSE "range")
    /\ UNCHANGED <<call, taskVars, lockVars>>

(* The waiters are woken by the steps of wake_waiters that follow. *)
posix_set(t) ==
    LET o == Group[t]
        q == request[t]
    IN  /\ Step(t, "range", "wake_ranges")
        /\ ~range_lock /\ range_lock' = TRUE
        /\ call[t].op # "getlk"
        /\ q.type = "UNLCK" \/ Conflicts(o, q) = {}
        /\ Replace(o, q)
        /\ Assign(o, q)
        /\ UNCHANGED <<call, taskVars, range_wait, posix_locks_used, request, unlinked, flockVars,
                       holders, undefined>>

(* Mutant: only a range locked for writing is worth a wakeup. *)
ReleaseWriters(t, o) ==
    LET mine == {r \in ranges : r.owner = o /\ o \in posix_locks_used}
        told == \E r \in mine : r.type = "WRLCK"
    IN  /\ o \in posix_locks_used => ~range_lock
        /\ ranges' = ranges \ mine
        /\ bytes' = [bytes EXCEPT ![o] = [b \in Offsets |-> "UNLCK"]]
        /\ range_lock' = (range_lock \/ told)
        /\ Step(t, "close_ranges", IF told THEN "wake_ranges" ELSE "fs_put_file")

(* fs_posix_lock_release, when a process closes a descriptor of the file:   *)
(* all its ranges go, whichever descriptor they were set through.  A        *)
(* process that has not been marked is taken to have none.                  *)
fs_posix_lock_release(t, o) ==
    LET mine == {r \in ranges : r.owner = o /\ o \in posix_locks_used}
    IN  /\ o \in posix_locks_used => ~range_lock
        /\ ranges' = ranges \ mine
        /\ bytes' = [bytes EXCEPT ![o] = [b \in Offsets |-> "UNLCK"]]
        /\ range_lock' = (range_lock \/ mine # {})
        /\ Step(t, "close_ranges", IF mine # {} THEN "wake_ranges" ELSE "fs_put_file")

-----------------------------------------------------------------------------
(* sys_flock *)

(* flock_wake_all_unsafe changes the list and the ready queue without       *)
(* ps_lock.  Either no other CPU has ps_lock meanwhile, or both lists may   *)
(* be broken: some waiters become ready and the others are lost.            *)
flock_wake_all(freed) ==
    /\ flock_wait' = {}
    /\ \/ ps_put_to_ready_queue(flock_wait) /\ undefined' = (undefined \/ freed)
       \/ /\ flock_wait # {}
          /\ \E W \in SUBSET flock_wait : ps_put_to_ready_queue(W)
          /\ undefined' = TRUE

(* Another open file is in the way of op on f. *)
FlockConflict(f, op) ==
    \/ i_flock_ex_owner \notin {NoFile, f}
    \/ op = "EX" /\ i_flock_sh > (IF f_flock[f] = "SH" THEN 1 ELSE 0)

(* Mutant: a shared lock that becomes exclusive stays counted. *)
ConvertCounted(f, op) ==
    /\ f_flock' = [f_flock EXCEPT ![f] = op]
    /\ i_flock_sh' = IF op = "SH" /\ f_flock[f] # "SH" THEN i_flock_sh + 1 ELSE i_flock_sh
    /\ i_flock_ex_owner' = IF op = "EX" THEN f
                           ELSE IF f_flock[f] = "EX" THEN NoFile ELSE i_flock_ex_owner

(* f gives up what it has and takes op. *)
Convert(f, op) ==
    /\ f_flock' = [f_flock EXCEPT ![f] = op]
    /\ i_flock_sh' = i_flock_sh - (IF f_flock[f] = "SH" THEN 1 ELSE 0)
                                + (IF op = "SH" THEN 1 ELSE 0)
    /\ i_flock_ex_owner' = IF op = "EX" THEN f
                           ELSE IF f_flock[f] = "EX" THEN NoFile ELSE i_flock_ex_owner

flock_call(t, c) ==
    /\ Holds(t, c.file)
    /\ Step(t, "user", "flock")
    /\ call' = [call EXCEPT ![t] = c]
    /\ UNCHANGED <<taskVars, lockVars>>

(* At the section: for the first time, or again after a wakeup. *)
AtFlock(t) == pc[t] = "flock" \/ (pc[t] = "flock_sleep" /\ status[t] = "running")

flock_unlock(t) ==
    /\ AtFlock(t)
    /\ call[t].type = "UN"
    /\ Convert(call[t].file, "none")
    /\ flock_wake_all(FALSE)
    /\ ReturnToUser(t)
    /\ UNCHANGED <<timer_queue, rangeVars, holders>>

flock_refused(t) ==
    /\ AtFlock(t)
    /\ call[t].type # "UN"
    /\ \/ pc[t] = "flock_sleep" /\ t \in signals
       \/ /\ FlockConflict(call[t].file, call[t].type)
          /\ call[t].nonblock \/ t \in signals
    /\ ReturnToUser(t)
    /\ UNCHANGED <<schedVars, lockVars>>

flock_sleep(t) ==
    /\ AtFlock(t)
    /\ call[t].type # "UN"
    /\ FlockConflict(call[t].file, call[t].type)
    /\ ~call[t].nonblock
    /\ ps_prepare_interruptible_wait(t, FALSE)
    /\ flock_wait' = flock_wait \cup {t}
    /\ pc' = [pc EXCEPT ![t] = "flock_sleep"]
    /\ UNCHANGED <<call, deadline, signals, rangeVars, f_flock, i_flock_sh,
                   i_flock_ex_owner, holders, undefined>>

flock_take(t) ==
    /\ AtFlock(t)
    /\ call[t].type # "UN"
    /\ pc[t] = "flock_sleep" => t \notin signals
    /\ ~FlockConflict(call[t].file, call[t].type)
    /\ Convert(call[t].file, call[t].type)
    /\ ReturnToUser(t)
    /\ UNCHANGED <<schedVars, rangeVars, flock_wait, holders, undefined>>

-----------------------------------------------------------------------------
(* fs_close: the ranges of the process go with any of its descriptors, the  *)
(* whole-file lock with the last reference to the open file.                *)

close_call(t, c) ==
    /\ Holds(t, c.file)
    /\ holders' = [holders EXCEPT ![c.file] = @ \ {Group[t]}]
    /\ call' = [call EXCEPT ![t] = c]
    /\ Step(t, "user", "close_ranges")
    /\ UNCHANGED <<taskVars, rangeVars, flockVars, undefined>>

close_ranges(t) ==
    /\ fs_posix_lock_release(t, Group[t])
    /\ UNCHANGED <<call, taskVars, range_wait, posix_locks_used, request, unlinked, flockVars,
                   holders, undefined>>

(* t drops the last reference to f. *)
LastReference(t, f) ==
    /\ holders[f] = {}
    /\ \A u \in Tasks \ {t} : pc[u] \in {"range", "range_sleep", "wake_ranges", "close_ranges",
                                         "fs_put_file"} => call[u].file # f

(* sys_flock takes no reference: another thread's close may free its file.  *)
Unreferenced(t, f) ==
    LastReference(t, f) /\ \E u \in Tasks : pc[u] \in {"flock", "flock_sleep"} /\ call[u].file = f

fs_flock_release(t) ==
    LET f == call[t].file
    IN  /\ pc[t] = "fs_put_file"
        /\ IF LastReference(t, f) /\ f_flock[f] # "none"
           THEN Convert(f, "none") /\ flock_wake_all(Unreferenced(t, f))
           ELSE /\ undefined' = (undefined \/ Unreferenced(t, f))
                /\ UNCHANGED <<flockVars, status, wait_interruptible>>
        /\ ReturnToUser(t)
        /\ UNCHANGED <<timer_queue, rangeVars, holders>>

LocksInit ==
    /\ ranges = {} /\ range_wait = {} /\ posix_locks_used = {}
    /\ request = [t \in Tasks |-> NoRequest]
    /\ bytes = [o \in Owners |-> [b \in Offsets |-> "UNLCK"]]
    /\ f_flock = [f \in OpenFiles |-> "none"]
    /\ i_flock_sh = 0 /\ i_flock_ex_owner = NoFile /\ flock_wait = {}
    /\ holders = [f \in OpenFiles |-> Owners]
    /\ range_lock = FALSE /\ unlinked = {} /\ undefined = FALSE

LockOps == {"getlk", "setlk", "setlkw", "flock", "fs_close"}

(* A lock call names an open file; offsets and lengths are numbers. *)
LegalCall(c) ==
    /\ c.op \in LockOps => c.file \in OpenFiles
    /\ c.op \in {"getlk", "setlk", "setlkw"} =>
          c.base \in Int /\ c.l_start \in Int /\ c.l_len \in Int
    /\ c.op = "flock" => c.type \in {"SH", "EX", "UN"}

LockCall(t, c) ==
    \/ c.op \in {"getlk", "setlk", "setlkw"} /\ posix_request(t, c)
    \/ c.op = "flock" /\ flock_call(t, c)
    \/ c.op = "fs_close" /\ close_call(t, c)

LockStep(t) ==
    \/ posix_refused(t) \/ posix_sleep(t) \/ posix_resume(t) \/ posix_set(t) \/ wake_waiters(t)
    \/ flock_unlock(t) \/ flock_refused(t) \/ flock_sleep(t) \/ flock_take(t)
    \/ close_ranges(t) \/ fs_flock_release(t)

(* A signal takes its task off the list it sleeps on.  While wake_waiters   *)
(* works on that list without ps_lock, both may change the same links.      *)
LockSignal(t) ==
    /\ queue_signal(t)
    /\ range_wait' = range_wait \ {t}
    /\ flock_wait' = flock_wait \ {t}
    /\ undefined' \in IF range_lock /\ t \in range_wait THEN {undefined, TRUE} ELSE {undefined}
    /\ UNCHANGED <<ranges, posix_locks_used, request, bytes, range_lock, unlinked, f_flock,
                   i_flock_sh, i_flock_ex_owner, holders>>

-----------------------------------------------------------------------------
(* fs_posix_lock cuts, splits and drops the caller's ranges and inserts the *)
(* new one; the loop stops at the first range it splits.  For every owner   *)
(* and byte the list says what the calls that succeeded amount to, and no   *)
(* byte is locked for writing beside another owner's lock.                  *)
LocksExact ==
    \A o \in Owners, b \in Offsets :
        /\ {r.type : r \in {x \in ranges : x.owner = o /\ b \in x.start..x.end}}
             = {bytes[o][b]} \ {"UNLCK"}
        /\ bytes[o][b] = "WRLCK" => \A p \in Owners \ {o} : bytes[p][b] = "UNLCK"

(* What makes LocksExact inductive: the ranges of an owner are disjoint, so *)
(* a range that the request splits is the only one it meets; and an owner   *)
(* of ranges is marked, so its close does not pass over them.               *)
PosixRange == [owner : Owners, type : {"RDLCK", "WRLCK"}, start : Offsets, end : Offsets]

RangesInv ==
    /\ ranges \subseteq PosixRange
    /\ request \in [Tasks -> Request]
    /\ bytes \in [Owners -> [Offsets -> Types]]
    /\ \A r \in ranges : r.start <= r.end /\ r.owner \in posix_locks_used
    /\ \A t \in Tasks : request[t].start <= request[t].end
    /\ \A r, s \in ranges : r.owner = s.owner /\ Overlaps(r, s) => r = s
    /\ \A r \in ranges : \A b \in r.start..r.end : bytes[r.owner][b] = r.type
    /\ \A o \in Owners, b \in Offsets :
          bytes[o][b] # "UNLCK" => \E r \in ranges : r.owner = o /\ b \in r.start..r.end
    /\ \A o, p \in Owners, b \in Offsets :
          bytes[o][b] = "WRLCK" /\ p # o => bytes[p][b] = "UNLCK"

(* sys_flock converts a lock by giving up the old one and taking the new    *)
(* one, and closing gives it up too: the count and the owner in the inode   *)
(* stay those of the open files, and an exclusive lock is alone.            *)
FlocksExact ==
    /\ i_flock_sh = Cardinality({f \in OpenFiles : f_flock[f] = "SH"})
    /\ \A f \in OpenFiles : f_flock[f] = "EX" <=> i_flock_ex_owner = f
    /\ i_flock_ex_owner # NoFile => i_flock_sh = 0

Sleeping(t, label) == pc[t] = label /\ status[t] = "waiting"

(* Every change of the ranges, and every release of the whole-file lock,    *)
(* wakes all waiters, which look again: a task sleeps for a range only      *)
(* beside a conflicting range or while wake_waiters has still to come to    *)
(* it, and for an exclusive whole-file lock only while another open file    *)
(* has one.  Nothing is said of shared waiters, whom a conversion from      *)
(* exclusive to shared does not wake, nor once the lists have been changed  *)
(* by two CPUs at a time.                                                   *)
NoStrandedLocker ==
    undefined \/ \A t \in Tasks :
        /\ Sleeping(t, "range_sleep") => range_lock \/ Conflicts(Group[t], request[t]) # {}
        /\ Sleeping(t, "flock_sleep") /\ call[t].type = "EX" => FlockConflict(call[t].file, "EX")

(* What makes all three inductive: a lock call names an open file, one that *)
(* is to set a range has marked its process, and a sleeper is on its list   *)
(* and can be woken.                                                        *)
LockLabels == {"range", "range_sleep", "wake_ranges", "flock", "flock_sleep", "close_ranges", "fs_put_file"}

CallsInv ==
    /\ DOMAIN pc = Tasks /\ DOMAIN call = Tasks /\ DOMAIN status = Tasks
    /\ f_flock \in [OpenFiles -> {"none", "SH", "EX"}]
    /\ i_flock_sh \in Nat
    /\ \A t \in Tasks :
          /\ pc[t] \in LockLabels => call[t].file \in OpenFiles
          /\ pc[t] \in {"range", "range_sleep"} /\ call[t].op # "getlk" =>
                Group[t] \in posix_locks_used
          /\ pc[t] \in {"flock", "flock_sleep"} => call[t].type \in {"SH", "EX", "UN"}
          /\ Sleeping(t, "flock_sleep") => call[t].type # "UN"

SleepersInv ==
    undefined \/ \A t \in Tasks :
        /\ Sleeping(t, "range_sleep") => t \in range_wait \cup unlinked /\ t \in wait_interruptible
        /\ Sleeping(t, "flock_sleep") => t \in flock_wait /\ t \in wait_interruptible

(* The lock call of t does not wait for another process. *)
LockReturns(t) ==
    \/ call[t].op \in {"getlk", "setlk", "fs_close"}
    \/ call[t].op = "flock" /\ (call[t].nonblock \/ call[t].type = "UN")
    \/ /\ ~undefined
       /\ \/ call[t].op = "setlkw" /\ Conflicts(Group[t], request[t]) = {}
          \/ call[t].op = "flock" /\ call[t].type = "EX" /\ ~FlockConflict(call[t].file, "EX")
=============================================================================
