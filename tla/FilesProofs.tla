---------------------------- MODULE FilesProofs ----------------------------
(***************************************************************************)
(* The advisory locks in the composition Files with the readiness calls:   *)
(* the list of ranges and the state of the whole-file lock are exact, and  *)
(* while the lists of waiters are whole no task sleeps that nothing blocks *)
(* any more.  And one fact about timers.                                   *)
(***************************************************************************)
EXTENDS Files, FileLocksProofs

(* A task that moves within the readiness calls, to a label of theirs.      *)
LEMMA MovesFrame ==
    ASSUME Domains, NEW t \in Tasks,
           \/ pc' = pc /\ call' = call
           \/ /\ \E l : l \notin LockLabels /\ pc' = [pc EXCEPT ![t] = l]
              /\ call' = call \/ \E c : call' = [call EXCEPT ![t] = c],
           \/ status' = status /\ wait_interruptible' = wait_interruptible
           \/ \E u \in Tasks : ps_put_to_ready_queue({u})
           \/ /\ pc'[t] \notin LockLabels
              /\ status' = [status EXCEPT ![t] = "waiting"]
              /\ wait_interruptible' = wait_interruptible \cup {t}
    PROVE  LockFrame
<1>1. /\ DOMAIN pc' = Tasks /\ DOMAIN call' = Tasks
      /\ \A u \in Tasks : pc'[u] \in LockLabels => pc[u] = pc'[u] /\ call[u] = call'[u]
  BY Zenon DEF Domains
<1>2. DOMAIN status' = Tasks /\ \A u \in Tasks : pc'[u] \in LockLabels =>
          (status'[u] = "waiting" =>
                /\ status[u] = "waiting"
                /\ u \in wait_interruptible => u \in wait_interruptible')
  <2>1. CASE status' = status /\ wait_interruptible' = wait_interruptible
    BY Zenon, <2>1 DEF Domains
  <2>2. CASE \E u \in Tasks : ps_put_to_ready_queue({u})
    BY Zenon, <2>2 DEF Domains, ps_put_to_ready_queue
  <2>3. CASE /\ pc'[t] \notin LockLabels
             /\ status' = [status EXCEPT ![t] = "waiting"]
             /\ wait_interruptible' = wait_interruptible \cup {t}
    BY Zenon, <2>3 DEF Domains
  <2> QED BY Zenon, <2>1, <2>2, <2>3
<1> QED BY Zenon, <1>1, <1>2 DEF LockFrame

(* The steps of a task inside a readiness call. *)
LEMMA ReadinessStepFrame ==
    ASSUME Domains, NEW t \in Tasks, ReadinessStep(t) PROVE LockFrame
<1> DEFINE Same == pc' = pc /\ call' = call
           Kept == status' = status /\ wait_interruptible' = wait_interruptible
           Moves == /\ \E l : l \notin LockLabels /\ pc' = [pc EXCEPT ![t] = l]
                    /\ call' = call \/ \E c : call' = [call EXCEPT ![t] = c]
<1>1. CASE /\ Same /\ Kept
  BY Zenon, <1>1, MovesFrame
<1>2. CASE Moves /\ Kept
  BY Zenon, <1>2, MovesFrame
<1>3. CASE Same /\ \E u \in Tasks : ps_put_to_ready_queue({u})
  BY Zenon, <1>3, MovesFrame
<1>4. ASSUME NEW n, Checked(t, n), call' = call PROVE LockFrame
  <2>1. AfterCheck(t, n) \notin LockLabels
    BY Zenon DEF AfterCheck, LockLabels
  <2>2. Moves
    BY Zenon, <1>4, <2>1 DEF Checked
  <2>3. Kept \/ ps_put_to_ready_queue({t})
    BY Zenon, <1>4 DEF Checked, schedVars
  <2> QED BY Zenon, <2>2, <2>3, MovesFrame
<1>5. CASE PollLoop(t)
  <2>1. CASE notify_enter(t)
    BY Zenon, <2>1, <1>1 DEF notify_enter, taskVars, schedVars
  <2>2. ASSUME NEW s \in Tasks, notify_task(t, s) PROVE LockFrame
    BY Zenon, <2>2, <1>3 DEF notify_task
  <2>3. CASE reg_fails(t) \/ registered(t) \/ deregistered(t)
    BY Zenon, <2>3, <1>2 DEF reg_fails, registered, deregistered, Step,
       taskVars, schedVars, LockLabels
  <2>4. CASE prepare(t)
    <3>1. Moves /\ pc'[t] \notin LockLabels
      BY Zenon, <2>4 DEF prepare, Step, LockLabels, Domains
    <3> QED BY Zenon, <2>4, <3>1, MovesFrame DEF prepare, ps_prepare_interruptible_wait, schedVars
  <2>5. CASE resume(t)
    BY Zenon, <2>5, <1>2 DEF resume, Step, LockLabels
  <2>6. ASSUME NEW c \in Objects, reg(t, c) \/ dereg(t, c) PROVE LockFrame
    BY Zenon, <2>6, <1>1 DEF reg, dereg, taskVars, schedVars
  <2> QED BY Zenon, <1>5, <2>1, <2>2, <2>3, <2>4, <2>5, <2>6 DEF PollLoop
<1>6. CASE eventfd_transfer(t) \/ timerfd_read(t)
  BY Zenon, <1>6, <1>4 DEF eventfd_transfer, Transfer, timerfd_read,
     timerfd_take
<1>7. ASSUME NEW c \in Objects, poll_ctx_check(t, c) PROVE LockFrame
  BY Zenon, <1>7, <1>1 DEF poll_ctx_check, taskVars, schedVars
<1>8. CASE poll_checked(t)
  BY Zenon, <1>8, <1>4 DEF poll_checked
<1>9. CASE system_return(t) \/ close_put(t) \/ ctl_put(t)
  BY Zenon, <1>9, <1>2 DEF system_return, close_put, ctl_put, ReturnToUser,
     Step, schedVars, LockLabels
<1>10. CASE contend(t)
  BY Zenon, <1>10, <1>3 DEF contend
<1>11. ASSUME NEW e \in Epolls, epoll_enter(t, e) PROVE LockFrame
  BY Zenon, <1>11, <1>1 DEF epoll_enter, taskVars, schedVars
<1>12. CASE epoll_pop(t) \/ epoll_look(t) \/ epoll_after(t) \/ query_put(t)
  BY Zenon, <1>12, <1>1 DEF epoll_pop, epoll_look, epoll_after, query_put,
     taskVars, schedVars
<1>13. CASE epoll_leave(t)
  <2>1. CASE Delivering(t)
    BY Zenon, <1>13, <2>1, <1>4 DEF epoll_leave
  <2>2. CASE ~Delivering(t)
    BY Zenon, <1>13, <2>2, <1>1 DEF epoll_leave, taskVars, schedVars
  <2> QED BY Zenon, <2>1, <2>2
<1>14. CASE ctl_enter(t) \/ ctl_subscribe(t) \/ ctl_recheck(t) \/ ctl_queue(t)
  BY Zenon, <1>14, <1>1 DEF ctl_enter, ctl_subscribe, ctl_recheck, ctl_queue,
     taskVars, schedVars
<1>15. CASE ctl_leave(t)
  BY Zenon, <1>15, <1>2 DEF ctl_leave, Step, taskVars, schedVars, LockLabels
<1>16. CASE unsubscribe(t) \/ discard(t) \/ release(t) \/ released(t)
  BY Zenon, <1>16, <1>1 DEF unsubscribe, discard, Discard, release, released,
     taskVars, schedVars
<1>17. ASSUME NEW i \in Interests, notify_item(t, i) \/ remove_next(t, i) PROVE LockFrame
  BY Zenon, <1>17, <1>1 DEF notify_item, remove_next, taskVars, schedVars
<1>18. CASE reg_update(t)
  BY Zenon, <1>18, <1>1 DEF reg_update, taskVars, schedVars
<1>19. ASSUME NEW c \in Timerfds, timerfd_set(t, c) PROVE LockFrame
  BY Zenon, <1>19, <1>2 DEF timerfd_set, Step, taskVars, schedVars, LockLabels
<1>20. ASSUME NEW c \in Timerfds, poll_ctx_look(t, c) PROVE LockFrame
  BY Zenon, <1>20, <1>1 DEF poll_ctx_look, taskVars, schedVars
<1> QED BY Zenon, <1>5, <1>6, <1>7, <1>8, <1>9, <1>10, <1>11, <1>12, <1>13, <1>14, <1>15, <1>16,
           <1>17, <1>18, <1>19, <1>20 DEF ReadinessStep

(* The start of a readiness call, the service task and the clock. *)
LEMMA OtherFrame ==
    ASSUME Domains, NEW t \in Tasks,
           \/ \E c : ReadinessCall(t, c)
           \/ system_service(t)
           \/ ps_fire_timers(t) \/ expire(t)
    PROVE  LockFrame
<1> DEFINE Kept == status' = status /\ wait_interruptible' = wait_interruptible
           Enters == /\ \E l : l \notin LockLabels /\ pc' = [pc EXCEPT ![t] = l]
                     /\ \E c : call' = [call EXCEPT ![t] = c]
<1>1. ASSUME NEW c, ReadinessCall(t, c) PROVE LockFrame
  <2>1. CASE epoll_ctl(t, c)
    <3>1. Kept /\ Enters
      BY Zenon, <2>1 DEF epoll_ctl, Step, taskVars, schedVars, LockLabels
    <3> QED BY Zenon, <3>1, MovesFrame
  <2>2. CASE fs_close(t, c.file)
    <3>1. Kept /\ Enters
      BY Zenon, <2>2 DEF fs_close, Step, taskVars, schedVars, LockLabels
    <3> QED BY Zenon, <3>1, MovesFrame
  <2>3. CASE create(t, c.file) \/ time_set_wall_offset(t, c.wall)
    BY Zenon, <2>3, MovesFrame DEF create, time_set_wall_offset, taskVars,
       schedVars
  <2>4. CASE timerfd_control(t, c)
    <3>1. Kept /\ Enters
      BY Zenon, <2>4 DEF timerfd_control, Step, taskVars, schedVars, LockLabels
    <3> QED BY Zenon, <3>1, MovesFrame
  <2>5. CASE system_call(t, c)
    <3>1. Kept /\ Enters
      BY Zenon, <2>5 DEF system_call, Begin, schedVars, LockLabels
    <3> QED BY Zenon, <3>1, MovesFrame
  <2> QED BY Zenon, <1>1, <2>1, <2>2, <2>3, <2>4, <2>5 DEF ReadinessCall
<1>2. CASE ps_fire_timers(t)
  BY Zenon, <1>2, MovesFrame DEF ps_fire_timers
<1>3. CASE expire(t)
  BY Zenon, <1>3, MovesFrame DEF expire, schedVars
<1>4. ASSUME NEW c \in Timerfds, timerfd_poll_timers(t, c) PROVE LockFrame
  BY Zenon, <1>4, MovesFrame DEF timerfd_poll_timers, taskVars, schedVars
<1> QED BY <1>1, <1>2, <1>3, <1>4 DEF system_service

-----------------------------------------------------------------------------
Inductive == LocksInv /\ program \in Programs

LEMMA InitInductive == Init => Inductive
BY Zenon, LocksInitially DEF Init, Inductive

LEMMA StepInductive == Inductive /\ [Next]_vars => Inductive'
<1> SUFFICES ASSUME Inductive, [Next]_vars PROVE Inductive'
  BY Zenon
<1>1. LocksInv /\ program \in Programs /\ Domains
  BY Zenon DEF Inductive, LocksInv, CallsInv, Domains
<1>2. CASE UNCHANGED vars
  <2>1. /\ LockFrame /\ UNCHANGED lockVars /\ program' = program
    BY Zenon, <1>1, <1>2 DEF vars, LockFrame, Domains, taskVars, schedVars
  <2> QED BY <1>1, <2>1, FrameKeeps DEF Inductive
<1>3. ASSUME NEW t \in Tasks, Start(t) PROVE LocksInv'
  <2>1. PICK c \in program[t] : \/ ReadinessCall(t, c) /\ UNCHANGED lockVars
                                \/ LockCall(t, c)
    BY <1>3 DEF Start
  <2>2. LegalCall(c)
    BY Zenon, <1>1, ProgramsAssumption
  <2> QED BY Zenon, <1>1, <2>1, <2>2, OtherFrame, FrameKeeps, CallKeeps
<1>4. ASSUME NEW t \in Tasks, Proceed(t) PROVE LocksInv'
  <2>1. CASE ReadinessStep(t) /\ UNCHANGED lockVars
    BY <1>1, <2>1, ReadinessStepFrame, FrameKeeps
  <2>2. CASE LockStep(t)
    BY Zenon, <1>1, <2>2, PosixStepKeeps, FlockKeeps DEF LockStep
  <2>3. CASE system_service(t) /\ UNCHANGED lockVars
    BY Zenon, <1>1, <2>3, OtherFrame, FrameKeeps
  <2> QED BY Zenon, <1>4, <2>1, <2>2, <2>3 DEF Proceed
<1>5. ASSUME NEW t \in Tasks, Clock(t) PROVE LocksInv'
  <2>1. (ps_fire_timers(t) \/ expire(t)) /\ UNCHANGED lockVars
    BY Zenon, <1>5 DEF Clock
  <2> QED BY <1>1, <2>1, OtherFrame, FrameKeeps
<1>6. ASSUME NEW t \in Tasks, Signal(t) PROVE LocksInv'
  BY Zenon, <1>1, <1>6, SignalKeeps DEF Signal
<1>7. ASSUME Time PROVE LocksInv'
  <2>1. /\ LockFrame /\ UNCHANGED lockVars
    BY Zenon, <1>1, <1>7 DEF Time, LockFrame, Domains, taskVars, schedVars
  <2> QED BY <1>1, <2>1, FrameKeeps
<1>8. CASE Next
  BY Zenon, <1>1, <1>3, <1>4, <1>5, <1>6, <1>7, <1>8 DEF Next, Inductive
<1> QED BY Zenon, <1>2, <1>8

(* timerfd_update takes a timer that is late to the first deadline after    *)
(* now, on the grid of its interval, and counts the deadlines in between:   *)
(* it neither skips nor repeats one, however late it comes.                 *)
THEOREM NextDeadline ==
    ASSUME NEW s, s.due \in Nat \ {0}, s.interval \in Nat \ {0}, s.ticks \in Nat,
           timerfd_now(s.wall) \in Nat, UINT64_MAX \in Nat,
           Expired(s), Expire(s).due # 0, Expire(s).ticks # UINT64_MAX,
           DOMAIN s = DOMAIN Disarmed
    PROVE  LET n == Expire(s).ticks - s.ticks
           IN  /\ n \in Nat \ {0}
               /\ Expire(s).due = s.due + n * s.interval
               /\ timerfd_now(s.wall) < Expire(s).due
               /\ Expire(s).due <= timerfd_now(s.wall) + s.interval
<1> DEFINE now == timerfd_now(s.wall)
           late == now - s.due
           q == late \div s.interval
           r == late % s.interval
<1>1. late \in Nat /\ s.due <= now /\ now \in Nat
  BY DEF Expired
<1>2. q \in Nat /\ r \in Nat /\ r < s.interval /\ late = s.interval * q + r
  BY <1>1
<1>3. /\ Expire(s).due = now + (s.interval - r)
      /\ Expire(s).ticks = s.ticks + (1 + q)
  <2> HIDE DEF q, r
  <2>1. Expire(s) = [s EXCEPT !.due = IF s.interval = 0 \/ s.interval - r > UINT64_MAX - now THEN 0
                                      ELSE now + (s.interval - r),
                              !.ticks = IF 1 + q > UINT64_MAX - @ THEN UINT64_MAX ELSE @ + (1 + q)]
    BY Zenon DEF Expire, q, r
  <2> HIDE DEF now, late
  <2>2. DOMAIN s = {"due", "interval", "ticks", "wall", "generation", "cancel_on_set", "canceled",
                    "first", "taken"}
    BY Zenon DEF Disarmed
  <2> QED BY Zenon, <2>1, <2>2
<1> HIDE DEF q, r
<1>4. s.interval * q = q * s.interval /\ (1 + q) * s.interval = s.interval + q * s.interval
  BY <1>2
<1>5. q * s.interval \in Nat
  BY <1>2
<1> QED BY <1>1, <1>2, <1>3, <1>4, <1>5

(* At every moment the list of ranges says, for every process and byte,     *)
(* what the F_SETLK, F_SETLKW and close calls so far amount to, and no byte *)
(* is locked for writing beside another process's lock.                     *)
THEOREM LocksExactAlways == Spec => []LocksExact
<1>1. Inductive => LocksExact
  BY Zenon, RangesExact DEF Inductive, LocksInv
<1> QED BY <1>1, InitInductive, StepInductive, PTL DEF Spec

(* The inode's count and owner are those of its open files: sys_flock and   *)
(* fs_flock_release neither lose nor leave behind a lock.                   *)
THEOREM FlocksExactAlways == Spec => []FlocksExact
<1>1. Inductive => FlocksExact
  BY Zenon DEF Inductive, LocksInv
<1> QED BY <1>1, InitInductive, StepInductive, PTL DEF Spec

(* A change of the ranges, and a release of the whole-file lock, leaves no  *)
(* range waiter and no exclusive waiter asleep that nothing blocks any      *)
(* more, once wake_waiters has given up range_lock.  This ends where        *)
(* wakeups that do not hold ps_lock have met another CPU on the same list,  *)
(* or a close has freed the file under sys_flock.                           *)
THEOREM NoStrandedLockerAlways == Spec => []NoStrandedLocker
<1>1. Inductive => NoStrandedLocker
  BY Zenon DEF Inductive, LocksInv
<1> QED BY <1>1, InitInductive, StepInductive, PTL DEF Spec
=============================================================================
