------------------------------ MODULE Timerfd ------------------------------
(***************************************************************************)
(* timerfd (src/fs/impl/timerfd.c): a count of expirations that is brought *)
(* up to date whenever somebody looks, and by a periodic task.  Bringing   *)
(* it up to date is what publishes readiness, also from inside a check.    *)
(*                                                                         *)
(* timerfd_lock is one lock for all timerfds; with at most one timerfd it  *)
(* is the producer lock of that file.  Clocks count from 1 to UINT64_MAX,  *)
(* and the clock stands still at the end; only an armed timer sees it run. *)
(***************************************************************************)
EXTENDS PollWait, Integers

CONSTANTS UINT64_MAX, \* the end of time
          MaxSets     \* bound on how often the wall clock is set

ASSUME TimerAssumption ==
    /\ UINT64_MAX \in Nat \ {0} /\ MaxSets \in Nat
    /\ \A c, d \in Timerfds : c = d

VARIABLES timer, \* per timerfd: its timerfd_state, the deadline it was armed for
                 \* (first) and the expirations read since (taken)
          clock  \* the elapsed time, the wall time and wall_generation

timerVars == <<timer, clock>>

Disarmed == [due |-> 0, interval |-> 0, ticks |-> 0, wall |-> FALSE, generation |-> 0,
             cancel_on_set |-> FALSE, canceled |-> FALSE, first |-> 0, taken |-> 0]

timerfd_now(wall) == IF wall THEN clock.wall ELSE clock.mono

CanceledBySet(s) == s.cancel_on_set /\ s.generation # clock.generation

Expired(s) == s.due # 0 /\ s.due <= timerfd_now(s.wall)

(* Mutant: the next deadline of a late timer is one interval from now. *)
ExpireDrifting(s) ==
    LET now == timerfd_now(s.wall)
        count == 1 + (IF s.interval = 0 THEN 0 ELSE (now - s.due) \div s.interval)
    IN  [s EXCEPT !.due = IF s.interval = 0 \/ s.interval > UINT64_MAX - now THEN 0
                          ELSE now + s.interval,
                  !.ticks = IF count > UINT64_MAX - @ THEN UINT64_MAX ELSE @ + count]

(* A deadline has passed, or several of a periodic timer.  The next one is  *)
(* strictly later than now.                                                 *)
Expire(s) ==
    LET now == timerfd_now(s.wall)
        late == now - s.due
        count == IF s.interval = 0 THEN 1 ELSE 1 + (late \div s.interval)
        remaining == s.interval - (late % s.interval)
    IN  [s EXCEPT !.due = IF s.interval = 0 \/ remaining > UINT64_MAX - now THEN 0
                          ELSE now + remaining,
                  !.ticks = IF count > UINT64_MAX - @ THEN UINT64_MAX ELSE @ + count]

timerfd_update(s) ==
    IF CanceledBySet(s)
    THEN [s EXCEPT !.generation = clock.generation, !.canceled = TRUE, !.ticks = 0, !.due = 0,
                   !.first = 0, !.taken = 0]
    ELSE IF Expired(s) THEN Expire(s) ELSE s

Fires(s) == CanceledBySet(s) \/ Expired(s)

Pending(s) == s.ticks > 0 \/ s.canceled

(* A section under timerfd_lock that brings c up to date and leaves s.      *)
Section(t, c, s, notify) ==
    /\ Free(c)
    /\ timer' = [timer EXCEPT ![c] = s]
    /\ IF notify THEN poll_notify(t, c) ELSE UNCHANGED <<lock, frames>>

Update(t, c) == Section(t, c, timerfd_update(timer[c]), Fires(timer[c]))

(* timerfd_take, after the update. *)
Taken(s) ==
    IF s.canceled THEN [s EXCEPT !.canceled = FALSE]
    ELSE [s EXCEPT !.ticks = 0, !.taken = @ + s.ticks]

timerfd_take(t, c) ==
    LET s == timerfd_update(timer[c])
    IN  /\ Section(t, c, Taken(s), Fires(timer[c]))
        /\ Checked(t, IF s.canceled THEN -1 ELSE IF s.ticks > 0 THEN 1 ELSE 0)
        /\ UNCHANGED <<fileVars, waiters, call, sub, scan, clock>>

(* timerfd_poll with a table subscribes and then looks at the timer. *)
reg_update(t) ==
    /\ frames[t] = <<>> /\ sub[t] = "update"
    /\ Update(t, scan[t].on)
    /\ IF pc[t] = "reg"
       THEN /\ sub' = [sub EXCEPT ![t] = "none"]
            /\ scan' = [scan EXCEPT ![t].on = NoCall]
       ELSE /\ sub' = [sub EXCEPT ![t] = "recheck"]
            /\ UNCHANGED scan
    /\ UNCHANGED <<pc, taskVars, fileVars, waiters, call, clock>>

-----------------------------------------------------------------------------
(* timerfd_control: timerfd_gettime, and timerfd_settime with the old value *)
(* asked for or not.  It holds the file.                                    *)

timerfd_control(t, c) ==
    /\ At(t, "user")
    /\ c.files \subseteq fds
    /\ call' = [call EXCEPT ![t] = c]
    /\ fs_get_file(c.files)
    /\ Step(t, "user", "settime")
    /\ UNCHANGED <<taskVars, fds, freed, pollVars, sub, scan, timerVars>>

(* The state of a timer armed by c. *)
Armed(c) ==
    LET wall == c.realtime /\ c.abs
        due == IF c.due = 0 \/ c.abs THEN c.due ELSE clock.mono + c.due
    IN  [due |-> due, interval |-> c.interval, ticks |-> 0, wall |-> wall,
         generation |-> IF wall THEN clock.generation ELSE 0,
         cancel_on_set |-> wall /\ c.cancel, canceled |-> FALSE, first |-> due, taken |-> 0]

TooLate(c) == ~c.abs /\ c.due > UINT64_MAX - clock.mono

Sets(c) == c.op = "settime" /\ ~TooLate(c)

(* A timer that is looked at fires, and so does one armed for the past.     *)
ControlFires(c, s) == (c.old /\ Fires(s)) \/ (Sets(c) /\ Fires(Armed(c)))

timerfd_set(t, f) ==
    LET c == call[t]
        old == IF c.old THEN timerfd_update(timer[f]) ELSE timer[f]
    IN  /\ At(t, "settime")
        /\ f \in c.files
        /\ Step(t, "settime", "put")
        /\ Section(t, f, IF Sets(c) THEN timerfd_update(Armed(c)) ELSE old,
                   ControlFires(c, timer[f]))
        /\ UNCHANGED <<taskVars, fileVars, waiters, call, sub, scan, clock>>

(* timerfd_poll_timers, the tick of the system service task. *)
timerfd_poll_timers(t, c) ==
    /\ At(t, "user")
    /\ c \notin freed
    /\ Fires(timer[c])
    /\ Update(t, c)
    /\ UNCHANGED <<pc, taskVars, fileVars, waiters, call, sub, scan, clock>>

-----------------------------------------------------------------------------
(* Time passes. *)
tick ==
    /\ \E c \in Timerfds : timer[c].due # 0
    /\ clock.mono < UINT64_MAX /\ clock.wall < UINT64_MAX
    /\ clock' = [clock EXCEPT !.mono = @ + 1, !.wall = @ + 1]

(* settimeofday. *)
time_set_wall_offset(t, w) ==
    /\ At(t, "user")
    /\ clock.generation < MaxSets
    /\ clock' = [clock EXCEPT !.wall = w, !.generation = @ + 1]
    /\ UNCHANGED <<pc, taskVars, fileVars, pollVars, call, sub, scan, timer>>

TimerInit ==
    /\ timer = [c \in Timerfds |-> Disarmed]
    /\ clock = [mono |-> 1, wall |-> 1, generation |-> 0]

-----------------------------------------------------------------------------
(* The deadlines of s, up to the end of time. *)
Deadlines(s) ==
    {d \in 1..UINT64_MAX : \/ d = s.first
                           \/ /\ s.interval > 0 /\ s.first > 0 /\ d > s.first
                              /\ (d - s.first) % s.interval = 0}

(* timerfd_update counts the deadlines that have passed since somebody last *)
(* looked and computes the next one, for readers, pollers, settime and the  *)
(* service task alike.  Every deadline is counted once, none is skipped and *)
(* a periodic timer does not drift: what was read and what is pending are   *)
(* the deadlines before the next one.                                       *)
TicksExact ==
    \A c \in Timerfds :
        LET s == timer[c]
        IN  /\ s.due # 0 => s.due \in Deadlines(s)
            /\ s.taken + s.ticks =
                 Cardinality({d \in Deadlines(s) : s.due # 0 => d < s.due})
=============================================================================
