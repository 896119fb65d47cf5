------------------------------ MODULE PollWait ------------------------------
(***************************************************************************)
(* Open files and the readiness protocol on them: references               *)
(* (src/fs/impl/fs.c), poll tables (fs.c) and the wait loop shared by      *)
(* poll, epoll_wait and the anonymous descriptors (src/fs/impl/poll.c).    *)
(*                                                                         *)
(* A channel is a list of subscriptions with the spinlock of its producer. *)
(* A step is one section under a spinlock; only a notification holds one   *)
(* over several steps, since it calls into others.  The order of a list    *)
(* decides nothing but the order of the wakeups and is left open.  Tables  *)
(* are as large as the calls need, so none is ever full.                   *)
(***************************************************************************)
EXTENDS TaskWait, Sequences

CONSTANTS Eventfds,  \* files that are eventfds
          Timerfds,  \* files that are timerfds
          Epolls,    \* files that are epoll sets
          NoTask     \* a free lock

Sources == Eventfds \cup Timerfds
Objects == Sources \cup Epolls

(* An interest of an epoll set in a file; it subscribes with a callback.    *)
Interests == Epolls \X Sources

VARIABLES fds,      \* the files that have a descriptor
          f_count,  \* references to each file
          freed,    \* the files whose release has run
          waiters,  \* the tasks and interests subscribed to each file
          lock,     \* who holds the producer lock of each file
          frames,   \* per task: the poll_notify calls on its stack
          sub,      \* per task: where it is inside a readiness check or release
          scan      \* per task: what the current check has found so far

fileVars == <<fds, f_count, freed>>
pollVars == <<waiters, lock, frames>>

Free(c) == lock[c] = NoTask

(* No notification and no inner procedure of t is under way. *)
Settled(t) == frames[t] = <<>> /\ sub[t] = "none"

At(t, l) == pc[t] = l /\ Settled(t)

-----------------------------------------------------------------------------
(* fs_get_file and fs_put_file: the last reference runs the release. *)

fs_get_file(F) == f_count' = [f \in Objects |-> IF f \in F THEN f_count[f] + 1 ELSE f_count[f]]

fs_put_file(t, f) ==
    /\ f_count' = [f_count EXCEPT ![f] = @ - 1]
    /\ IF f_count[f] = 1
       THEN /\ sub' = [sub EXCEPT ![t] = "release"]
            /\ scan' = [scan EXCEPT ![t].on = f]
       ELSE UNCHANGED <<sub, scan>>

-----------------------------------------------------------------------------
(* Subscriptions. *)

poll_subscribe(s, c) ==
    /\ Free(c)
    /\ waiters' = [waiters EXCEPT ![c] = @ \cup {s}]

poll_subscription_remove(s, c) ==
    /\ Free(c)
    /\ waiters' = [waiters EXCEPT ![c] = @ \ {s}]

(* A frame of poll_notify: the channel, whether its lock has been taken,    *)
(* and the subscriptions still to be called.                                *)
Frame(c) == [chan |-> c, entered |-> FALSE, rest |-> {}]
Entered(c) == [chan |-> c, entered |-> TRUE, rest |-> waiters[c]]

(* The stack without the calls that have finished, innermost first. *)
Unfinished(st) ==
    LET left == {i \in DOMAIN st : ~st[i].entered \/ st[i].rest # {}}
    IN  IF left = {} THEN <<>>
        ELSE SubSeq(st, CHOOSE i \in left : \A j \in left : i <= j, Len(st))

(* t goes on with the stack st and unlocks what it has finished. *)
Continue(t, st) ==
    LET on == Unfinished(st)
        locked == {on[i].chan : i \in {j \in DOMAIN on : on[j].entered}}
    IN  /\ frames' = [frames EXCEPT ![t] = on]
        /\ lock' = [c \in Objects |-> IF c \in locked THEN t
                                      ELSE IF lock[c] = t THEN NoTask ELSE lock[c]]

(* poll_notify on c, in the section in which its caller has changed c. *)
poll_notify(t, c) == Continue(t, <<Entered(c)>>)

(* A callback notifies another channel under that channel's own lock. *)
notify_enter(t) ==
    /\ frames[t] # <<>>
    /\ LET top == Head(frames[t])
       IN  /\ ~top.entered
           /\ Free(top.chan)
           /\ Continue(t, <<Entered(top.chan)>> \o Tail(frames[t]))
    /\ UNCHANGED <<pc, taskVars, fileVars, waiters, call, sub, scan>>

Notified(t, s) ==
    LET top == Head(frames[t])
    IN  <<[top EXCEPT !.rest = @ \ {s}]>> \o Tail(frames[t])

notify_task(t, s) ==
    /\ frames[t] # <<>>
    /\ s \in Head(frames[t]).rest \cap Tasks
    /\ ps_put_to_ready_queue({s})
    /\ Continue(t, Notified(t, s))
    /\ UNCHANGED <<pc, timer_queue, deadline, signals, fileVars, waiters, call, sub, scan>>

-----------------------------------------------------------------------------
(* poll_wait_loop.  A call names the files it waits for and its timeout:    *)
(* "zero" only tests, "finite" has a deadline, "none" has not.              *)

NoScan == [seen |-> {}, hit |-> 0, budget |-> 0, on |-> NoCall, item |-> NoCall]

Checks == {"check1", "check2", "check3", "checkS", "check4"}

Begin(t, c, files) ==
    /\ At(t, "user")
    /\ files \subseteq fds
    /\ pc' = [pc EXCEPT ![t] = "check1"]
    /\ call' = [call EXCEPT ![t] = c]
    /\ deadline' = [deadline EXCEPT ![t] = IF c.timeout = "finite" THEN "future" ELSE "none"]
    /\ UNCHANGED <<schedVars, signals, fds, freed, pollVars, sub, scan>>

(* Where the loop goes after a check that found n. *)
AfterCheck(t, n) ==
    LET late == call[t].timeout = "zero" \/ deadline[t] = "past"
    IN  CASE pc[t] = "check1" -> IF n # 0 \/ late THEN "done" ELSE "reg"
          [] pc[t] = "check2" -> IF n # 0 \/ late THEN "undo" ELSE "prepare"
          [] pc[t] = "checkS" -> "undo"
          [] pc[t] = "check3" -> IF n # 0 THEN "undo" ELSE "sched"
          [] OTHER -> IF n # 0 \/ t \in signals THEN "done" ELSE "check1"

(* A check of t is over.  When the one after publishing the wait succeeds,  *)
(* the task makes itself ready again.                                       *)
Checked(t, n) ==
    /\ pc' = [pc EXCEPT ![t] = AfterCheck(t, n)]
    /\ IF pc[t] = "check3" /\ n # 0
       THEN ps_put_to_ready_queue({t}) /\ ps_finish_timed_wait(t)
       ELSE UNCHANGED schedVars
    /\ UNCHANGED <<deadline, signals>>

Subscribed(t) == {c \in Objects : t \in waiters[c]}

(* poll and select look their descriptors up every time; the other calls    *)
(* hold their file.                                                         *)
ByDescriptor(t) == call[t].op \in {"poll", "select"}

(* The files to register with: poll passes over a closed descriptor. *)
Targets(t) == IF call[t].op = "poll" THEN call[t].files \cap fds ELSE call[t].files

(* ops->reg, for one file.  poll and select take a reference along, and the *)
(* poll operation of an epoll set also looks for ready interests, that of a *)
(* timerfd at the clock.                                                    *)
reg(t, c) ==
    /\ At(t, "reg")
    /\ c \in Targets(t) \ Subscribed(t)
    /\ ByDescriptor(t) => c \in fds
    /\ poll_subscribe(t, c)
    /\ fs_get_file(IF ByDescriptor(t) THEN {c} ELSE {})
    /\ IF (ByDescriptor(t) /\ c \in Epolls) \/ c \in Timerfds
       THEN /\ sub' = [sub EXCEPT ![t] = IF c \in Epolls THEN "ready" ELSE "update"]
            /\ scan' = [scan EXCEPT ![t].on = c]
       ELSE UNCHANGED <<sub, scan>>
    /\ UNCHANGED <<pc, taskVars, fds, freed, lock, frames, call>>

(* select gives up with EBADF at a closed descriptor, and the loop leaves   *)
(* without ops->dereg.                                                      *)
reg_fails(t) ==
    /\ At(t, "reg")
    /\ call[t].op = "select"
    /\ call[t].files \ (fds \cup Subscribed(t)) # {}
    /\ Step(t, "reg", "done")
    /\ UNCHANGED <<taskVars, fileVars, pollVars, call, sub, scan>>

registered(t) ==
    /\ At(t, "reg")
    /\ Targets(t) \subseteq Subscribed(t)
    /\ Step(t, "reg", "check2")
    /\ UNCHANGED <<taskVars, fileVars, pollVars, call, sub, scan>>

(* Mutant: a wait with a deadline is published without its timer. *)
PrepareUntimed(t) ==
    /\ At(t, "prepare")
    /\ \/ /\ ps_prepare_interruptible_wait(t, FALSE)
          /\ Step(t, "prepare", "check3")
       \/ /\ t \in signals
          /\ Step(t, "prepare", "checkS")
          /\ UNCHANGED schedVars
    /\ UNCHANGED <<deadline, signals, fileVars, pollVars, call, sub, scan>>

(* Mutant: the loop sleeps without a check after publishing the wait. *)
PrepareUnchecked(t) ==
    /\ At(t, "prepare")
    /\ \/ /\ ps_prepare_interruptible_wait(t, deadline[t] # "none")
          /\ Step(t, "prepare", "sched")
       \/ /\ t \in signals
          /\ Step(t, "prepare", "checkS")
          /\ UNCHANGED schedVars
    /\ UNCHANGED <<deadline, signals, fileVars, pollVars, call, sub, scan>>

(* Publish the wait, or find a signal and check once more for readiness.    *)
prepare(t) ==
    /\ At(t, "prepare")
    /\ \/ /\ ps_prepare_interruptible_wait(t, deadline[t] # "none")
          /\ Step(t, "prepare", "check3")
       \/ /\ t \in signals
          /\ Step(t, "prepare", "checkS")
          /\ UNCHANGED schedVars
    /\ UNCHANGED <<deadline, signals, fileVars, pollVars, call, sub, scan>>

(* task_sched returns once t is ready. *)
resume(t) ==
    /\ At(t, "sched")
    /\ status[t] = "running"
    /\ Step(t, "sched", "dereg")
    /\ ps_finish_timed_wait(t)
    /\ UNCHANGED <<status, wait_interruptible, deadline, signals, fileVars,
                   pollVars, call, sub, scan>>

(* poll_table_cleanup: the reference goes with the subscription. *)
dereg(t, c) ==
    /\ At(t, "dereg") \/ At(t, "undo")
    /\ c \in Subscribed(t)
    /\ poll_subscription_remove(t, c)
    /\ IF ByDescriptor(t) THEN fs_put_file(t, c)
       ELSE UNCHANGED <<f_count, sub, scan>>
    /\ UNCHANGED <<pc, taskVars, fds, freed, lock, frames, call>>

deregistered(t) ==
    /\ Subscribed(t) = {}
    /\ \/ At(t, "dereg") /\ Step(t, "dereg", "check4")
       \/ At(t, "undo") /\ Step(t, "undo", "done")
    /\ UNCHANGED <<taskVars, fileVars, pollVars, call, sub, scan>>

PollInit ==
    /\ fds = Objects /\ freed = {}
    /\ f_count = [f \in Objects |-> 1]
    /\ waiters = [f \in Objects |-> {}]
    /\ lock = [f \in Objects |-> NoTask]
    /\ frames = [t \in Tasks |-> <<>>]
    /\ sub = [t \in Tasks |-> "none"]
    /\ scan = [t \in Tasks |-> NoScan]

PollLoop(t) ==
    \/ notify_enter(t) \/ \E s \in Tasks : notify_task(t, s)
    \/ reg_fails(t) \/ registered(t) \/ prepare(t) \/ resume(t) \/ deregistered(t)
    \/ \E c \in Objects : reg(t, c) \/ dereg(t, c)
=============================================================================
