----------------------------- MODULE Readiness -----------------------------
(***************************************************************************)
(* Readiness of eventfds and timerfds: tasks that read, write, poll and    *)
(* epoll_wait, arm timers, change interests, and close and open files      *)
(* under one another.  All tasks are threads of one process and share its  *)
(* descriptors.                                                            *)
(***************************************************************************)
EXTENDS Epoll

readinessVars == <<fileVars, pollVars, sub, scan, sourceVars, epollVars>>

ReadinessInit ==
    /\ PollInit /\ TimerInit
    /\ counter = [f \in Eventfds |-> 0]
    /\ items = {} /\ armed = {} /\ owed = {}
    /\ events = [i \in Interests |-> "level"]
    /\ ready = [e \in Epolls |-> <<>>]
    /\ epoll_mutex = NoTask

Control == {"add", "mod", "del"}
Waits == {"read", "write", "poll", "select", "epoll_wait"}

(* A successful transfer is news for the interests in the file, and so is a *)
(* timer that fires.                                                        *)
Announce(I) == owed' = owed \cup I /\ UNCHANGED <<readyVars, ready>>
News(t) == IF Possible(t) THEN InterestsIn(File(t)) ELSE {}

ReadinessCall(t, c) ==
    \/ c.op \in Control /\ epoll_ctl(t, c)
    \/ c.op = "close" /\ fs_close(t, c.file) /\ UNCHANGED epollVars
    \/ c.op = "create" /\ create(t, c.file) /\ UNCHANGED epollVars
    \/ c.op \in {"settime", "gettime"} /\ timerfd_control(t, c) /\ UNCHANGED <<counter, epollVars>>
    \/ c.op = "clock_settime" /\ time_set_wall_offset(t, c.wall) /\ UNCHANGED <<counter, epollVars>>
    \/ c.op \in Waits /\ system_call(t, c) /\ UNCHANGED epollVars

ReadinessStep(t) ==
    \/ PollLoop(t) /\ UNCHANGED <<sourceVars, epollVars>>
    \/ (eventfd_transfer(t) \/ timerfd_read(t)) /\ Announce(News(t))
    \/ reg_update(t) /\ Announce(NewsOf(scan[t].on)) /\ UNCHANGED counter
    \/ \E c \in Timerfds :
          \/ timerfd_set(t, c) /\ UNCHANGED counter
             /\ Announce(IF ControlFires(call[t], timer[c]) THEN InterestsIn(c) ELSE {})
          \/ poll_ctx_look(t, c) /\ Announce(NewsOf(c))
    \/ \E c \in Objects : poll_ctx_check(t, c) /\ UNCHANGED epollVars
    \/ (poll_checked(t) \/ system_return(t) \/ close_put(t)) /\ UNCHANGED epollVars
    \/ contend(t) \/ \E e \in Epolls : epoll_enter(t, e)
    \/ epoll_pop(t) \/ epoll_look(t) \/ epoll_after(t) \/ epoll_leave(t) \/ query_put(t)
    \/ ctl_enter(t) \/ ctl_subscribe(t) \/ ctl_recheck(t) \/ ctl_queue(t) \/ ctl_leave(t)
    \/ ctl_put(t)
    \/ unsubscribe(t) \/ discard(t) \/ release(t) \/ released(t)
    \/ \E i \in Interests : notify_item(t, i) \/ remove_next(t, i)

(* The system service task is woken by the timer interrupt every TICK_MS.   *)
system_service(t) ==
    \E c \in Timerfds : timerfd_poll_timers(t, c) /\ Announce(NewsOf(c)) /\ UNCHANGED counter

-----------------------------------------------------------------------------
Asleep(t) == pc[t] = "sched" /\ status[t] = "waiting"

(* t holds a poll_notify on c that has still to reach s. *)
OnItsWay(s, c) ==
    \E t \in Tasks : \E k \in DOMAIN frames[t] :
        /\ frames[t][k].chan = c
        /\ frames[t][k].entered => s \in frames[t][k].rest

(* What a sleeper waits for on c. *)
HasNews(t, c) ==
    IF c \in Epolls THEN \E i \in Elems(ready[c]) : i \in armed /\ Readable(i[2])
    ELSE IF call[t].op = "write" THEN Fits(t) ELSE Readable(c)

(* poll_wait_loop checks, subscribes, checks, publishes the wait and checks *)
(* again; a producer changes the file and notifies in between.  A task does *)
(* not sleep beside news on a file it is subscribed to, unless a            *)
(* notification is on its way to it.                                        *)
NoLostWakeup ==
    \A t \in Tasks : Asleep(t) =>
        \A c \in Subscribed(t) : HasNews(t, c) => OnItsWay(t, c)

(* i is on the ready list, or a task under epoll_mutex or a notification    *)
(* is about to put it there.                                                *)
Tracked(i) ==
    \/ Queued(i)
    \/ OnItsWay(i, i[2])
    \/ \E t \in Tasks : /\ scan[t].item = i
                        /\ sub[t] \in {"mask", "front", "requeue", "fault",
                                       "subscribe", "update", "recheck", "queue"}

(* The list of candidates is the only thing epoll_wait looks at, and it is  *)
(* emptied while producers go on.  An armed interest whose file is ready    *)
(* and that owes a report - always, when it is level triggered - is never   *)
(* forgotten.                                                               *)
InterestTracked ==
    \A i \in items \cap armed \cap owed : Readable(i[2]) => Tracked(i)

(* epoll interests hold no reference on their files, and subscriptions none *)
(* on the interest or the table they lie in.  Nothing is reachable once it  *)
(* is freed: no list of a live file, no notification and no check leads to  *)
(* a freed file, a removed interest or a finished call.                     *)
NoUseAfterFree ==
    /\ \A f \in freed : waiters[f] = {} /\ Links(f) = {} /\ f \notin fds
    /\ \A f \in Objects : waiters[f] \cap Interests \subseteq items
    /\ \A e \in Epolls : Elems(ready[e]) \subseteq items
    /\ \A t \in Tasks : /\ call[t] = NoCall => Subscribed(t) = {}
                        /\ sub[t] \in {"mask", "front", "requeue", "disarm", "unqueue", "fault"}
                             => scan[t].item \in items
                        /\ \A k \in DOMAIN frames[t] : frames[t][k].chan \notin freed

Reportable(f) ==
    IF f \in Sources THEN Readable(f) \/ Found(f)
    ELSE \E i \in items \cap armed \cap owed : i[1] = f /\ Readable(i[2])

(* The table of a poll or select is temporary storage, and its              *)
(* subscriptions lie in the lists of the producers: none is left when the   *)
(* call has returned (poll_table_cleanup).                                  *)
SubscriptionsTemporary == \A t \in Tasks : call[t] = NoCall => Subscribed(t) = {}

(* The call of t has something to report, or does not wait at all.  A task  *)
(* asleep in poll does not follow a descriptor that was closed and opened   *)
(* again before it slept.                                                   *)
ReadinessReturns(t) ==
    \/ call[t].op \notin Waits
    \/ call[t].timeout # "none"
    \/ call[t].op \in {"read", "write"} /\ Possible(t)
    \/ call[t].op = "epoll_wait" /\ Reportable(File(t))
    \/ /\ ByDescriptor(t)
       /\ \E f \in call[t].files \cap fds :
              Reportable(f) /\ (pc[t] = "sched" => f \in Subscribed(t))

(* A level-triggered interest that has been reported goes to the tail.      *)
(* With room for one event per call, each ready interest of a set is        *)
(* reported again and again while calls on the set go on returning events.  *)
EveryInterestServed ==
    \A i \in Interests :
        (/\ <>[](i \in items \cap armed /\ events[i] = "level" /\ Readable(i[2]))
         /\ []<>(\E t \in Tasks : sub[t] = "requeue" /\ scan[t].item[1] = i[1]))
        => []<>(\E t \in Tasks : sub[t] = "requeue" /\ scan[t].item = i)
=============================================================================
