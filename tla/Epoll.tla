------------------------------- MODULE Epoll -------------------------------
(***************************************************************************)
(* epoll (src/fs/impl/epoll.c).  epoll_mutex orders everything but the     *)
(* producers, which only enter the sections of ready_lock and wait_lock:   *)
(* a step is one such section.  item->queued and ready_count always change *)
(* with the list and are read off it.  epoll_mutex is a sleeping lock      *)
(* (module Mutex): a task that has to wait for it after it has published   *)
(* another wait is running again once it gets it.                          *)
(***************************************************************************)
EXTENDS Eventfd, KList

VARIABLES items,       \* the interests that exist
          events,      \* per interest: "level", "edge" or "oneshot"
          armed,       \* the interests whose callback queues them
          ready,       \* per epoll set: its ready list
          epoll_mutex, \* who holds it
          owed         \* interests with a report due since they were last read

epollVars == <<items, events, armed, ready, epoll_mutex, owed>>
readyVars == <<items, events, armed, epoll_mutex>>

Inside(t, l) == sub[t] = l /\ frames[t] = <<>>
Goto(t, l) == sub' = [sub EXCEPT ![t] = l]

Put(e, q) == ready' = [ready EXCEPT ![e] = q]
Queued(i) == i \in Elems(ready[i[1]])

(* vm_lock_enter; the task sleeps while the mutex is taken. *)
TakeMutex(t) == epoll_mutex = NoTask /\ epoll_mutex' = t
LeaveMutex == epoll_mutex' = NoTask

(* t is about to take the mutex. *)
Entering(t) ==
    \/ Checking(t) /\ call[t].op = "epoll_wait"
    \/ Checking(t) /\ ByDescriptor(t) /\ (call[t].files \ scan[t].seen) \cap Epolls \cap fds # {}

contend(t) ==
    /\ Entering(t)
    /\ epoll_mutex # NoTask
    /\ status[t] = "waiting"
    /\ ps_put_to_ready_queue({t})
    /\ UNCHANGED <<pc, timer_queue, deadline, signals, fileVars, pollVars, call,
                   sub, scan, sourceVars, epollVars>>

-----------------------------------------------------------------------------
(* epoll_queue: the section under ready_lock, after which epoll_wake        *)
(* notifies the set.                                                        *)

Enqueue(i) == Put(i[1], IF i \notin armed \/ Queued(i) THEN ready[i[1]]
                        ELSE list_insert_tail(ready[i[1]], i))

Wake(i) == IF i \in armed THEN <<Frame(i[1])>> ELSE <<>>

epoll_queue(t, i, stack) ==
    /\ Enqueue(i)
    /\ Continue(t, Wake(i) \o stack)

notify_item(t, i) ==
    /\ frames[t] # <<>>
    /\ i \in Head(frames[t]).rest \cap Interests
    /\ epoll_queue(t, i, Notified(t, i))
    /\ UNCHANGED <<pc, taskVars, fileVars, waiters, call, sub, scan, sourceVars,
                   readyVars, owed>>

-----------------------------------------------------------------------------
(* epoll_deliver, the check of epoll_wait, and epoll_ready, the check of a  *)
(* poll on the set: both pop candidates and look at their files again.      *)

Delivering(t) == call[t].op = "epoll_wait"

epoll_enter(t, e) ==
    /\ \/ /\ Checking(t)
          /\ e \in Epolls \cap (call[t].files \ scan[t].seen)
          /\ Delivering(t) \/ (ByDescriptor(t) /\ e \in fds)
       \/ Inside(t, "ready") /\ e = scan[t].on
    /\ TakeMutex(t)
    /\ scan' = [scan EXCEPT ![t].on = e, ![t].budget = Len(ready[e]), ![t].item = NoCall,
                            ![t].hit = IF Delivering(t) THEN 0 ELSE @]
    /\ Goto(t, "pop")
    /\ fs_get_file(IF Checking(t) /\ ~Delivering(t) THEN {e} ELSE {})
    /\ UNCHANGED <<pc, taskVars, fds, freed, pollVars, call, sourceVars, items,
                   events, armed, ready, owed>>

Exhausted(t) ==
    \/ scan[t].budget = 0
    \/ ready[scan[t].on] = <<>>
    \/ Delivering(t) /\ scan[t].hit = call[t].max

epoll_pop(t) ==
    /\ Inside(t, "pop")
    /\ ~Exhausted(t)
    /\ LET e == scan[t].on
           i == Head(ready[e])
       IN  /\ Put(e, Tail(ready[e]))
           /\ scan' = [scan EXCEPT ![t].item = i, ![t].budget = @ - 1]
           /\ Goto(t, IF i \in armed THEN "mask" ELSE "pop")
    /\ UNCHANGED <<pc, taskVars, fileVars, pollVars, call, sourceVars, readyVars, owed>>

(* Mutant: a level interest that was reported goes back to the head. *)
RequeueFirst(i) == IF Queued(i) THEN ready[i[1]] ELSE <<i>> \o ready[i[1]]

Requeue(i) == IF Queued(i) THEN ready[i[1]] ELSE list_insert_tail(ready[i[1]], i)

(* Mutant: an edge interest is taken off the list after its report. *)
ReportUnqueues(i) ==
    CASE events[i] = "level" -> "requeue" [] events[i] = "oneshot" -> "disarm"
      [] events[i] = "edge" -> "unqueue"

(* What follows the report of i: a level interest goes back to the tail, a  *)
(* one-shot one is disarmed, an edge waits for the next notification.       *)
AfterReport(i) ==
    CASE events[i] = "level" -> "requeue" [] events[i] = "oneshot" -> "disarm"
      [] events[i] = "edge" -> "pop"

(* Whether epoll_mask has events to report. *)
epoll_mask(i) == Found(i[2])

(* The interests in f, and those for which a look at f has news. *)
InterestsIn(f) == {i \in items : i[2] = f}
NewsOf(f) == IF f \in Timerfds /\ Fires(timer[f]) THEN InterestsIn(f) ELSE {}

(* The look at the candidate, and the copy to the caller, which may fault. *)
epoll_look(t) ==
    LET i == scan[t].item
        on == epoll_mask(i)
    IN  /\ Inside(t, "mask")
        /\ Look(t, i[2])
        /\ Goto(t, IF ~on THEN "pop" ELSE IF ~Delivering(t) THEN "front"
                   ELSE IF call[t].fault THEN "fault" ELSE AfterReport(i))
        /\ scan' = IF on /\ Delivering(t) /\ ~call[t].fault
                   THEN [scan EXCEPT ![t].hit = @ + 1] ELSE scan
        /\ owed' = (owed \cup NewsOf(i[2]))
                     \ IF ~on \/ (Delivering(t) /\ ~call[t].fault /\ events[i] # "level")
                       THEN {i} ELSE {}
        /\ UNCHANGED <<pc, taskVars, fileVars, waiters, call, counter, clock, readyVars, ready>>

(* The section after the look. *)
epoll_after(t) ==
    LET i == scan[t].item
        e == i[1]
    IN  /\ \/ /\ Inside(t, "front")
              /\ Put(e, IF Queued(i) THEN ready[e] ELSE <<i>> \o ready[e])
              /\ scan' = [scan EXCEPT ![t].hit = @ + 1, ![t].budget = 0]
              /\ Goto(t, "pop") /\ UNCHANGED <<armed, lock, frames>>
           \/ /\ Inside(t, "requeue")
              /\ Put(e, Requeue(i))
              /\ Goto(t, "pop") /\ UNCHANGED <<armed, lock, frames, scan>>
           \/ /\ Inside(t, "disarm")
              /\ armed' = armed \ {i}
              /\ Goto(t, "unqueue") /\ UNCHANGED <<ready, lock, frames, scan>>
           \/ /\ Inside(t, "unqueue")
              /\ Put(e, list_remove_entry(ready[e], i))
              /\ Goto(t, "pop") /\ UNCHANGED <<armed, lock, frames, scan>>
           \/ /\ Inside(t, "fault")
              /\ epoll_queue(t, i, <<>>)
              /\ scan' = [scan EXCEPT ![t].hit = IF @ = 0 THEN -1 ELSE @, ![t].budget = 0]
              /\ Goto(t, "pop") /\ UNCHANGED armed
        /\ UNCHANGED <<pc, taskVars, fileVars, waiters, call, sourceVars, items, events,
                       epoll_mutex, owed>>

(* vm_lock_leave and the return to the loop.  A poll drops the reference    *)
(* it took for the query.                                                   *)
epoll_leave(t) ==
    LET e == scan[t].on
    IN  /\ Inside(t, "pop")
        /\ Exhausted(t)
        /\ LeaveMutex
        /\ IF Delivering(t)
           THEN /\ Checked(t, scan[t].hit)
                /\ scan' = [scan EXCEPT ![t] = NoScan]
                /\ Goto(t, "none")
           ELSE /\ scan' = [scan EXCEPT ![t].seen = IF pc[t] = "reg" THEN {} ELSE @ \cup {e},
                                        ![t].hit = IF pc[t] = "reg" THEN 0 ELSE @,
                                        ![t].budget = 0, ![t].item = NoCall]
                /\ Goto(t, IF pc[t] = "reg" THEN "none" ELSE "put")
                /\ UNCHANGED <<pc, taskVars>>
        /\ UNCHANGED <<fileVars, pollVars, call, sourceVars, items, events, armed, ready, owed>>

query_put(t) ==
    LET e == scan[t].on
    IN  /\ Inside(t, "put")
        /\ f_count' = [f_count EXCEPT ![e] = @ - 1]
        /\ Goto(t, IF f_count[e] = 1 THEN "release" ELSE "none")
        /\ scan' = IF f_count[e] = 1 THEN scan ELSE [scan EXCEPT ![t].on = NoCall]
        /\ UNCHANGED <<pc, taskVars, fds, freed, pollVars, call, sourceVars, epollVars>>

-----------------------------------------------------------------------------
(* sys_epoll_ctl holds both files. *)

epoll_ctl(t, c) ==
    /\ At(t, "user")
    /\ {c.item[1], c.item[2]} \subseteq fds
    /\ call' = [call EXCEPT ![t] = c]
    /\ fs_get_file({c.item[1], c.item[2]})
    /\ Step(t, "user", "ctl")
    /\ UNCHANGED <<taskVars, fds, freed, pollVars, sub, scan, sourceVars, epollVars>>

(* EEXIST and ENOENT change nothing. *)
ctl_enter(t) ==
    LET i == call[t].item
        op == call[t].op
    IN  /\ At(t, "ctl")
        /\ TakeMutex(t)
        /\ scan' = [scan EXCEPT ![t].item = i]
        /\ \/ /\ op = "add" /\ i \notin items
              /\ items' = items \cup {i}
              /\ events' = [events EXCEPT ![i] = call[t].events]
              /\ armed' = armed \cup {i}
              /\ owed' = owed \cup {i}
              /\ Goto(t, "subscribe")
           \/ /\ op = "mod" /\ i \in items
              /\ events' = [events EXCEPT ![i] = call[t].events]
              /\ armed' = armed \cup {i}
              /\ owed' = owed \cup {i}
              /\ Goto(t, "recheck") /\ UNCHANGED items
           \/ /\ op = "del" /\ i \in items
              /\ armed' = armed \ {i}
              /\ Goto(t, "unsubscribe") /\ UNCHANGED <<items, events, owed>>
           \/ /\ op = "add" <=> i \in items
              /\ Goto(t, "leave") /\ UNCHANGED <<items, events, armed, owed>>
        /\ UNCHANGED <<pc, taskVars, fileVars, pollVars, call, sourceVars, ready>>

ctl_subscribe(t) ==
    LET i == scan[t].item
    IN  /\ Inside(t, "subscribe")
        /\ poll_subscribe(i, i[2])
        /\ Goto(t, IF i[2] \in Timerfds THEN "update" ELSE "recheck")
        /\ scan' = [scan EXCEPT ![t].on = i[2]]
        /\ UNCHANGED <<pc, taskVars, fileVars, lock, frames, call, sourceVars, epollVars>>

(* A file that is ready already gets no notification: look at it now. *)
ctl_recheck(t) ==
    LET i == scan[t].item
    IN  /\ Inside(t, "recheck")
        /\ Look(t, i[2])
        /\ Goto(t, IF epoll_mask(i) THEN "queue" ELSE "leave")
        /\ owed' = (owed \cup NewsOf(i[2])) \ IF epoll_mask(i) THEN {} ELSE {i}
        /\ UNCHANGED <<pc, taskVars, fileVars, waiters, call, scan, counter, clock,
                       readyVars, ready>>

ctl_queue(t) ==
    /\ Inside(t, "queue")
    /\ epoll_queue(t, scan[t].item, <<>>)
    /\ Goto(t, "leave")
    /\ UNCHANGED <<pc, taskVars, fileVars, waiters, call, scan, sourceVars, readyVars, owed>>

ctl_leave(t) ==
    /\ Inside(t, "leave")
    /\ LeaveMutex
    /\ Goto(t, "none")
    /\ scan' = [scan EXCEPT ![t] = NoScan]
    /\ Step(t, "ctl", "ctl_put")
    /\ UNCHANGED <<taskVars, fileVars, pollVars, call, sourceVars, items, events, armed, ready, owed>>

ctl_put(t) ==
    /\ \/ /\ At(t, "ctl_put")
          /\ fs_put_file(t, call[t].item[2])
          /\ Step(t, "ctl_put", "ctl_return")
          /\ UNCHANGED <<deadline, signals, call>>
       \/ /\ At(t, "ctl_return")
          /\ fs_put_file(t, call[t].item[1])
          /\ ReturnToUser(t)
    /\ UNCHANGED <<schedVars, fds, freed, pollVars, sourceVars, epollVars>>

-----------------------------------------------------------------------------
(* epoll_remove, for EPOLL_CTL_DEL and for the interests of a file or set   *)
(* whose last reference is gone (epoll_release_file, epoll_release).        *)

unsubscribe(t) ==
    LET i == scan[t].item
    IN  /\ Inside(t, "unsubscribe")
        /\ poll_subscription_remove(i, i[2])
        /\ Goto(t, "dequeue")
        /\ UNCHANGED <<pc, taskVars, fileVars, lock, frames, call, scan, sourceVars, epollVars>>

(* epoll_unqueue and free. *)
Discard(t, queue) ==
    LET i == scan[t].item
    IN  /\ Inside(t, "dequeue")
        /\ Put(i[1], queue)
        /\ items' = items \ {i}
        /\ owed' = owed \ {i}
        /\ events' = [events EXCEPT ![i] = "level"]
        /\ Goto(t, IF pc[t] = "ctl" THEN "leave" ELSE "removing")
        /\ UNCHANGED <<pc, taskVars, fileVars, pollVars, call, scan, sourceVars, armed,
                       epoll_mutex>>

(* Mutant: a removed interest stays on the ready list. *)
DiscardQueued(t) == Discard(t, ready[scan[t].item[1]])

discard(t) ==
    LET i == scan[t].item IN Discard(t, list_remove_entry(ready[i[1]], i))

Links(f) == {i \in items : f \in {i[1], i[2]}}

release(t) ==
    /\ Inside(t, "release")
    /\ scan[t].on \in Epolls \/ Links(scan[t].on) # {}
    /\ TakeMutex(t)
    /\ Goto(t, "removing")
    /\ UNCHANGED <<pc, taskVars, fileVars, pollVars, call, scan, sourceVars, items,
                   events, armed, ready, owed>>

remove_next(t, i) ==
    /\ Inside(t, "removing")
    /\ i \in Links(scan[t].on)
    /\ armed' = armed \ {i}
    /\ scan' = [scan EXCEPT ![t].item = i]
    /\ Goto(t, "unsubscribe")
    /\ UNCHANGED <<pc, taskVars, fileVars, pollVars, call, sourceVars, items, events,
                   ready, epoll_mutex, owed>>

(* The rest of fs_put_file: the file is freed. *)
released(t) ==
    LET f == scan[t].on
    IN  /\ Links(f) = {}
        /\ \/ Inside(t, "removing") /\ LeaveMutex
           \/ Inside(t, "release") /\ f \in Sources /\ UNCHANGED epoll_mutex
        /\ f \in Timerfds => Free(f)
        /\ freed' = freed \cup {f}
        /\ scan' = [scan EXCEPT ![t].on = NoCall, ![t].item = NoCall]
        /\ Goto(t, "none")
        /\ UNCHANGED <<pc, taskVars, fds, f_count, pollVars, call, sourceVars, items,
                       events, armed, ready, owed>>
=============================================================================
