------------------------------ MODULE Eventfd ------------------------------
(***************************************************************************)
(* eventfd (src/fs/impl/eventfd.c): a counter whose transfers publish      *)
(* readiness under the producer lock; and poll over eventfds and timerfds  *)
(* (poll.c).  EVENTFD_MAX is a constant: the counter saturates the same    *)
(* way there.                                                              *)
(***************************************************************************)
EXTENDS Timerfd

CONSTANTS EVENTFD_MAX,  \* the largest value of a counter
          Semaphores    \* the eventfds opened with EFD_SEMAPHORE

VARIABLES counter

sourceVars == <<counter, timerVars>>

(* The file a read, a write or an epoll_wait is about. *)
File(t) == CHOOSE f \in call[t].files : TRUE

Fits(t) == call[t].val <= EVENTFD_MAX - counter[File(t)]

(* What a transfer by t leaves in the counter. *)
Transferred(t) ==
    LET c == counter[File(t)]
    IN  IF call[t].op = "write" THEN c + call[t].val
        ELSE IF File(t) \in Semaphores THEN c - 1 ELSE 0

Possible(t) ==
    IF File(t) \in Timerfds THEN Pending(timer[File(t)]) \/ Fires(timer[File(t)])
    ELSE IF call[t].op = "write" THEN Fits(t) ELSE counter[File(t)] > 0

(* The check of a blocking read or write, which makes the transfer. *)
Checking(t) == Settled(t) /\ pc[t] \in Checks

Transfer(t) ==
    /\ IF Possible(t)
       THEN /\ counter' = [counter EXCEPT ![File(t)] = Transferred(t)]
            /\ poll_notify(t, File(t))
            /\ Checked(t, 1)
       ELSE UNCHANGED <<counter, lock, frames>> /\ Checked(t, 0)
    /\ UNCHANGED <<fileVars, waiters, call, sub, scan, timerVars>>

eventfd_transfer(t) ==
    /\ Checking(t)
    /\ call[t].op \in {"read", "write"}
    /\ File(t) \in Eventfds
    /\ Free(File(t))
    /\ Transfer(t)

timerfd_read(t) ==
    /\ Checking(t)
    /\ call[t].op = "read"
    /\ File(t) \in Timerfds
    /\ timerfd_take(t, File(t))
    /\ UNCHANGED counter

-----------------------------------------------------------------------------
(* poll_ctx_check.  The files are queried one after the other. *)

Readable(f) == IF f \in Timerfds THEN Pending(timer[f]) ELSE counter[f] > 0

(* A look at f by t, which brings a timer up to date, and what it finds.    *)
Look(t, f) ==
    IF f \in Timerfds THEN Update(t, f) ELSE Free(f) /\ UNCHANGED <<timer, lock, frames>>
Found(f) == IF f \in Timerfds THEN Pending(timerfd_update(timer[f])) ELSE Readable(f)

(* t has queried c and found n. *)
Queried(t, c, n) == scan' = [scan EXCEPT ![t].seen = @ \cup {c}, ![t].hit = @ + n]

(* A descriptor that has been closed counts as ready for poll, with         *)
(* POLLNVAL; the check of select ends with EBADF.                           *)
poll_ctx_check(t, c) ==
    /\ Checking(t)
    /\ ByDescriptor(t)
    /\ c \in call[t].files \ scan[t].seen
    /\ \/ c \notin fds /\ call[t].op = "poll" /\ Queried(t, c, 1)
       \/ /\ c \notin fds /\ call[t].op = "select"
          /\ scan' = [scan EXCEPT ![t].seen = call[t].files, ![t].hit = -1]
       \/ /\ c \in fds \cap Eventfds
          /\ Free(c)
          /\ Queried(t, c, IF Readable(c) THEN 1 ELSE 0)
    /\ UNCHANGED <<pc, taskVars, fileVars, pollVars, call, sub, sourceVars>>

(* The query of a timerfd may notify, and holds the file meanwhile.         *)
poll_ctx_look(t, c) ==
    /\ Checking(t)
    /\ ByDescriptor(t)
    /\ c \in (call[t].files \ scan[t].seen) \cap fds \cap Timerfds
    /\ scan' = [scan EXCEPT ![t].seen = @ \cup {c}, ![t].hit = @ + IF Found(c) THEN 1 ELSE 0,
                            ![t].on = c]
    /\ Look(t, c)
    /\ fs_get_file({c})
    /\ sub' = [sub EXCEPT ![t] = "put"]
    /\ UNCHANGED <<pc, taskVars, fds, freed, waiters, call, counter, clock>>

poll_checked(t) ==
    /\ Checking(t)
    /\ ByDescriptor(t)
    /\ scan[t].seen = call[t].files
    /\ Checked(t, scan[t].hit)
    /\ scan' = [scan EXCEPT ![t] = NoScan]
    /\ UNCHANGED <<fileVars, pollVars, call, sub, sourceVars>>

-----------------------------------------------------------------------------
(* The calls. *)

(* fs_io_begin and eventfd_transfer_wait hold the file over a transfer,     *)
(* epoll_wait holds its set; poll and select hold no file between checks.   *)
Held(c) == IF c.op \in {"poll", "select"} THEN {} ELSE c.files

system_call(t, c) ==
    /\ Begin(t, c, c.files)
    /\ fs_get_file(Held(c))
    /\ UNCHANGED sourceVars

(* The end of a call that went through the loop. *)
system_return(t) ==
    /\ At(t, "done")
    /\ IF ByDescriptor(t) THEN UNCHANGED <<f_count, sub, scan>>
       ELSE fs_put_file(t, File(t))
    /\ ReturnToUser(t)
    /\ UNCHANGED <<schedVars, fds, freed, pollVars, sourceVars>>

(* fs_close takes the descriptor away first and then drops its reference.   *)
fs_close(t, f) ==
    /\ At(t, "user")
    /\ f \in fds
    /\ fds' = fds \ {f}
    /\ call' = [call EXCEPT ![t] = [op |-> "close", files |-> {f}]]
    /\ Step(t, "user", "put")
    /\ UNCHANGED <<taskVars, f_count, freed, pollVars, sub, scan, sourceVars>>

close_put(t) ==
    /\ At(t, "put")
    /\ fs_put_file(t, File(t))
    /\ ReturnToUser(t)
    /\ UNCHANGED <<schedVars, fds, freed, pollVars, sourceVars>>

(* sys_eventfd2, sys_timerfd_create and sys_epoll_create1, in the storage   *)
(* of a freed file.                                                         *)
create(t, f) ==
    /\ At(t, "user")
    /\ f \in freed
    /\ freed' = freed \ {f}
    /\ fds' = fds \cup {f}
    /\ f_count' = [f_count EXCEPT ![f] = 1]
    /\ counter' = IF f \in Eventfds THEN [counter EXCEPT ![f] = 0] ELSE counter
    /\ timer' = IF f \in Timerfds THEN [timer EXCEPT ![f] = Disarmed] ELSE timer
    /\ UNCHANGED <<clock, pc, taskVars, pollVars, call, sub, scan>>
=============================================================================
